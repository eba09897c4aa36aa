----------------------------- MODULE MCAccounts -----------------------------
(* Instances of Accounts for TLC.                                          *)
EXTENDS Accounts

CONSTANTS a1, a2, poller, server

MCDuties == (poller :> {"poll"}) @@ (server :> {"request", "admin"})

\* An account as another tool exports it: all tokens, or only the refresh token.
Full(i) == [id |-> i, access |-> TRUE, refresh |-> TRUE, profile |-> TRUE,
            apiKey |-> FALSE, maxInFlight |-> 0]
Bare(i) == [Full(i) EXCEPT !.access = FALSE, !.profile = FALSE]

\* A new account; one that replaces the pool; one that would, next to an entry
\* that is rejected.
MCImports == {
    [mode |-> "append", entries |-> <<Bare(a2)>>],
    [mode |-> "replace", entries |-> <<Full(a2)>>],
    [mode |-> "replace", entries |-> <<Full(a2), [Full(a1) EXCEPT !.apiKey = TRUE]>>]}

\* The pool's only account.
MCReimport == {[mode |-> "append", entries |-> <<Bare(a1)>>]}

=============================================================================
