---------------------------- MODULE LeaseLimiter ----------------------------
(***************************************************************************)
(* What the shared runtime state promises its callers, with nothing of how *)
(* Redis keeps it: every account has a set of granted leases, a lease is   *)
(* granted only while the account is below its limit, and leases may be    *)
(* withdrawn (released by their request, or expired) at any time, several  *)
(* at once.  A limit of 0 means "unlimited", as MaxInFlight does.          *)
(***************************************************************************)
EXTENDS Integers, FiniteSets

CONSTANTS Creds,         \* accounts
          Reservations,  \* lease identities
          Limit          \* [Creds -> Nat]

VARIABLE granted         \* [Creds -> SUBSET Reservations]

BelowLimit(c) == Limit[c] = 0 \/ Cardinality(granted[c]) < Limit[c]

Init == granted = [c \in Creds |-> {}]

\* A fresh lease: its identity is held for no account yet.
Grant(r, c) ==
    /\ \A d \in Creds : r \notin granted[d]
    /\ BelowLimit(c)
    /\ granted' = [granted EXCEPT ![c] = @ \cup {r}]

Withdraw(gone) == granted' = [c \in Creds |-> granted[c] \ gone]

Next ==
    \/ \E r \in Reservations, c \in Creds : Grant(r, c)
    \/ \E gone \in SUBSET Reservations : Withdraw(gone)

Spec == Init /\ [][Next]_granted
=============================================================================
