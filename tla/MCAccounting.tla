---------------------------- MODULE MCAccounting ----------------------------
(* Accounting for TLC. *)
EXTENDS Accounting

CONSTANTS k1, k2, s1, s2, r1, r2

MCKeyIds == {k1, k2}
MCSecrets == {s1, s2}
MCKey(quota, used) ==
    [secret |-> s1, enabled |-> TRUE, expires |-> 0, quota |-> quota, used |-> used]

\* A document from before prompt_cache_reports, with a key that has one token
\* left.
MCInitial == {[keys |-> [k \in {k1} |-> MCKey(2, 1)], reports |-> "absent"]}

MCAnswers == {[status |-> "success", tokens |-> 1]}

MCRequests == {r1, r2}

Symmetry == Permutations(MCRequests)
============================================================================
