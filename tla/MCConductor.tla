---------------------------- MODULE MCConductor ----------------------------
(***************************************************************************)
(* Small instances of Conductor for TLC.                                   *)
(***************************************************************************)
EXTENDS Conductor, TLC

CONSTANTS c1, c2, m1, m2, p1, p2, q1, q2, r1, r2, s1

OneCred == {c1}
TwoCreds == {c1, c2}
CapOne == [c \in Creds |-> 1]
CapTwo == [c \in Creds |-> 2]
Prio == [c \in Creds |-> IF c = c1 THEN 2 ELSE 1]

\* Both requests in one process.
SameProc == [q \in Requests |-> p1]
SameProcIds == [p \in Procs |-> Reservations]

\* One request per process.
OwnProc == (q1 :> p1) @@ (q2 :> p2)
OwnProcIds == (p1 :> {r1}) @@ (p2 :> {r2})

SameModel == [q \in Requests |-> m1]
OwnModel == (q1 :> m1) @@ (q2 :> m2)

NoSession == [q \in Requests |-> None]
OneSession == (q1 :> s1) @@ (q2 :> None)

\* Reservation ids are interchangeable where all belong to one process.
IdSymmetry == Permutations(Reservations)
============================================================================
