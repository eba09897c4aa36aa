--------------------------- MODULE MCRedisRuntime ---------------------------
(***************************************************************************)
(* Small instances of RedisRuntime for TLC.                                *)
(***************************************************************************)
EXTENDS RedisRuntime, TLC

CONSTANTS c1, c2

\* An account with one slot and one with two.
TwoCreds == {c1, c2}
TwoCaps == (c1 :> 1) @@ (c2 :> 2)

\* One account with two slots.
OneCred == {c1}
OneCap == c1 :> 2
=============================================================================
