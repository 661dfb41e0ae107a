--------------------------- MODULE MCEffectsRetry ---------------------------
(***************************************************************************)
(* Effects where the runtimes retry steps that never reported, on a round  *)
(* of one call that may run concurrently, with the liveness of the attempt *)
(* that owns the branch.                                                   *)
(***************************************************************************)
EXTENDS Effects

CONSTANTS a1, a2, c1, v1

TwoAttempts == {a1, a2}
OneCall == {c1}
JustOne == <<c1>>
OneValue == {v1}
=============================================================================
