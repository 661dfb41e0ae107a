----------------------------- MODULE MCEffects -----------------------------
(***************************************************************************)
(* Effects on a round of two calls, without retry_running.                 *)
(***************************************************************************)
EXTENDS Effects, TLC

CONSTANTS a1, a2, c1, c2, v1, v2

TwoAttempts == {a1, a2}
TwoCalls == {c1, c2}
OneRound == <<c1, c2>>
TwoValues == {v1, v2}
NoCalls == {}
NoAttempts == {}

Symmetry == Permutations(Attempts) \cup Permutations(Values)

(* States that differ only in the last writer, or in how an attempt that   *)
(* is over ended and in the place of a call it neither answered nor left   *)
(* at its marker, have the same future, and no property of the run tells   *)
(* them apart.                                                             *)
Over(a) == phase[a] \in Ended \cup {"crashed"}
Shown(a, c) == c # Model /\ pc[a][c] = "answered"

Seen ==
  << entries, lease, issued, held, runs, outcome, licensed, hooks,
     [a \in Attempts |-> IF Over(a) THEN "over" ELSE phase[a]],
     [a \in Attempts |-> IF Over(a) THEN 0 ELSE token[a]],
     [a \in Attempts |-> [s \in Effect |->
        IF Over(a) /\ pc[a][s] # "marking" /\ ~ Shown(a, s) THEN "over" ELSE pc[a][s]]],
     [a \in Attempts |-> [s \in Effect |->
        IF Over(a) /\ ~ Shown(a, s) THEN NoValue ELSE got[a][s]]],
     {a \in blocked : ~ Over(a)} >>
=============================================================================
