---------------------------- MODULE MCSuspension ----------------------------
(***************************************************************************)
(* Suspension with three workers: one that parks, and two that answer,     *)
(* recover or run into each other.                                         *)
(***************************************************************************)
EXTENDS Suspension, TLC

CONSTANTS w1, w2, w3, c1, c2, p1, p2

ThreeWorkers == {w1, w2, w3}
TwoCalls == {c1, c2}
TwoIds == {p1, p2}

Symmetry == Permutations(Workers) \cup Permutations(Calls) \cup Permutations(PendingIds)

(* How a worker that is over ended, under which token and over which park, *)
(* and the last writer make no difference to what may follow, nor to the   *)
(* properties of the run.                                                  *)
Over(w) == phase[w] \in Ended \cup {"crashed"}

Seen ==
  << entries, lease, issued, held, want, active, at, roundOver, parks,
     [w \in Workers |-> IF Over(w) THEN "over" ELSE phase[w]],
     [w \in Workers |-> IF Over(w) THEN 0 ELSE token[w]],
     {w \in overran : ~ Over(w)} >>
=============================================================================
