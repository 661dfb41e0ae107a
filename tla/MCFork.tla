------------------------------- MODULE MCFork -------------------------------
(***************************************************************************)
(* Two attempts at a fork of a round of two calls.  A retry is on: without *)
(* one an attempt that meets an unreported step only leaves.               *)
(***************************************************************************)
EXTENDS Fork, TLC

CONSTANTS w1, w2, c1, c2, s1, s2

TwoWorkers == {w1, w2}
TwoCalls == {c1, c2}

(* No stage, one that asks a person, and one behind it that denies.        *)
SomeGates == {<<>>, <<Continue, Suspend(s1)>>, <<Suspend(s1), Deny(s1)>>}

(* The compositions against their reference definitions, for up to four    *)
(* policies.                                                               *)
AllVerdicts == {Continue, Deny(s1), Deny(s2), Suspend(s1), Suspend(s2)}
AllTurns == {Halt(s1), Halt(s2), Proceed(<<>>), Proceed(<<s1>>), Proceed(<<s2, s1>>)}

ASSUME CompositionsAgree == DenialWins(AllVerdicts, 4) /\ ObjectionsAccumulate(AllTurns, 4)

(* All but lastWriter, which neither an action nor a property here reads.  *)
Seen == <<entries, lease, issued, source, att, ran, begun, cleared>>

Symmetry == Permutations(Workers) \cup Permutations(TwoCalls)
=============================================================================
