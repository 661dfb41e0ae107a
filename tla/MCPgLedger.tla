----------------------------- MODULE MCPgLedger -----------------------------
(***************************************************************************)
(* PgLedger with two owners that race on one effect, one control key, two  *)
(* inputs, and a transition that can conflict and submits both.            *)
(***************************************************************************)
EXTENDS PgLedger, TLC

CONSTANTS o1, o2, e1, c1, v1, v2, i1, i2

MCOwners == {o1, o2}
MCEffectKeys == {e1}
MCControlKeys == {c1}
MCValues == {v1, v2}
MCInputIds == {i1, i2}
MCInputBatches == {{i1, i2}}

MCTransitions ==
  { [effects |-> {[key |-> e1, value |-> v1, expected |-> "running"]},
     controls |-> c1 :> v2, inputs |-> <<i1, i2>>] }

Nothing == {}

Symmetry == Permutations(MCOwners)

(* What the properties of the ledger run and the guards read.              *)
Seen == <<entries, lease, issued, inputs, inputSequence, token, inFlight, writing, numbering,
          lateWrites>>
=============================================================================
