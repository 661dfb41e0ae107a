------------------------------ MODULE MCLedger ------------------------------
(***************************************************************************)
(* A small instance of Ledger: two owners, two effects, one control key,   *)
(* two inputs, and transitions that mix the three kinds of write, one of   *)
(* them of each shape that can conflict.                                   *)
(***************************************************************************)
EXTENDS Ledger, TLC

CONSTANTS o1, o2, e1, e2, c1, v1, v2, i1, i2

MCOwners == {o1, o2}
MCEffectKeys == {e1, e2}
MCControlKeys == {c1}
MCValues == {v1, v2}
MCInputIds == {i1, i2}

MCTransitions ==
  { [effects |-> {[key |-> e1, value |-> v1, expected |-> "running"],
                  [key |-> e2, value |-> v2, expected |-> "absent"]},
     controls |-> c1 :> v1, inputs |-> <<i2, i1, i2>>],
    [effects |-> {[key |-> e2, value |-> v1, expected |-> "running"]},
     controls |-> c1 :> v2, inputs |-> <<i1>>],
    [effects |-> {}, controls |-> c1 :> v1, inputs |-> <<>>] }

Symmetry == Permutations(MCOwners)
=============================================================================
