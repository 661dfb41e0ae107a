----------------------------- MODULE EffectOnce -----------------------------
(***************************************************************************)
(* What the execution boundary promises of each step when no runtime       *)
(* retries a step that never reported: no attempts, leases or tokens, only *)
(* the life of an effect.  It may be begun, and withdrawn while it has not *)
(* gone out; it goes out at most once; what is recorded is what it         *)
(* produced; and the model is shown one projection of the record, for      *)
(* good.  Effects implements this.                                         *)
(***************************************************************************)
CONSTANTS Steps, Outcomes, NoOutcome

VARIABLES
  stage,   \* of each step: fresh, begun, out, recorded
  result,  \* what it produced
  shown    \* what the model is shown of it

vars == <<stage, result, shown>>

Init ==
  /\ stage = [s \in Steps |-> "fresh"]
  /\ result = [s \in Steps |-> NoOutcome]
  /\ shown = [s \in Steps |-> NoOutcome]

Move(s, from, to) == stage[s] = from /\ stage' = [stage EXCEPT ![s] = to]

Begin(s) == Move(s, "fresh", "begun") /\ UNCHANGED <<result, shown>>

Withdraw(s) == Move(s, "begun", "fresh") /\ UNCHANGED <<result, shown>>

GoOut(s, v) ==
  /\ Move(s, "begun", "out")
  /\ result' = [result EXCEPT ![s] = v]
  /\ UNCHANGED shown

Record(s) == Move(s, "out", "recorded") /\ UNCHANGED <<result, shown>>

Show(s, v) ==
  /\ stage[s] = "recorded"
  /\ shown[s] = NoOutcome
  /\ shown' = [shown EXCEPT ![s] = v]
  /\ UNCHANGED <<stage, result>>

Next ==
  \E s \in Steps :
    \/ Begin(s) \/ Withdraw(s) \/ Record(s)
    \/ \E v \in Outcomes : GoOut(s, v) \/ Show(s, v)

Spec == Init /\ [][Next]_vars
=============================================================================
