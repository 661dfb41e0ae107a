------------------------------ MODULE Controls ------------------------------
(***************************************************************************)
(* How the policies of a control point are composed (semora/controls.py).  *)
(* A policy is its verdict at the boundary in question; each composition   *)
(* is the loop of the code, by the number of verdicts it has seen.         *)
(***************************************************************************)
EXTENDS Integers, Sequences, SequencesExt

Continue == [type |-> "continue"]
Deny(result) == [type |-> "deny", result |-> result]
Suspend(request) == [type |-> "suspend", request |-> request]

Proceed(steers) == [type |-> "proceed", steers |-> steers]
Halt(reason) == [type |-> "halt", reason |-> reason]

IsHalt(verdict) == verdict.type = "halt"

(* A screen of inputs passes on what it does not drop.                     *)
Screened(dropped) == [type |-> "screened", dropped |-> dropped]
Passed(inputs) == [type |-> "inputs", inputs |-> inputs]

Without(s, S) ==
  LET kept[n \in 0 .. Len(s)] ==
        IF n = 0 THEN <<>>
        ELSE IF s[n] \in S THEN kept[n - 1]
        ELSE Append(kept[n - 1], s[n])
  IN kept[Len(s)]

Ingress(screens, inputs) ==
  LET after[n \in 0 .. Len(screens)] ==
        IF n = 0 THEN Passed(inputs)
        ELSE IF IsHalt(after[n - 1]) THEN after[n - 1]
        ELSE IF IsHalt(screens[n]) THEN screens[n]
        ELSE Passed(Without(after[n - 1].inputs, screens[n].dropped))
  IN after[Len(screens)]

(* A denial ends the loop; the first stage that asks for a person is kept  *)
(* in case none denies.                                                    *)
Permissions(stages) ==
  LET after[n \in 0 .. Len(stages)] ==
        IF n = 0 THEN Continue
        ELSE IF after[n - 1].type = "deny" THEN after[n - 1]
        ELSE IF stages[n].type = "deny" THEN stages[n]
        ELSE IF stages[n].type = "suspend" /\ after[n - 1].type # "suspend" THEN stages[n]
        ELSE after[n - 1]
  IN after[Len(stages)]

Steering(sources) ==
  LET after[n \in 0 .. Len(sources)] ==
        IF n = 0 THEN Proceed(<<>>)
        ELSE IF IsHalt(after[n - 1]) THEN after[n - 1]
        ELSE IF IsHalt(sources[n]) THEN sources[n]
        ELSE Proceed(after[n - 1].steers \o sources[n].steers)
  IN after[Len(sources)]

FinishPolicy(gates, reason) ==
  LET after[n \in 0 .. Len(gates)] ==
        IF n = 0 THEN Halt(reason)
        ELSE IF IsHalt(gates[n]) THEN after[n - 1]
        ELSE IF IsHalt(after[n - 1]) THEN gates[n]
        ELSE Proceed(after[n - 1].steers \o gates[n].steers)
  IN after[Len(gates)]

-----------------------------------------------------------------------------
(* What the compositions promise for every list of at most n policies.     *)

OfType(stages, type) == SelectSeq(stages, LAMBDA v : v.type = type)

(* "Denial wins and allowance does not short-circuit": a denial is the     *)
(* verdict wherever it stands, the first of them its result; without one   *)
(* the first request for a person is; a call is allowed only when every    *)
(* stage allows it.  (Permissions.__call__)                                *)
DenialWins(Verdicts, n) ==
  \A stages \in BoundedSeq(Verdicts, n) :
    Permissions(stages) =
      IF OfType(stages, "deny") # <<>> THEN Head(OfType(stages, "deny"))
      ELSE IF OfType(stages, "suspend") # <<>> THEN Head(OfType(stages, "suspend"))
      ELSE Continue

(* A turn ends only when every verifier agrees, and no objection is lost:  *)
(* the steers of all of them are handed on in order.  Before a model call  *)
(* it is the other way round, one halt is enough.  (FinishPolicy.__call__, *)
(* Steering.__call__)                                                      *)
ObjectionsAccumulate(TurnVerdicts, n) ==
  \A turns \in BoundedSeq(TurnVerdicts, n) :
    LET proceeds == OfType(turns, "proceed")
        steers == FlattenSeq([m \in DOMAIN proceeds |-> proceeds[m].steers])
    IN /\ FinishPolicy(turns, "completed") =
            IF proceeds = <<>> THEN Halt("completed") ELSE Proceed(steers)
       /\ Steering(turns) =
            IF OfType(turns, "halt") # <<>> THEN Head(OfType(turns, "halt")) ELSE Proceed(steers)
=============================================================================
