----------------------------- MODULE ForkProofs -----------------------------
(***************************************************************************)
(* Forks, for any number of attempts, calls and tokens and any gates: what *)
(* was copied is not run blindly, a result in the target stands for an     *)
(* effect, and a call that is to be gated again waits for its gate.  None  *)
(* of it needs the lease: the records themselves keep attempts apart.      *)
(***************************************************************************)
EXTENDS Fork, TLAPS

(* What an attempt knows of the call in hand.                              *)
Real(w) ==
  /\ att[w].pc \in {"record", "finish"} => source[att[w].call] = L!Done("source")
  /\ att[w].pc = "ran" => ran[att[w].call] > 0

(* What it copied is on record as copied, so that it is never about to run *)
(* it; and no call is let through behind a suspension.                     *)
Replays(w) ==
  /\ \A c \in att[w].copied : entries[c] = L!Done("source")
  /\ att[w].pc \in {"cleared", "started", "ran"} => att[w].call \notin att[w].copied
  /\ att[w].pc = "allowed" => ~ att[w].asks

Starting(w, c) == att[w].pc = "started" /\ att[w].call = c

(* A call nobody cleared stays on record from the first intent: one        *)
(* attempt is about to run it at most, and none if it was copied.          *)
Kept(c) ==
  c \notin cleared =>
    /\ c \in begun => entries[c] # L!Absent
    /\ \A w \in Workers : Starting(w, c) => entries[c] # L!Absent /\ c \notin begun
    /\ \A v, w \in Workers : Starting(v, c) /\ Starting(w, c) => v = w

IInv ==
  /\ TypeOK
  /\ CopiesAreReal
  /\ \A w \in Workers : Real(w) /\ Replays(w)
  /\ \A c \in Calls : Kept(c)

-----------------------------------------------------------------------------
(* The steps, in the forms the proofs need.                                *)

(* A write at the call in hand changes its step only: from absent to       *)
(* running, from there back, or to a result.                               *)
LEMMA WriteFacts ==
  ASSUME TypeOK, NEW t, NEW c \in Calls, NEW v \in {"source", "own"},
         L!Start(t, c) \/ L!FinishEffect(t, c, v) \/ L!Forget(t, c)
  PROVE  /\ \A d \in Calls \ {c} : entries'[d] = entries[d]
         /\ entries' \in [Calls -> L!Steps]
         /\ L!Start(t, c) => entries[c] = L!Absent /\ entries'[c] = L!Running
         /\ L!FinishEffect(t, c, v) =>
              entries[c] \in {L!Running, L!Done(v)} /\ entries'[c] = L!Done(v)
         /\ L!Forget(t, c) =>
              IF entries[c].status = "done" THEN entries'[c] = entries[c]
              ELSE entries'[c] = L!Absent
         /\ UNCHANGED <<lease, issued>>
         /\ t \in Nat => lastWriter' \in Nat
<1>1. entries \in [Calls -> L!Steps] /\ lastWriter \in Nat
  BY DEF TypeOK
<1>2. L!Absent \in L!Steps /\ L!Running \in L!Steps /\ L!Done(v) \in L!Steps
  BY DEF L!Steps
<1>3. t \in Nat => lastWriter' \in Nat
  BY <1>1 DEF L!Start, L!FinishEffect, L!Forget, L!Fenced
<1>4. CASE L!Start(t, c)
  BY <1>1, <1>2, <1>3, <1>4 DEF L!Start, L!FinishEffect, L!Forget, L!Conflicts,
                               L!Absent, L!Running, L!Done
<1>5. CASE L!FinishEffect(t, c, v)
  BY <1>1, <1>2, <1>3, <1>5 DEF L!FinishEffect, L!Start, L!Forget, L!Conflicts,
                               L!Absent, L!Running, L!Done
<1>6. CASE L!Forget(t, c)
  BY <1>1, <1>2, <1>3, <1>6 DEF L!FinishEffect, L!Start, L!Forget, L!Conflicts,
                               L!Absent, L!Running, L!Done
<1> QED
  BY <1>4, <1>5, <1>6

(* The statuses of a step tell it.                                         *)
LEMMA StepForms ==
  ASSUME TypeOK, NEW c \in Calls
  PROVE  /\ entries[c] \in {L!Absent, L!Running, L!Done("source"), L!Done("own")}
         /\ L!Absent # L!Running /\ L!Done("source") # L!Done("own")
         /\ \A v \in {"source", "own"} : L!Done(v) # L!Absent /\ L!Done(v) # L!Running
         /\ entries[c].status = "done" <=> entries[c] \in {L!Done("source"), L!Done("own")}
BY DEF TypeOK, L!Steps, L!Absent, L!Running, L!Done

(* An attempt changes alone.                                               *)
LEMMA OneMoves ==
  ASSUME TypeOK, NEW w \in Workers, NEW a \in Attempt, Become(w, a)
  PROVE  /\ att' \in [Workers -> Attempt]
         /\ att'[w] = a
         /\ \A v \in Workers \ {w} : att'[v] = att[v]
BY DEF TypeOK, Become

LEMMA GoBecomes ==
  ASSUME TypeOK, NEW w \in Workers, NEW pc, Go(w, pc)
  PROVE  Become(w, [att[w] EXCEPT !.pc = pc])
BY DEF TypeOK, Go, Become

(* What an attempt is made of.                                             *)
LEMMA AttemptFacts ==
  ASSUME TypeOK, NEW w \in Workers
  PROVE  /\ att[w] \in Attempt
         /\ att[w].call \in Calls \cup {NoCall} /\ att[w].token \in Nat
         /\ att[w].left \subseteq Calls /\ att[w].copied \subseteq Calls
         /\ att[w].call = NoCall <=> att[w].pc \in {"new", "copy", "drive", "gone"}
BY DEF TypeOK, Attempt

Idle(a) == a.call = NoCall <=> a.pc \in {"new", "copy", "drive", "gone"}

(* A step that leaves the records alone, and ends nowhere near an effect.  *)
Quiet(w, a) ==
  /\ a \in Attempt /\ Idle(a) /\ Become(w, a)
  /\ UNCHANGED <<entries, source, ran, begun, cleared>>
  /\ lease' \in [owner : Workers \cup {NoOne}, token : Nat, live : BOOLEAN]
  /\ issued' \in Nat /\ lastWriter' \in Nat
  /\ a.copied \in {att[w].copied, {}}
  /\ a.pc \notin {"cleared", "started", "ran"}
  /\ a.pc \in {"record", "finish"} => source[a.call] = L!Done("source")
  /\ a.pc = "allowed" => ~ a.asks

LEMMA QuietStep ==
  ASSUME IInv, NEW w \in Workers, NEW a, Quiet(w, a)
  PROVE  IInv'
<1>1. /\ att' \in [Workers -> Attempt]
      /\ att'[w] = a
      /\ \A v \in Workers \ {w} : att'[v] = att[v]
  BY OneMoves DEF IInv, Quiet
<1>2. TypeOK'
  BY <1>1 DEF IInv, TypeOK, Idle, Quiet
<1>3. CopiesAreReal'
  BY DEF IInv, CopiesAreReal, Quiet
<1>4. ASSUME NEW v \in Workers
      PROVE  Real(v)' /\ Replays(v)'
  BY <1>1 DEF IInv, Real, Replays, Quiet
<1>5. ASSUME NEW c \in Calls
      PROVE  Kept(c)'
  <2>1. \A v \in Workers : Starting(v, c)' => Starting(v, c)
    BY <1>1 DEF Starting, Quiet
  <2> QED
    BY <2>1 DEF IInv, Kept, Quiet
<1> QED
  BY <1>2, <1>3, <1>4, <1>5 DEF IInv

Writes(t, c) ==
  \/ L!Start(t, c) \/ L!Forget(t, c)
  \/ \E v \in {"source", "own"} : L!FinishEffect(t, c, v)

(* A step that writes the record of the call in hand.                      *)
Written(w, a, c) ==
  /\ a \in Attempt /\ Idle(a) /\ Become(w, a)
  /\ Writes(att[w].token, c) /\ a.call \in {c, NoCall}
  /\ UNCHANGED <<source, ran>>
  /\ begun' \in {begun, begun \cup {c}} /\ cleared' \in {cleared, cleared \cup {c}}
  /\ entries'[c] = L!Done("own") => ran[c] > 0
  /\ entries'[c] = L!Done("source") => source[c] = L!Done("source")
  /\ a.pc \in {"record", "finish"} => source[a.call] = L!Done("source")
  /\ a.pc \notin {"allowed", "ran"}
  /\ \/ a.copied = att[w].copied
     \/ a.copied = att[w].copied \cup {c} /\ entries'[c] = L!Done("source")
  /\ a.pc \in {"cleared", "started"} => a.call \notin a.copied
  /\ Kept(c)'

LEMMA WriteStep ==
  ASSUME IInv, NEW w \in Workers, NEW a, NEW c \in Calls, Written(w, a, c)
  PROVE  IInv'
<1>0. TypeOK /\ att[w].token \in Nat
  BY AttemptFacts DEF IInv
<1>1. /\ att' \in [Workers -> Attempt]
      /\ att'[w] = a
      /\ \A u \in Workers \ {w} : att'[u] = att[u]
  BY <1>0, OneMoves DEF Written
<1>2. /\ \A d \in Calls \ {c} : entries'[d] = entries[d]
      /\ entries' \in [Calls -> L!Steps]
      /\ UNCHANGED <<lease, issued>>
      /\ lastWriter' \in Nat
  BY <1>0, WriteFacts DEF Written, Writes
<1>3. entries[c] = L!Done("source") => entries'[c] = L!Done("source")
  BY <1>0, WriteFacts, StepForms DEF Written, Writes
<1>4. TypeOK'
  BY <1>0, <1>1, <1>2 DEF TypeOK, Idle, Written
<1>5. CopiesAreReal'
  BY <1>2 DEF IInv, CopiesAreReal, Written
<1>6. ASSUME NEW u \in Workers
      PROVE  Real(u)' /\ Replays(u)'
  <2>1. att[u].copied \subseteq Calls
    BY <1>0, AttemptFacts
  <2>2. \A d \in att[u].copied : entries'[d] = L!Done("source")
    BY <1>2, <1>3, <2>1 DEF IInv, Replays
  <2>3. Real(u)'
    BY <1>1 DEF IInv, Real, Written
  <2>4. CASE u = w
    <3>1. \A d \in a.copied : entries'[d] = L!Done("source")
      BY <2>2, <2>4 DEF Written
    <3> QED
      BY <1>1, <2>3, <2>4, <3>1 DEF Replays, Written
  <2>5. CASE u # w
    BY <1>1, <2>2, <2>3, <2>5 DEF IInv, Replays
  <2> QED
    BY <2>4, <2>5
<1>7. ASSUME NEW d \in Calls \ {c}
      PROVE  Kept(d)'
  <2>1. NoCall # d
    BY ForkAssumption
  <2>2. \A u \in Workers : Starting(u, d)' => Starting(u, d)
    BY <1>1, <2>1 DEF Starting, Written
  <2> QED
    BY <1>2, <2>2 DEF IInv, Kept, Written
<1> QED
  BY <1>4, <1>5, <1>6, <1>7 DEF IInv, Written

-----------------------------------------------------------------------------
(* The invariant holds at first, and every step preserves it.              *)

LEMMA InitHolds == Init => IInv
<1> SUFFICES ASSUME Init
             PROVE  IInv
  OBVIOUS
<1>1. entries = [c \in Calls |-> L!Absent] /\ lease.owner = NoOne
  BY DEF Init, L!Init, L!Keys
<1>2. New \in Attempt
  BY DEF New, Attempt
<1>3. TypeOK
  BY <1>1, <1>2 DEF Init, L!Init, TypeOK, New, L!Steps
<1>4. CopiesAreReal
  BY <1>1 DEF CopiesAreReal, L!Absent, L!Done
<1>5. ASSUME NEW w \in Workers
      PROVE  Real(w) /\ Replays(w)
  BY DEF Init, New, Real, Replays
<1>6. ASSUME NEW c \in Calls
      PROVE  Kept(c)
  BY DEF Init, New, Kept, Starting
<1> QED
  BY <1>3, <1>4, <1>5, <1>6 DEF IInv

LEMMA NextHolds == IInv /\ [Next]_vars => IInv'
<1> SUFFICES ASSUME IInv, [Next]_vars
             PROVE  IInv'
  OBVIOUS
<1> USE DEF Idle
<1>0. TypeOK /\ NoCall \notin Calls /\ New \in Attempt
  BY ForkAssumption DEF IInv, New, Attempt
<1>1. ASSUME NEW w \in Workers, NEW pc \in {"copy", "drive"}, NEW regating \in BOOLEAN,
             Begin(w, pc, regating)
      PROVE  IInv'
  <2> DEFINE a == [New EXCEPT !.pc = pc, !.token = L!AcquireResult(w), !.left = Calls,
                              !.regating = regating]
  <2>1. L!AcquireResult(w) \in Nat /\ issued \in Nat
    BY <1>0, <1>1, ForkAssumption DEF Begin, L!Acquire, TypeOK
  <2>2. a \in Attempt /\ a.call = NoCall /\ a.pc = pc /\ a.copied = {}
    BY <2>1 DEF New, Attempt
  <2>3. /\ lease' \in [owner : Workers \cup {NoOne}, token : Nat, live : BOOLEAN]
        /\ issued' \in Nat /\ lastWriter' \in Nat /\ entries' = entries
    BY <1>0, <1>1, <2>1 DEF Begin, L!Acquire, TypeOK
  <2> HIDE DEF a
  <2>4. Quiet(w, a)
    BY <1>1, <2>2, <2>3 DEF Quiet, historyVars, Begin, a
  <2> QED
    BY <2>4, QuietStep
<1>2. ASSUME NEW w \in Workers, Leave(w) \/ Crash(w)
      PROVE  IInv'
  <2> DEFINE a == [New EXCEPT !.pc = "gone"]
  <2>1. a \in Attempt /\ a.call = NoCall /\ a.pc = "gone" /\ a.copied = {}
    BY DEF New, Attempt
  <2>2. /\ lease' \in [owner : Workers \cup {NoOne}, token : Nat, live : BOOLEAN]
        /\ issued' \in Nat /\ lastWriter' \in Nat /\ entries' = entries
    <3>1. CASE Leave(w)
      BY <1>0, <3>1 DEF Leave, L!Release, TypeOK
    <3>2. CASE Crash(w)
      BY <1>0, <3>2 DEF Crash, ledgerVars, TypeOK
    <3> QED
      BY <1>2, <3>1, <3>2
  <2>3. Become(w, a) /\ UNCHANGED <<source, historyVars>>
    BY <1>2 DEF Leave, Crash
  <2> HIDE DEF a
  <2>4. Quiet(w, a)
    BY <2>1, <2>2, <2>3 DEF Quiet, historyVars
  <2> QED
    BY <2>4, QuietStep
<1>3. ASSUME NEW w \in Workers, NEW c \in Calls, ReadSource(w, c)
      PROVE  IInv'
  <2>1. att[w] \in Attempt /\ att[w].pc = "copy"
    BY <1>0, <1>3, AttemptFacts DEF ReadSource, At
  <2>2. CASE source[c] = L!Absent
    <3> DEFINE a == [att[w] EXCEPT !.pc = "copy", !.left = @ \ {c}, !.call = NoCall]
    <3>1. a \in Attempt /\ a.call = NoCall /\ a.pc = "copy" /\ a.copied = att[w].copied
      BY <2>1 DEF Attempt
    <3> HIDE DEF a
    <3>2. Quiet(w, a)
      BY <1>0, <1>3, <2>2, <3>1 DEF Quiet, historyVars, ReadSource, Pass, ledgerVars, TypeOK, a
    <3> QED
      BY <3>2, QuietStep
  <2>3. CASE source[c] # L!Absent
    <3> DEFINE a == [att[w] EXCEPT !.call = c,
                       !.pc = IF source[c] = L!Running THEN "doubt" ELSE "record"]
    <3>1. /\ a \in Attempt /\ a.call = c /\ a.copied = att[w].copied
          /\ a.pc = IF source[c] = L!Running THEN "doubt" ELSE "record"
      BY <2>1 DEF Attempt
    <3>2. a.pc = "record" => source[c] = L!Done("source")
      BY <1>0, <2>3, <3>1 DEF TypeOK
    <3>3. Become(w, a) /\ UNCHANGED <<ledgerVars, source, historyVars>>
      BY <1>3, <2>3 DEF ReadSource
    <3> HIDE DEF a
    <3>4. Quiet(w, a)
      BY <1>0, <3>1, <3>2, <3>3 DEF Quiet, historyVars, ledgerVars, TypeOK
    <3> QED
      BY <3>4, QuietStep
  <2> QED
    BY <2>2, <2>3
<1>4. ASSUME NEW w \in Workers, CopyDoubt(w)
      PROVE  IInv'
  <2>1. PICK c \in Calls : att[w].call = c /\ att[w] \in Attempt
    BY <1>0, <1>4, AttemptFacts DEF CopyDoubt, At
  <2> DEFINE a == [att[w] EXCEPT !.pc = "copy", !.left = @ \ {c}, !.call = NoCall]
  <2>2. a \in Attempt /\ a.call = NoCall /\ a.pc = "copy" /\ a.copied = att[w].copied
    BY <2>1 DEF Attempt
  <2>3. Become(w, a) /\ L!Start(att[w].token, c) /\ begun' = begun \cup {c}
        /\ UNCHANGED <<source, ran, cleared>>
    BY <1>4, <2>1 DEF CopyDoubt, Pass
  <2> HIDE DEF a
  <2>4. entries[c] = L!Absent /\ entries'[c] = L!Running
    BY <1>0, <2>1, <2>3, WriteFacts
  <2>5. L!Running # L!Absent /\ \A v \in {"source", "own"} : L!Running # L!Done(v)
    BY DEF L!Absent, L!Running, L!Done
  <2>6. Kept(c)'
    <3>1. \A v \in Workers : Starting(v, c)' => Starting(v, c)
      BY <1>0, <2>1, <2>2, <2>3, OneMoves DEF Starting
    <3> QED
      BY <2>1, <2>3, <2>4, <2>5, <3>1 DEF IInv, Kept
  <2>7. Written(w, a, c)
    BY <2>1, <2>2, <2>3, <2>4, <2>5, <2>6 DEF Written, Writes, historyVars
  <2> QED
    BY <2>7, WriteStep
<1>5. ASSUME NEW w \in Workers, StartCopy(w)
      PROVE  IInv'
  <2>1. PICK c \in Calls : /\ att[w].call = c /\ att[w] \in Attempt /\ c # NoCall
                           /\ source[c] = L!Done("source")
    BY <1>0, <1>5, AttemptFacts DEF StartCopy, At, IInv, Real
  <2> DEFINE a == [att[w] EXCEPT !.pc = "finish"]
  <2>2. a \in Attempt /\ a.call = c /\ a.pc = "finish" /\ a.copied = att[w].copied
    BY <2>1 DEF Attempt
  <2>3. Become(w, a) /\ L!Start(att[w].token, c) /\ begun' = begun \cup {c}
        /\ UNCHANGED <<source, ran, cleared>>
    BY <1>0, <1>5, <2>1, GoBecomes DEF StartCopy
  <2> HIDE DEF a
  <2>4. entries[c] = L!Absent /\ entries'[c] = L!Running
    BY <1>0, <2>1, <2>3, WriteFacts
  <2>5. L!Running # L!Absent /\ \A v \in {"source", "own"} : L!Running # L!Done(v)
    BY DEF L!Absent, L!Running, L!Done
  <2>6. Kept(c)'
    <3>1. \A v \in Workers : Starting(v, c)' => Starting(v, c)
      BY <1>0, <2>1, <2>2, <2>3, OneMoves DEF Starting
    <3> QED
      BY <2>1, <2>3, <2>4, <2>5, <3>1 DEF IInv, Kept
  <2>7. Written(w, a, c)
    BY <2>1, <2>2, <2>3, <2>4, <2>5, <2>6 DEF Written, Writes, historyVars
  <2> QED
    BY <2>7, WriteStep
<1>6. ASSUME NEW w \in Workers, FinishCopy(w)
      PROVE  IInv'
  <2>1. PICK c \in Calls : att[w].call = c /\ att[w] \in Attempt /\ source[c] = L!Done("source")
    BY <1>0, <1>6, AttemptFacts DEF FinishCopy, At, IInv, Real
  <2> DEFINE a == [att[w] EXCEPT !.pc = "copy", !.left = @ \ {c}, !.call = NoCall,
                                !.copied = @ \cup {c}]
  <2>2. a \in Attempt /\ a.call = NoCall /\ a.pc = "copy" /\ a.copied = att[w].copied \cup {c}
    BY <2>1 DEF Attempt
  <2>3. Become(w, a) /\ L!FinishEffect(att[w].token, c, "source")
        /\ UNCHANGED <<source, historyVars>>
    BY <1>6, <2>1 DEF FinishCopy
  <2> HIDE DEF a
  <2>4. entries'[c] = L!Done("source") /\ entries[c] # L!Absent
    BY <1>0, <2>1, <2>3, WriteFacts, StepForms
  <2>5. L!Done("source") # L!Done("own") /\ L!Done("source") # L!Absent
    BY DEF L!Done, L!Absent
  <2>6. Kept(c)'
    <3>1. \A v \in Workers : Starting(v, c)' => Starting(v, c)
      BY <1>0, <2>1, <2>2, <2>3, OneMoves DEF Starting
    <3> QED
      BY <2>1, <2>3, <2>4, <2>5, <3>1 DEF IInv, Kept, historyVars
  <2>7. Written(w, a, c)
    BY <2>1, <2>2, <2>3, <2>4, <2>5, <2>6 DEF Written, Writes, historyVars
  <2> QED
    BY <2>7, WriteStep
<1>7. ASSUME NEW w \in Workers, SkipCopy(w)
      PROVE  IInv'
  <2> DEFINE a == [att[w] EXCEPT !.pc = "copy", !.left = @ \ {att[w].call}, !.call = NoCall]
  <2>1. a \in Attempt /\ a.call = NoCall /\ a.pc = "copy" /\ a.copied = att[w].copied
    BY <1>0, AttemptFacts DEF Attempt
  <2> HIDE DEF a
  <2>2. Quiet(w, a)
    BY <1>0, <1>7, <2>1 DEF Quiet, historyVars, SkipCopy, Pass, ledgerVars, TypeOK, a
  <2> QED
    BY <2>2, QuietStep
<1>8. ASSUME NEW w \in Workers, StartDriving(w)
      PROVE  IInv'
  <2> DEFINE a == [att[w] EXCEPT !.pc = "drive", !.left = Calls]
  <2>1. /\ a \in Attempt /\ a.call = NoCall /\ a.pc = "drive"
        /\ a.copied = att[w].copied
    BY <1>0, <1>8, AttemptFacts DEF Attempt, StartDriving, At
  <2> HIDE DEF a
  <2>2. Quiet(w, a)
    BY <1>0, <1>8, <2>1 DEF Quiet, historyVars, StartDriving, ledgerVars, TypeOK, a
  <2> QED
    BY <2>2, QuietStep
<1>9. ASSUME NEW w \in Workers, NEW c \in Calls, ReplayCall(w, c)
      PROVE  IInv'
  <2> DEFINE a == [att[w] EXCEPT !.pc = "drive", !.left = @ \ {c}, !.call = NoCall,
                                !.answered = @ \cup {c}]
  <2>1. a \in Attempt /\ a.call = NoCall /\ a.pc = "drive" /\ a.copied = att[w].copied
    BY <1>0, AttemptFacts DEF Attempt
  <2> HIDE DEF a
  <2>2. Quiet(w, a)
    BY <1>0, <1>9, <2>1 DEF Quiet, historyVars, ReplayCall, Answer, ledgerVars, TypeOK, a
  <2> QED
    BY <2>2, QuietStep
<1>10. ASSUME NEW w \in Workers, NEW c \in Calls, NEW stages \in Gates, Gate(w, c, stages)
       PROVE  IInv'
  <2>1. att[w] \in Attempt /\ att[w].pc = "drive" /\ att[w].call = NoCall
    BY <1>0, <1>10, AttemptFacts DEF Gate, At
  <2> DEFINE verdict == Permissions(stages).type
             a == [att[w] EXCEPT !.pc = "allowed", !.call = c]
             b == [att[w] EXCEPT !.left = @ \ {c}, !.asks = @ \/ verdict = "suspend"]
  <2>2. a \in Attempt /\ a.call = c /\ a.pc = "allowed" /\ a.copied = att[w].copied
        /\ a.asks = att[w].asks
    BY <2>1 DEF Attempt
  <2>3. b \in Attempt /\ b.call = NoCall /\ b.pc = "drive" /\ b.copied = att[w].copied
    BY <2>1 DEF Attempt
  <2>4. \/ Become(w, a) /\ ~ att[w].asks
        \/ Become(w, b)
    BY <1>10 DEF Gate
  <2>5. UNCHANGED <<entries, lease, issued, lastWriter, source, historyVars>>
    BY <1>10 DEF Gate, ledgerVars
  <2>6. a.call # NoCall
    BY <1>0, <2>2
  <2> HIDE DEF a, b
  <2>7. CASE Become(w, a) /\ ~ att[w].asks
    <3>1. Quiet(w, a)
      BY <1>0, <2>2, <2>5, <2>6, <2>7 DEF Quiet, historyVars, TypeOK
    <3> QED
      BY <3>1, QuietStep
  <2>8. CASE Become(w, b)
    <3>1. Quiet(w, b)
      BY <1>0, <2>3, <2>5, <2>8 DEF Quiet, historyVars, TypeOK
    <3> QED
      BY <3>1, QuietStep
  <2> QED
    BY <2>4, <2>7, <2>8
<1>11. ASSUME NEW w \in Workers, ReplayAllowed(w)
       PROVE  IInv'
  <2> DEFINE a == [att[w] EXCEPT !.pc = "drive", !.left = @ \ {att[w].call}, !.call = NoCall,
                                 !.answered = @ \cup {att[w].call}]
  <2>1. a \in Attempt /\ a.call = NoCall /\ a.pc = "drive" /\ a.copied = att[w].copied
    BY <1>0, <1>11, AttemptFacts DEF Attempt, ReplayAllowed, At
  <2> HIDE DEF a
  <2>2. Quiet(w, a)
    BY <1>0, <1>11, <2>1 DEF Quiet, historyVars, ReplayAllowed, Answer, ledgerVars, TypeOK, a
  <2> QED
    BY <2>2, QuietStep
<1>12. ASSUME NEW w \in Workers, ClearStep(w)
       PROVE  IInv'
  <2>1. PICK c \in Calls : att[w].call = c /\ att[w] \in Attempt /\ c # NoCall
    BY <1>0, <1>12, AttemptFacts DEF ClearStep, At
  <2> DEFINE a == [att[w] EXCEPT !.pc = "cleared"]
  <2>2. a \in Attempt /\ a.call = c /\ a.pc = "cleared" /\ a.copied = att[w].copied
    BY <2>1 DEF Attempt
  <2>3. /\ Become(w, a) /\ L!Forget(att[w].token, c) /\ cleared' = cleared \cup {c}
        /\ entries[c] = L!Running
        /\ UNCHANGED <<source, ran, begun>>
    BY <1>0, <1>12, <2>1, GoBecomes DEF ClearStep
  <2> HIDE DEF a
  <2>4. entries[c].status # "done" /\ entries[c] # L!Done("source")
    BY <1>0, <2>1, <2>3 DEF L!Running, L!Done
  <2>5. entries'[c] = L!Absent
    BY <1>0, <2>1, <2>3, <2>4, WriteFacts
  <2>6. \A v \in {"source", "own"} : L!Absent # L!Done(v)
    BY DEF L!Absent, L!Done
  <2>7. Kept(c)'
    BY <2>3 DEF Kept
  <2>8. c \notin a.copied
    BY <2>2, <2>4 DEF IInv, Replays
  <2>9. Written(w, a, c)
    BY <2>1, <2>2, <2>3, <2>5, <2>6, <2>7, <2>8 DEF Written, Writes, historyVars
  <2> QED
    BY <2>9, WriteStep
<1>13. ASSUME NEW w \in Workers, StartCall(w)
       PROVE  IInv'
  <2>1. PICK c \in Calls : att[w].call = c /\ att[w] \in Attempt /\ c # NoCall
    BY <1>0, <1>13, AttemptFacts DEF StartCall, At
  <2> DEFINE a == [att[w] EXCEPT !.pc = "started"]
  <2>2. a \in Attempt /\ a.call = c /\ a.pc = "started" /\ a.copied = att[w].copied
    BY <2>1 DEF Attempt
  <2>3. Become(w, a) /\ L!Start(att[w].token, c) /\ UNCHANGED <<source, historyVars>>
    BY <1>0, <1>13, <2>1, GoBecomes DEF StartCall
  <2> HIDE DEF a
  <2>4. entries[c] = L!Absent /\ entries'[c] = L!Running
    BY <1>0, <2>1, <2>3, WriteFacts
  <2>5. /\ L!Running # L!Absent /\ L!Absent # L!Done("source")
        /\ \A v \in {"source", "own"} : L!Running # L!Done(v)
    BY DEF L!Absent, L!Running, L!Done
  <2>6. Kept(c)'
    <3>1. \A v \in Workers \ {w} : Starting(v, c)' => Starting(v, c)
      BY <1>0, <2>2, <2>3, OneMoves DEF Starting
    <3>2. c \notin cleared => c \notin begun /\ \A v \in Workers : ~ Starting(v, c)
      BY <2>1, <2>4 DEF IInv, Kept
    <3> QED
      BY <2>1, <2>3, <2>4, <2>5, <3>1, <3>2 DEF Kept, historyVars
  <2>7. c \notin a.copied
    BY <2>2, <2>4, <2>5 DEF IInv, Replays
  <2>8. Written(w, a, c)
    BY <2>1, <2>2, <2>3, <2>4, <2>5, <2>6, <2>7 DEF Written, Writes, historyVars
  <2> QED
    BY <2>8, WriteStep
<1>14. ASSUME NEW w \in Workers, Execute(w)
       PROVE  IInv'
  <2> DEFINE a == [att[w] EXCEPT !.pc = "ran"]
  <2>1. att[w] \in Attempt /\ att[w].call \in Calls /\ att[w].pc = "started"
    BY <1>0, <1>14, AttemptFacts DEF Execute, At
  <2>2. a \in Attempt /\ a.call = att[w].call /\ a.pc = "ran" /\ a.copied = att[w].copied
    BY <2>1 DEF Attempt
  <2>3. /\ Become(w, a) /\ ran' = [ran EXCEPT ![att[w].call] = @ + 1]
        /\ UNCHANGED <<entries, lease, issued, lastWriter, source, begun, cleared>>
    BY <1>0, <1>14, GoBecomes DEF Execute, ledgerVars
  <2>4. /\ att' \in [Workers -> Attempt] /\ att'[w] = a
        /\ \A v \in Workers \ {w} : att'[v] = att[v]
    BY <1>0, <2>2, <2>3, OneMoves
  <2>5. /\ ran' \in [Calls -> Nat] /\ ran'[att[w].call] > 0
        /\ \A c \in Calls : ran[c] > 0 => ran'[c] > 0
    BY <1>0, <2>1, <2>3 DEF TypeOK
  <2> HIDE DEF a
  <2>6. TypeOK'
    BY <1>0, <2>1, <2>2, <2>3, <2>4, <2>5 DEF TypeOK
  <2>7. CopiesAreReal'
    BY <2>3, <2>5 DEF IInv, CopiesAreReal
  <2>8. ASSUME NEW v \in Workers
        PROVE  Real(v)' /\ Replays(v)'
    <3>1. att[v].pc = "ran" => att[v].call \in Calls
      BY <1>0, AttemptFacts
    <3>2. Real(v)'
      BY <2>1, <2>2, <2>3, <2>4, <2>5, <3>1 DEF IInv, Real
    <3>3. Replays(v)'
      BY <2>1, <2>2, <2>3, <2>4 DEF IInv, Replays
    <3> QED
      BY <3>2, <3>3
  <2>9. ASSUME NEW c \in Calls
        PROVE  Kept(c)'
    <3>1. \A v \in Workers : Starting(v, c)' => Starting(v, c)
      BY <2>2, <2>4 DEF Starting
    <3> QED
      BY <2>3, <3>1 DEF IInv, Kept
  <2> QED
    BY <2>6, <2>7, <2>8, <2>9 DEF IInv
<1>15. ASSUME NEW w \in Workers, WithdrawCall(w)
       PROVE  IInv'
  <2>1. PICK c \in Calls : att[w].call = c /\ att[w] \in Attempt /\ Starting(w, c)
    BY <1>0, <1>15, AttemptFacts DEF WithdrawCall, At, Starting
  <2> DEFINE a == [att[w] EXCEPT !.pc = "drive", !.left = @ \ {c}, !.call = NoCall]
  <2>2. a \in Attempt /\ a.call = NoCall /\ a.pc = "drive" /\ a.copied = att[w].copied
    BY <2>1 DEF Attempt
  <2>3. Become(w, a) /\ L!Forget(att[w].token, c) /\ UNCHANGED <<source, historyVars>>
    BY <1>15, <2>1 DEF WithdrawCall, Pass
  <2> HIDE DEF a
  <2>4. entries'[c] \in {entries[c], L!Absent}
    BY <1>0, <2>1, <2>3, WriteFacts
  <2>5. \A v \in {"source", "own"} : L!Absent # L!Done(v)
    BY DEF L!Absent, L!Done
  <2>6. Kept(c)'
    <3>1. \A v \in Workers : Starting(v, c)' => Starting(v, c) /\ v # w
      BY <1>0, <2>2, <2>3, OneMoves DEF Starting
    <3>2. c \notin cleared => c \notin begun /\ \A v \in Workers \ {w} : ~ Starting(v, c)
      BY <2>1 DEF IInv, Kept
    <3> QED
      BY <2>3, <3>1, <3>2 DEF Kept, historyVars
  <2>7. Written(w, a, c)
    BY <2>1, <2>2, <2>3, <2>4, <2>5, <2>6 DEF Written, Writes, historyVars, IInv, CopiesAreReal
  <2> QED
    BY <2>7, WriteStep
<1>16. ASSUME NEW w \in Workers, FinishCall(w)
       PROVE  IInv'
  <2>1. PICK c \in Calls : att[w].call = c /\ att[w] \in Attempt /\ ran[c] > 0
    BY <1>0, <1>16, AttemptFacts DEF FinishCall, At, IInv, Real
  <2> DEFINE a == [att[w] EXCEPT !.pc = "drive", !.left = @ \ {c}, !.call = NoCall,
                                !.answered = @ \cup {c}]
  <2>2. a \in Attempt /\ a.call = NoCall /\ a.pc = "drive" /\ a.copied = att[w].copied
    BY <2>1 DEF Attempt
  <2>3. /\ Become(w, a) /\ L!FinishEffect(att[w].token, c, "own")
        /\ UNCHANGED <<source, historyVars>>
    BY <1>16, <2>1 DEF FinishCall, Answer
  <2> HIDE DEF a
  <2>4. entries'[c] = L!Done("own") /\ entries[c] # L!Absent
    BY <1>0, <2>1, <2>3, WriteFacts, StepForms
  <2>5. L!Done("own") # L!Done("source") /\ L!Done("own") # L!Absent
    BY DEF L!Done, L!Absent
  <2>6. Kept(c)'
    <3>1. \A v \in Workers : Starting(v, c)' => Starting(v, c)
      BY <1>0, <2>2, <2>3, OneMoves DEF Starting
    <3> QED
      BY <2>1, <2>3, <2>4, <2>5, <3>1 DEF IInv, Kept, historyVars
  <2>7. Written(w, a, c)
    BY <2>1, <2>2, <2>3, <2>4, <2>5, <2>6 DEF Written, Writes, historyVars
  <2> QED
    BY <2>7, WriteStep
<1>17. ASSUME NEW c \in Calls, SourceStep(c)
       PROVE  IInv'
  <2>1. /\ source' \in [Calls -> {L!Absent, L!Running, L!Done("source")}]
        /\ \A d \in Calls : source[d] = L!Done("source") => source'[d] = L!Done("source")
    BY <1>0, <1>17 DEF SourceStep, TypeOK, L!Absent, L!Running, L!Done
  <2>2. TypeOK'
    BY <1>0, <1>17, <2>1 DEF SourceStep, TypeOK, ledgerVars, historyVars
  <2>3. CopiesAreReal'
    BY <1>17, <2>1 DEF IInv, SourceStep, CopiesAreReal, ledgerVars, historyVars
  <2>4. ASSUME NEW w \in Workers
        PROVE  Real(w)' /\ Replays(w)'
    <3>1. att[w].pc \in {"record", "finish"} => att[w].call \in Calls
      BY <1>0, AttemptFacts
    <3> QED
      BY <1>17, <2>1, <3>1
         DEF IInv, SourceStep, Real, Replays, ledgerVars, historyVars
  <2>5. ASSUME NEW d \in Calls
        PROVE  Kept(d)'
    BY <1>17 DEF IInv, SourceStep, Kept, Starting, ledgerVars, historyVars
  <2> QED
    BY <2>2, <2>3, <2>4, <2>5 DEF IInv
<1>18. CASE ExpireLease
  <2>1. /\ lease' \in [owner : Workers \cup {NoOne}, token : Nat, live : BOOLEAN]
        /\ UNCHANGED <<entries, issued, lastWriter, source, att, ran, begun, cleared>>
    BY <1>0, <1>18 DEF ExpireLease, L!Expire, TypeOK, historyVars
  <2> QED
    BY <2>1 DEF IInv, TypeOK, CopiesAreReal, Real, Replays, Kept, Starting
<1>19. CASE UNCHANGED vars
  BY <1>19 DEF vars, ledgerVars, historyVars, IInv, TypeOK, CopiesAreReal, Real, Replays,
               Kept, Starting
<1> QED
  BY <1>1, <1>2, <1>3, <1>4, <1>5, <1>6, <1>7, <1>8, <1>9, <1>10, <1>11, <1>12, <1>13,
     <1>14, <1>15, <1>16, <1>17, <1>18, <1>19
     DEF Next, CallStep, BeginFork, BeginRecover

(* What is copied, recorded or under way stays consistent.                 *)
THEOREM ForkInvariant == Spec => []IInv
BY InitHolds, NextHolds, PTL DEF Spec

-----------------------------------------------------------------------------
(* Attempts, records and histories stay well formed: a call is in hand     *)
(* exactly while its record is copied or its effect is under way.          *)
THEOREM ForkTypes == Spec => []TypeOK
<1>1. IInv => TypeOK
  BY DEF IInv
<1> QED
  BY <1>1, ForkInvariant, PTL

(* Every result in the target stands for an effect that went out there or  *)
(* that the source reported.                                               *)
THEOREM CopiesReal == Spec => []CopiesAreReal
<1>1. IInv => CopiesAreReal
  BY DEF IInv
<1> QED
  BY <1>1, ForkInvariant, PTL

(* An effect whose record was copied, or begun to be copied, goes out in   *)
(* the target only after a retry cleared its intent: an attempt that is    *)
(* about to run a call not cleared found it not begun.                     *)
THEOREM NotRepeated == Spec => InheritedIsNotRepeated
<1>1. IInv /\ [Next]_vars =>
        [\A c \in Calls : ran'[c] # ran[c] /\ c \in begun => c \in cleared]_vars
  <2> SUFFICES ASSUME IInv, [Next]_vars, NEW c \in Calls,
                      ran'[c] # ran[c], c \in begun
               PROVE  c \in cleared
    BY DEF vars, historyVars
  <2>1. PICK w \in Workers : Execute(w)
    BY DEF Next, CallStep, vars, historyVars, BeginFork, BeginRecover, Begin, Leave, Crash,
           SourceStep, ExpireLease, ReadSource, CopyDoubt, StartCopy, FinishCopy, SkipCopy,
           StartDriving, ReplayCall, Gate, ReplayAllowed, ClearStep, StartCall,
           WithdrawCall, FinishCall
  <2>2. Starting(w, c)
    BY <2>1 DEF Execute, At, Starting, IInv, TypeOK
  <2> QED
    BY <2>2 DEF IInv, Kept
<1> QED
  BY <1>1, ForkInvariant, PTL DEF Spec, InheritedIsNotRepeated

(* A call is answered from the record, or by the attempt that ran it.      *)
LEMMA Answering ==
  ASSUME TypeOK, [Next]_vars, NEW w \in Workers, NEW c \in Calls,
         c \in att'[w].answered, c \notin att[w].answered
  PROVE  \/ ReplayCall(w, c)
         \/ ReplayAllowed(w)
         \/ FinishCall(w) /\ c = att[w].call
<1>0. att \in [Workers -> Attempt]
  BY DEF TypeOK
<1>1. ASSUME NEW v \in Workers, NEW pc, NEW regating, Begin(v, pc, regating)
      PROVE  FALSE
  BY <1>0, <1>1 DEF Begin, Become, New
<1>2. ASSUME NEW v \in Workers, Leave(v) \/ Crash(v)
      PROVE  FALSE
  <2>1. att' = [att EXCEPT ![v] = [New EXCEPT !.pc = "gone"]]
    BY <1>2 DEF Leave, Crash, Become
  <2> QED
    BY <1>0, <2>1 DEF New
<1>3. ASSUME NEW v \in Workers, NEW b, Become(v, b),
             b.answered = att[v].answered \/ v # w
      PROVE  FALSE
  BY <1>0, <1>3 DEF Become
<1>4. ASSUME NEW v \in Workers, NEW pc, NEW d, Pass(v, pc, d)
      PROVE  FALSE
  <2> DEFINE b == [att[v] EXCEPT !.pc = pc, !.left = @ \ {d}, !.call = NoCall]
  <2>1. b.answered = att[v].answered
    BY <1>0 DEF Attempt
  <2> QED
    BY <1>3, <1>4, <2>1 DEF Pass
<1>5. ASSUME NEW v \in Workers, NEW pc, Go(v, pc)
      PROVE  FALSE
  <2> DEFINE b == [att[v] EXCEPT !.pc = pc]
  <2>1. b.answered = att[v].answered
    BY <1>0 DEF Attempt
  <2> QED
    BY <1>3, <1>5, <2>1, GoBecomes
<1>6. ASSUME NEW v \in Workers, NEW d, ReadSource(v, d)
      PROVE  FALSE
  <2> DEFINE b == [att[v] EXCEPT !.call = d,
                     !.pc = IF source[d] = L!Running THEN "doubt" ELSE "record"]
  <2>1. b.answered = att[v].answered
    BY <1>0 DEF Attempt
  <2> QED
    BY <1>3, <1>4, <1>6, <2>1 DEF ReadSource
<1>7. ASSUME NEW v \in Workers, FinishCopy(v) \/ StartDriving(v)
      PROVE  FALSE
  <2> DEFINE b == [att[v] EXCEPT !.pc = "copy", !.left = @ \ {att[v].call}, !.call = NoCall,
                                 !.copied = @ \cup {att[v].call}]
             d == [att[v] EXCEPT !.pc = "drive", !.left = Calls]
  <2>1. b.answered = att[v].answered /\ d.answered = att[v].answered
    BY <1>0 DEF Attempt
  <2>2. Become(v, b) \/ Become(v, d)
    BY <1>7 DEF FinishCopy, StartDriving
  <2> QED
    BY <1>3, <2>1, <2>2
<1>8. ASSUME NEW v \in Workers, NEW d, NEW stages, Gate(v, d, stages)
      PROVE  FALSE
  <2> DEFINE b == [att[v] EXCEPT !.pc = "allowed", !.call = d]
             e == [att[v] EXCEPT !.left = @ \ {d},
                                 !.asks = @ \/ Permissions(stages).type = "suspend"]
  <2>1. b.answered = att[v].answered /\ e.answered = att[v].answered
    BY <1>0 DEF Attempt
  <2>2. Become(v, b) \/ Become(v, e)
    BY <1>8 DEF Gate
  <2> QED
    BY <1>3, <2>1, <2>2
<1>9. ASSUME NEW v \in Workers, NEW d, Answer(v, d)
      PROVE  v = w /\ c = d
  <2> DEFINE b == [att[v] EXCEPT !.pc = "drive", !.left = @ \ {d}, !.call = NoCall,
                                 !.answered = @ \cup {d}]
  <2>1. Become(v, b) /\ b.answered = att[v].answered \cup {d}
    BY <1>0, <1>9 DEF Answer, Attempt
  <2> HIDE DEF b
  <2>2. v = w
    BY <1>3, <2>1
  <2> QED
    BY <1>0, <2>1, <2>2 DEF Become
<1>10. att' # att
  OBVIOUS
<1>11. (\A d \in Calls : ~ SourceStep(d)) /\ ~ ExpireLease /\ ~ UNCHANGED vars
  BY <1>10 DEF SourceStep, ExpireLease, vars
<1>12. ASSUME NEW v \in Workers, CallStep(v)
       PROVE  ReplayAllowed(v) \/ FinishCall(v)
  BY <1>4, <1>5, <1>7, <1>12
     DEF CallStep, CopyDoubt, StartCopy, SkipCopy, ClearStep, StartCall, Execute, WithdrawCall
<1>13. ASSUME NEW v \in Workers, ReplayAllowed(v) \/ FinishCall(v)
       PROVE  v = w /\ c = att[w].call
  BY <1>9, <1>13 DEF ReplayAllowed, FinishCall
<1>14. ASSUME NEW v \in Workers, NEW d, ReplayCall(v, d)
       PROVE  v = w /\ d = c
  BY <1>9, <1>14 DEF ReplayCall
<1> QED
  BY <1>1, <1>2, <1>6, <1>8, <1>11, <1>12, <1>13, <1>14 DEF Next, BeginFork, BeginRecover

(* A fork that gates again answers no call it copied but from "allowed",   *)
(* and with no call of the round suspended.                                *)
THEOREM RegateHolds == Spec => RegatedWaits
<1>1. IInv /\ [Next]_vars =>
        [\A w \in Workers, c \in Calls :
           c \in (att'[w].answered \ att[w].answered) \cap Regate(w)
             => att[w].pc = "allowed" /\ ~ att[w].asks]_vars
  <2> SUFFICES ASSUME IInv, [Next]_vars, NEW w \in Workers, NEW c \in Calls,
                      c \in att'[w].answered, c \notin att[w].answered, c \in Regate(w)
               PROVE  att[w].pc = "allowed" /\ ~ att[w].asks
    OBVIOUS
  <2>1. TypeOK /\ att[w] \in Attempt /\ c \in att[w].copied
    BY AttemptFacts DEF IInv, Regate
  <2>2. \/ ReplayCall(w, c)
        \/ ReplayAllowed(w)
        \/ FinishCall(w) /\ c = att[w].call
    BY <2>1, Answering
  <2>3. ~ ReplayCall(w, c)
    BY DEF ReplayCall
  <2>4. ~ (FinishCall(w) /\ c = att[w].call)
    BY <2>1 DEF FinishCall, At, IInv, Replays
  <2> QED
    BY <2>2, <2>3, <2>4 DEF ReplayAllowed, At, IInv, Replays
<1> QED
  BY <1>1, ForkInvariant, PTL DEF Spec, RegatedWaits
=============================================================================
