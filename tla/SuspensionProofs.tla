-------------------------- MODULE SuspensionProofs --------------------------
(***************************************************************************)
(* Parked rounds, for any number of workers, calls, pending ids, parks and *)
(* tokens: a worker that owns the branch works on a fresh copy of the      *)
(* park; no answer is lost; nothing begins that was not approved; and a    *)
(* completed park has settled every approved call.                         *)
(***************************************************************************)
EXTENDS Suspension, TLAPS

-----------------------------------------------------------------------------
(* Keys and parks.                                                         *)

(* The key vocabularies do not overlap.                                    *)
LEMMA KeyFacts ==
  /\ \A c \in Calls : StepKey(c) \in L!Keys /\ SuspendKey(c) \in L!Keys
  /\ ActiveSuspension \in L!Keys
  /\ \A c \in Calls : StepKey(c) # ActiveSuspension /\ SuspendKey(c) # ActiveSuspension
  /\ \A c, d \in Calls : StepKey(c) # SuspendKey(d)
  /\ \A c, d \in Calls : StepKey(c) = StepKey(d) => c = d
BY DEF L!Keys, StepKey, SuspendKey, ActiveSuspension

(* What a park is made of.                                                 *)
LEMMA ParkFacts ==
  ASSUME NEW p \in Parks
  PROVE  /\ p.state \in {"waiting", "resuming"}
         /\ p # NoPark /\ p # Completed
         /\ DOMAIN p.ids \subseteq Calls
         /\ p.ids \in [DOMAIN p.ids -> PendingIds]
         /\ p.answers \in [DOMAIN p.answers -> AnswerTypes]
         /\ DOMAIN p.answers \subseteq DOMAIN p.ids
         /\ p = [state |-> p.state, ids |-> p.ids, answers |-> p.answers]
<1>1. /\ p \in [state : {"waiting", "resuming"}, ids : Partial(Calls, PendingIds),
                answers : Partial(Calls, AnswerTypes)]
      /\ DOMAIN p.answers \subseteq DOMAIN p.ids
  BY DEF Parks
<1>2. ASSUME NEW T, NEW f \in Partial(Calls, T)
      PROVE  DOMAIN f \subseteq Calls /\ f \in [DOMAIN f -> T]
  <2>1. PICK D \in SUBSET Calls : f \in [D -> T]
    BY DEF Partial
  <2> QED
    BY <2>1
<1>3. p # NoPark /\ p # Completed
  BY <1>1 DEF NoPark, Completed
<1> QED
  BY <1>1, <1>2, <1>3

(* How to make one.                                                        *)
LEMMA ParkMade ==
  ASSUME NEW state \in {"waiting", "resuming"},
         NEW D \in SUBSET Calls, D # {}, NEW ids \in [D -> PendingIds],
         NEW E \in SUBSET D, NEW answers \in [E -> AnswerTypes]
  PROVE  [state |-> state, ids |-> ids, answers |-> answers] \in Parks
<1>1. ids \in Partial(Calls, PendingIds) /\ answers \in Partial(Calls, AnswerTypes)
  BY DEF Partial
<1> QED
  BY <1>1 DEF Parks

(* An answer adds to a park and takes nothing away.                        *)
LEMMA AnsweredFacts ==
  ASSUME NEW p \in Parks, NEW id \in PendingIds, NEW answer \in AnswerTypes
  PROVE  /\ Answered(p, id, answer) \in Parks
         /\ Answered(p, id, answer).ids = p.ids
         /\ DOMAIN p.answers \subseteq DOMAIN Answered(p, id, answer).answers
<1> DEFINE E == DOMAIN p.answers \cup {c \in DOMAIN p.ids : p.ids[c] = id}
           merged == [c \in E |-> IF p.ids[c] = id THEN answer ELSE p.answers[c]]
<1>1. Answered(p, id, answer) = [state |-> p.state, ids |-> p.ids, answers |-> merged]
  BY ParkFacts DEF Answered
<1>2. E \subseteq DOMAIN p.ids /\ merged \in [E -> AnswerTypes]
  <2>1. ASSUME NEW c \in E, p.ids[c] # id
        PROVE  p.answers[c] \in AnswerTypes
    BY <2>1, ParkFacts
  <2> QED
    BY <2>1, ParkFacts
<1>3. DOMAIN p.ids # {}
  BY DEF Parks
<1> HIDE DEF merged, E
<1>4. [state |-> p.state, ids |-> p.ids, answers |-> merged] \in Parks
  BY <1>2, <1>3, ParkFacts, ParkMade
<1>5. DOMAIN merged = E /\ DOMAIN p.answers \subseteq E
  BY DEF merged, E
<1> QED
  BY <1>1, <1>4, <1>5

(* Starting to finalize changes the state of the park only.                *)
LEMMA ResumingFacts ==
  ASSUME NEW p \in Parks
  PROVE  /\ [p EXCEPT !.state = "resuming"] \in Parks
         /\ [p EXCEPT !.state = "resuming"].state = "resuming"
         /\ [p EXCEPT !.state = "resuming"].ids = p.ids
         /\ [p EXCEPT !.state = "resuming"].answers = p.answers
<1>1. [p EXCEPT !.state = "resuming"]
        = [state |-> "resuming", ids |-> p.ids, answers |-> p.answers]
  BY ParkFacts
<1>2. DOMAIN p.ids # {}
  BY DEF Parks
<1>3. [state |-> "resuming", ids |-> p.ids, answers |-> p.answers] \in Parks
  BY <1>2, ParkFacts, ParkMade
<1> QED
  BY <1>1, <1>3

(* A new park is one without answers.                                      *)
LEMMA WaitingIsPark ==
  ASSUME NEW S \in SUBSET Calls, S # {}, NEW ids \in [S -> PendingIds]
  PROVE  Waiting(ids) \in Parks
<1>1. <<>> \in [{} -> AnswerTypes]
  OBVIOUS
<1> QED
  BY <1>1, ParkMade DEF Waiting

-----------------------------------------------------------------------------
(* The park on record.                                                     *)

ParkTyped ==
  entries[ActiveSuspension] \in {L!Absent} \cup {L!Done(p) : p \in Parks \cup {Completed}}

(* It is a park, and the value of its step.                                *)
LEMMA ActiveFacts ==
  ASSUME ParkTyped
  PROVE  /\ Active \in {NoPark} \cup Parks
         /\ Active # NoPark => entries[ActiveSuspension] = L!Done(Active)
<1>1. CASE entries[ActiveSuspension] = L!Absent
  BY <1>1 DEF Active, L!Absent
<1>2. ASSUME NEW p \in Parks, entries[ActiveSuspension] = L!Done(p)
      PROVE  Active = p
  BY <1>2, ParkFacts DEF Active, L!Done
<1>3. CASE entries[ActiveSuspension] = L!Done(Completed)
  BY <1>3 DEF Active, L!Done, Completed
<1> QED
  BY <1>1, <1>2, <1>3 DEF ParkTyped

(* After a write it is what was written.                                   *)
LEMMA ActiveAfter ==
  ASSUME NEW p \in Parks \cup {Completed}, entries'[ActiveSuspension] = L!Done(p)
  PROVE  Active' = IF p \in Parks THEN p ELSE NoPark
<1>1. CASE p \in Parks
  BY <1>1, ParkFacts DEF Active, L!Done
<1>2. CASE p = Completed
  BY <1>2, ParkFacts DEF Active, L!Done, Completed
<1> QED
  BY <1>1, <1>2

(* It changes with its step only.                                          *)
LEMMA ActiveKept ==
  ASSUME entries'[ActiveSuspension] = entries[ActiveSuspension]
  PROVE  Active' = Active
BY DEF Active

-----------------------------------------------------------------------------
(* Types.                                                                  *)

StepTyped(c) ==
  /\ entries[StepKey(c)] \in {L!Absent, L!Running, L!Done(Result)}
  /\ entries[SuspendKey(c)] \in {L!Absent, L!Done(Index)}

EntriesOK == DOMAIN entries = L!Keys /\ ParkTyped /\ \A c \in Calls : StepTyped(c)

LeaseOK ==
  /\ lease \in [owner : Workers \cup {NoOne}, token : Nat, live : BOOLEAN]
  /\ issued \in Nat /\ lastWriter \in Nat

WorkersOK ==
  /\ phase \in [Workers -> Phases]
  /\ token \in [Workers -> Nat]
  /\ held \subseteq Workers
  /\ want \in [Workers -> {<<>>} \cup (PendingIds \X AnswerTypes)]
  /\ active \in [Workers -> {NoPark} \cup Parks]
  /\ at \in [Workers -> [Calls -> Places]]

OthersOK == roundOver \in BOOLEAN /\ parks \in Nat /\ overran \subseteq Workers

(* The type invariant by parts, and that a worker which merges an answer   *)
(* has one, and one which writes the park has its copy.                    *)
Wanting ==
  \A w \in Workers :
    /\ phase[w] \in {"resume", "answering"} => want[w] # <<>>
    /\ phase[w] \in {"answering", "finalizing"} => active[w] # NoPark

TypeInv == EntriesOK /\ LeaseOK /\ WorkersOK /\ OthersOK /\ Wanting

(* The parts make up the type invariant.                                   *)
LEMMA TypeParts == TypeInv => TypeOK
BY DEF TypeInv, TypeOK, EntriesOK, LeaseOK, WorkersOK, OthersOK, StepTyped, ParkTyped

LEMMA TypeInit == Init => TypeInv
<1> SUFFICES ASSUME Init
             PROVE  TypeInv
  OBVIOUS
<1>1. EntriesOK
  BY KeyFacts DEF Init, L!Init, EntriesOK, ParkTyped, StepTyped
<1>2. LeaseOK
  BY DEF Init, L!Init, LeaseOK
<1>3. WorkersOK /\ OthersOK /\ Wanting
  BY DEF Init, NoCall, Phases, Places, WorkersOK, OthersOK, Wanting
<1> QED
  BY <1>1, <1>2, <1>3 DEF TypeInv

(* One ledger write of the attempt leaves the record well formed.          *)
LEMMA EntriesWrites ==
  ASSUME EntriesOK, NEW t,
         \/ UNCHANGED entries
         \/ \E c \in Calls : \/ L!Start(t, StepKey(c)) \/ L!Forget(t, StepKey(c))
                             \/ L!FinishEffect(t, StepKey(c), Result)
         \/ \E p \in Parks \cup {Completed} : L!WriteControl(t, ActiveSuspension, p)
         \/ \E S \in SUBSET Calls : \E ids \in [S -> PendingIds] :
              S # {} /\ L!CommitTransition(t, ParkTransition(ids))
  PROVE  EntriesOK'
<1>1. CASE UNCHANGED entries
  BY <1>1 DEF EntriesOK, ParkTyped, StepTyped
<1>2. ASSUME NEW c \in Calls, NEW v \in {L!Absent, L!Running, L!Done(Result)},
             entries' = [entries EXCEPT ![StepKey(c)] = v]
      PROVE  EntriesOK'
  BY <1>2, KeyFacts DEF EntriesOK, ParkTyped, StepTyped
<1>3. ASSUME NEW c \in Calls,
             \/ L!Start(t, StepKey(c)) \/ L!Forget(t, StepKey(c))
             \/ L!FinishEffect(t, StepKey(c), Result)
      PROVE  EntriesOK'
  <2>1. entries[StepKey(c)] \in {L!Absent, L!Running, L!Done(Result)}
    BY DEF EntriesOK, StepTyped
  <2> QED
    BY <1>2, <1>3, <2>1 DEF L!Start, L!Forget, L!FinishEffect
<1>4. ASSUME NEW p \in Parks \cup {Completed}, L!WriteControl(t, ActiveSuspension, p)
      PROVE  EntriesOK'
  BY <1>4, KeyFacts DEF L!WriteControl, EntriesOK, ParkTyped, StepTyped
<1>5. ASSUME NEW S \in SUBSET Calls, NEW ids \in [S -> PendingIds], S # {},
             L!CommitTransition(t, ParkTransition(ids))
      PROVE  EntriesOK'
  <2>1. entries' = L!Committed(ParkTransition(ids))
    BY <1>5 DEF L!CommitTransition
  <2>2. Waiting(ids) \in Parks
    BY <1>5, WaitingIsPark
  <2> QED
    BY <2>1, <2>2, KeyFacts DEF L!Committed, ParkTransition, EntriesOK, ParkTyped, StepTyped
<1> QED
  BY <1>1, <1>3, <1>4, <1>5

(* What the steps of a worker do to its locals.                            *)
LEMMA WorkersMove ==
  ASSUME WorkersOK, NEW w \in Workers,
         \/ \E how \in Ended : EndAs(w, how)
         \/ Crash(w)
         \/ \E c \in Calls, from \in Places, to \in Places : Take(w, c, from, to)
         \/ \E next \in Phases, p \in {NoPark} \cup Parks :
              GoOn(w, next) /\ Keep(w, p) /\ UNCHANGED <<token, held>>
         \/ \E S \in SUBSET Calls : Drive(w, S) /\ UNCHANGED <<token, held, want, active>>
  PROVE  WorkersOK'
<1> USE DEF WorkersOK
<1>1. NoCall \in [Calls -> Places] /\ "crashed" \in Phases /\ Ended \subseteq Phases
      /\ "driving" \in Phases
  BY DEF NoCall, Places, Phases
<1>2. ASSUME NEW how \in Ended, EndAs(w, how)
      PROVE  WorkersOK'
  BY <1>1, <1>2 DEF EndAs
<1>3. CASE Crash(w)
  BY <1>1, <1>3 DEF Crash
<1>4. ASSUME NEW c \in Calls, NEW to \in Places, NEW from \in Places, Take(w, c, from, to)
      PROVE  WorkersOK'
  BY <1>4 DEF Take
<1>5. ASSUME NEW next \in Phases, NEW p \in {NoPark} \cup Parks,
             GoOn(w, next), Keep(w, p), UNCHANGED <<token, held>>
      PROVE  WorkersOK'
  BY <1>5 DEF GoOn, Keep
<1>6. ASSUME NEW S \in SUBSET Calls, Drive(w, S), UNCHANGED <<token, held, want, active>>
      PROVE  WorkersOK'
  <2>1. [c \in Calls |-> IF c \in S THEN "todo" ELSE "none"] \in [Calls -> Places]
    BY DEF Places
  <2> QED
    BY <1>1, <1>6, <2>1 DEF Drive
<1> QED
  BY <1>2, <1>3, <1>4, <1>5, <1>6

(* A lease gives out a positive token, newer than all for a new owner.     *)
LEMMA AcquireFacts ==
  ASSUME LeaseOK, NEW w \in Workers, L!Acquire(w)
  PROVE  /\ LeaseOK'
         /\ L!AcquireResult(w) \in Nat \ {0}
         /\ issued' \in {issued, issued + 1}
         /\ lease.owner # w => L!AcquireResult(w) = issued + 1 /\ issued' = issued + 1
         /\ lease'.owner = w
<1>1. L!AcquireResult(w) \in 1 .. MaxToken /\ issued \in Nat
  BY DEF L!Acquire, LeaseOK
<1>2. lease.owner # w => L!AcquireResult(w) \in {0, issued + 1}
  BY DEF L!AcquireResult
<1> QED
  BY <1>1, <1>2, SuspensionAssumption DEF L!Acquire, LeaseOK

(* Steps with a token leave the lease alone.                               *)
LEMMA LeaseKept ==
  ASSUME LeaseOK, NEW t \in Nat, lastWriter' \in {lastWriter, t}, UNCHANGED <<lease, issued>>
  PROVE  LeaseOK'
BY DEF LeaseOK

CallWrite(w, c) ==
  \/ L!Start(token[w], StepKey(c)) \/ L!Forget(token[w], StepKey(c))
  \/ L!FinishEffect(token[w], StepKey(c), Result)

(* A step at a call takes it from one place to another, and writes nothing *)
(* but, under the lease's token, the step of the call.                     *)
LEMMA CallStepFacts ==
  ASSUME NEW w \in Workers, NEW c \in Calls, CallStep(w, c)
  PROVE  /\ \E from \in {"todo", "executing"}, to \in Places \ {"none", "todo"} :
              /\ Take(w, c, from, to)
              /\ to = "answered" => OnRecord(c) \/ L!FinishEffect(token[w], StepKey(c), Result)
         /\ UNCHANGED ledgerVars \/ CallWrite(w, c)
<1> USE DEF Places, CallWrite
<1>1. CASE DenyCall(w, c) \/ RefuseCall(w, c) \/ SuspendCall(w, c) \/ ReplayCall(w, c)
  BY <1>1 DEF DenyCall, RefuseCall, SuspendCall, ReplayCall
<1>2. CASE StartCall(w, c) \/ FinishCall(w, c) \/ WithdrawCall(w, c) \/ AskCall(w, c)
  BY <1>2 DEF StartCall, FinishCall, WithdrawCall, AskCall
<1> QED
  BY <1>1, <1>2 DEF CallStep

(* A worker that leaves or takes a call further needs no answer any more.  *)
LEMMA WantingMoves ==
  ASSUME WorkersOK, Wanting, NEW w \in Workers,
         \/ \E how \in Ended : EndAs(w, how)
         \/ Crash(w)
         \/ \E next \in Phases \ {"resume", "answering", "finalizing"} :
              UNCHANGED <<want, active>> /\ phase' = [phase EXCEPT ![w] = next]
         \/ \E p \in Parks : GoOn(w, "finalizing") /\ Keep(w, p)
         \/ UNCHANGED <<want, phase, active>>
  PROVE  Wanting'
<1>1. {"resume", "answering", "finalizing"} \cap (Ended \cup {"crashed"}) = {}
  BY DEF Ended
<1>2. NoPark \notin Parks
  BY ParkFacts
<1> QED
  BY <1>1, <1>2 DEF EndAs, Crash, GoOn, Keep, Wanting, WorkersOK

LEMMA TypeNext == TypeInv /\ [Next]_vars => TypeInv'
<1> SUFFICES ASSUME TypeInv, [Next]_vars
             PROVE  TypeInv'
  OBVIOUS
<1> USE DEF TypeInv
<1>0. /\ \A w \in Workers : token[w] \in Nat /\ active[w] \in {NoPark} \cup Parks
      /\ Active \in {NoPark} \cup Parks
      /\ UNCHANGED ledgerVars => EntriesOK' /\ LeaseOK'
  BY ActiveFacts, EntriesWrites DEF WorkersOK, EntriesOK, LeaseOK, ledgerVars
<1>1. ASSUME NEW w \in Workers, BeginRun(w) \/ BeginRecover(w)
             \/ \E id \in PendingIds, answer \in AnswerTypes : BeginResume(w, id, answer)
      PROVE  TypeInv'
  <2>1. Lease(w)
    BY <1>1 DEF BeginRun, BeginRecover, BeginResume
  <2>2. EntriesOK' /\ LeaseOK' /\ token' \in [Workers -> Nat] /\ held' \subseteq Workers
    BY <2>1, AcquireFacts, EntriesWrites DEF Lease, L!Acquire, WorkersOK
  <2>3. CASE BeginRun(w)
    <3>1. \A S \in SUBSET Calls : [c \in Calls |-> IF c \in S THEN "todo" ELSE "none"]
                                    \in [Calls -> Places]
      BY DEF Places
    <3>2. ToDrive \subseteq Calls
      BY <1>0, ParkFacts DEF ToDrive
    <3>3. WorkersOK'
      BY <2>2, <2>3, <3>1, <3>2 DEF BeginRun, Drive, WorkersOK, Phases
    <3> QED
      BY <2>2, <2>3, <3>3 DEF BeginRun, Drive, Wanting, WorkersOK, OthersOK
  <2>4. CASE BeginRecover(w)
    BY <2>2, <2>4 DEF BeginRecover, WorkersOK, OthersOK, Wanting, Phases, historyVars
  <2>5. ASSUME NEW id \in PendingIds, NEW answer \in AnswerTypes, BeginResume(w, id, answer)
        PROVE  TypeInv'
    BY <2>2, <2>5 DEF BeginResume, WorkersOK, OthersOK, Wanting, Phases, historyVars
  <2> QED
    BY <1>1, <2>3, <2>4, <2>5
<1>2. ASSUME NEW w \in Workers, Renew(w)
      PROVE  TypeInv'
  BY <1>2, AcquireFacts, EntriesWrites
     DEF Renew, L!Acquire, workerVars, historyVars, WorkersOK, OthersOK, Wanting
<1>3. ASSUME NEW w \in Workers, Close(w)
      PROVE  TypeInv'
  <2>1. LeaseOK' /\ EntriesOK'
    BY <1>3, EntriesWrites DEF Close, L!Release, LeaseOK
  <2> QED
    BY <1>3, <2>1 DEF Close, historyVars, WorkersOK, OthersOK, Wanting
<1>4. CASE ExpireLease
  <2>1. LeaseOK' /\ EntriesOK'
    BY <1>4, EntriesWrites DEF ExpireLease, L!Expire, LeaseOK
  <2> QED
    BY <1>4, <2>1 DEF ExpireLease, workerVars, historyVars, WorkersOK, OthersOK, Wanting
<1>5. ASSUME NEW w \in Workers,
             Look(w) \/ CheckPark(w) \/ Indeterminate(w) \/ Raise(w) \/ FencedOut(w) \/ Crash(w)
      PROVE  TypeInv'
  <2>1. UNCHANGED <<ledgerVars, roundOver, historyVars>>
    BY <1>5 DEF Look, CheckPark, Resolve, Indeterminate, Raise, FencedOut, Crash
  <2>2. EntriesOK' /\ LeaseOK' /\ OthersOK'
    BY <1>0, <2>1 DEF OthersOK, historyVars
  <2>3. CASE Look(w)
    <3>1. EndAs(w, "queued") \/ (/\ GoOn(w, "looked") /\ Keep(w, active[w])
                                 /\ UNCHANGED <<token, held>>)
      BY <2>3 DEF Look, GoOn, Keep, WorkersOK
    <3>2. EndAs(w, "queued") \/ (GoOn(w, "looked") /\ UNCHANGED active)
      BY <2>3 DEF Look
    <3> QED
      BY <1>0, <2>2, <3>1, <3>2, WorkersMove, WantingMoves DEF Ended, Phases, GoOn
  <2>4. CASE CheckPark(w)
    <3>1. \/ EndAs(w, "parked")
          \/ Drive(w, ToDrive) /\ UNCHANGED <<token, held, want, active>>
          \/ /\ GoOn(w, "finalizing") /\ Keep(w, Active) /\ Active \in Parks
             /\ UNCHANGED <<token, held>>
      BY <1>0, <2>4 DEF CheckPark, Resolve
    <3>2. ToDrive \subseteq Calls
      BY <1>0, ParkFacts DEF ToDrive
    <3> QED
      BY <1>0, <2>2, <3>1, <3>2, WorkersMove, WantingMoves DEF Ended, Phases, GoOn, Drive
  <2>5. CASE Indeterminate(w) \/ Raise(w) \/ FencedOut(w)
    BY <2>2, <2>5, WorkersMove, WantingMoves DEF Indeterminate, Raise, FencedOut, Ended
  <2>6. CASE Crash(w)
    BY <2>2, <2>6, WorkersMove, WantingMoves
  <2> QED
    BY <1>5, <2>3, <2>4, <2>5, <2>6
<1>6. ASSUME NEW w \in Workers, FindPark(w)
      PROVE  TypeInv'
  <2>1. EntriesOK' /\ LeaseOK' /\ OthersOK'
    BY <1>0, <1>6 DEF FindPark, OthersOK, historyVars
  <2>2. want[w] \in PendingIds \X AnswerTypes
    BY <1>6 DEF FindPark, Wanting, WorkersOK
  <2>3. CASE Asks(Active, want[w][1])
    <3>1. Answered(Active, want[w][1], want[w][2]) \in Parks
      BY <1>0, <2>2, <2>3, AnsweredFacts DEF Asks
    <3>2. WorkersOK'
      BY <1>6, <2>3, <3>1, WorkersMove DEF FindPark, Phases
    <3>3. Answered(Active, want[w][1], want[w][2]) # NoPark
      BY <3>1, ParkFacts
    <3>4. Wanting'
      BY <1>6, <2>2, <2>3, <3>3 DEF FindPark, GoOn, Keep, Wanting, WorkersOK
    <3> QED
      BY <2>1, <3>2, <3>4
  <2>4. CASE ~ Asks(Active, want[w][1])
    BY <1>6, <2>1, <2>4, WorkersMove, WantingMoves DEF FindPark, Ended
  <2> QED
    BY <2>3, <2>4
<1>7. ASSUME NEW w \in Workers, NEW p \in Parks \cup {Completed},
             L!WriteControl(token[w], ActiveSuspension, p)
      PROVE  EntriesOK' /\ LeaseOK'
  BY <1>0, <1>7, EntriesWrites, LeaseKept DEF L!WriteControl, L!Fenced
<1>8. ASSUME NEW w \in Workers, RecordAnswer(w)
      PROVE  TypeInv'
  <2>0. active[w] \in Parks
    BY <1>0, <1>8 DEF RecordAnswer, Record, Wanting
  <2>1. \/ EndAs(w, "parked")
        \/ GoOn(w, "finalizing") /\ Keep(w, active[w]) /\ UNCHANGED <<token, held>>
    BY <1>8 DEF RecordAnswer, Record, Keep, WorkersOK
  <2> QED
    BY <1>0, <1>7, <1>8, <2>0, <2>1, WorkersMove, WantingMoves
       DEF RecordAnswer, Record, OthersOK, historyVars, Ended, Phases, GoOn
<1>9. ASSUME NEW w \in Workers, StartFinalizing(w)
      PROVE  TypeInv'
  <2>0. active[w] \in Parks
    BY <1>0, <1>9 DEF StartFinalizing, Wanting
  <2>1. [active[w] EXCEPT !.state = "resuming"] \in Parks /\ DOMAIN active[w].ids \subseteq Calls
    BY <2>0, ResumingFacts, ParkFacts
  <2> QED
    BY <1>7, <1>9, <2>1, WorkersMove, WantingMoves
       DEF StartFinalizing, OthersOK, historyVars, Drive, Phases
<1>10. ASSUME NEW w \in Workers, Complete(w)
       PROVE  TypeInv'
  <2>1. EntriesOK' /\ LeaseOK'
    BY <1>0, <1>7, <1>10 DEF Complete, Finish
  <2> QED
    BY <1>10, <2>1, WorkersMove, WantingMoves DEF Complete, Finish, OthersOK, historyVars, Ended
<1>11. ASSUME NEW w \in Workers, NEW ids \in [Suspended(w) -> PendingIds], ParkRound(w, ids)
       PROVE  TypeInv'
  <2>1. Suspended(w) \subseteq Calls /\ Suspended(w) # {}
    BY <1>11 DEF Suspended, ParkRound
  <2>2. EntriesOK' /\ LeaseOK'
    BY <1>0, <1>11, <2>1, EntriesWrites, LeaseKept DEF ParkRound, L!CommitTransition, L!Fenced
  <2> QED
    BY <1>11, <2>2, WorkersMove, WantingMoves DEF ParkRound, OthersOK, Ended
<1>12. ASSUME NEW w \in Workers, NEW c \in Calls, CallStep(w, c)
       PROVE  TypeInv'
  <2>1. PICK from \in Places, to \in Places : Take(w, c, from, to)
    BY <1>12, CallStepFacts DEF Places
  <2>2. EntriesOK' /\ LeaseOK'
    <3>1. UNCHANGED ledgerVars \/ CallWrite(w, c)
      BY <1>12, CallStepFacts
    <3>2. CASE CallWrite(w, c)
      BY <1>0, <3>2, EntriesWrites, LeaseKept
         DEF CallWrite, L!Start, L!Forget, L!FinishEffect, L!Fenced
    <3> QED
      BY <1>0, <3>1, <3>2
  <2> QED
    BY <2>1, <2>2, WorkersMove, WantingMoves DEF Take, OthersOK, historyVars
<1>13. CASE UNCHANGED vars
  BY <1>0, <1>13 DEF vars, workerVars, historyVars, WorkersOK, OthersOK, Wanting
<1>14. ASSUME NEW w \in Workers, WorkerStep(w)
       PROVE  TypeInv'
  BY <1>1, <1>3, <1>5, <1>6, <1>8, <1>9, <1>10, <1>11, <1>12, <1>14 DEF WorkerStep
<1> QED
  BY <1>1, <1>2, <1>4, <1>5, <1>13, <1>14 DEF Next

(* The type invariant of the model, for every value of its constants.      *)
THEOREM SuspensionTypes == Spec => []TypeOK
<1>1. Spec => []TypeInv
  BY TypeInit, TypeNext, PTL DEF Spec
<1> QED
  BY <1>1, TypeParts, PTL

-----------------------------------------------------------------------------
(* Tokens.  No two workers hold the same token, and none is newer than the *)
(* newest issued, so at most one worker passes the fence.                  *)

Unleased == {"new", "looked", "queued"}

TokenInv ==
  /\ \A w \in Workers : token[w] <= issued /\ (phase[w] \in Unleased <=> token[w] = 0)
  /\ \A w \in Workers :
       token[w] = 0 => /\ lease.owner # w /\ w \notin held
                       /\ active[w] = NoPark /\ at[w] = NoCall
  /\ \A v, w \in Workers : token[v] = token[w] /\ token[v] # 0 => v = w

LEMMA TokenInit == Init => TokenInv
  BY SuspensionAssumption DEF Init, L!Init, TokenInv, Unleased

(* A worker that has its lease, and stays where only such workers are,     *)
(* disturbs nothing.                                                       *)
LEMMA TokenMoves ==
  ASSUME TypeInv, TokenInv, NEW w \in Workers, phase[w] \notin Unleased,
         NEW next \in Phases \ Unleased, phase' = [phase EXCEPT ![w] = next],
         \/ Keep(w, active'[w]) \/ UNCHANGED active
         \/ active' = [active EXCEPT ![w] = NoPark],
         \/ UNCHANGED at
         \/ \E f \in [Calls -> Places] : at' = [at EXCEPT ![w] = f],
         held' \subseteq held, UNCHANGED <<token, lease, issued>>
  PROVE  TokenInv'
BY DEF TypeInv, WorkersOK, TokenInv, Keep

LEMMA TokenNext == TypeInv /\ TokenInv /\ [Next]_vars => TokenInv'
<1> SUFFICES ASSUME TypeInv, TokenInv, [Next]_vars
             PROVE  TokenInv'
  OBVIOUS
<1>0. /\ issued \in Nat /\ WorkersOK /\ LeaseOK
      /\ \A w \in Workers : token[w] \in Nat
      /\ NoCall \in [Calls -> Places]
      /\ \A S : [c \in Calls |-> IF c \in S THEN "todo" ELSE "none"] \in [Calls -> Places]
      /\ Ended \subseteq Phases
      /\ Unleased \cap (Ended \cup {"crashed"}) = {"queued"}
  BY DEF TypeInv, LeaseOK, WorkersOK, NoCall, Places, Phases, Ended, Unleased
<1>1. ASSUME NEW w \in Workers, NEW how \in Ended \ {"queued"}, EndAs(w, how),
             phase[w] \notin Unleased, UNCHANGED <<lease, issued>>
      PROVE  TokenInv'
  BY <1>0, <1>1, TokenMoves DEF EndAs
<1>2. ASSUME NEW w \in Workers, Crash(w)
      PROVE  TokenInv'
  <2>1. phase[w] \notin Unleased
    BY <1>2 DEF Crash, TokenInv
  <2>2. "crashed" \in Phases \ Unleased /\ held \ {w} \subseteq held
    BY DEF Phases, Unleased
  <2> QED
    BY <1>0, <1>2, <2>1, <2>2, TokenMoves DEF Crash, ledgerVars
<1>3. ASSUME NEW w \in Workers, NEW S, Drive(w, S), phase[w] \notin Unleased,
             UNCHANGED <<token, held, active, lease, issued>>
      PROVE  TokenInv'
  BY <1>0, <1>3, TokenMoves DEF Drive, Phases, Unleased
<1>4. ASSUME NEW w \in Workers, NEW next \in Phases \ Unleased, GoOn(w, next),
             NEW p, Keep(w, p) \/ UNCHANGED active,
             phase[w] \notin Unleased, UNCHANGED <<token, held, lease, issued>>
      PROVE  TokenInv'
  <2>1. Keep(w, active'[w]) \/ UNCHANGED active
    BY <1>0, <1>4 DEF Keep, WorkersOK
  <2> QED
    BY <1>4, <2>1, TokenMoves DEF GoOn
<1>5. ASSUME NEW w \in Workers, Look(w)
      PROVE  TokenInv'
  <2>1. phase[w] = "new" /\ UNCHANGED <<token, held, lease, issued>>
    BY <1>5 DEF Look, EndAs, ledgerVars
  <2>2. /\ \E next \in {"queued", "looked"} : phase' = [phase EXCEPT ![w] = next]
        /\ active' = active \/ active' = [active EXCEPT ![w] = NoPark]
        /\ at' = at \/ at' = [at EXCEPT ![w] = NoCall]
    BY <1>5 DEF Look, EndAs, GoOn
  <2> QED
    BY <1>0, <2>1, <2>2 DEF TokenInv, WorkersOK, Unleased
<1>6. ASSUME NEW w \in Workers, phase[w] \in Unleased, Lease(w),
             NEW next \in Phases \ Unleased, phase' = [phase EXCEPT ![w] = next],
             \A v \in Workers \ {w} : at'[v] = at[v], UNCHANGED active
      PROVE  TokenInv'
  <2>1. token[w] = 0 /\ lease.owner # w
    BY <1>6 DEF TokenInv
  <2>2. /\ token' = [token EXCEPT ![w] = issued + 1] /\ held' = held \cup {w}
        /\ issued' = issued + 1 /\ lease'.owner = w
    BY <1>0, <1>6, <2>1, AcquireFacts DEF Lease
  <2> QED
    BY <1>0, <1>6, <2>1, <2>2 DEF TokenInv, WorkersOK
<1>7. ASSUME NEW w \in Workers, BeginRun(w) \/ BeginRecover(w)
             \/ \E id \in PendingIds, answer \in AnswerTypes : BeginResume(w, id, answer)
      PROVE  TokenInv'
  <2>1. phase[w] \in Unleased /\ Lease(w) /\ UNCHANGED active
    BY <1>7 DEF BeginRun, BeginRecover, BeginResume, Unleased
  <2>2. \E next \in {"driving", "resume", "recover"} : phase' = [phase EXCEPT ![w] = next]
    BY <1>7 DEF BeginRun, BeginRecover, BeginResume, Drive
  <2>3. \A v \in Workers \ {w} : at'[v] = at[v]
    BY <1>0, <1>7 DEF BeginRun, BeginRecover, BeginResume, Drive, WorkersOK
  <2>4. {"driving", "resume", "recover"} \subseteq Phases \ Unleased
    BY DEF Phases, Unleased
  <2> QED
    BY <1>6, <2>1, <2>2, <2>3, <2>4
<1>8. ASSUME NEW w \in Workers, Renew(w)
      PROVE  TokenInv'
  <2>1. token[w] # 0 /\ UNCHANGED workerVars
    BY <1>8 DEF Renew, TokenInv
  <2>2. issued' \in {issued, issued + 1} /\ lease'.owner = w
    BY <1>0, <1>8, AcquireFacts DEF Renew
  <2> QED
    BY <1>0, <2>1, <2>2 DEF TokenInv, workerVars
<1>9. ASSUME NEW w \in Workers, Close(w)
      PROVE  TokenInv'
  <2>1. /\ lease'.owner \in {lease.owner, NoOne} /\ issued' = issued /\ held' \subseteq held
        /\ UNCHANGED <<phase, token, active, at>>
    BY <1>9 DEF Close, L!Release
  <2> QED
    BY <2>1, SuspensionAssumption DEF TokenInv
<1>10. CASE ExpireLease
  <2>1. lease'.owner = lease.owner /\ issued' = issued /\ UNCHANGED workerVars
    BY <1>10 DEF ExpireLease, L!Expire
  <2> QED
    BY <2>1 DEF TokenInv, workerVars
<1>11. ASSUME NEW w \in Workers,
              FindPark(w) \/ CheckPark(w) \/ RecordAnswer(w) \/ StartFinalizing(w)
       PROVE  TokenInv'
  <2>1. /\ phase[w] \notin Unleased
        /\ {"finalizing", "answering"} \subseteq Phases \ Unleased
        /\ {"lookup", "parked"} \subseteq Ended \ {"queued"}
    BY <1>11 DEF FindPark, CheckPark, Resolve, RecordAnswer, Record, StartFinalizing, Unleased,
                 Phases, Ended
  <2>2. UNCHANGED <<lease, issued>>
    BY <1>11 DEF FindPark, CheckPark, Resolve, RecordAnswer, Record, StartFinalizing, ledgerVars,
                 L!WriteControl
  <2> QED
    BY <1>1, <1>3, <1>4, <1>11, <2>1, <2>2
       DEF FindPark, CheckPark, Resolve, RecordAnswer, Record, StartFinalizing
<1>12. ASSUME NEW w \in Workers,
              \/ Indeterminate(w) \/ Raise(w) \/ FencedOut(w) \/ Complete(w)
              \/ \E ids \in [Suspended(w) -> PendingIds] : ParkRound(w, ids)
       PROVE  TokenInv'
  <2>1. phase[w] \notin Unleased
    <3>1. \A c \in Calls : at[w][c] \in {"todo", "executing"} => phase[w] \notin Unleased
      BY <1>0 DEF TokenInv, NoCall
    <3>2. phase[w] = "driving" \/ phase[w] \in {"answering", "finalizing"} \/ w \in held
          \/ \E c \in Calls : at[w][c] \in {"todo", "executing"}
      BY <1>12 DEF Indeterminate, Raise, FencedOut, Writes, Complete, ParkRound, Driven
    <3> QED
      BY <3>1, <3>2 DEF TokenInv, Unleased
  <2>2. UNCHANGED <<lease, issued>>
    BY <1>12 DEF Indeterminate, Raise, FencedOut, Complete, Finish, ParkRound, ledgerVars,
                 L!WriteControl, L!CommitTransition
  <2>3. \E how \in Ended \ {"queued"} : EndAs(w, how)
    BY <1>12 DEF Indeterminate, Raise, FencedOut, Complete, Finish, ParkRound, Ended
  <2> QED
    BY <1>1, <2>1, <2>2, <2>3
<1>13. ASSUME NEW w \in Workers, NEW c \in Calls, CallStep(w, c)
       PROVE  TokenInv'
  <2>1. PICK from \in Places, to \in Places : Take(w, c, from, to)
    BY <1>13, CallStepFacts DEF Places
  <2>2. UNCHANGED <<lease, issued>>
    BY <1>13, CallStepFacts
       DEF CallWrite, L!Start, L!Forget, L!FinishEffect, ledgerVars
  <2>3. phase[w] = "driving" /\ UNCHANGED <<phase, token, held, active>>
    BY <2>1 DEF Take
  <2>4. \A v \in Workers \ {w} : at'[v] = at[v]
    BY <1>0, <2>1 DEF Take, WorkersOK
  <2>5. token[w] # 0
    BY <2>3 DEF TokenInv, Unleased
  <2> QED
    BY <2>2, <2>3, <2>4, <2>5 DEF TokenInv
<1>14. CASE UNCHANGED vars
  BY <1>14 DEF vars, ledgerVars, workerVars, TokenInv
<1>15. ASSUME NEW w \in Workers, WorkerStep(w)
       PROVE  TokenInv'
  BY <1>7, <1>9, <1>11, <1>12, <1>13, <1>15 DEF WorkerStep
<1> QED
  BY <1>2, <1>5, <1>7, <1>8, <1>10, <1>12, <1>14, <1>15 DEF Next

(* The worker that writes under its lease is the one with the newest       *)
(* token.                                                                  *)
LEMMA WriterIsCurrent ==
  ASSUME TypeInv, TokenInv, NEW w \in Workers, phase[w] \notin Unleased, L!Fenced(token[w])
  PROVE  /\ token[w] = issued
         /\ \A v \in Workers : token[v] = issued => v = w
<1>1. issued \in Nat /\ token[w] \in Nat /\ token[w] # 0 /\ token[w] <= issued
  BY DEF TypeInv, LeaseOK, WorkersOK, TokenInv
<1>2. ~ (token[w] # 0 /\ token[w] < issued)
  BY DEF L!Fenced, L!Fences
<1> QED
  BY <1>1, <1>2 DEF TokenInv

-----------------------------------------------------------------------------
(* Copies.  What a worker that owns the branch knows of the park and of    *)
(* the calls it takes; the properties are read off this invariant.         *)

Fresh(w) ==
  Finalizing(w) /\ token[w] = issued =>
    /\ Active # NoPark
    /\ Active.ids = active[w].ids
    /\ phase[w] = "answering" =>
         active[w] = Answered(Active, want[w][1], want[w][2])
    /\ phase[w] # "answering" => Active.answers = active[w].answers

(* A copy is kept only while it is acted on, and to finalize it is to have *)
(* every answer.                                                           *)
Decided(w) ==
  Finalizing(w) =>
    /\ phase[w] \in {"answering", "finalizing", "driving"}
    /\ phase[w] # "answering" => Undecided(active[w]) = {}

(* The park is marked while it is finalized; who drives without a copy     *)
(* drives where nothing is parked, unless it overran a park.               *)
Marked(w) ==
  token[w] = issued /\ phase[w] = "driving" =>
    IF Finalizing(w) THEN Active.state = "resuming"
    ELSE w \in overran \/ Active = NoPark

(* Only a driving worker has calls, a finalizer those of its copy, and an  *)
(* answered one has its result on record.                                  *)
Taken(w) ==
  \A c \in Calls :
    /\ at[w][c] # "none" => phase[w] = "driving"
    /\ phase[w] = "driving" /\ Finalizing(w) =>
         (at[w][c] # "none" <=> c \in DOMAIN active[w].ids)
    /\ at[w][c] = "answered" => OnRecord(c)

Safe(w) == Fresh(w) /\ Decided(w) /\ Marked(w) /\ Taken(w)

SafeInv == \A w \in Workers : Safe(w)

LEMMA SafeInit == Init => SafeInv
BY DEF Init, NoCall, SafeInv, Safe, Fresh, Decided, Marked, Taken, Finalizing

(* A worker stays safe while another one steps.                            *)
LEMMA SafeKept ==
  ASSUME NEW v \in Workers, Safe(v),
         phase'[v] = phase[v], want'[v] = want[v], active'[v] = active[v], at'[v] = at[v],
         v \in overran => v \in overran',
         token'[v] = issued' => token[v] = issued /\ Active' = Active,
         \A c \in Calls : OnRecord(c) => OnRecord(c)'
  PROVE  Safe(v)'
<1>1. Fresh(v)'
  BY DEF Safe, Fresh, Finalizing
<1>2. Decided(v)'
  BY DEF Safe, Decided, Finalizing
<1>3. Marked(v)'
  BY DEF Safe, Marked, Finalizing
<1>4. Taken(v)'
  BY DEF Safe, Taken, Finalizing
<1> QED
  BY <1>1, <1>2, <1>3, <1>4 DEF Safe

(* A worker that has left, or has no copy and no calls yet, is safe.       *)
LEMMA SafeIdle ==
  ASSUME NEW w \in Workers, phase'[w] # "driving", active'[w] = NoPark, at'[w] = NoCall
  PROVE  Safe(w)'
BY DEF Safe, Fresh, Decided, Marked, Taken, Finalizing, NoCall

(* A park is written with its index entries, and no step.                  *)
LEMMA ParkWrites ==
  ASSUME TypeInv, NEW w \in Workers, NEW ids \in [Suspended(w) -> PendingIds],
         ParkRound(w, ids)
  PROVE  /\ Waiting(ids) \in Parks
         /\ entries'[ActiveSuspension] = L!Done(Waiting(ids))
         /\ \A c \in Calls : entries'[StepKey(c)] = entries[StepKey(c)]
<1>1. Suspended(w) \subseteq Calls /\ Suspended(w) # {} /\ DOMAIN ids = Suspended(w)
  BY DEF Suspended, ParkRound
<1>2. entries' = L!Committed(ParkTransition(ids))
  BY DEF ParkRound, L!CommitTransition
<1> QED
  BY <1>1, <1>2, WaitingIsPark, KeyFacts DEF L!Committed, ParkTransition

(* Results that are on record stay there.                                  *)
LEMMA RecordsStay ==
  ASSUME TypeInv, [Next]_vars, NEW c \in Calls, OnRecord(c)
  PROVE  OnRecord(c)'
<1> USE DEF TypeInv, EntriesOK, OnRecord
<1>1. ASSUME entries' = entries
      PROVE  OnRecord(c)'
  BY <1>1
<1>2. ASSUME NEW w \in Workers, NEW d \in Calls, CallStep(w, d)
      PROVE  OnRecord(c)'
  <2>1. UNCHANGED ledgerVars \/ CallWrite(w, d)
    BY <1>2, CallStepFacts
  <2> QED
    BY <2>1, KeyFacts
       DEF ledgerVars, CallWrite, L!Start, L!Forget, L!FinishEffect, L!Absent, L!Done
<1>3. ASSUME NEW w \in Workers, NEW p, L!WriteControl(token[w], ActiveSuspension, p)
      PROVE  OnRecord(c)'
  BY <1>3, KeyFacts DEF L!WriteControl
<1>4. ASSUME NEW w \in Workers, NEW ids \in [Suspended(w) -> PendingIds], ParkRound(w, ids)
      PROVE  OnRecord(c)'
  BY <1>4, ParkWrites
<1>5. ASSUME NEW w \in Workers, RecordAnswer(w) \/ StartFinalizing(w) \/ Complete(w)
      PROVE  OnRecord(c)'
  BY <1>1, <1>3, <1>5 DEF RecordAnswer, Record, StartFinalizing, Complete, Finish, ledgerVars
<1>6. ASSUME NEW w \in Workers, WorkerStep(w)
      PROVE  OnRecord(c)'
  <2>1. CASE \/ BeginRun(w) \/ FindPark(w) \/ CheckPark(w) \/ Indeterminate(w) \/ FencedOut(w)
             \/ Close(w)
    BY <1>1, <2>1 DEF BeginRun, Lease, L!Acquire, FindPark, CheckPark, Resolve, Indeterminate,
                      FencedOut, Close, L!Release, ledgerVars
  <2> QED
    BY <1>2, <1>4, <1>5, <1>6, <2>1 DEF WorkerStep
<1>7. ASSUME NEW w \in Workers,
             \/ Look(w) \/ BeginRecover(w) \/ Renew(w) \/ Raise(w) \/ Crash(w)
             \/ \E id \in PendingIds, answer \in AnswerTypes : BeginResume(w, id, answer)
      PROVE  entries' = entries
  BY <1>7 DEF Look, BeginRecover, BeginResume, Lease, L!Acquire, Renew, Raise, Crash, ledgerVars
<1>8. CASE ExpireLease \/ UNCHANGED vars
  BY <1>1, <1>8 DEF ExpireLease, L!Expire, vars, ledgerVars
<1> QED
  BY <1>1, <1>6, <1>7, <1>8 DEF Next

(* While one worker steps the others keep their locals.  If the park may   *)
(* have changed the worker wrote it under its lease, and no other worker   *)
(* has the newest token.                                                   *)
LEMMA SafeStep ==
  ASSUME TypeInv, TokenInv, SafeInv, [Next]_vars, NEW w \in Workers, Safe(w)',
         \A v \in Workers \ {w} :
           /\ phase'[v] = phase[v] /\ want'[v] = want[v] /\ active'[v] = active[v]
           /\ at'[v] = at[v] /\ token'[v] = token[v]
           /\ v \in overran => v \in overran',
         \/ entries'[ActiveSuspension] = entries[ActiveSuspension] /\ issued' = issued
         \/ entries'[ActiveSuspension] = entries[ActiveSuspension] /\ issued' = issued + 1
         \/ /\ issued' = issued
            /\ \A v \in Workers : token[v] = issued => v = w
  PROVE  SafeInv'
<1>1. ASSUME NEW v \in Workers \ {w}
      PROVE  Safe(v)'
  <2>1. token[v] \in Nat /\ issued \in Nat /\ token[v] <= issued
    BY DEF TypeInv, WorkersOK, LeaseOK, TokenInv
  <2>2. token'[v] = issued' => token[v] = issued /\ Active' = Active
    BY <2>1, ActiveKept
  <2>3. Safe(v) /\ \A c \in Calls : OnRecord(c) => OnRecord(c)'
    BY RecordsStay DEF SafeInv
  <2> QED
    BY <2>2, <2>3, SafeKept
<1> QED
  BY <1>1 DEF SafeInv

LEMMA SafeNext == TypeInv /\ TokenInv /\ SafeInv /\ [Next]_vars => SafeInv'
<1> SUFFICES ASSUME TypeInv, TokenInv, SafeInv, [Next]_vars
             PROVE  SafeInv'
  OBVIOUS
<1>0. /\ WorkersOK /\ LeaseOK /\ OthersOK /\ ParkTyped /\ Wanting
      /\ issued \in Nat /\ \A w \in Workers : token[w] \in Nat /\ token[w] <= issued
      /\ Active \in {NoPark} \cup Parks
      /\ DOMAIN entries = L!Keys
      /\ \A c \in Calls : OnRecord(c) => OnRecord(c)'
  BY ActiveFacts, RecordsStay DEF TypeInv, WorkersOK, LeaseOK, EntriesOK, TokenInv
<1>1. ASSUME NEW w \in Workers, NEW how \in Ended, EndAs(w, how), overran \subseteq overran',
             UNCHANGED issued,
             \/ entries'[ActiveSuspension] = entries[ActiveSuspension]
             \/ \A v \in Workers : token[v] = issued => v = w
      PROVE  SafeInv'
  <2>1. Safe(w)'
    BY <1>0, <1>1, SafeIdle DEF EndAs, WorkersOK, Ended
  <2> QED
    BY <1>0, <1>1, <2>1, SafeStep DEF EndAs, WorkersOK
<1>2. ASSUME UNCHANGED <<entries, phase, want, active, at, token, overran>>,
             issued' \in {issued, issued + 1}
      PROVE  SafeInv'
  <2>1. ASSUME NEW v \in Workers
        PROVE  Safe(v)'
    <3>1. token'[v] = issued' => token[v] = issued /\ Active' = Active
      BY <1>0, <1>2, ActiveKept
    <3> QED
      BY <1>0, <1>2, <3>1, SafeKept DEF SafeInv
  <2> QED
    BY <2>1 DEF SafeInv
<1>3. ASSUME NEW w \in Workers, Renew(w)
      PROVE  SafeInv'
  <2>1. issued' \in {issued, issued + 1} /\ UNCHANGED entries
    BY <1>0, <1>3, AcquireFacts DEF Renew, L!Acquire
  <2> QED
    BY <1>2, <1>3, <2>1 DEF Renew, workerVars, historyVars
<1>4. CASE ExpireLease \/ UNCHANGED vars \/ \E w \in Workers : Close(w)
  BY <1>2, <1>4 DEF ExpireLease, Close, L!Expire, L!Release, vars, ledgerVars, workerVars,
                    historyVars
<1>5. ASSUME NEW w \in Workers, Look(w)
      PROVE  SafeInv'
  <2>1. Safe(w)'
    <3>1. active[w] = NoPark /\ at[w] = NoCall
      BY <1>5 DEF Look, TokenInv, Unleased
    <3> QED
      BY <1>0, <1>5, <3>1, SafeIdle DEF Look, EndAs, GoOn, WorkersOK
  <2> QED
    BY <1>0, <1>5, <2>1, SafeStep
       DEF Look, EndAs, GoOn, WorkersOK, ledgerVars, historyVars
<1>6. ASSUME NEW w \in Workers, BeginRun(w) \/ BeginRecover(w)
             \/ \E id \in PendingIds, answer \in AnswerTypes : BeginResume(w, id, answer)
      PROVE  SafeInv'
  <2>1. phase[w] \in Unleased /\ Lease(w) /\ UNCHANGED active
    BY <1>6 DEF BeginRun, BeginRecover, BeginResume, Unleased
  <2>2. active[w] = NoPark /\ at[w] = NoCall /\ lease.owner # w
    BY <2>1 DEF TokenInv
  <2>3. issued' = issued + 1 /\ UNCHANGED entries /\ token' = [token EXCEPT ![w] = issued + 1]
    BY <1>0, <2>1, <2>2, AcquireFacts DEF Lease, L!Acquire
  <2>4. Safe(w)'
    <3>1. CASE BeginRun(w)
      <4>1. /\ phase'[w] = "driving" /\ active'[w] = NoPark /\ Active' = Active
            /\ w \in overran' \/ Active = NoPark
            /\ at'[w] = [c \in Calls |-> IF c \in ToDrive THEN "todo" ELSE "none"]
        BY <1>0, <2>1, <2>2, <2>3, <3>1, ActiveKept DEF BeginRun, Drive, WorkersOK
      <4> QED
        BY <4>1 DEF Safe, Fresh, Decided, Marked, Taken, Finalizing
    <3>2. CASE BeginRecover(w)
      BY <1>0, <2>2, <3>2, SafeIdle DEF BeginRecover, WorkersOK
    <3>3. ASSUME NEW id \in PendingIds, NEW answer \in AnswerTypes, BeginResume(w, id, answer)
          PROVE  Safe(w)'
      BY <1>0, <2>2, <3>3, SafeIdle DEF BeginResume, WorkersOK
    <3> QED
      BY <1>6, <3>1, <3>2, <3>3
  <2>5. \A v \in Workers \ {w} :
          /\ phase'[v] = phase[v] /\ want'[v] = want[v] /\ active'[v] = active[v]
          /\ at'[v] = at[v] /\ token'[v] = token[v]
          /\ v \in overran => v \in overran'
    BY <1>0, <1>6, <2>3 DEF BeginRun, BeginRecover, BeginResume, Drive, WorkersOK, historyVars
  <2> QED
    BY <2>3, <2>4, <2>5, SafeStep
<1>7. ASSUME NEW w \in Workers, FindPark(w)
      PROVE  SafeInv'
  <2>1. CASE ~ Asks(Active, want[w][1])
    BY <1>1, <1>7, <2>1 DEF FindPark, ledgerVars, historyVars, Ended
  <2>2. CASE Asks(Active, want[w][1])
    <3>1. /\ phase[w] = "resume" /\ UNCHANGED <<entries, issued, token, overran, want, at>>
          /\ phase' = [phase EXCEPT ![w] = "answering"]
          /\ active' = [active EXCEPT ![w] = Answered(Active, want[w][1], want[w][2])]
      BY <1>7, <2>2 DEF FindPark, GoOn, Keep, ledgerVars, historyVars
    <3>2. /\ Active \in Parks /\ Active # NoPark
          /\ want[w][1] \in PendingIds /\ want[w][2] \in AnswerTypes
      BY <1>0, <2>2, <3>1 DEF Asks, Wanting, WorkersOK
    <3>3. Answered(Active, want[w][1], want[w][2]).ids = Active.ids
      BY <3>2, AnsweredFacts
    <3>4. Active' = Active
      BY <3>1, ActiveKept
    <3>5. /\ phase'[w] = "answering" /\ want'[w] = want[w] /\ at'[w] = at[w]
          /\ active'[w] = Answered(Active, want[w][1], want[w][2])
      BY <1>0, <3>1 DEF WorkersOK
    <3>6. Safe(w)'
      <4>1. Fresh(w)' /\ Decided(w)' /\ Marked(w)'
        BY <3>2, <3>3, <3>4, <3>5 DEF Fresh, Decided, Marked
      <4>2. Taken(w)'
        BY <1>0, <3>1, <3>5 DEF Taken, SafeInv, Safe
      <4> QED
        BY <4>1, <4>2 DEF Safe
    <3> QED
      BY <1>0, <3>1, <3>6, SafeStep DEF WorkersOK
  <2> QED
    BY <2>1, <2>2
<1>8. ASSUME NEW w \in Workers, CheckPark(w)
      PROVE  SafeInv'
  <2>1. phase[w] = "recover" /\ UNCHANGED <<entries, issued, overran>> /\ active[w] = NoPark
        /\ \A c \in Calls : at[w][c] = "none"
    BY <1>8 DEF CheckPark, Resolve, ledgerVars, historyVars, SafeInv, Safe, Decided, Taken,
                Finalizing
  <2>2. Active' = Active
    BY <2>1, ActiveKept
  <2>3. CASE EndAs(w, "parked")
    BY <1>1, <2>1, <2>3 DEF Ended
  <2>4. CASE Active = NoPark /\ Drive(w, ToDrive) /\ UNCHANGED <<token, held, want, active>>
    <3>1. /\ phase'[w] = "driving" /\ active'[w] = NoPark
          /\ at'[w] = [c \in Calls |-> IF c \in ToDrive THEN "todo" ELSE "none"]
      BY <1>0, <2>1, <2>4 DEF Drive, WorkersOK
    <3>2. Safe(w)'
      BY <2>2, <2>4, <3>1 DEF Safe, Fresh, Decided, Marked, Taken, Finalizing
    <3> QED
      BY <1>0, <2>1, <2>4, <3>2, SafeStep DEF Drive, WorkersOK
  <2>5. CASE /\ Active # NoPark /\ Undecided(Active) = {} /\ Keep(w, Active)
             /\ GoOn(w, "finalizing") /\ UNCHANGED <<token, held>>
    <3>1. /\ phase'[w] = "finalizing" /\ active'[w] = Active
          /\ at'[w] = at[w] /\ want'[w] = want[w]
      BY <1>0, <2>5 DEF Keep, GoOn, WorkersOK
    <3>2. Safe(w)'
      BY <2>1, <2>2, <2>5, <3>1 DEF Safe, Fresh, Decided, Marked, Taken, Undecided
    <3> QED
      BY <1>0, <2>1, <2>5, <3>2, SafeStep DEF Keep, GoOn, WorkersOK
  <2> QED
    BY <1>8, <2>3, <2>4, <2>5 DEF CheckPark, Resolve
<1>9. ASSUME NEW w \in Workers, NEW p \in Parks \cup {Completed}, phase[w] \notin Unleased,
             L!WriteControl(token[w], ActiveSuspension, p)
      PROVE  /\ UNCHANGED issued /\ entries'[ActiveSuspension] = L!Done(p)
             /\ Active' = IF p \in Parks THEN p ELSE NoPark
             /\ \A v \in Workers : token[v] = issued => v = w
  <2>1. UNCHANGED issued /\ entries'[ActiveSuspension] = L!Done(p)
    BY <1>0, <1>9, KeyFacts DEF L!WriteControl
  <2> QED
    BY <1>9, <2>1, ActiveAfter, WriterIsCurrent DEF L!WriteControl
<1>10. ASSUME NEW w \in Workers, RecordAnswer(w)
       PROVE  SafeInv'
  <2>1. /\ phase[w] = "answering" /\ active[w] \in Parks /\ phase[w] \notin Unleased
        /\ L!WriteControl(token[w], ActiveSuspension, active[w])
        /\ overran' = overran
    BY <1>0, <1>10 DEF RecordAnswer, Record, Wanting, WorkersOK, Unleased, historyVars
  <2>2. /\ UNCHANGED issued /\ Active' = active[w]
        /\ \A v \in Workers : token[v] = issued => v = w
    BY <1>9, <2>1
  <2>3. CASE Undecided(active[w]) # {}
    BY <1>1, <1>10, <2>1, <2>2, <2>3 DEF RecordAnswer, Record, Ended
  <2>4. CASE Undecided(active[w]) = {}
    <3>1. GoOn(w, "finalizing") /\ UNCHANGED <<token, held, active>>
      BY <1>10, <2>4 DEF RecordAnswer, Record
    <3>2. phase'[w] = "finalizing" /\ at'[w] = at[w] /\ active'[w] = active[w]
      BY <1>0, <3>1 DEF GoOn, WorkersOK
    <3>3. active[w] # NoPark
      BY <2>1, ParkFacts
    <3>4. Fresh(w)' /\ Decided(w)' /\ Marked(w)'
      BY <2>2, <2>4, <3>2, <3>3 DEF Fresh, Decided, Marked, Undecided
    <3>5. Taken(w)'
      BY <1>0, <2>1, <3>2 DEF Taken, SafeInv, Safe
    <3> QED
      BY <1>0, <2>1, <2>2, <3>1, <3>4, <3>5, SafeStep DEF GoOn, WorkersOK, Safe
  <2> QED
    BY <2>3, <2>4
<1>11. ASSUME NEW w \in Workers, StartFinalizing(w)
       PROVE  SafeInv'
  <2>1. /\ phase[w] = "finalizing" /\ active[w] \in Parks /\ phase[w] \notin Unleased
        /\ L!WriteControl(token[w], ActiveSuspension, [active[w] EXCEPT !.state = "resuming"])
        /\ Drive(w, DOMAIN active[w].ids)
        /\ UNCHANGED <<token, held, want, active, overran>>
    BY <1>0, <1>11 DEF StartFinalizing, Wanting, WorkersOK, Unleased, historyVars
  <2>2. /\ UNCHANGED issued /\ Active' = [active[w] EXCEPT !.state = "resuming"]
        /\ \A v \in Workers : token[v] = issued => v = w
    BY <1>9, <2>1, ResumingFacts
  <2>3. /\ phase'[w] = "driving" /\ active'[w] = active[w]
        /\ at'[w] = [c \in Calls |-> IF c \in DOMAIN active[w].ids THEN "todo" ELSE "none"]
    BY <1>0, <2>1 DEF Drive, WorkersOK
  <2>4. Active' # NoPark /\ Active'.state = "resuming" /\ Active'.ids = active[w].ids
        /\ Active'.answers = active[w].answers /\ active[w] # NoPark
    BY <2>1, <2>2, ResumingFacts, ParkFacts
  <2>5. Fresh(w)' /\ Marked(w)' /\ Taken(w)'
    BY <2>3, <2>4 DEF Fresh, Marked, Taken, Finalizing
  <2>6. Undecided(active[w]) = {}
    BY <1>0, <2>1, <2>4 DEF SafeInv, Safe, Decided, Finalizing
  <2>7. Decided(w)'
    BY <2>3, <2>6 DEF Decided, Undecided
  <2> QED
    BY <1>0, <2>1, <2>2, <2>5, <2>7, SafeStep DEF Drive, WorkersOK, Safe
<1>12. ASSUME NEW w \in Workers, Complete(w)
       PROVE  SafeInv'
  <2>1. EndAs(w, "completed") /\ overran' = overran /\ phase[w] \notin Unleased
    BY <1>12 DEF Complete, Finish, Driven, Unleased, historyVars
  <2>2. CASE Finalizing(w)
    BY <1>1, <1>9, <1>12, <2>1, <2>2 DEF Complete, Finish, Ended
  <2>3. CASE ~ Finalizing(w)
    BY <1>1, <1>12, <2>1, <2>3 DEF Complete, Finish, Ended, ledgerVars
  <2> QED
    BY <2>2, <2>3
<1>13. ASSUME NEW w \in Workers, NEW ids \in [Suspended(w) -> PendingIds], ParkRound(w, ids)
       PROVE  SafeInv'
  <2>1. /\ EndAs(w, "parked") /\ overran' = overran /\ UNCHANGED issued
        /\ phase[w] \notin Unleased /\ L!Fenced(token[w])
    BY <1>13 DEF ParkRound, L!CommitTransition, Driven, Unleased
  <2> QED
    BY <1>1, <2>1, WriterIsCurrent DEF Ended
<1>14. ASSUME NEW w \in Workers, Indeterminate(w) \/ Raise(w) \/ FencedOut(w)
       PROVE  SafeInv'
  BY <1>1, <1>14 DEF Indeterminate, Raise, FencedOut, Ended, ledgerVars, historyVars
<1>15. ASSUME NEW w \in Workers, Crash(w)
       PROVE  SafeInv'
  <2>1. Safe(w)'
    BY <1>0, <1>15, SafeIdle DEF Crash, WorkersOK
  <2> QED
    BY <1>0, <1>15, <2>1, SafeStep DEF Crash, WorkersOK, ledgerVars, historyVars
<1>16. ASSUME NEW w \in Workers, NEW c \in Calls, CallStep(w, c)
       PROVE  SafeInv'
  <2>1. PICK from \in {"todo", "executing"}, to \in Places \ {"none", "todo"} :
          /\ Take(w, c, from, to)
          /\ to = "answered" => OnRecord(c) \/ L!FinishEffect(token[w], StepKey(c), Result)
    BY <1>16, CallStepFacts
  <2>2. UNCHANGED issued /\ entries'[ActiveSuspension] = entries[ActiveSuspension]
    <3>1. UNCHANGED ledgerVars \/ CallWrite(w, c)
      BY <1>16, CallStepFacts
    <3> QED
      BY <1>0, <3>1, KeyFacts DEF CallWrite, L!Start, L!Forget, L!FinishEffect, ledgerVars
  <2>3. to = "answered" => OnRecord(c)'
    BY <1>0, <2>1, KeyFacts DEF L!FinishEffect, OnRecord, L!Done
  <2>4. /\ phase[w] = "driving" /\ at[w][c] = from /\ at'[w][c] = to
        /\ \A d \in Calls \ {c} : at'[w][d] = at[w][d]
        /\ \A v \in Workers \ {w} : at'[v] = at[v]
        /\ UNCHANGED <<phase, token, want, active, overran>>
    BY <1>0, <2>1 DEF Take, WorkersOK, historyVars
  <2>5. Active' = Active
    BY <2>2, ActiveKept
  <2>6. Safe(w)
    BY DEF SafeInv
  <2>7. Fresh(w)' /\ Decided(w)' /\ Marked(w)'
    BY <2>2, <2>4, <2>5, <2>6 DEF Safe, Fresh, Decided, Marked, Finalizing, Undecided
  <2>8. Taken(w)'
    BY <1>0, <2>3, <2>4, <2>6 DEF Safe, Taken, Finalizing
  <2> QED
    BY <2>2, <2>4, <2>7, <2>8, SafeStep DEF Safe
<1>17. ASSUME NEW w \in Workers, WorkerStep(w)
       PROVE  SafeInv'
  BY <1>4, <1>6, <1>7, <1>8, <1>10, <1>11, <1>12, <1>13, <1>14, <1>16, <1>17 DEF WorkerStep
<1> QED
  BY <1>3, <1>4, <1>5, <1>6, <1>14, <1>15, <1>17 DEF Next

(* A worker's copy of the park is the park on record, give or take the     *)
(* answer it brings, while it owns the branch.                             *)
THEOREM CopiesAreFresh == Spec => []CopyIsFresh
<1>1. Spec => [](TypeInv /\ TokenInv /\ SafeInv)
  BY TypeInit, TypeNext, TokenInit, TokenNext, SafeInit, SafeNext, PTL DEF Spec
<1>2. SafeInv => CopyIsFresh
  BY DEF SafeInv, Safe, Fresh, CopyIsFresh
<1> QED
  BY <1>1, <1>2, PTL

-----------------------------------------------------------------------------
(* Steps.  Only the owner of the branch changes the park, and in one of    *)
(* four ways.                                                              *)

IInv == TypeInv /\ TokenInv /\ SafeInv

LEMMA IInvHolds == Spec => []IInv
BY TypeInit, TypeNext, TokenInit, TokenNext, SafeInit, SafeNext, PTL DEF Spec, IInv

(* The locals of the worker that changed the park, and what it wrote.      *)
WritesPark(w) ==
  /\ token[w] = issued
  /\ phase'[w] # phase[w]
  /\ \/ /\ phase[w] = "answering" /\ active[w] \in Parks
        /\ Active' = active[w]
     \/ /\ phase[w] = "finalizing" /\ active[w] \in Parks
        /\ Active' = [active[w] EXCEPT !.state = "resuming"]
     \/ /\ Complete(w) /\ Finalizing(w)
     \/ /\ phase[w] = "driving"
        /\ \E ids \in [Suspended(w) -> PendingIds] :
             /\ Waiting(ids) \in Parks
             /\ entries'[ActiveSuspension] = L!Done(Waiting(ids))

LEMMA ParkWriters ==
  ASSUME IInv, [Next]_vars
  PROVE  \/ entries'[ActiveSuspension] = entries[ActiveSuspension]
         \/ \E w \in Workers : WritesPark(w)
<1>0. /\ WorkersOK /\ DOMAIN entries = L!Keys /\ Wanting
      /\ \A w \in Workers : active[w] \in {NoPark} \cup Parks
  BY DEF IInv, TypeInv, EntriesOK, WorkersOK
<1>1. ASSUME NEW w \in Workers, NEW p \in Parks \cup {Completed}, phase[w] \notin Unleased,
             L!WriteControl(token[w], ActiveSuspension, p)
      PROVE  token[w] = issued /\ Active' = IF p \in Parks THEN p ELSE NoPark
  <2>1. entries'[ActiveSuspension] = L!Done(p)
    BY <1>0, <1>1, KeyFacts DEF L!WriteControl
  <2> QED
    BY <1>1, <2>1, ActiveAfter, WriterIsCurrent DEF L!WriteControl, IInv
<1>2. ASSUME NEW w \in Workers, RecordAnswer(w)
      PROVE  WritesPark(w)
  <2>1. /\ phase[w] = "answering" /\ active[w] \in Parks /\ phase[w] \notin Unleased
        /\ L!WriteControl(token[w], ActiveSuspension, active[w])
    BY <1>0, <1>2 DEF RecordAnswer, Record, Wanting, Unleased
  <2>2. phase'[w] # phase[w]
    BY <1>0, <1>2 DEF RecordAnswer, Record, EndAs, GoOn, WorkersOK
  <2> QED
    BY <1>1, <2>1, <2>2 DEF WritesPark
<1>3. ASSUME NEW w \in Workers, StartFinalizing(w)
      PROVE  WritesPark(w)
  <2>1. /\ phase[w] = "finalizing" /\ active[w] \in Parks /\ phase[w] \notin Unleased
        /\ L!WriteControl(token[w], ActiveSuspension, [active[w] EXCEPT !.state = "resuming"])
        /\ Drive(w, DOMAIN active[w].ids)
    BY <1>0, <1>3 DEF StartFinalizing, Wanting, Unleased
  <2>2. phase'[w] # phase[w] /\ [active[w] EXCEPT !.state = "resuming"] \in Parks
    BY <1>0, <2>1, ResumingFacts DEF Drive, WorkersOK
  <2> QED
    BY <1>1, <2>1, <2>2 DEF WritesPark
<1>4. ASSUME NEW w \in Workers, Complete(w)
      PROVE  entries'[ActiveSuspension] = entries[ActiveSuspension] \/ WritesPark(w)
  <2>1. phase[w] = "driving" /\ phase'[w] = "completed" /\ phase[w] \notin Unleased
    BY <1>0, <1>4 DEF Complete, Driven, Finish, EndAs, WorkersOK, Unleased
  <2>2. CASE Finalizing(w)
    BY <1>1, <1>4, <2>1, <2>2 DEF Complete, Finish, WritesPark
  <2>3. CASE ~ Finalizing(w)
    BY <1>4, <2>3 DEF Complete, Finish, ledgerVars
  <2> QED
    BY <2>2, <2>3
<1>5. ASSUME NEW w \in Workers, NEW ids \in [Suspended(w) -> PendingIds], ParkRound(w, ids)
      PROVE  WritesPark(w)
  <2>1. phase[w] = "driving" /\ phase'[w] = "parked" /\ phase[w] \notin Unleased
        /\ L!Fenced(token[w])
    BY <1>0, <1>5 DEF ParkRound, L!CommitTransition, Driven, EndAs, WorkersOK, Unleased
  <2>2. token[w] = issued
    BY <2>1, WriterIsCurrent DEF IInv
  <2> QED
    BY <1>5, <2>1, <2>2, ParkWrites DEF WritesPark, IInv
<1>6. ASSUME NEW w \in Workers, NEW c \in Calls, CallStep(w, c)
      PROVE  entries'[ActiveSuspension] = entries[ActiveSuspension]
  <2>1. UNCHANGED ledgerVars \/ CallWrite(w, c)
    BY <1>6, CallStepFacts
  <2> QED
    BY <1>0, <2>1, KeyFacts DEF CallWrite, L!Start, L!Forget, L!FinishEffect, ledgerVars
<1>7. ASSUME NEW w \in Workers,
             \/ Look(w) \/ BeginRun(w) \/ BeginRecover(w) \/ Renew(w) \/ Raise(w) \/ Crash(w)
             \/ \E id \in PendingIds, answer \in AnswerTypes : BeginResume(w, id, answer)
             \/ FindPark(w) \/ CheckPark(w) \/ Indeterminate(w) \/ FencedOut(w) \/ Close(w)
      PROVE  entries' = entries
  BY <1>7 DEF Look, BeginRun, BeginRecover, BeginResume, Lease, L!Acquire, Renew, Raise, Crash,
              FindPark, CheckPark, Resolve, Indeterminate, FencedOut, Close, L!Release, ledgerVars
<1>8. CASE ExpireLease \/ UNCHANGED vars
  BY <1>8 DEF ExpireLease, L!Expire, vars, ledgerVars
<1>9. ASSUME NEW w \in Workers, WorkerStep(w)
      PROVE  entries'[ActiveSuspension] = entries[ActiveSuspension] \/ WritesPark(w)
  BY <1>2, <1>3, <1>4, <1>5, <1>6, <1>7, <1>9 DEF WorkerStep
<1> QED
  BY <1>7, <1>8, <1>9 DEF Next

-----------------------------------------------------------------------------
(* No answer is lost.                                                      *)

Excused == \A w \in overran : phase'[w] = phase[w]

LEMMA AnswersKept == IInv /\ [Next]_vars => (Waits /\ Excused => ParkKept)
<1> SUFFICES ASSUME IInv, [Next]_vars, Waits, Excused
             PROVE  ParkKept
  OBVIOUS
<1>0. Active \in Parks /\ Active # NoPark /\ Undecided(Active) # {}
  BY ActiveFacts DEF Waits, IInv, TypeInv, EntriesOK
<1>1. CASE entries'[ActiveSuspension] = entries[ActiveSuspension]
  BY <1>0, <1>1, ActiveKept DEF ParkKept
<1>2. ASSUME NEW w \in Workers, WritesPark(w)
      PROVE  ParkKept
  <2>1. token[w] = issued /\ Safe(w) /\ WorkersOK /\ Wanting
    BY <1>2 DEF WritesPark, IInv, SafeInv, TypeInv
  <2>2. CASE phase[w] = "answering" /\ active[w] \in Parks /\ Active' = active[w]
    <3>1. /\ active[w] = Answered(Active, want[w][1], want[w][2])
          /\ Active.ids = active[w].ids /\ active[w] # NoPark
      BY <2>1, <2>2, ParkFacts DEF Safe, Fresh, Finalizing
    <3>2. want[w][1] \in PendingIds /\ want[w][2] \in AnswerTypes
      BY <2>1, <2>2 DEF WorkersOK, Wanting
    <3> QED
      BY <1>0, <2>2, <3>1, <3>2, AnsweredFacts DEF ParkKept
  <2>3. CASE /\ phase[w] = "finalizing" /\ active[w] \in Parks
             /\ Active' = [active[w] EXCEPT !.state = "resuming"]
    <3>1. Active.ids = active[w].ids /\ Active.answers = active[w].answers
      BY <2>1, <2>3, ParkFacts DEF Safe, Fresh, Finalizing
    <3>2. /\ Active' \in Parks
          /\ Active'.ids = active[w].ids /\ Active'.answers = active[w].answers
      BY <2>3, ResumingFacts
    <3> QED
      BY <3>1, <3>2, ParkFacts DEF ParkKept
  <2>4. CASE phase[w] = "driving"
    <3>1. ~ Finalizing(w)
      BY <1>0, <2>1, <2>4 DEF Safe, Fresh, Decided, Undecided
    <3>2. w \in overran
      BY <1>0, <2>1, <2>4, <3>1 DEF Safe, Marked
    <3> QED
      BY <1>2, <3>2 DEF Excused, WritesPark
  <2> QED
    BY <1>2, <2>2, <2>3, <2>4 DEF WritesPark, Complete, Driven
<1> QED
  BY <1>1, <1>2, ParkWriters

(* Until a park is decided it stays under its ids with every answer that   *)
(* was recorded, over any number of workers that answer, recover, crash    *)
(* and are replaced; runs that overran it are excepted.                    *)
THEOREM NoAnswerIsLost == Spec => AnswersSurvive
<1>1. IInv /\ [Next]_vars =>
        [Waits /\ (\A w \in overran : phase'[w] = phase[w]) => ParkKept]_vars
  BY AnswersKept DEF Excused
<1> QED
  BY <1>1, IInvHolds, PTL DEF Spec, AnswersSurvive

-----------------------------------------------------------------------------
(* Nothing begins that was not approved.                                   *)

(* An intent is recorded by a worker that starts the call.                 *)
LEMMA IntentsAreStarts ==
  ASSUME IInv, [Next]_vars, NEW c \in Calls,
         entries[StepKey(c)] = L!Absent, entries'[StepKey(c)] = L!Running
  PROVE  \E w \in Workers : StartCall(w, c)
<1>0. DOMAIN entries = L!Keys /\ L!Absent # L!Running
  BY DEF IInv, TypeInv, EntriesOK, L!Absent, L!Running
<1>1. ASSUME NEW w \in Workers, NEW d \in Calls, CallStep(w, d)
      PROVE  StartCall(w, c)
  <2>1. CASE DenyCall(w, d) \/ RefuseCall(w, d) \/ SuspendCall(w, d) \/ ReplayCall(w, d)
    BY <1>0, <2>1 DEF DenyCall, RefuseCall, SuspendCall, ReplayCall, ledgerVars
  <2>2. CASE FinishCall(w, d) \/ WithdrawCall(w, d) \/ AskCall(w, d)
    BY <1>0, <2>2, KeyFacts
       DEF FinishCall, WithdrawCall, AskCall, L!FinishEffect, L!Forget, L!Done, L!Running, L!Absent
  <2>3. CASE StartCall(w, d)
    <3>1. entries' = [entries EXCEPT ![StepKey(d)] = L!Running]
      BY <2>3 DEF StartCall, L!Start
    <3>2. StepKey(d) = StepKey(c)
      BY <1>0, <3>1, KeyFacts
    <3> QED
      BY <2>3, <3>2, KeyFacts
  <2> QED
    BY <1>1, <2>1, <2>2, <2>3 DEF CallStep
<1>2. ASSUME NEW w \in Workers, RecordAnswer(w) \/ StartFinalizing(w) \/ Complete(w)
      PROVE  entries'[StepKey(c)] = entries[StepKey(c)]
  BY <1>0, <1>2, KeyFacts DEF RecordAnswer, Record, StartFinalizing, Complete, Finish,
                              ledgerVars, L!WriteControl
<1>3. ASSUME NEW w \in Workers, NEW ids \in [Suspended(w) -> PendingIds], ParkRound(w, ids)
      PROVE  entries'[StepKey(c)] = entries[StepKey(c)]
  BY <1>3, ParkWrites DEF IInv
<1>4. ASSUME NEW w \in Workers,
             \/ Look(w) \/ BeginRun(w) \/ BeginRecover(w) \/ Renew(w) \/ Raise(w) \/ Crash(w)
             \/ \E id \in PendingIds, answer \in AnswerTypes : BeginResume(w, id, answer)
             \/ FindPark(w) \/ CheckPark(w) \/ Indeterminate(w) \/ FencedOut(w) \/ Close(w)
      PROVE  entries' = entries
  BY <1>4 DEF Look, BeginRun, BeginRecover, BeginResume, Lease, L!Acquire, Renew, Raise, Crash,
              FindPark, CheckPark, Resolve, Indeterminate, FencedOut, Close, L!Release, ledgerVars
<1>5. CASE ExpireLease \/ UNCHANGED vars
  BY <1>0, <1>5 DEF ExpireLease, L!Expire, vars, ledgerVars
<1>6. ASSUME NEW w \in Workers, WorkerStep(w)
      PROVE  StartCall(w, c)
  BY <1>0, <1>1, <1>2, <1>3, <1>4, <1>6 DEF WorkerStep
<1> QED
  BY <1>0, <1>4, <1>5, <1>6 DEF Next

(* What RunsOnlyWhatWasApproved says of one step.                          *)
OnlyApprovedBegin ==
  \A c \in Calls :
    /\ entries[StepKey(c)] = L!Absent /\ entries'[StepKey(c)] = L!Running
    /\ Active # NoPark
    /\ \A w \in overran : at'[w] = at[w]
    => /\ Undecided(Active) = {} /\ Active.state = "resuming"
       /\ c \in DOMAIN Active.answers /\ Active.answers[c] = "approve"

LEMMA StartsAreApproved == IInv /\ [Next]_vars => OnlyApprovedBegin
<1> SUFFICES ASSUME IInv, [Next]_vars, NEW c \in Calls,
                    entries[StepKey(c)] = L!Absent, entries'[StepKey(c)] = L!Running,
                    Active # NoPark, \A w \in overran : at'[w] = at[w]
             PROVE  /\ Undecided(Active) = {} /\ Active.state = "resuming"
                    /\ c \in DOMAIN Active.answers /\ Active.answers[c] = "approve"
  BY DEF OnlyApprovedBegin
<1>1. PICK w \in Workers : StartCall(w, c)
  BY IntentsAreStarts
<1>2. WorkersOK /\ Active \in Parks /\ Safe(w)
  BY ActiveFacts DEF IInv, TypeInv, EntriesOK, SafeInv
<1>3. /\ phase[w] = "driving" /\ phase[w] \notin Unleased
      /\ at[w][c] = "todo" /\ at'[w][c] = "executing"
      /\ L!Fenced(token[w]) /\ ~ Denied(w, c)
  BY <1>1, <1>2 DEF StartCall, Take, L!Start, WorkersOK, Unleased
<1>4. token[w] = issued
  BY <1>3, WriterIsCurrent DEF IInv
<1>5. Finalizing(w)
  BY <1>2, <1>3, <1>4 DEF Safe, Marked
<1>6. /\ Active.ids = active[w].ids /\ Active.answers = active[w].answers
      /\ Active.state = "resuming" /\ Undecided(active[w]) = {}
  BY <1>2, <1>3, <1>4, <1>5 DEF Safe, Fresh, Decided, Marked
<1>7. c \in DOMAIN active[w].ids /\ c \in DOMAIN active[w].answers
  BY <1>2, <1>3, <1>5, <1>6 DEF Safe, Taken, Undecided
<1>8. Active.answers[c] \in AnswerTypes /\ Active.answers[c] # "error"
  <2>1. Active.answers[c] \in AnswerTypes
    BY <1>2, <1>6, <1>7, ParkFacts
  <2>2. Active.answers[c] # "error"
    BY <1>3, <1>5, <1>6, <1>7 DEF Denied
  <2> QED
    BY <2>1, <2>2
<1> QED
  BY <1>6, <1>7, <1>8 DEF AnswerTypes, Undecided

(* "A batch park executes nothing until every parked call is decided", and *)
(* then only what the durable answers approve.                             *)
THEOREM OnlyApprovedRuns == Spec => RunsOnlyWhatWasApproved
<1>1. IInv /\ [Next]_vars =>
        [\A c \in Calls :
           /\ entries[StepKey(c)] = L!Absent /\ entries'[StepKey(c)] = L!Running
           /\ Active # NoPark
           /\ \A w \in overran : at'[w] = at[w]
           => /\ Undecided(Active) = {} /\ Active.state = "resuming"
              /\ c \in DOMAIN Active.answers /\ Active.answers[c] = "approve"]_vars
  BY StartsAreApproved DEF OnlyApprovedBegin
<1> QED
  BY <1>1, IInvHolds, PTL DEF Spec, RunsOnlyWhatWasApproved

-----------------------------------------------------------------------------
(* A completed park has settled every approved call.                       *)

Earned ==
  Active # NoPark /\ entries'[ActiveSuspension] = L!Done(Completed) =>
    \A c \in DOMAIN Active.ids :
      Active.answers[c] = "approve" =>
        \/ OnRecord(c)
        \/ \E w \in Workers : phase'[w] # phase[w] /\ at[w][c] \in {"refused", "withdrawn"}

LEMMA CompletionsSettle == IInv /\ [Next]_vars => Earned
<1> SUFFICES ASSUME IInv, [Next]_vars, Active # NoPark,
                    entries'[ActiveSuspension] = L!Done(Completed),
                    NEW c \in DOMAIN Active.ids
             PROVE  \/ OnRecord(c)
                    \/ \E w \in Workers :
                         phase'[w] # phase[w] /\ at[w][c] \in {"refused", "withdrawn"}
  BY DEF Earned
<1>1. Active \in Parks /\ entries[ActiveSuspension] = L!Done(Active) /\ WorkersOK
  BY ActiveFacts DEF IInv, TypeInv, EntriesOK
<1>2. c \in Calls /\ Active' = NoPark
  BY <1>1, ActiveAfter, ParkFacts
<1>3. L!Done(Active) # L!Done(Completed) /\ \A p \in Parks : p # NoPark /\ p # Completed
  BY <1>1, ParkFacts DEF L!Done
<1>4. PICK w \in Workers : WritesPark(w)
  BY <1>1, <1>3, ParkWriters
<1>5. \A ids : Waiting(ids) \in Parks => L!Done(Waiting(ids)) # L!Done(Completed)
  BY <1>3 DEF L!Done
<1>6. Complete(w) /\ Finalizing(w) /\ token[w] = issued /\ phase'[w] # phase[w]
  BY <1>2, <1>3, <1>4, <1>5, ResumingFacts DEF WritesPark
<1>7. /\ phase[w] = "driving" /\ at[w][c] \notin {"todo", "executing", "suspended", "asked"}
      /\ at[w][c] \in Places
  BY <1>1, <1>2, <1>6 DEF Complete, Driven, Finish, Suspended, WorkersOK
<1>8. Safe(w)
  BY DEF IInv, SafeInv
<1>9. at[w][c] # "none"
  BY <1>2, <1>6, <1>7, <1>8 DEF Safe, Fresh, Taken
<1>10. at[w][c] = "answered" => OnRecord(c)
  BY <1>2, <1>8 DEF Safe, Taken
<1> QED
  BY <1>6, <1>7, <1>9, <1>10 DEF Places

(* A continuation is completed only when every approved call has its       *)
(* result on record or was settled otherwise in front of the model.        *)
THEOREM CompletionsAreEarned == Spec => CompletionIsEarned
<1>1. IInv /\ [Next]_vars =>
        [Active # NoPark /\ entries'[ActiveSuspension] = L!Done(Completed) =>
           \A c \in DOMAIN Active.ids :
             Active.answers[c] = "approve" =>
               \/ OnRecord(c)
               \/ \E w \in Workers : phase'[w] # phase[w]
                                     /\ at[w][c] \in {"refused", "withdrawn"}]_vars
  BY CompletionsSettle DEF Earned
<1> QED
  BY <1>1, IInvHolds, PTL DEF Spec, CompletionIsEarned
=============================================================================
