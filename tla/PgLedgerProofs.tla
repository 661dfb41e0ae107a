--------------------------- MODULE PgLedgerProofs ---------------------------
(***************************************************************************)
(* The PostgreSQL ledger for any owners, keys, values, transitions and     *)
(* transactions in flight: types; that without the fence and the numbers   *)
(* it is the in-memory ledger; what the numbers still say of the order;    *)
(* and how many writes a replaced worker may still land.                   *)
(***************************************************************************)
EXTENDS PgLedger, LedgerProofs

-----------------------------------------------------------------------------
(* What a transaction asks for.                                            *)

LEMMA RequestFacts ==
  ASSUME NEW req \in Requests
  PROVE  /\ req.op \in {"start", "forget", "finish_effect", "write_control", "claim_input",
                        "admit_inputs", "discard_inputs", "commit_transition"}
         /\ req.op \in {"start", "forget"} => req.key \in EffectKeys
         /\ req.op = "finish_effect" => req.key \in EffectKeys /\ req.value \in Values
         /\ req.op = "write_control" => req.key \in ControlKeys /\ req.value \in Values
         /\ req.op = "claim_input" => \E i \in InputIds : req.inputs = {i}
         /\ req.op \in {"admit_inputs", "discard_inputs"} => req.inputs \in SUBSET InputIds
         /\ req.op = "commit_transition" => /\ req.transition \in Transitions
                                            /\ IsTransition(req.transition)
                                            /\ req \in Transactions
         /\ req \in Transactions => req.op = "commit_transition"
<1>1. \A tr \in Transitions : IsTransition(tr)
  BY LedgerAssumption
<1>2. InputBatches \subseteq SUBSET InputIds
  BY PgLedgerAssumption
<1> QED
  BY <1>1, <1>2 DEF Requests, Transactions

(* The commit of a transaction, whichever it is, and its rollback.         *)
Write(o, req) ==
  \/ InsertIntent(o, req) \/ DeleteIntent(o, req) \/ CompleteEffect(o, req)
  \/ UpsertControl(o, req) \/ UpdateInput(o, req)
  \/ ApplyTransition(o, req) \/ RollBack(o, req)

(* What no transaction ends is left alone by those of one key or one input.*)
LEMMA SingleWrites ==
  ASSUME NEW o, NEW req,
         \/ InsertIntent(o, req) \/ DeleteIntent(o, req) \/ CompleteEffect(o, req)
         \/ UpsertControl(o, req) \/ UpdateInput(o, req)
  PROVE  /\ UNCHANGED <<writing, drafts, number, serial, earlier>>
         /\ Commits(o, req)
         /\ req.op # "commit_transition"
  BY DEF InsertIntent, DeleteIntent, CompleteEffect, UpsertControl, UpdateInput, CommitsKey,
         numbering

(* The keys an open transition checked and wrote are locked until it ends: *)
(* what it found still holds, and no two open ones share a key.            *)
Open == {x \in Owners \X Transactions : x[2] \in writing[x[1]]}
KeysOf(x) == TransitionKeys(x[2].transition)

LockInv ==
  /\ \A x \in Open : ~ CommitConflicts(x[2].transition)
  /\ \A x, y \in Open : x # y => KeysOf(x) \cap KeysOf(y) = {}

(* It is one operation of the ledger called without a token, or nothing.   *)
LEMMA WritesAreOperations ==
  ASSUME PgTypeOK, LockInv, NEW o \in Owners, NEW req \in Requests, Write(o, req)
  PROVE  [Unleased!Next]_(Unleased!vars)
<1> USE DEF PgTypeOK, TypeOK
<1>0. 0 \in Unleased!Tokens
  BY DEF Unleased!Tokens
<1>1. Unleased!Fenced(0)
  BY DEF Unleased!Fenced, Unleased!Fences
<1>2. UNCHANGED <<lease, issued>>
  BY SingleWrites DEF Write, ApplyTransition, RollBack, Commits
<1>3. ASSUME UNCHANGED <<entries, inputs, inputSequence>>
      PROVE  UNCHANGED Unleased!vars
  BY <1>2, <1>3 DEF Unleased!vars
<1>4. CASE InsertIntent(o, req)
  <2>1. req.key \in EffectKeys
    BY <1>4, RequestFacts DEF InsertIntent
  <2>2. CASE entries[req.key] = Absent
    <3>1. Unleased!Start(0, req.key)
      BY <1>1, <1>2, <1>4, <2>1, <2>2 DEF CommitsKey, InsertIntent, Unleased!Start, Unleased!Absent,
                                          Unleased!Running, Absent, Running
    <3> QED
      BY <1>0, <2>1, <3>1 DEF Unleased!Next
  <2>3. CASE entries[req.key] # Absent
    <3>1. UNCHANGED <<entries, inputs, inputSequence>>
      BY <1>4, <2>1, <2>3 DEF CommitsKey, InsertIntent, Keys
    <3> QED
      BY <1>3, <3>1
  <2> QED
    BY <2>2, <2>3
<1>5. CASE DeleteIntent(o, req)
  <2>1. req.key \in EffectKeys /\ req.key \in Keys
    BY <1>5, RequestFacts DEF DeleteIntent, Keys
  <2>2. CASE entries[req.key] = Running
    <3>1. Unleased!Forget(0, req.key)
      BY <1>1, <1>2, <1>5, <2>1, <2>2 DEF CommitsKey, DeleteIntent, Unleased!Forget, Unleased!Absent,
                                          Absent, Running
    <3> QED
      BY <1>0, <2>1, <3>1 DEF Unleased!Next
  <2>3. CASE entries[req.key] # Running
    <3>1. UNCHANGED <<entries, inputs, inputSequence>>
      BY <1>5, <2>1, <2>3 DEF CommitsKey, DeleteIntent
    <3> QED
      BY <1>3, <3>1
  <2> QED
    BY <2>2, <2>3
<1>6. CASE CompleteEffect(o, req)
  <2>1. req.key \in EffectKeys /\ req.key \in Keys /\ req.value \in Values
    BY <1>6, RequestFacts DEF CompleteEffect, Keys
  <2>2. CASE entries[req.key] = Running
    <3>1. ~ Unleased!Conflicts(req.key, req.value)
      BY <2>2 DEF Unleased!Conflicts, Unleased!Running, Running
    <3>2. Unleased!FinishEffect(0, req.key, req.value)
      BY <1>1, <1>2, <1>6, <2>1, <2>2, <3>1 DEF CommitsKey, CompleteEffect, Unleased!FinishEffect,
                                                Unleased!Done, Done
    <3> QED
      BY <1>0, <2>1, <3>2 DEF Unleased!Next
  <2>3. CASE entries[req.key] # Running
    <3>1. UNCHANGED <<entries, inputs, inputSequence>>
      BY <1>6, <2>1, <2>3 DEF CommitsKey, CompleteEffect
    <3> QED
      BY <1>3, <3>1
  <2> QED
    BY <2>2, <2>3
<1>7. CASE UpsertControl(o, req)
  <2>1. req.key \in ControlKeys /\ req.value \in Values
    BY <1>7, RequestFacts DEF UpsertControl
  <2>2. Unleased!WriteControl(0, req.key, req.value)
    BY <1>1, <1>2, <1>7 DEF CommitsKey, UpsertControl, Unleased!WriteControl, Unleased!Done, Done
  <2> QED
    BY <1>0, <2>1, <2>2 DEF Unleased!Next
<1>8. CASE UpdateInput(o, req)
  <2>1. ASSUME NEW I, NEW status, NEW except, Mark(I, status, except)
        PROVE  Unleased!Mark(I, status, except)
    BY <2>1 DEF Mark, Unleased!Mark, Queued, Unleased!Queued
  <2>2. UNCHANGED <<entries, inputSequence>>
    BY <1>8 DEF UpdateInput
  <2>3. CASE req.op = "claim_input" /\ Mark(req.inputs, "claimed", {"admitted", "discarded"})
    <3>1. PICK i \in InputIds : req.inputs = {i}
      BY <2>3, RequestFacts
    <3>2. Unleased!ClaimInput(0, i)
      BY <1>1, <1>2, <2>1, <2>2, <2>3, <3>1 DEF Unleased!ClaimInput
    <3> QED
      BY <1>0, <3>2 DEF Unleased!Next
  <2>4. CASE req.op = "admit_inputs" /\ Mark(req.inputs, "admitted", {"discarded"})
    <3>1. req.inputs \in SUBSET InputIds
      BY <2>4, RequestFacts
    <3>2. Unleased!AdmitInputs(0, req.inputs)
      BY <1>1, <1>2, <2>1, <2>2, <2>4 DEF Unleased!AdmitInputs
    <3> QED
      BY <1>0, <3>1, <3>2 DEF Unleased!Next
  <2>5. CASE req.op = "discard_inputs" /\ Mark(req.inputs, "discarded", {})
    <3>1. req.inputs \in SUBSET InputIds
      BY <2>5, RequestFacts
    <3>2. Unleased!DiscardInputs(0, req.inputs)
      BY <1>1, <1>2, <2>1, <2>2, <2>5 DEF Unleased!DiscardInputs
    <3> QED
      BY <1>0, <3>1, <3>2 DEF Unleased!Next
  <2> QED
    BY <1>8, <2>3, <2>4, <2>5 DEF UpdateInput
<1>9. CASE ApplyTransition(o, req)
  <2>0. req \in writing[o] /\ req \in Transactions
    BY <1>9 DEF ApplyTransition
  <2>1. req.transition \in Transitions
    BY <2>0, RequestFacts
  <2>2. ~ Unleased!CommitConflicts(req.transition)
    <3>1. <<o, req>> \in Open
      BY <2>0 DEF Open
    <3>2. ~ CommitConflicts(req.transition)
      BY <3>1 DEF LockInv
    <3> QED
      BY <3>2 DEF CommitConflicts, Unleased!CommitConflicts, Done, Unleased!Done
  <2>3. entries' = Unleased!Committed(req.transition)
    BY <1>9 DEF ApplyTransition, Committed, Unleased!Committed, Done, Unleased!Done,
                Keys, Unleased!Keys
  <2>4. Unleased!QueueAll(req.transition)
    <3>1. Unleased!Fresh(req.transition) = Fresh(req.transition)
      BY DEF Fresh, Unleased!Fresh, Unqueued, Unleased!Unqueued
    <3>2. \A i : Unleased!Position(req.transition, i) = Position(req.transition, i)
      BY <3>1 DEF Position, Unleased!Position
    <3>3. QueueAll(req.transition)
      BY <1>9 DEF ApplyTransition
    <3>4. \A i : {m \in Unleased!Fresh(req.transition) : m < Unleased!Position(req.transition, i)}
                = {m \in Fresh(req.transition) : m < Position(req.transition, i)}
      BY <3>1, <3>2
    <3>0. \A S : Unleased!Cardinality(S) = Cardinality(S)
      BY DEF Cardinality, Unleased!Cardinality
    <3>5. inputs' = [i \in InputIds |->
                       IF \E n \in Unleased!Fresh(req.transition) : req.transition.inputs[n] = i
                       THEN Unleased!Queued("pending", inputSequence + Unleased!Cardinality(
                              {m \in Unleased!Fresh(req.transition) :
                                 m < Unleased!Position(req.transition, i)}))
                       ELSE inputs[i]]
      BY <3>0, <3>1, <3>3, <3>4 DEF QueueAll, Queued, Unleased!Queued
    <3>6. inputSequence' = inputSequence + Unleased!Cardinality(Unleased!Fresh(req.transition))
      BY <3>0, <3>1, <3>3 DEF QueueAll
    <3> QED
      BY <3>5, <3>6, Zenon DEF Unleased!QueueAll
  <2>5. Unleased!CommitTransition(0, req.transition)
    BY <1>1, <1>2, <2>2, <2>3, <2>4 DEF Unleased!CommitTransition
  <2> QED
    BY <1>0, <2>1, <2>5 DEF Unleased!Next
<1>10. CASE RollBack(o, req)
  BY <1>3, <1>10 DEF RollBack
<1> QED
  BY <1>4, <1>5, <1>6, <1>7, <1>8, <1>9, <1>10 DEF Write

-----------------------------------------------------------------------------
(* Types.                                                                  *)

LEMMA PgTypeInit == PgInit => PgTypeOK
<1> SUFFICES ASSUME PgInit
             PROVE  PgTypeOK
  OBVIOUS
<1>1. TypeOK
  BY TypeInit DEF PgInit
<1>2. {} \in SUBSET Requests /\ {} \in SUBSET Transactions
  OBVIOUS
<1>3. inFlight \in [Owners -> SUBSET Requests] /\ writing \in [Owners -> SUBSET Transactions]
      /\ \A o \in Owners : writing[o] \subseteq inFlight[o]
  BY <1>2 DEF PgInit
<1> QED
  BY <1>1, <1>3 DEF PgInit, PgTypeOK

(* Rows that become visible keep the types of their columns.               *)
LEMMA ShownIsTyped ==
  ASSUME PgTypeOK, NEW D \in SUBSET drafts, ShowRows(D)
  PROVE  /\ drafts' \subseteq Insertion
         /\ number' \in [InputIds -> Nat]
         /\ serial' \in Nat
         /\ earlier' \in [InputIds -> SUBSET InputIds]
<1>1. \A d \in D : d.number \in Nat /\ d.after \in SUBSET InputIds
  BY DEF PgTypeOK, Insertion
<1>2. \A i \in InputIds : (\E d \in D : d.input = i) =>
        (CHOOSE d \in D : d.input = i) \in D
  OBVIOUS
<1>3. number' \in [InputIds -> Nat]
  BY <1>1, <1>2 DEF ShowRows, PgTypeOK
<1>4. earlier' \in [InputIds -> SUBSET InputIds]
  BY <1>1, <1>2 DEF ShowRows, PgTypeOK
<1> QED
  BY <1>3, <1>4 DEF ShowRows, PgTypeOK

(* The part of a write that is the same for all.                           *)
LEMMA CommitFacts ==
  ASSUME PgTypeOK, NEW o \in Owners, NEW req \in Requests, Commits(o, req)
  PROVE  /\ lastWriter' \in Nat
         /\ inFlight' \in [Owners -> SUBSET Requests]
         /\ lateWrites' \in [Owners -> Nat]
         /\ UNCHANGED <<lease, issued, token>>
<1> DEFINE wrote == entries' # entries \/ inputs' # inputs
<1>1. /\ inFlight' = [inFlight EXCEPT ![o] = @ \ {req}]
      /\ lastWriter' = IF wrote THEN token[o] ELSE lastWriter
      /\ lateWrites' = [lateWrites EXCEPT ![o] =
                          IF wrote /\ Fences(token[o]) THEN @ + 1 ELSE @]
      /\ UNCHANGED <<lease, issued, token>>
  BY DEF Commits
<1>2. token[o] \in Nat /\ lastWriter \in Nat /\ lateWrites[o] \in Nat
      /\ inFlight[o] \ {req} \in SUBSET Requests
  BY DEF PgTypeOK, TypeOK
<1> HIDE DEF wrote
<1>3. lastWriter' \in Nat
  BY <1>1, <1>2
<1>4. lateWrites' \in [Owners -> Nat]
  BY <1>1, <1>2 DEF PgTypeOK
<1>5. inFlight' \in [Owners -> SUBSET Requests]
  BY <1>1, <1>2 DEF PgTypeOK
<1> QED
  BY <1>1, <1>3, <1>4, <1>5

(* An open transaction of the ledger that ends leaves its transition.      *)
LEMMA EndsItsTransition ==
  ASSUME PgTypeOK, NEW o \in Owners, NEW req \in Requests, Write(o, req)
  PROVE  /\ writing' \in [Owners -> SUBSET Transactions]
         /\ \A p \in Owners : writing'[p] \subseteq inFlight'[p]
         /\ writing' = [writing EXCEPT ![o] = @ \ {req}]
<1>1. inFlight' = [inFlight EXCEPT ![o] = @ \ {req}]
  BY SingleWrites DEF Write, ApplyTransition, RollBack, Commits
<1>2. writing' = [writing EXCEPT ![o] = @ \ {req}]
  <2>1. CASE ApplyTransition(o, req) \/ RollBack(o, req)
    BY <2>1 DEF ApplyTransition, RollBack
  <2>2. CASE ~ (ApplyTransition(o, req) \/ RollBack(o, req))
    <3>1. writing' = writing /\ req.op # "commit_transition"
      BY <2>2, SingleWrites DEF Write
    <3>2. req \notin writing[o]
      BY <3>1, RequestFacts DEF PgTypeOK
    <3>3. writing[o] \ {req} = writing[o]
      BY <3>2
    <3> QED
      BY <3>1, <3>3 DEF PgTypeOK
  <2> QED
    BY <2>1, <2>2
<1> QED
  BY <1>1, <1>2 DEF PgTypeOK

LEMMA PgTypeWrites ==
  ASSUME PgTypeOK, NEW o \in Owners, NEW req \in Requests, Write(o, req)
  PROVE  PgTypeOK'
<1> DEFINE Queue == [InputIds -> {Unqueued} \cup [status : InputStatus, sequence : Nat]]
<1>1. entries \in [Keys -> Steps] /\ inputs \in Queue /\ inputSequence \in Nat
  BY DEF PgTypeOK, TypeOK
<1>2. Commits(o, req)
  BY SingleWrites DEF Write, ApplyTransition, RollBack
<1>a. /\ drafts' \subseteq Insertion
      /\ number' \in [InputIds -> Nat]
      /\ serial' \in Nat
      /\ earlier' \in [InputIds -> SUBSET InputIds]
  <2>1. CASE ApplyTransition(o, req)
    <3>1. ShowRows(Own({<<o, req>>})) /\ Own({<<o, req>>}) \in SUBSET drafts
      BY <2>1 DEF ApplyTransition, Own
    <3> QED
      BY <3>1, ShownIsTyped
  <2>2. CASE RollBack(o, req)
    BY <2>2 DEF RollBack, PgTypeOK
  <2>3. CASE ~ (ApplyTransition(o, req) \/ RollBack(o, req))
    BY <2>3, SingleWrites DEF Write, PgTypeOK
  <2> QED
    BY <2>1, <2>2, <2>3
<1>3. SUFFICES entries' \in [Keys -> Steps] /\ inputs' \in Queue /\ inputSequence' \in Nat
  <2>1. TypeOK'
    BY <1>2, CommitFacts DEF PgTypeOK, TypeOK
  <2> QED
    BY <1>2, <1>a, <2>1, CommitFacts, EndsItsTransition DEF PgTypeOK
<1>4. CASE InsertIntent(o, req) \/ DeleteIntent(o, req)
  <2>1. entries' \in [Keys -> Steps]
    <3>1. req.key \in Keys
      BY <1>4, RequestFacts DEF InsertIntent, DeleteIntent, Keys
    <3>2. CASE InsertIntent(o, req)
      BY <1>1, <3>1, <3>2 DEF InsertIntent, Steps
    <3>3. CASE DeleteIntent(o, req)
      BY <1>1, <3>1, <3>3 DEF DeleteIntent, Steps
    <3> QED
      BY <1>4, <3>2, <3>3
  <2> QED
    BY <1>1, <1>4, <2>1 DEF InsertIntent, DeleteIntent, CommitsKey
<1>5. CASE CompleteEffect(o, req) \/ UpsertControl(o, req)
  <2>1. req.value \in Values
    BY <1>5, RequestFacts DEF CompleteEffect, UpsertControl
  <2>2. entries' \in [Keys -> Steps]
    <3>1. Done(req.value) \in Steps
      BY <2>1 DEF Steps
    <3>2. CASE CompleteEffect(o, req)
      BY <1>1, <3>1, <3>2 DEF CompleteEffect
    <3>3. CASE UpsertControl(o, req)
      BY <1>1, <3>1, <3>3 DEF UpsertControl
    <3> QED
      BY <1>5, <3>2, <3>3
  <2> QED
    BY <1>1, <1>5, <2>2 DEF CompleteEffect, UpsertControl, CommitsKey
<1>6. CASE UpdateInput(o, req)
  <2>1. ASSUME NEW I, NEW status \in InputStatus, NEW except, Mark(I, status, except)
        PROVE  inputs' \in Queue
    BY <1>1, <2>1 DEF Mark, Queued, Unqueued
  <2> QED
    BY <1>1, <1>6, <2>1 DEF UpdateInput, InputStatus
<1>7. CASE ApplyTransition(o, req)
  <2>1. IsTransition(req.transition)
    BY <1>7, RequestFacts DEF ApplyTransition, PgTypeOK
  <2>2. \A S \in SUBSET Fresh(req.transition) : Cardinality(S) \in Nat
    BY <2>1, FreshIsFinite
  <2>3. entries' \in [Keys -> Steps]
    BY <1>1, <1>7, <2>1, CommittedIsTyped DEF ApplyTransition
  <2>4. \A i : Cardinality({m \in Fresh(req.transition) : m < Position(req.transition, i)}) \in Nat
    BY <2>2
  <2>5. inputs' \in Queue
    BY <1>1, <1>7, <2>4 DEF ApplyTransition, QueueAll, Queued, InputStatus
  <2>6. inputSequence' \in Nat
    BY <1>1, <1>7, <2>2 DEF ApplyTransition, QueueAll
  <2> QED
    BY <2>3, <2>5, <2>6
<1>8. CASE RollBack(o, req)
  BY <1>1, <1>8 DEF RollBack
<1> QED
  BY <1>4, <1>5, <1>6, <1>7, <1>8 DEF Write

(* The lease moves as in the store in memory.                              *)
LEMMA LeaseFacts ==
  ASSUME PgTypeOK, NEW o \in Owners, Acquire(o) \/ Release(o) \/ Expire
  PROVE  /\ TypeOK'
         /\ issued' >= issued
         /\ UNCHANGED <<entries, inputs, inputSequence, lastWriter>>
         /\ Acquire(o) => AcquireResult(o) \in Nat
<1>1. TypeOK
  BY DEF PgTypeOK
<1>2. TypeOK'
  BY <1>1, TypeNext DEF Next
<1> QED
  BY <1>1, <1>2 DEF TypeOK, Acquire, AcquireResult, Release, Expire

(* The steps of an insert that commit nothing.                             *)
RowStep ==
  \/ \E i \in InputIds : PgEnqueue(i)
  \/ \E o \in Owners : \E req \in inFlight[o] : InsertInput(o, req)
  \/ \E d \in drafts : HoldRow(d) \/ InsertNothing(d) \/ LoseEnqueue(d)

LEMMA RowFacts ==
  ASSUME PgTypeOK, RowStep
  PROVE  /\ UNCHANGED <<vars, token, inFlight, writing, number, earlier, lateWrites>>
         /\ drafts' \subseteq Insertion
         /\ serial' \in Nat
<1>1. ASSUME NEW i \in InputIds, NEW by \in SUBSET (Owners \X Requests), Draw(by, i)
      PROVE  drafts' \subseteq Insertion /\ serial' \in Nat
  <2> DEFINE row == [by |-> by, input |-> i, number |-> serial, held |-> FALSE,
                     after |-> InQueue \cup OwnInputs(by)]
  <2>1. InQueue \cup OwnInputs(by) \in SUBSET InputIds
    BY DEF InQueue, OwnInputs, Own, PgTypeOK, Insertion
  <2>2. serial \in Nat /\ drafts \subseteq Insertion
    BY DEF PgTypeOK
  <2>3. row \in Insertion
    BY <2>1, <2>2 DEF Insertion
  <2>4. drafts' = drafts \cup {row} /\ serial' = serial + 1
    BY <1>1 DEF Draw
  <2> HIDE DEF row
  <2> QED
    BY <2>2, <2>3, <2>4
<1>2. ASSUME NEW i \in InputIds, PgEnqueue(i)
      PROVE  drafts' \subseteq Insertion /\ serial' \in Nat
  BY <1>1, <1>2 DEF PgEnqueue
<1>3. ASSUME NEW o \in Owners, NEW req \in inFlight[o], InsertInput(o, req)
      PROVE  drafts' \subseteq Insertion /\ serial' \in Nat
  <2>1. req \in Requests /\ req \in writing[o] /\ req \in Transactions
    BY <1>3 DEF PgTypeOK, InsertInput
  <2>2. IsTransition(req.transition)
    BY <2>1, RequestFacts
  <2>3. PICK n \in Missing({<<o, req>>}, req.transition) :
          Draw({<<o, req>>}, req.transition.inputs[n])
    BY <1>3 DEF InsertInput
  <2>4. req.transition.inputs[n] \in InputIds
    <3>1. req.transition.inputs \in Seq(InputIds) /\ n \in DOMAIN req.transition.inputs
      BY <2>2, <2>3 DEF IsTransition, Missing, Fresh
    <3> QED
      BY <3>1
  <2> QED
    BY <1>1, <2>1, <2>3, <2>4
<1>4. ASSUME NEW d \in drafts, HoldRow(d) \/ InsertNothing(d) \/ LoseEnqueue(d)
      PROVE  drafts' \subseteq Insertion /\ serial' \in Nat
  <2>1. d \in Insertion /\ [d EXCEPT !.held = TRUE] \in Insertion
    BY DEF PgTypeOK, Insertion
  <2> QED
    BY <1>4, <2>1 DEF HoldRow, InsertNothing, LoseEnqueue, PgTypeOK
<1>5. UNCHANGED <<vars, token, inFlight, writing, number, earlier, lateWrites>>
  BY DEF RowStep, PgEnqueue, InsertInput, Draw, HoldRow, InsertNothing, LoseEnqueue
<1> QED
  BY <1>2, <1>3, <1>4, <1>5 DEF RowStep

LEMMA PgTypeNext == PgTypeOK /\ [PgNext]_pgVars => PgTypeOK'
<1> SUFFICES ASSUME PgTypeOK, [PgNext]_pgVars
             PROVE  PgTypeOK'
  OBVIOUS
<1>1. ASSUME NEW o \in Owners, PgAcquire(o) \/ PgRelease(o)
      PROVE  PgTypeOK'
  <2>1. CASE PgAcquire(o)
    <3>1. TypeOK' /\ AcquireResult(o) \in Nat
      BY <2>1, LeaseFacts DEF PgAcquire
    <3> QED
      BY <2>1, <3>1 DEF PgAcquire, PgTypeOK, numbering
  <2>2. CASE PgRelease(o)
    <3>1. TypeOK'
      BY <2>2, LeaseFacts DEF PgRelease
    <3> QED
      BY <2>2, <3>1 DEF PgRelease, PgTypeOK, numbering
  <2> QED
    BY <1>1, <2>1, <2>2
<1>2. ASSUME NEW o \in Owners, NEW req \in Requests, PassFence(o, req)
      PROVE  PgTypeOK'
  <2>1. TypeOK'
    BY <1>2 DEF PassFence, vars, PgTypeOK, TypeOK
  <2>2. /\ inFlight' \in [Owners -> SUBSET Requests]
        /\ \A p \in Owners : writing'[p] \subseteq inFlight'[p]
    BY <1>2 DEF PassFence, PgTypeOK
  <2> QED
    BY <1>2, <2>1, <2>2 DEF PassFence, PgTypeOK, numbering
<1>3. ASSUME NEW o \in Owners, NEW req \in inFlight[o], Write(o, req)
      PROVE  PgTypeOK'
  <2>1. req \in Requests
    BY DEF PgTypeOK
  <2> QED
    BY <1>3, <2>1, PgTypeWrites
<1>4. ASSUME NEW o \in Owners, NEW req \in inFlight[o], WriteTransition(o, req)
      PROVE  PgTypeOK'
  <2>1. TypeOK'
    BY <1>4 DEF WriteTransition, vars, PgTypeOK, TypeOK
  <2>2. req \in Transactions
    BY <1>4, RequestFacts DEF WriteTransition, PgTypeOK
  <2>3. /\ writing' \in [Owners -> SUBSET Transactions]
        /\ \A p \in Owners : writing'[p] \subseteq inFlight'[p]
    BY <1>4, <2>2 DEF WriteTransition, PgTypeOK
  <2> QED
    BY <1>4, <2>1, <2>3 DEF WriteTransition, PgTypeOK, numbering
<1>5. CASE RowStep
  BY <1>5, RowFacts DEF PgTypeOK, TypeOK, vars
<1>6. ASSUME NEW d \in drafts, CommitEnqueue(d)
      PROVE  PgTypeOK'
  <2>1. d.input \in InputIds
    BY DEF PgTypeOK, Insertion
  <2>2. TypeOK'
    BY <1>6, <2>1, TypeNext DEF CommitEnqueue, Next, PgTypeOK
  <2>3. ShowRows({d}) /\ {d} \in SUBSET drafts
    BY <1>6 DEF CommitEnqueue
  <2> QED
    BY <1>6, <2>2, <2>3, ShownIsTyped DEF CommitEnqueue, PgTypeOK
<1>7. CASE PgExpire
  <2>1. TypeOK'
    BY <1>7, TypeNext DEF PgExpire, Next, PgTypeOK
  <2> QED
    BY <1>7, <2>1 DEF PgExpire, PgTypeOK, numbering
<1>8. CASE UNCHANGED pgVars
  BY <1>8 DEF pgVars, vars, numbering, PgTypeOK, TypeOK
<1> QED
  BY <1>1, <1>2, <1>3, <1>4, <1>5, <1>6, <1>7, <1>8 DEF PgNext, Write, RowStep

(* The tables and the transactions in flight keep their types.             *)
THEOREM PgLedgerTypes == PgSpec => []PgTypeOK
  BY PgTypeInit, PgTypeNext, PTL DEF PgSpec

-----------------------------------------------------------------------------
(* Locks.                                                                  *)

(* What a transaction checked depends on the keys it locked alone.         *)
LEMMA ConflictsDependOnKeys ==
  ASSUME PgTypeOK, NEW x \in Open, ~ CommitConflicts(x[2].transition),
         \A k \in KeysOf(x) : entries'[k] = entries[k]
  PROVE  ~ CommitConflicts(x[2].transition)'
  BY DEF CommitConflicts, KeysOf, TransitionKeys

LEMMA LockInit == PgInit => LockInv
  BY DEF PgInit, LockInv, Open

LEMMA LockNext == PgTypeOK /\ LockInv /\ [PgNext]_pgVars => LockInv'
<1> SUFFICES ASSUME PgTypeOK, LockInv, [PgNext]_pgVars
             PROVE  LockInv'
  OBVIOUS
<1>1. ASSUME Open' \subseteq Open,
             \A x \in Open' : \A k \in KeysOf(x) : entries'[k] = entries[k]
      PROVE  LockInv'
  <2>1. \A x \in Open' : ~ CommitConflicts(x[2].transition)'
    BY <1>1, ConflictsDependOnKeys DEF LockInv
  <2>2. \A x, y \in Open' : x # y => KeysOf(x) \cap KeysOf(y) = {}
    BY <1>1 DEF LockInv
  <2> QED
    BY <2>1, <2>2 DEF LockInv, KeysOf, TransitionKeys
<1>2. ASSUME UNCHANGED <<entries, writing>>
      PROVE  LockInv'
  BY <1>1, <1>2 DEF Open
<1>3. ASSUME NEW o \in Owners, NEW req \in inFlight[o], Write(o, req)
      PROVE  LockInv'
  <2>0. req \in Requests
    BY DEF PgTypeOK
  <2>1. writing' = [writing EXCEPT ![o] = @ \ {req}]
    BY <1>3, <2>0, EndsItsTransition
  <2>2. Open' \subseteq Open /\ <<o, req>> \notin Open'
    BY <2>1 DEF Open, PgTypeOK
  <2>3. ASSUME NEW x \in Open', NEW k \in KeysOf(x)
        PROVE  entries'[k] = entries[k]
    <3>1. x \in Open /\ x # <<o, req>>
      BY <2>2
    <3>2. CASE \/ InsertIntent(o, req) \/ DeleteIntent(o, req)
               \/ CompleteEffect(o, req) \/ UpsertControl(o, req)
      <4>1. req.key \notin Locked
        BY <3>2 DEF InsertIntent, DeleteIntent, CompleteEffect, UpsertControl, CommitsKey
      <4>2. k \in Locked
        BY <3>1 DEF Open, KeysOf, Locked
      <4>3. PICK v : entries' = [entries EXCEPT ![req.key] = v]
        BY <3>2 DEF InsertIntent, DeleteIntent, CompleteEffect, UpsertControl
      <4> QED
        BY <4>1, <4>2, <4>3 DEF PgTypeOK, TypeOK
    <3>3. CASE UpdateInput(o, req) \/ RollBack(o, req)
      BY <3>3 DEF UpdateInput, RollBack
    <3>4. CASE ApplyTransition(o, req)
      <4>1. <<o, req>> \in Open /\ entries' = Committed(req.transition)
        BY <3>4 DEF ApplyTransition, Open, PgTypeOK
      <4>2. k \notin KeysOf(<<o, req>>)
        BY <3>1, <4>1 DEF LockInv
      <4>3. k \notin DOMAIN req.transition.controls /\ ~ \E e \in req.transition.effects : e.key = k
        BY <4>2 DEF KeysOf, TransitionKeys
      <4>4. k \in Keys
        <5>1. x[2] \in Requests /\ x[2] \in Transactions
          BY <3>1 DEF Open, PgTypeOK, Requests
        <5>2. IsTransition(x[2].transition)
          BY <5>1, RequestFacts
        <5> QED
          BY <5>2 DEF KeysOf, TransitionKeys, IsTransition, Completion, Keys
      <4> QED
        BY <4>1, <4>3, <4>4 DEF Committed
    <3> QED
      BY <1>3, <3>2, <3>3, <3>4 DEF Write
  <2> QED
    BY <1>1, <2>2, <2>3
<1>4. ASSUME NEW o \in Owners, NEW req \in inFlight[o], WriteTransition(o, req)
      PROVE  LockInv'
  <2>1. /\ entries' = entries
        /\ ~ CommitConflicts(req.transition)
        /\ TransitionKeys(req.transition) \cap Locked = {}
        /\ writing' = [writing EXCEPT ![o] = @ \cup {req}]
    BY <1>4 DEF WriteTransition, vars
  <2>2. \A x \in Open' : x \in Open \/ x = <<o, req>>
    BY <2>1 DEF Open, PgTypeOK
  <2>3. \A x \in Open : KeysOf(x) \subseteq Locked
    BY DEF Open, KeysOf, Locked
  <2>4. KeysOf(<<o, req>>) = TransitionKeys(req.transition)
    BY DEF KeysOf
  <2>5. \A x, y \in Open' : x # y => KeysOf(x) \cap KeysOf(y) = {}
    BY <2>1, <2>2, <2>3, <2>4 DEF LockInv
  <2>6. \A x \in Open' : ~ CommitConflicts(x[2].transition)
    BY <2>1, <2>2 DEF LockInv
  <2>7. \A x \in Open' : ~ CommitConflicts(x[2].transition)'
    BY <2>1, <2>6 DEF CommitConflicts
  <2> QED
    BY <2>5, <2>7 DEF LockInv, KeysOf, TransitionKeys
<1>5. CASE RowStep
  BY <1>2, <1>5, RowFacts DEF vars
<1>6. ASSUME NEW d \in drafts, CommitEnqueue(d)
      PROVE  LockInv'
  BY <1>2, <1>6 DEF CommitEnqueue, EnqueueInput
<1>7. ASSUME NEW o \in Owners, PgAcquire(o) \/ PgRelease(o)
      PROVE  LockInv'
  BY <1>2, <1>7 DEF PgAcquire, PgRelease, Acquire, Release
<1>8. ASSUME NEW o \in Owners, NEW req \in Requests, PassFence(o, req)
      PROVE  LockInv'
  BY <1>2, <1>8 DEF PassFence, vars
<1>9. CASE PgExpire \/ UNCHANGED pgVars
  BY <1>2, <1>9 DEF PgExpire, Expire, pgVars, vars
<1> QED
  BY <1>3, <1>4, <1>5, <1>6, <1>7, <1>8, <1>9 DEF PgNext, Write, RowStep

-----------------------------------------------------------------------------
(* Without the fence and the numbers the two stores agree.                 *)

LEMMA UnleasedInit == PgInit => Unleased!Init
  BY DEF PgInit, Init, Unleased!Init, Keys, Unleased!Keys, Absent, Unleased!Absent,
         Unqueued, Unleased!Unqueued

LEMMA UnleasedNext == PgTypeOK /\ LockInv /\ [PgNext]_pgVars => [Unleased!Next]_(Unleased!vars)
<1> SUFFICES ASSUME PgTypeOK, LockInv, [PgNext]_pgVars
             PROVE  [Unleased!Next]_(Unleased!vars)
  OBVIOUS
<1>1. ASSUME NEW o \in Owners, PgAcquire(o)
      PROVE  Unleased!Next
  <2>1. Unleased!Acquire(o)
    BY <1>1 DEF PgAcquire, Acquire, Unleased!Acquire, AcquireResult, Unleased!AcquireResult
  <2> QED
    BY <2>1 DEF Unleased!Next
<1>2. ASSUME NEW o \in Owners, PgRelease(o)
      PROVE  Unleased!Next
  <2>1. Unleased!Release(o)
    BY <1>2 DEF PgRelease, Release, Unleased!Release
  <2> QED
    BY <2>1 DEF Unleased!Next
<1>3. ASSUME UNCHANGED vars
      PROVE  UNCHANGED Unleased!vars
  BY <1>3 DEF vars, Unleased!vars
<1>4. ASSUME NEW o \in Owners, NEW req \in inFlight[o], Write(o, req)
      PROVE  [Unleased!Next]_(Unleased!vars)
  <2>1. req \in Requests
    BY DEF PgTypeOK
  <2> QED
    BY <1>4, <2>1, WritesAreOperations
<1>5. CASE PgExpire
  BY <1>5 DEF PgExpire, Expire, Unleased!Expire, Unleased!Next
<1>6. ASSUME NEW d \in drafts, CommitEnqueue(d)
      PROVE  Unleased!Next
  <2>1. d.input \in InputIds /\ EnqueueInput(d.input)
    BY <1>6 DEF CommitEnqueue, PgTypeOK, Insertion
  <2>2. Unleased!EnqueueInput(d.input)
    BY <2>1 DEF EnqueueInput, Unleased!EnqueueInput, Unqueued, Unleased!Unqueued,
                Queued, Unleased!Queued
  <2> QED
    BY <2>1, <2>2 DEF Unleased!Next
<1>7. CASE RowStep
  BY <1>3, <1>7, RowFacts
<1>8. ASSUME NEW o \in Owners, NEW req \in Requests, PassFence(o, req) \/ WriteTransition(o, req)
      PROVE  UNCHANGED vars
  BY <1>8 DEF PassFence, WriteTransition
<1>9. CASE UNCHANGED pgVars
  BY <1>3, <1>9 DEF pgVars
<1> QED
  <2>1. \A o \in Owners : inFlight[o] \subseteq Requests
    BY DEF PgTypeOK
  <2> QED
    BY <1>1, <1>2, <1>3, <1>4, <1>5, <1>6, <1>7, <1>8, <1>9, <2>1 DEF PgNext, Write, RowStep

(* Every transaction that commits is one operation of the store in memory, *)
(* called without a lease on the state it finds when it commits, up to the *)
(* numbers that order the inputs.                                          *)
THEOREM PgImplementsLedger == PgSpec => ImplementsUnleasedLedger
  BY PgTypeInit, PgTypeNext, LockInit, LockNext, UnleasedInit, UnleasedNext, PTL
  DEF PgSpec, ImplementsUnleasedLedger, Unleased!Spec

-----------------------------------------------------------------------------
(* The order of the inputs.  Numbers are distinct and below the bigserial, *)
(* and a row that becomes visible takes with it every row it was inserted  *)
(* after: those of its own transition, which holds all of its ids.         *)

FirstOf(i, tr) ==
  \E n \in DOMAIN tr.inputs :
    tr.inputs[n] = i /\ \A m \in 1 .. n - 1 : tr.inputs[m] # tr.inputs[n]

NumberInv ==
  /\ \A d \in drafts : d.number < serial
  /\ \A i \in InQueue : number[i] < serial
  /\ \A d, e \in drafts : d.number = e.number => d = e
  /\ \A d \in drafts, i \in InQueue : d.number # number[i]
  /\ \A i, j \in InQueue : number[i] = number[j] => i = j

HoldInv ==
  /\ \A d \in drafts : d.held => d.input \notin InQueue
  /\ \A d, e \in drafts : d.held /\ e.held /\ d.input = e.input => d = e
  /\ \A d \in drafts : \A x \in d.by : FirstOf(d.input, x[2].transition)

SmallerRow(d, j) ==
  \E e \in drafts :
    e.by # {} /\ e.by = d.by /\ e.held /\ e.input = j /\ e.number < d.number

AfterInv ==
  /\ \A d \in drafts : \A j \in d.after :
       (j \in InQueue /\ number[j] < d.number) \/ SmallerRow(d, j)
  /\ \A i \in InQueue : \A j \in earlier[i] : j \in InQueue /\ number[j] < number[i]

OrderInv == NumberInv /\ HoldInv /\ AfterInv

LEMMA OrderInit == PgInit => OrderInv
<1> SUFFICES ASSUME PgInit
             PROVE  OrderInv
  OBVIOUS
<1>1. drafts = {} /\ InQueue = {}
  BY DEF PgInit, Init, InQueue
<1> QED
  BY <1>1 DEF OrderInv, NumberInv, HoldInv, AfterInv

(* Rows that are held become visible together with those before them.      *)
LEMMA ShowKeepsOrder ==
  ASSUME PgTypeOK, OrderInv, NEW D \in SUBSET drafts, ShowRows(D),
         \A d \in D : d.held,
         InQueue' = InQueue \cup {d.input : d \in D},
         \A d \in D, e \in drafts : e.by # {} /\ e.by = d.by => e \in D,
         \A d \in drafts \ D, e \in D : e.by # {} => e.by # d.by
  PROVE  OrderInv'
<1>1. drafts' = drafts \ D /\ serial' = serial
  BY DEF ShowRows
<1>2. /\ \A d \in drafts : d.number \in Nat /\ d.input \in InputIds
      /\ serial \in Nat
      /\ \A i \in InputIds : number[i] \in Nat
      /\ InQueue \subseteq InputIds
  BY DEF PgTypeOK, Insertion, InQueue
<1>3. ASSUME NEW d \in D
      PROVE  number'[d.input] = d.number /\ earlier'[d.input] = d.after
  <2>1. \A e \in D : e.input = d.input => e = d
    BY DEF OrderInv, HoldInv
  <2>2. (CHOOSE e \in D : e.input = d.input) = d
    BY <2>1
  <2>3. d.input \in InputIds
    BY <1>2
  <2> QED
    BY <2>2, <2>3 DEF ShowRows
<1>4. ASSUME NEW i \in InQueue
      PROVE  number'[i] = number[i] /\ earlier'[i] = earlier[i]
  <2>1. ~ \E d \in D : d.input = i
    BY DEF OrderInv, HoldInv
  <2>2. i \in InputIds
    BY <1>2
  <2> QED
    BY <2>1, <2>2 DEF ShowRows
<1>5. ASSUME NEW i \in InQueue'
      PROVE  i \in InQueue \/ \E d \in D : i = d.input
  OBVIOUS
<1>6. NumberInv'
  <2>1. \A i \in InQueue' : number'[i] < serial
    BY <1>3, <1>4, <1>5 DEF OrderInv, NumberInv
  <2>2. \A d \in drafts', i \in InQueue' : d.number # number'[i]
    BY <1>1, <1>3, <1>4, <1>5 DEF OrderInv, NumberInv
  <2>3. \A i, j \in InQueue' : number'[i] = number'[j] => i = j
    BY <1>3, <1>4, <1>5 DEF OrderInv, NumberInv
  <2> QED
    BY <1>1, <2>1, <2>2, <2>3 DEF OrderInv, NumberInv
<1>7. HoldInv'
  <2>1. \A d \in drafts' : d.held => d.input \notin InQueue'
    BY <1>1, <1>5 DEF OrderInv, HoldInv
  <2>2. \A d \in drafts' : \A x \in d.by : FirstOf(d.input, x[2].transition)
    BY <1>1 DEF OrderInv, HoldInv
  <2> QED
    BY <1>1, <2>1, <2>2 DEF OrderInv, HoldInv, FirstOf
<1>8. ASSUME NEW d \in drafts, NEW j \in d.after
      PROVE  \/ j \in InQueue' /\ number'[j] < d.number
             \/ d \notin D /\ SmallerRow(d, j)'
  <2>1. CASE j \in InQueue /\ number[j] < d.number
    BY <1>4, <2>1
  <2>2. CASE SmallerRow(d, j)
    <3>1. PICK e \in drafts :
            e.by # {} /\ e.by = d.by /\ e.held /\ e.input = j /\ e.number < d.number
      BY <2>2 DEF SmallerRow
    <3>2. CASE d \in D
      <4>1. e \in D
        BY <3>1, <3>2
      <4> QED
        BY <1>3, <3>1, <4>1
    <3>3. CASE d \notin D
      <4>1. e \in drafts'
        BY <1>1, <3>1, <3>3
      <4> QED
        BY <3>1, <3>3, <4>1 DEF SmallerRow
    <3> QED
      BY <3>2, <3>3
  <2> QED
    BY <2>1, <2>2 DEF OrderInv, AfterInv
<1>9. AfterInv'
  <2>1. \A d \in drafts' : \A j \in d.after :
          (j \in InQueue' /\ number'[j] < d.number) \/ SmallerRow(d, j)'
    BY <1>1, <1>8
  <2>2. ASSUME NEW i \in InQueue', NEW j \in earlier'[i]
        PROVE  j \in InQueue' /\ number'[j] < number'[i]
    <3>1. CASE i \in InQueue
      <4>1. j \in InQueue /\ number[j] < number[i]
        BY <1>4, <3>1 DEF OrderInv, AfterInv
      <4> QED
        BY <1>4, <3>1, <4>1
    <3>2. CASE \E d \in D : i = d.input
      <4>1. PICK d \in D : i = d.input
        BY <3>2
      <4>2. j \in d.after /\ number'[i] = d.number
        BY <1>3, <4>1
      <4> QED
        BY <1>8, <4>1, <4>2
    <3> QED
      BY <1>5, <3>1, <3>2
  <2> QED
    BY <2>1, <2>2 DEF AfterInv, SmallerRow
<1> QED
  BY <1>6, <1>7, <1>9 DEF OrderInv

(* A row just drawn has the largest number yet, and comes after rows that  *)
(* are visible or held by its own transition.                              *)
LEMMA DrawKeepsOrder ==
  ASSUME PgTypeOK, OrderInv, NEW by, NEW i, Draw(by, i),
         \A e \in Own(by) : e.held,
         \A x \in by : FirstOf(i, x[2].transition)
  PROVE  OrderInv'
<1> DEFINE row == [by |-> by, input |-> i, number |-> serial, held |-> FALSE,
                   after |-> InQueue \cup OwnInputs(by)]
<1>1. drafts' = drafts \cup {row} /\ serial' = serial + 1
  BY DEF Draw
<1>2. UNCHANGED <<inputs, number, earlier>> /\ InQueue' = InQueue
  BY DEF Draw, vars, InQueue
<1>3. /\ row.by = by /\ row.input = i /\ row.number = serial /\ row.held = FALSE
      /\ row.after = InQueue \cup OwnInputs(by)
  OBVIOUS
<1>4. /\ \A d \in drafts : d.number \in Nat
      /\ serial \in Nat
      /\ \A j \in InQueue : number[j] \in Nat
  BY DEF PgTypeOK, Insertion, InQueue
<1> HIDE DEF row
<1>5. NumberInv'
  BY <1>1, <1>2, <1>3, <1>4 DEF OrderInv, NumberInv
<1>6. HoldInv'
  <2>1. \A d \in drafts' : d.held => d \in drafts
    BY <1>1, <1>3
  <2>2. \A d \in drafts' : \A x \in d.by : FirstOf(d.input, x[2].transition)
    BY <1>1, <1>3 DEF OrderInv, HoldInv
  <2> QED
    BY <1>2, <2>1, <2>2 DEF OrderInv, HoldInv, FirstOf
<1>7. AfterInv'
  <2>1. ASSUME NEW d \in drafts', NEW j \in d.after
        PROVE  (j \in InQueue /\ number[j] < d.number) \/ SmallerRow(d, j)'
    <3>1. CASE d \in drafts
      <4>1. SmallerRow(d, j) => SmallerRow(d, j)'
        BY <1>1 DEF SmallerRow
      <4> QED
        BY <3>1, <4>1 DEF OrderInv, AfterInv
    <3>2. CASE d = row /\ j \in InQueue
      BY <1>3, <3>2 DEF OrderInv, NumberInv
    <3>3. CASE d = row /\ j \in OwnInputs(by)
      <4>1. PICK e \in Own(by) : e.input = j
        BY <3>3 DEF OwnInputs
      <4>2. e \in drafts /\ e.by # {} /\ e.by = by /\ e.held /\ e.number < serial
        BY DEF Own, OrderInv, NumberInv
      <4> QED
        BY <1>1, <1>3, <3>3, <4>1, <4>2 DEF SmallerRow
    <3> QED
      BY <1>1, <1>3, <3>1, <3>2, <3>3
  <2>2. \A k \in InQueue' : \A j \in earlier'[k] : j \in InQueue' /\ number'[j] < number'[k]
    BY <1>2 DEF OrderInv, AfterInv
  <2> QED
    BY <1>2, <2>1, <2>2 DEF AfterInv, SmallerRow
<1> QED
  BY <1>5, <1>6, <1>7 DEF OrderInv

(* Rows that are lost, or were never inserted, are not missed.             *)
LEMMA LossKeepsOrder ==
  ASSUME OrderInv, NEW D \in SUBSET drafts, drafts' = drafts \ D,
         UNCHANGED <<number, serial, earlier>>, InQueue' = InQueue,
         \A d \in drafts \ D, e \in D : e.by # {} /\ e.held => e.by # d.by
  PROVE  OrderInv'
<1>1. NumberInv'
  BY DEF OrderInv, NumberInv
<1>2. HoldInv'
  BY DEF OrderInv, HoldInv, FirstOf
<1>3. \A d \in drafts' : \A j : SmallerRow(d, j) => SmallerRow(d, j)'
  BY DEF SmallerRow
<1>4. AfterInv'
  <2>1. \A d \in drafts' : \A j \in d.after :
          (j \in InQueue' /\ number'[j] < d.number) \/ SmallerRow(d, j)'
    BY <1>3 DEF OrderInv, AfterInv
  <2>2. \A i \in InQueue' : \A j \in earlier'[i] : j \in InQueue' /\ number'[j] < number'[i]
    BY DEF OrderInv, AfterInv
  <2> QED
    BY <2>1, <2>2 DEF AfterInv, SmallerRow
<1> QED
  BY <1>1, <1>2, <1>4 DEF OrderInv

LEMMA HoldKeepsOrder ==
  ASSUME PgTypeOK, OrderInv, NEW d \in drafts, HoldRow(d)
  PROVE  OrderInv'
<1> DEFINE row == [d EXCEPT !.held = TRUE]
<1>1. drafts' = (drafts \ {d}) \cup {row} /\ UNCHANGED <<number, serial, earlier, inputs>>
  BY DEF HoldRow, vars
<1>2. /\ row.by = d.by /\ row.input = d.input /\ row.number = d.number /\ row.held = TRUE
      /\ row.after = d.after
  BY DEF PgTypeOK, Insertion
<1>3. ~ d.held /\ d.input \notin InQueue /\ \A e \in drafts : e.held => e.input # d.input
  BY DEF HoldRow, InQueue
<1>4. InQueue' = InQueue
  BY <1>1 DEF InQueue
<1> HIDE DEF row
<1>5. NumberInv'
  BY <1>1, <1>2, <1>4 DEF OrderInv, NumberInv
<1>6. HoldInv'
  <2>1. \A e \in drafts' : e.held => e.input \notin InQueue
    BY <1>1, <1>2, <1>3 DEF OrderInv, HoldInv
  <2>2. \A e, f \in drafts' : e.held /\ f.held /\ e.input = f.input => e = f
    BY <1>1, <1>2, <1>3 DEF OrderInv, HoldInv
  <2>3. \A e \in drafts' : \A x \in e.by : FirstOf(e.input, x[2].transition)
    BY <1>1, <1>2 DEF OrderInv, HoldInv
  <2> QED
    BY <1>4, <2>1, <2>2, <2>3 DEF HoldInv, FirstOf
<1>7. AfterInv'
  <2>1. \A e \in drafts : \A j : SmallerRow(e, j) =>
          \E f \in drafts' : f.by # {} /\ f.by = e.by /\ f.held /\ f.input = j /\ f.number < e.number
    BY <1>1, <1>3 DEF SmallerRow
  <2>2. \A e \in drafts' : \A j \in e.after :
          \/ j \in InQueue /\ number[j] < e.number
          \/ \E f \in drafts' : f.by # {} /\ f.by = e.by /\ f.held /\ f.input = j
                                /\ f.number < e.number
    BY <1>1, <1>2, <2>1 DEF OrderInv, AfterInv
  <2>3. \A i \in InQueue' : \A j \in earlier'[i] : j \in InQueue' /\ number'[j] < number'[i]
    BY <1>1, <1>4 DEF OrderInv, AfterInv
  <2> QED
    BY <1>1, <1>4, <2>2, <2>3 DEF AfterInv, SmallerRow
<1> QED
  BY <1>5, <1>6, <1>7 DEF OrderInv

(* The updates of ledger_input neither queue an input nor take one out.    *)
LEMMA MarkKeepsQueue ==
  ASSUME PgTypeOK, NEW I, NEW status \in InputStatus, NEW except, Mark(I, status, except)
  PROVE  InQueue' = InQueue
<1>1. \A i \in InputIds : inputs[i] \in {Unqueued} \cup [status : InputStatus, sequence : Nat]
  BY DEF PgTypeOK, TypeOK
<1>2. \A n : Queued(status, n) # Unqueued
  BY DEF InputStatus, Queued, Unqueued
<1>3. \A i \in InputIds : inputs[i].status \notin except \cup {"unqueued"} => inputs[i] # Unqueued
  BY DEF Unqueued
<1>4. \A i \in InputIds : inputs'[i] = Unqueued <=> inputs[i] = Unqueued
  BY <1>2, <1>3 DEF Mark
<1> QED
  BY <1>4 DEF InQueue

(* A transition commits when it holds the row of every id it submits.      *)
LEMMA ApplyKeepsOrder ==
  ASSUME PgTypeOK, OrderInv, NEW o \in Owners, NEW req, ApplyTransition(o, req)
  PROVE  OrderInv'
<1> DEFINE by == {<<o, req>>}
           D == Own(by)
           tr == req.transition
<1>1. /\ D \in SUBSET drafts
      /\ ShowRows(D)
      /\ \A d \in D : d.held
  BY DEF ApplyTransition, Own, Inserted
<1>2. \A d \in D : d.by = by /\ d.by # {}
  BY DEF Own
<1>3. \A e \in drafts : e.by # {} /\ e.by = by => e \in D
  BY DEF Own
<1>4. \A d \in D : \E n \in Fresh(tr) : tr.inputs[n] = d.input
  <2> SUFFICES ASSUME NEW d \in D
               PROVE  \E n \in Fresh(tr) : tr.inputs[n] = d.input
    OBVIOUS
  <2>1. FirstOf(d.input, tr)
    <3>1. <<o, req>> \in d.by /\ <<o, req>>[2] = req /\ d \in drafts
      BY <1>1, <1>2
    <3>2. FirstOf(d.input, <<o, req>>[2].transition)
      BY <3>1 DEF OrderInv, HoldInv
    <3> QED
      BY <3>1, <3>2
  <2>2. d.input \notin InQueue /\ d.input \in InputIds
    BY <1>1 DEF OrderInv, HoldInv, PgTypeOK, Insertion
  <2>3. inputs[d.input] = Unqueued
    BY <2>2 DEF InQueue
  <2> QED
    BY <2>1, <2>3 DEF FirstOf, Fresh
<1>5. \A n \in Fresh(tr) : \E d \in D : d.input = tr.inputs[n]
  BY DEF ApplyTransition, Missing, OwnInputs
<1>6. InQueue' = InQueue \cup {d.input : d \in D}
  <2>1. \A i \in InputIds : (\E n \in Fresh(tr) : tr.inputs[n] = i) <=> \E d \in D : d.input = i
    BY <1>4, <1>5
  <2>2. \A n : Queued("pending", n) # Unqueued
    BY DEF Queued, Unqueued
  <2>3. \A i \in InputIds : inputs'[i] # Unqueued <=>
          inputs[i] # Unqueued \/ \E n \in Fresh(tr) : tr.inputs[n] = i
    BY <2>2 DEF ApplyTransition, QueueAll
  <2>4. \A d \in D : d.input \in InputIds
    BY <1>1 DEF PgTypeOK, Insertion
  <2> HIDE DEF D, tr
  <2> QED
    BY <2>1, <2>3, <2>4 DEF InQueue
<1> HIDE DEF D, by, tr
<1> QED
  BY <1>1, <1>2, <1>3, <1>6, ShowKeepsOrder

LEMMA OrderNext == PgTypeOK /\ OrderInv /\ [PgNext]_pgVars => OrderInv'
<1> SUFFICES ASSUME PgTypeOK, OrderInv, [PgNext]_pgVars
             PROVE  OrderInv'
  OBVIOUS
<1>1. ASSUME InQueue' = InQueue, UNCHANGED <<drafts, number, serial, earlier>>
      PROVE  OrderInv'
  <2>1. {} \in SUBSET drafts /\ drafts' = drafts \ {}
    BY <1>1
  <2> QED
    BY <1>1, <2>1, LossKeepsOrder
<1>2. ASSUME NEW i \in InputIds, PgEnqueue(i)
      PROVE  OrderInv'
  <2>1. Own({}) = {} /\ Draw({}, i)
    BY <1>2 DEF Own, PgEnqueue
  <2> QED
    BY <2>1, DrawKeepsOrder
<1>3. ASSUME NEW o \in Owners, NEW req \in inFlight[o], InsertInput(o, req)
      PROVE  OrderInv'
  <2>1. PICK n \in Missing({<<o, req>>}, req.transition) :
          Draw({<<o, req>>}, req.transition.inputs[n])
    BY <1>3 DEF InsertInput
  <2>2. \A e \in Own({<<o, req>>}) : e.held
    BY <1>3 DEF InsertInput, Inserted
  <2>3. FirstOf(req.transition.inputs[n], req.transition)
    BY DEF Missing, Fresh, FirstOf
  <2>4. \A x \in {<<o, req>>} : FirstOf(req.transition.inputs[n], x[2].transition)
    BY <2>3
  <2> DEFINE mine == {<<o, req>>}
             new == req.transition.inputs[n]
  <2>5. /\ Draw(mine, new)
        /\ \A e \in Own(mine) : e.held
        /\ \A x \in mine : FirstOf(new, x[2].transition)
    BY <2>1, <2>2, <2>4
  <2> HIDE DEF mine, new
  <2> QED
    BY <2>5, DrawKeepsOrder
<1>4. ASSUME NEW d \in drafts, HoldRow(d)
      PROVE  OrderInv'
  BY <1>4, HoldKeepsOrder
<1>5. ASSUME NEW d \in drafts, InsertNothing(d) \/ LoseEnqueue(d)
      PROVE  OrderInv'
  <2>1. /\ drafts' = drafts \ {d} /\ {d} \in SUBSET drafts
        /\ UNCHANGED <<number, serial, earlier, inputs>>
        /\ ~ d.held \/ d.by = {}
    BY <1>5 DEF InsertNothing, LoseEnqueue, vars
  <2>2. InQueue' = InQueue
    BY <2>1 DEF InQueue
  <2> QED
    BY <2>1, <2>2, LossKeepsOrder
<1>6. ASSUME NEW d \in drafts, CommitEnqueue(d)
      PROVE  OrderInv'
  <2>1. d.by = {} /\ d.held /\ ShowRows({d}) /\ {d} \in SUBSET drafts /\ d.input \in InputIds
    BY <1>6 DEF CommitEnqueue, PgTypeOK, Insertion
  <2>2. InQueue' = InQueue \cup {e.input : e \in {d}}
    <3>1. Queued("pending", inputSequence) # Unqueued
      BY DEF Queued, Unqueued
    <3>2. inputs' = [inputs EXCEPT ![d.input] = Queued("pending", inputSequence)]
      BY <1>6 DEF CommitEnqueue, EnqueueInput
    <3>3. inputs \in [InputIds -> {Unqueued} \cup [status : InputStatus, sequence : Nat]]
      BY DEF PgTypeOK, TypeOK
    <3> QED
      BY <2>1, <3>1, <3>2, <3>3 DEF InQueue
  <2> QED
    BY <2>1, <2>2, ShowKeepsOrder
<1>7. ASSUME NEW o \in Owners, NEW req \in inFlight[o], Write(o, req)
      PROVE  OrderInv'
  <2>1. CASE \/ InsertIntent(o, req) \/ DeleteIntent(o, req)
             \/ CompleteEffect(o, req) \/ UpsertControl(o, req)
    <3>1. inputs' = inputs
      BY <2>1 DEF InsertIntent, DeleteIntent, CompleteEffect, UpsertControl, CommitsKey
    <3>2. InQueue' = InQueue
      BY <3>1 DEF InQueue
    <3> QED
      BY <1>1, <2>1, <3>2, SingleWrites
  <2>2. CASE UpdateInput(o, req)
    <3>1. InQueue' = InQueue
      BY <2>2, MarkKeepsQueue DEF UpdateInput, InputStatus
    <3> QED
      BY <1>1, <2>2, <3>1, SingleWrites
  <2>3. CASE ApplyTransition(o, req)
    BY <2>3, ApplyKeepsOrder
  <2>4. CASE RollBack(o, req)
    <3>1. /\ drafts' = drafts \ Own({<<o, req>>})
          /\ Own({<<o, req>>}) \in SUBSET drafts
          /\ UNCHANGED <<number, serial, earlier, inputs>>
      BY <2>4 DEF RollBack, Own
    <3>2. InQueue' = InQueue
      BY <3>1 DEF InQueue
    <3>3. \A d \in drafts \ Own({<<o, req>>}), e \in Own({<<o, req>>}) :
            e.by # {} /\ e.held => e.by # d.by
      BY DEF Own
    <3> QED
      BY <3>1, <3>2, <3>3, LossKeepsOrder
  <2> QED
    BY <1>7, <2>1, <2>2, <2>3, <2>4 DEF Write
<1>8. ASSUME NEW o \in Owners, PgAcquire(o) \/ PgRelease(o)
      PROVE  OrderInv'
  <2>1. inputs' = inputs /\ UNCHANGED <<drafts, number, serial, earlier>>
    BY <1>8 DEF PgAcquire, PgRelease, Acquire, Release, numbering
  <2> QED
    BY <1>1, <2>1 DEF InQueue
<1>9. ASSUME NEW o \in Owners, NEW req \in Requests, PassFence(o, req) \/ WriteTransition(o, req)
      PROVE  OrderInv'
  <2>1. inputs' = inputs /\ UNCHANGED <<drafts, number, serial, earlier>>
    BY <1>9 DEF PassFence, WriteTransition, vars, numbering
  <2> QED
    BY <1>1, <2>1 DEF InQueue
<1>10. CASE PgExpire \/ UNCHANGED pgVars
  <2>1. inputs' = inputs /\ UNCHANGED <<drafts, number, serial, earlier>>
    BY <1>10 DEF PgExpire, Expire, pgVars, vars, numbering
  <2> QED
    BY <1>1, <2>1 DEF InQueue
<1> QED
  <2>1. \A o \in Owners : inFlight[o] \subseteq Requests
    BY DEF PgTypeOK
  <2> QED
    BY <1>2, <1>3, <1>4, <1>5, <1>6, <1>7, <1>8, <1>9, <1>10, <2>1 DEF PgNext, Write

(* However transactions overlap, commit and are lost, an input that was in *)
(* the queue when another was inserted is listed before it, and no two     *)
(* inputs share a number.                                                  *)
THEOREM SubmissionsListedInOrder == PgSpec => []ListedInOrder
<1>1. OrderInv => ListedInOrder
  BY DEF OrderInv, NumberInv, AfterInv, ListedInOrder
<1> QED
  BY <1>1, PgTypeInit, PgTypeNext, OrderInit, OrderNext, PTL DEF PgSpec

-----------------------------------------------------------------------------
(* Late writes.  A worker that may still pass the fence has none; one that *)
(* was replaced pays for each with a transaction it had in flight.         *)

LateInv ==
  \A o \in Owners :
    /\ IsFiniteSet(inFlight[o]) /\ Cardinality(inFlight[o]) <= MaxInFlight
    /\ token[o] = 0 => inFlight[o] = {}
    /\ ~ Fences(token[o]) => lateWrites[o] = 0
    /\ lateWrites[o] + Cardinality(inFlight[o]) <= MaxInFlight

LEMMA LateInit == PgInit => LateInv
  BY FS_EmptySet, PgLedgerAssumption DEF PgInit, LateInv

LEMMA LateNext == PgTypeOK /\ LateInv /\ [PgNext]_pgVars => LateInv'
<1> SUFFICES ASSUME PgTypeOK, LateInv, [PgNext]_pgVars
             PROVE  LateInv'
  OBVIOUS
<1> USE DEF PgTypeOK
<1>0. issued \in Nat
  BY DEF TypeOK
<1>1. ASSUME issued' \in Nat, issued' >= issued, UNCHANGED <<token, inFlight, lateWrites>>
      PROVE  LateInv'
  BY <1>0, <1>1 DEF LateInv, Fences
<1>2. ASSUME NEW o \in Owners, PgAcquire(o)
      PROVE  LateInv'
  <2>1. issued' \in Nat /\ issued' >= issued
    BY <1>2, LeaseFacts DEF PgAcquire, TypeOK
  <2>2. UNCHANGED <<inFlight, lateWrites>> /\ \A p \in Owners : token[p] # 0 => token'[p] = token[p]
    BY <1>2 DEF PgAcquire
  <2>3. \A p \in Owners : token[p] = 0 => lateWrites[p] = 0 /\ inFlight[p] = {}
    BY DEF LateInv, Fences
  <2>4. \A p \in Owners : ~ Fences(token[p])' => lateWrites[p] = 0
    BY <1>0, <2>1, <2>2, <2>3 DEF LateInv, Fences
  <2>5. \A p \in Owners : token'[p] = 0 => inFlight[p] = {}
    BY <2>2, <2>3
  <2> QED
    BY <2>2, <2>4, <2>5 DEF LateInv
<1>3. ASSUME NEW o \in Owners, PgRelease(o)
      PROVE  LateInv'
  <2>1. issued' = issued
    BY <1>3 DEF PgRelease, Release
  <2>2. /\ inFlight' = inFlight /\ inFlight[o] = {}
        /\ token' = [token EXCEPT ![o] = 0]
        /\ lateWrites' = [lateWrites EXCEPT ![o] = 0]
    BY <1>3 DEF PgRelease
  <2>3. Cardinality(inFlight[o]) <= MaxInFlight /\ Cardinality(inFlight[o]) \in Nat
    BY FS_CardinalityType DEF LateInv
  <2>4. \A p \in Owners : p # o =>
          inFlight'[p] = inFlight[p] /\ token'[p] = token[p] /\ lateWrites'[p] = lateWrites[p]
    BY <2>2
  <2>5. token'[o] = 0 /\ lateWrites'[o] = 0 /\ inFlight'[o] = {}
    BY <2>2
  <2>6. Cardinality(inFlight'[o]) <= MaxInFlight /\ 0 + Cardinality(inFlight'[o]) <= MaxInFlight
    BY <2>2, <2>3, PgLedgerAssumption
  <2>7. IsFiniteSet(inFlight'[o])
    BY <2>2 DEF LateInv
  <2> HIDE DEF PgTypeOK
  <2> QED
    BY <2>1, <2>2, <2>4, <2>5, <2>6, <2>7 DEF LateInv, Fences
<1>4. ASSUME NEW o \in Owners, NEW req \in Requests, PassFence(o, req)
      PROVE  LateInv'
  <2>1. /\ inFlight' = [inFlight EXCEPT ![o] = @ \cup {req}]
        /\ token[o] # 0 /\ ~ Fences(token[o]) /\ Cardinality(inFlight[o]) < MaxInFlight
        /\ UNCHANGED <<token, lateWrites, issued>>
    BY <1>4 DEF PassFence, vars
  <2>2. IsFiniteSet(inFlight[o]) /\ lateWrites[o] = 0 /\ Cardinality(inFlight[o]) \in Nat
    BY <2>1, FS_CardinalityType DEF LateInv
  <2>3. /\ IsFiniteSet(inFlight[o] \cup {req})
        /\ Cardinality(inFlight[o] \cup {req}) \in
             {Cardinality(inFlight[o]), Cardinality(inFlight[o]) + 1}
    BY <2>2, FS_AddElement
  <2>4. Cardinality(inFlight[o] \cup {req}) <= MaxInFlight
    BY <2>1, <2>2, <2>3, PgLedgerAssumption
  <2>5. inFlight'[o] = inFlight[o] \cup {req}
    BY <2>1
  <2>6. \A p \in Owners : p # o => inFlight'[p] = inFlight[p]
    BY <2>1
  <2>7. /\ IsFiniteSet(inFlight'[o]) /\ Cardinality(inFlight'[o]) <= MaxInFlight
        /\ lateWrites[o] + Cardinality(inFlight'[o]) <= MaxInFlight
    BY <2>2, <2>3, <2>4, <2>5
  <2> QED
    BY <2>1, <2>2, <2>6, <2>7 DEF LateInv, Fences
<1>5. ASSUME NEW o \in Owners, NEW req \in inFlight[o], Write(o, req)
      PROVE  LateInv'
  <2>1. Commits(o, req)
    BY <1>5, SingleWrites DEF Write, ApplyTransition, RollBack
  <2>2. /\ inFlight' = [inFlight EXCEPT ![o] = @ \ {req}]
        /\ UNCHANGED <<token, issued>>
    BY <2>1 DEF Commits
  <2>3. PICK n \in {0, 1} :
          /\ lateWrites' = [lateWrites EXCEPT ![o] = @ + n]
          /\ ~ Fences(token[o]) => n = 0
    <3>1. \/ lateWrites' = [lateWrites EXCEPT ![o] = @ + 1] /\ Fences(token[o])
          \/ lateWrites' = [lateWrites EXCEPT ![o] = @]
      BY <2>1 DEF Commits
    <3>2. [lateWrites EXCEPT ![o] = @] = [lateWrites EXCEPT ![o] = @ + 0]
      <4>1. lateWrites[o] \in Nat /\ lateWrites[o] + 0 = lateWrites[o]
        OBVIOUS
      <4> QED
        BY <4>1
    <3> QED
      BY <3>1, <3>2
  <2>4. IsFiniteSet(inFlight[o]) /\ lateWrites[o] + Cardinality(inFlight[o]) <= MaxInFlight
        /\ Cardinality(inFlight[o]) <= MaxInFlight
    BY DEF LateInv
  <2>5. /\ IsFiniteSet(inFlight[o] \ {req})
        /\ Cardinality(inFlight[o] \ {req}) = Cardinality(inFlight[o]) - 1
        /\ Cardinality(inFlight[o]) \in Nat
    BY <1>5, <2>4, FS_RemoveElement, FS_CardinalityType
  <2>6. /\ inFlight'[o] = inFlight[o] \ {req}
        /\ lateWrites'[o] = lateWrites[o] + n
        /\ \A p \in Owners : p # o => inFlight'[p] = inFlight[p] /\ lateWrites'[p] = lateWrites[p]
    BY <2>2, <2>3
  <2>7. /\ IsFiniteSet(inFlight'[o]) /\ Cardinality(inFlight'[o]) <= MaxInFlight
        /\ lateWrites'[o] + Cardinality(inFlight'[o]) <= MaxInFlight
    BY <2>4, <2>5, <2>6, PgLedgerAssumption
  <2>8. token[o] # 0 /\ (~ Fences(token[o]) => lateWrites'[o] = 0)
    BY <1>5, <2>3, <2>6 DEF LateInv
  <2> QED
    BY <2>2, <2>6, <2>7, <2>8 DEF LateInv, Fences
<1>6. ASSUME NEW o \in Owners, NEW req \in Requests, WriteTransition(o, req)
      PROVE  LateInv'
  BY <1>0, <1>1, <1>6 DEF WriteTransition, vars
<1>7. CASE RowStep
  BY <1>0, <1>1, <1>7, RowFacts DEF vars
<1>8. ASSUME NEW d \in drafts, CommitEnqueue(d)
      PROVE  LateInv'
  BY <1>0, <1>1, <1>8 DEF CommitEnqueue, EnqueueInput
<1>9. CASE PgExpire \/ UNCHANGED pgVars
  BY <1>0, <1>1, <1>9 DEF PgExpire, Expire, pgVars, vars
<1> QED
  BY <1>2, <1>3, <1>4, <1>5, <1>6, <1>7, <1>8, <1>9 DEF PgNext, Write, RowStep

(* Once a newer token is out, a replaced worker lands at most the          *)
(* transactions that were already past the fence.                          *)
THEOREM LateWritesBounded == PgSpec => []LateWritesAreBounded
<1>1. PgTypeOK /\ LateInv => LateWritesAreBounded
  <2> SUFFICES ASSUME PgTypeOK, LateInv, NEW o \in Owners
               PROVE  /\ lateWrites[o] <= MaxInFlight
                      /\ lateWrites[o] + Cardinality(inFlight[o]) <= MaxInFlight
    BY DEF LateWritesAreBounded
  <2>1. IsFiniteSet(inFlight[o]) /\ lateWrites[o] + Cardinality(inFlight[o]) <= MaxInFlight
    BY DEF LateInv
  <2>2. Cardinality(inFlight[o]) \in Nat /\ lateWrites[o] \in Nat
    BY <2>1, FS_CardinalityType DEF PgTypeOK
  <2> QED
    BY <2>1, <2>2, PgLedgerAssumption
<1> QED
  BY <1>1, PgTypeInit, PgTypeNext, LateInit, LateNext, PTL DEF PgSpec
=============================================================================
