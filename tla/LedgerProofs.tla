---------------------------- MODULE LedgerProofs ----------------------------
(***************************************************************************)
(* What holds of the ledger for any owners, keys, values and transitions,  *)
(* and any number of tokens: types, the order of writers, the finality of  *)
(* committed effects, the order of the input queue, and that a transition  *)
(* is committed whole or not at all.                                       *)
(***************************************************************************)
EXTENDS Ledger, FiniteSetTheorems, TLAPS

-----------------------------------------------------------------------------
(* Helpers on the arguments of commit_transition.                          *)

(* The inserting positions of a transition are finitely many.              *)
LEMMA FreshIsFinite ==
  ASSUME NEW tr, IsTransition(tr)
  PROVE  /\ IsFiniteSet(Fresh(tr))
         /\ \A S \in SUBSET Fresh(tr) : Cardinality(S) \in Nat
<1>1. IsFiniteSet(DOMAIN tr.inputs)
  <2>1. tr.inputs \in Seq(InputIds)
    BY DEF IsTransition
  <2>2. DOMAIN tr.inputs = 1 .. Len(tr.inputs) /\ Len(tr.inputs) \in Nat
    BY <2>1
  <2> QED
    BY <2>2, FS_Interval
<1>2. Fresh(tr) \subseteq DOMAIN tr.inputs
  BY DEF Fresh
<1>3. IsFiniteSet(Fresh(tr))
  BY <1>1, <1>2, FS_Subset
<1>4. ASSUME NEW S \in SUBSET Fresh(tr)
      PROVE  Cardinality(S) \in Nat
  BY <1>3, FS_Subset, FS_CardinalityType
<1> QED
  BY <1>3, <1>4

(* A transition records values: the steps it leaves are steps.             *)
LEMMA CommittedIsTyped ==
  ASSUME NEW tr, IsTransition(tr), entries \in [Keys -> Steps]
  PROVE  Committed(tr) \in [Keys -> Steps]
<1> SUFFICES ASSUME NEW k \in Keys
             PROVE  Committed(tr)[k] \in Steps
  BY DEF Committed
<1>1. CASE k \in DOMAIN tr.controls
  <2>1. tr.controls[k] \in Values
    BY <1>1 DEF IsTransition
  <2> QED
    BY <1>1, <2>1 DEF Committed, Steps
<1>2. CASE k \notin DOMAIN tr.controls /\ \E e \in tr.effects : e.key = k
  <2>1. (CHOOSE e \in tr.effects : e.key = k) \in tr.effects
    BY <1>2
  <2>2. (CHOOSE e \in tr.effects : e.key = k).value \in Values
    BY <2>1 DEF IsTransition, Completion
  <2> QED
    BY <1>2, <2>2 DEF Committed, Steps
<1>3. CASE k \notin DOMAIN tr.controls /\ ~ \E e \in tr.effects : e.key = k
  BY <1>3 DEF Committed
<1> QED
  BY <1>1, <1>2, <1>3

(* The effects of a transition the validation let through agree with every *)
(* effect already on record.                                               *)
LEMMA CommitKeepsDone ==
  ASSUME NEW tr, IsTransition(tr), ~ CommitConflicts(tr),
         NEW k \in EffectKeys, entries[k].status = "done"
  PROVE  Committed(tr)[k] = entries[k]
<1>1. k \notin DOMAIN tr.controls /\ k \in Keys
  BY LedgerAssumption DEF IsTransition, Keys
<1>2. CASE \E e \in tr.effects : e.key = k
  <2> DEFINE e == CHOOSE x \in tr.effects : x.key = k
  <2>1. e \in tr.effects /\ e.key = k
    BY <1>2
  <2>2. e.expected \in {"absent", "running"}
    BY <2>1 DEF IsTransition, Completion
  <2>3. entries[k] = Done(e.value)
    BY <2>1, <2>2 DEF CommitConflicts
  <2>4. Committed(tr)[k] = Done(e.value)
    BY <1>1, <1>2 DEF Committed
  <2> QED
    BY <2>3, <2>4
<1>3. CASE ~ \E e \in tr.effects : e.key = k
  BY <1>1, <1>3 DEF Committed
<1> QED
  BY <1>2, <1>3

-----------------------------------------------------------------------------
(* Types.                                                                  *)

USE DEF Steps

LEMMA TypeInit == Init => TypeOK
  BY LedgerAssumption DEF Init, TypeOK, Keys

LEMMA TypeNext == TypeOK /\ [Next]_vars => TypeOK'
<1> SUFFICES ASSUME TypeOK, [Next]_vars
             PROVE  TypeOK'
  OBVIOUS
<1> USE DEF TypeOK
<1>1. ASSUME NEW t \in Tokens, NEW k \in EffectKeys, Start(t, k)
      PROVE  TypeOK'
  BY <1>1 DEF Start, Fenced, Tokens, Keys
<1>2. ASSUME NEW t \in Tokens, NEW k \in EffectKeys, Forget(t, k)
      PROVE  TypeOK'
  BY <1>2 DEF Forget, Fenced, Tokens, Keys
<1>3. ASSUME NEW t \in Tokens, NEW k \in EffectKeys, NEW v \in Values, FinishEffect(t, k, v)
      PROVE  TypeOK'
  BY <1>3 DEF FinishEffect, Fenced, Tokens, Keys
<1>4. ASSUME NEW t \in Tokens, NEW k \in ControlKeys, NEW v \in Values, WriteControl(t, k, v)
      PROVE  TypeOK'
  BY <1>4 DEF WriteControl, Fenced, Tokens, Keys
<1>5. ASSUME NEW I \in SUBSET InputIds, NEW status \in InputStatus, NEW except,
             Mark(I, status, except)
      PROVE  inputs' \in [InputIds -> {Unqueued} \cup [status : InputStatus, sequence : Nat]]
  BY <1>5 DEF Mark, Queued, Unqueued
<1>6. ASSUME NEW t \in Tokens, NEW i \in InputIds, ClaimInput(t, i)
      PROVE  TypeOK'
  <2>1. inputs' \in [InputIds -> {Unqueued} \cup [status : InputStatus, sequence : Nat]]
    BY <1>5, <1>6 DEF ClaimInput, InputStatus
  <2> QED
    BY <1>6, <2>1 DEF ClaimInput, Fenced, Tokens
<1>7. ASSUME NEW t \in Tokens, NEW I \in SUBSET InputIds, AdmitInputs(t, I) \/ DiscardInputs(t, I)
      PROVE  TypeOK'
  <2>1. inputs' \in [InputIds -> {Unqueued} \cup [status : InputStatus, sequence : Nat]]
    BY <1>5, <1>7 DEF AdmitInputs, DiscardInputs, InputStatus
  <2> QED
    BY <1>7, <2>1 DEF AdmitInputs, DiscardInputs, Fenced, Tokens
<1>8. ASSUME NEW t \in Tokens, NEW tr \in Transitions, CommitTransition(t, tr)
      PROVE  TypeOK'
  <2>1. IsTransition(tr)
    BY LedgerAssumption
  <2>2. \A S \in SUBSET Fresh(tr) : Cardinality(S) \in Nat
    BY <2>1, FreshIsFinite
  <2>3. Cardinality(Fresh(tr)) \in Nat
    BY <2>2
  <2>4. ASSUME NEW i \in InputIds
        PROVE  Cardinality({m \in Fresh(tr) : m < Position(tr, i)}) \in Nat
    BY <2>2
  <2>5. entries' \in [Keys -> Steps]
    BY <1>8, <2>1, CommittedIsTyped DEF CommitTransition
  <2>6. inputs' \in [InputIds -> {Unqueued} \cup [status : InputStatus, sequence : Nat]]
    BY <1>8, <2>4 DEF CommitTransition, QueueAll, Queued, InputStatus
  <2>7. inputSequence' \in Nat
    BY <1>8, <2>3 DEF CommitTransition, QueueAll
  <2> QED
    BY <1>8, <2>5, <2>6, <2>7 DEF CommitTransition, Fenced, Tokens
<1>9. ASSUME NEW o \in Owners, Acquire(o) \/ Release(o)
      PROVE  TypeOK'
  <2>1. CASE Acquire(o)
    <3>1. AcquireResult(o) \in Nat
      BY DEF AcquireResult
    <3> QED
      BY <2>1, <3>1 DEF Acquire
  <2>2. CASE Release(o)
    BY <2>2 DEF Release
  <2> QED
    BY <1>9, <2>1, <2>2
<1>10. CASE Expire
  BY <1>10 DEF Expire
<1>11. ASSUME NEW i \in InputIds, EnqueueInput(i)
       PROVE  TypeOK'
  BY <1>11 DEF EnqueueInput, Queued, InputStatus
<1>12. CASE UNCHANGED vars
  BY <1>12 DEF vars
<1> QED
  BY <1>1, <1>2, <1>3, <1>4, <1>6, <1>7, <1>8, <1>9, <1>10, <1>11, <1>12 DEF Next

(* The ledger is well-typed whoever calls it.                              *)
THEOREM LedgerTypes == Spec => []TypeOK
  BY TypeInit, TypeNext, PTL DEF Spec

-----------------------------------------------------------------------------
(* The fence.  No writer is newer than the newest token, so a write that   *)
(* passes the fence is by the newest writer so far or by a newer one.      *)

WriterIsIssued == lastWriter <= issued

LEMMA WriterInit == Init => WriterIsIssued
  BY DEF Init, WriterIsIssued

LEMMA WriterNext ==
  TypeOK /\ WriterIsIssued /\ [Next]_vars =>
    WriterIsIssued' /\ (UNCHANGED vars \/ lastWriter' >= lastWriter)
<1> SUFFICES ASSUME TypeOK, WriterIsIssued, [Next]_vars
             PROVE  WriterIsIssued' /\ lastWriter' >= lastWriter
  OBVIOUS
<1> USE DEF TypeOK, WriterIsIssued
<1>1. ASSUME NEW t \in Tokens, Fenced(t), issued' = issued
      PROVE  WriterIsIssued' /\ lastWriter' >= lastWriter
  BY <1>1 DEF Fenced, Fences, Tokens
<1>2. CASE \E t \in Tokens :
              \/ \E k \in EffectKeys : Start(t, k) \/ Forget(t, k)
              \/ \E k \in EffectKeys, v \in Values : FinishEffect(t, k, v)
              \/ \E k \in ControlKeys, v \in Values : WriteControl(t, k, v)
              \/ \E i \in InputIds : ClaimInput(t, i)
              \/ \E I \in SUBSET InputIds : AdmitInputs(t, I) \/ DiscardInputs(t, I)
              \/ \E tr \in Transitions : CommitTransition(t, tr)
  BY <1>1, <1>2 DEF Start, Forget, FinishEffect, WriteControl, ClaimInput, AdmitInputs,
                    DiscardInputs, CommitTransition
<1>3. ASSUME NEW o \in Owners, Acquire(o) \/ Release(o)
      PROVE  WriterIsIssued' /\ lastWriter' >= lastWriter
  BY <1>3 DEF Acquire, Release
<1>4. CASE Expire
  BY <1>4 DEF Expire
<1>5. CASE \E i \in InputIds : EnqueueInput(i)
  BY <1>5 DEF EnqueueInput
<1>6. CASE UNCHANGED vars
  BY <1>6 DEF vars
<1> QED
  BY <1>2, <1>3, <1>4, <1>5, <1>6 DEF Next

(* No replaced worker writes to the branch after its successor has, over   *)
(* any number of takeovers.                                                *)
THEOREM FenceOrdersWriters == Spec => WritersNeverGoBack
<1>1. Spec => [](TypeOK /\ WriterIsIssued)
  BY TypeInit, TypeNext, WriterInit, WriterNext, PTL DEF Spec
<1>2. TypeOK /\ WriterIsIssued /\ [Next]_vars => [lastWriter' >= lastWriter]_vars
  BY WriterNext
<1> QED
  BY <1>1, <1>2, PTL DEF Spec, WritersNeverGoBack

-----------------------------------------------------------------------------
(* A committed effect stays as it is under every operation.                *)

EffectsStay == \A k \in EffectKeys : entries[k].status = "done" => entries'[k] = entries[k]

LEMMA DoneIsKept == TypeOK /\ [Next]_vars => EffectsStay
<1> SUFFICES ASSUME TypeOK, [Next]_vars, NEW k \in EffectKeys, entries[k].status = "done"
             PROVE  entries'[k] = entries[k]
  BY DEF EffectsStay
<1> USE DEF TypeOK
<1>0. k \in Keys /\ k \notin ControlKeys
  BY LedgerAssumption DEF Keys
<1>1. ASSUME NEW t \in Tokens, NEW j \in EffectKeys, Start(t, j) \/ Forget(t, j)
      PROVE  entries'[k] = entries[k]
  BY <1>0, <1>1 DEF Start, Forget, Absent, Keys
<1>2. ASSUME NEW t \in Tokens, NEW j \in EffectKeys, NEW v \in Values, FinishEffect(t, j, v)
      PROVE  entries'[k] = entries[k]
  BY <1>0, <1>2 DEF FinishEffect, Conflicts, Running, Keys
<1>3. ASSUME NEW t \in Tokens, NEW j \in ControlKeys, NEW v \in Values, WriteControl(t, j, v)
      PROVE  entries'[k] = entries[k]
  BY <1>0, <1>3 DEF WriteControl, Keys
<1>4. ASSUME NEW t \in Tokens, NEW tr \in Transitions, CommitTransition(t, tr)
      PROVE  entries'[k] = entries[k]
  BY <1>4, LedgerAssumption, CommitKeepsDone DEF CommitTransition
<1>5. CASE \E t \in Tokens :
              \/ \E i \in InputIds : ClaimInput(t, i)
              \/ \E I \in SUBSET InputIds : AdmitInputs(t, I) \/ DiscardInputs(t, I)
  BY <1>5 DEF ClaimInput, AdmitInputs, DiscardInputs
<1>6. CASE \E o \in Owners : Acquire(o) \/ Release(o)
  BY <1>6 DEF Acquire, Release
<1>7. CASE Expire \/ \E i \in InputIds : EnqueueInput(i)
  BY <1>7 DEF Expire, EnqueueInput
<1>8. CASE UNCHANGED vars
  BY <1>8 DEF vars
<1> QED
  BY <1>1, <1>2, <1>3, <1>4, <1>5, <1>6, <1>7, <1>8 DEF Next

(* An effect result, once committed, is what every later read returns.     *)
THEOREM CommittedStays == Spec => CommittedIsFinal
<1>1. TypeOK /\ [Next]_vars =>
        [\A k \in EffectKeys : entries[k].status = "done" => entries'[k] = entries[k]]_vars
  BY DoneIsKept DEF EffectsStay
<1> QED
  BY <1>1, LedgerTypes, PTL DEF Spec, CommittedIsFinal

-----------------------------------------------------------------------------
(* The input queue.                                                        *)

(* Changing the status of inputs changes nothing else about them.          *)
LEMMA MarkFacts ==
  ASSUME TypeOK, NEW I, NEW status \in InputStatus, NEW except, Mark(I, status, except),
         NEW i \in InputIds
  PROVE  /\ inputs'[i].sequence = inputs[i].sequence
         /\ inputs'[i] = Unqueued <=> inputs[i] = Unqueued
         /\ \/ inputs'[i] = inputs[i]
            \/ /\ inputs[i].status \notin except \cup {"unqueued"}
               /\ inputs'[i].status = status
<1>1. inputs[i] \in {Unqueued} \cup [status : InputStatus, sequence : Nat]
  BY DEF TypeOK
<1>2. inputs[i] = Unqueued <=> inputs[i].status = "unqueued"
  BY <1>1 DEF Unqueued, InputStatus
<1>3. inputs'[i] = IF i \in I /\ inputs[i].status \notin except \cup {"unqueued"}
                   THEN Queued(status, inputs[i].sequence) ELSE inputs[i]
  BY DEF Mark
<1> QED
  BY <1>2, <1>3 DEF Queued, Unqueued, InputStatus

(* An input is inserted by a transition at one position, and takes the     *)
(* number of inserting positions before it.                                *)
Inserts(tr, i) == \E n \in Fresh(tr) : tr.inputs[n] = i
Before(tr, i) == {m \in Fresh(tr) : m < Position(tr, i)}

LEMMA PositionFacts ==
  ASSUME NEW tr, IsTransition(tr), NEW i, Inserts(tr, i)
  PROVE  /\ Position(tr, i) \in Fresh(tr) /\ tr.inputs[Position(tr, i)] = i
         /\ Position(tr, i) \in Nat
         /\ inputs[i] = Unqueued
         /\ Cardinality(Before(tr, i)) < Cardinality(Fresh(tr))
<1>1. Position(tr, i) \in Fresh(tr) /\ tr.inputs[Position(tr, i)] = i
  BY DEF Inserts, Position
<1>2. Fresh(tr) \subseteq Nat
  BY DEF Fresh, IsTransition
<1>3. Before(tr, i) \subseteq Fresh(tr) /\ Before(tr, i) # Fresh(tr)
  BY <1>1, <1>2 DEF Before
<1>4. Cardinality(Before(tr, i)) < Cardinality(Fresh(tr))
  BY <1>3, FreshIsFinite, FS_Subset
<1> QED
  BY <1>1, <1>2, <1>4 DEF Fresh

LEMMA PositionsOrder ==
  ASSUME NEW tr, IsTransition(tr), NEW i, NEW j, Inserts(tr, i), Inserts(tr, j),
         Position(tr, i) < Position(tr, j)
  PROVE  Cardinality(Before(tr, i)) < Cardinality(Before(tr, j))
<1>0. Position(tr, i) \in Fresh(tr) /\ Position(tr, i) \in Nat /\ Position(tr, j) \in Nat
  BY PositionFacts
<1>1. Position(tr, i) \in Before(tr, j) /\ Position(tr, i) \notin Before(tr, i)
  BY <1>0 DEF Before
<1>2. Fresh(tr) \subseteq Nat
  BY DEF Fresh, IsTransition
<1>3. Before(tr, i) \subseteq Before(tr, j)
  BY <1>0, <1>2 DEF Before
<1>4. IsFiniteSet(Before(tr, j))
  BY FreshIsFinite, FS_Subset DEF Before
<1> QED
  BY <1>1, <1>3, <1>4, FreshIsFinite, FS_Subset DEF Before

(* What a transition does to the queue.                                    *)
LEMMA CommitQueues ==
  ASSUME TypeOK, NEW t, NEW tr \in Transitions, CommitTransition(t, tr), NEW i \in InputIds
  PROVE  /\ IsTransition(tr)
         /\ inputSequence' = inputSequence + Cardinality(Fresh(tr))
         /\ Cardinality(Fresh(tr)) \in Nat /\ Cardinality(Before(tr, i)) \in Nat
         /\ IF Inserts(tr, i)
            THEN inputs'[i] = Queued("pending", inputSequence + Cardinality(Before(tr, i)))
            ELSE inputs'[i] = inputs[i]
<1>1. IsTransition(tr)
  BY LedgerAssumption
<1>2. Cardinality(Fresh(tr)) \in Nat /\ Cardinality(Before(tr, i)) \in Nat
  BY <1>1, FreshIsFinite DEF Before
<1> QED
  BY <1>1, <1>2 DEF CommitTransition, QueueAll, Inserts, Before

LEMMA QueueInit == Init => QueueOrder
  BY DEF Init, QueueOrder

LEMMA QueueNext == TypeOK /\ QueueOrder /\ [Next]_vars => QueueOrder'
<1> SUFFICES ASSUME TypeOK, QueueOrder, [Next]_vars
             PROVE  QueueOrder'
  OBVIOUS
<1>0. /\ inputSequence \in Nat
      /\ \A i \in InputIds : inputs[i] # Unqueued => inputs[i].sequence \in Nat
  BY DEF TypeOK
<1>1. ASSUME NEW I, NEW status \in InputStatus, NEW except, Mark(I, status, except),
             inputSequence' = inputSequence
      PROVE  QueueOrder'
  <2>1. \A i \in InputIds : /\ inputs'[i].sequence = inputs[i].sequence
                            /\ inputs'[i] = Unqueued <=> inputs[i] = Unqueued
    BY <1>1, MarkFacts
  <2> QED
    BY <1>1, <2>1 DEF QueueOrder
<1>2. ASSUME NEW t, NEW i \in InputIds, ClaimInput(t, i)
      PROVE  QueueOrder'
  BY <1>1, <1>2 DEF ClaimInput, InputStatus
<1>3. ASSUME NEW t, NEW I, AdmitInputs(t, I) \/ DiscardInputs(t, I)
      PROVE  QueueOrder'
  BY <1>1, <1>3 DEF AdmitInputs, DiscardInputs, InputStatus
<1>4. ASSUME NEW t, NEW tr \in Transitions, CommitTransition(t, tr)
      PROVE  QueueOrder'
  <2>0. /\ IsTransition(tr) /\ Cardinality(Fresh(tr)) \in Nat
        /\ inputSequence' = inputSequence + Cardinality(Fresh(tr))
    BY <1>4, LedgerAssumption, FreshIsFinite DEF CommitTransition, QueueAll
  <2>1. ASSUME NEW i \in InputIds, Inserts(tr, i)
        PROVE  /\ inputs'[i].sequence = inputSequence + Cardinality(Before(tr, i))
               /\ Cardinality(Before(tr, i)) \in Nat
               /\ Cardinality(Before(tr, i)) < Cardinality(Fresh(tr))
    <3>1. /\ inputs'[i] = Queued("pending", inputSequence + Cardinality(Before(tr, i)))
          /\ Cardinality(Before(tr, i)) \in Nat
      BY <1>4, <2>1, CommitQueues
    <3>2. Cardinality(Before(tr, i)) < Cardinality(Fresh(tr))
      BY <2>0, <2>1, PositionFacts
    <3> QED
      BY <3>1, <3>2 DEF Queued
  <2>2. ASSUME NEW i \in InputIds, ~ Inserts(tr, i), inputs'[i] # Unqueued
        PROVE  /\ inputs'[i] = inputs[i]
               /\ inputs'[i].sequence \in Nat /\ inputs'[i].sequence < inputSequence
    <3>1. inputs'[i] = inputs[i]
      BY <1>4, <2>2, CommitQueues
    <3> QED
      BY <1>0, <2>2, <3>1 DEF QueueOrder
  <2>3. ASSUME NEW i \in InputIds, inputs'[i] # Unqueued
        PROVE  inputs'[i].sequence < inputSequence'
    BY <1>0, <2>0, <2>1, <2>2, <2>3
  <2>4. ASSUME NEW i \in InputIds, NEW j \in InputIds, Inserts(tr, i), Inserts(tr, j),
               inputs'[i].sequence = inputs'[j].sequence
        PROVE  i = j
    <3>1. Cardinality(Before(tr, i)) = Cardinality(Before(tr, j))
      BY <1>0, <2>1, <2>4
    <3>2. Position(tr, i) \in Nat /\ Position(tr, j) \in Nat
      BY <2>0, <2>4, PositionFacts
    <3>3. ~ Position(tr, i) < Position(tr, j) /\ ~ Position(tr, j) < Position(tr, i)
      BY <2>0, <2>1, <2>4, <3>1, PositionsOrder
    <3>4. Position(tr, i) = Position(tr, j)
      BY <3>2, <3>3
    <3> QED
      BY <2>0, <2>4, <3>4, PositionFacts
  <2>5. ASSUME NEW i \in InputIds, NEW j \in InputIds, Inserts(tr, i), ~ Inserts(tr, j),
               inputs'[j] # Unqueued
        PROVE  inputs'[i].sequence # inputs'[j].sequence
    BY <1>0, <2>1, <2>2, <2>5
  <2>6. ASSUME NEW i \in InputIds, NEW j \in InputIds, ~ Inserts(tr, i), ~ Inserts(tr, j),
               inputs'[i] # Unqueued, inputs'[j] # Unqueued,
               inputs'[i].sequence = inputs'[j].sequence
        PROVE  i = j
    BY <2>2, <2>6 DEF QueueOrder
  <2> QED
    BY <2>3, <2>4, <2>5, <2>6 DEF QueueOrder
<1>5. ASSUME NEW i \in InputIds, EnqueueInput(i)
      PROVE  QueueOrder'
  BY <1>0, <1>5 DEF EnqueueInput, QueueOrder, Queued, TypeOK
<1>6. CASE UNCHANGED <<inputs, inputSequence>>
  BY <1>6 DEF QueueOrder
<1>7. \/ UNCHANGED <<inputs, inputSequence>>
      \/ \E t \in Tokens :
           \/ \E i \in InputIds : ClaimInput(t, i)
           \/ \E I \in SUBSET InputIds : AdmitInputs(t, I) \/ DiscardInputs(t, I)
           \/ \E tr \in Transitions : CommitTransition(t, tr)
      \/ \E i \in InputIds : EnqueueInput(i)
  BY DEF Next, vars, Start, Forget, FinishEffect, WriteControl, Acquire, Release, Expire
<1> QED
  BY <1>2, <1>3, <1>4, <1>5, <1>6, <1>7

(* Inputs of a branch are told apart and ordered by their sequence         *)
(* numbers, over any history of enqueues, claims and transitions.          *)
THEOREM QueueIsOrdered == Spec => []QueueOrder
  BY LedgerTypes, QueueInit, QueueNext, PTL DEF Spec

LEMMA RankFacts ==
  /\ StatusRank("unqueued") = 0 /\ StatusRank("pending") = 1 /\ StatusRank("claimed") = 2
  /\ StatusRank("admitted") = 3 /\ StatusRank("discarded") = 4
BY DEF StatusRank

InputAdvances(i) ==
  /\ StatusRank(inputs'[i].status) >= StatusRank(inputs[i].status)
  /\ inputs[i] # Unqueued => inputs'[i].sequence = inputs[i].sequence

LEMMA InputsAdvance ==
  ASSUME TypeOK, [Next]_vars, NEW i \in InputIds
  PROVE  InputAdvances(i)
<1>0. /\ inputs[i].status \in InputStatus \cup {"unqueued"}
      /\ inputs[i].status = "unqueued" <=> inputs[i] = Unqueued
  BY DEF TypeOK, InputStatus, Unqueued
<1>1. CASE inputs'[i] = inputs[i]
  BY <1>0, <1>1, RankFacts DEF InputAdvances, InputStatus
<1>2. ASSUME NEW I, Mark(I, "claimed", {"admitted", "discarded"})
      PROVE  InputAdvances(i)
  BY <1>0, <1>1, <1>2, MarkFacts, RankFacts DEF InputAdvances, InputStatus
<1>3. ASSUME NEW I, Mark(I, "admitted", {"discarded"})
      PROVE  InputAdvances(i)
  BY <1>0, <1>1, <1>3, MarkFacts, RankFacts DEF InputAdvances, InputStatus
<1>4. ASSUME NEW I, Mark(I, "discarded", {})
      PROVE  InputAdvances(i)
  BY <1>0, <1>1, <1>4, MarkFacts, RankFacts DEF InputAdvances, InputStatus
<1>5. ASSUME NEW t, NEW tr \in Transitions, CommitTransition(t, tr)
      PROVE  InputAdvances(i)
  <2>1. CASE Inserts(tr, i)
    <3>1. inputs[i] = Unqueued
      BY <1>5, <2>1, CommitQueues, PositionFacts
    <3>2. inputs'[i] = Queued("pending", inputSequence + Cardinality(Before(tr, i)))
      BY <1>5, <2>1, CommitQueues
    <3>3. inputs'[i].status = "pending"
      BY <3>2 DEF Queued
    <3> QED
      BY <1>0, <3>1, <3>3, RankFacts DEF InputAdvances
  <2>2. CASE ~ Inserts(tr, i)
    BY <1>1, <1>5, <2>2, CommitQueues
  <2> QED
    BY <2>1, <2>2
<1>6. ASSUME NEW j \in InputIds, EnqueueInput(j)
      PROVE  InputAdvances(i)
  <2>1. CASE i = j
    <3>1. /\ inputs[i] = Unqueued
          /\ inputs' = [inputs EXCEPT ![i] = Queued("pending", inputSequence)]
          /\ i \in DOMAIN inputs
      BY <1>6, <2>1 DEF EnqueueInput, TypeOK
    <3>2. inputs'[i].status = "pending"
      BY <3>1 DEF Queued
    <3> QED
      BY <1>0, <3>1, <3>2, RankFacts DEF InputAdvances
  <2>2. CASE i # j
    BY <1>1, <1>6, <2>2 DEF EnqueueInput, TypeOK
  <2> QED
    BY <2>1, <2>2
<1>7. \/ UNCHANGED inputs
      \/ \E t \in Tokens :
           \/ \E j \in InputIds : ClaimInput(t, j)
           \/ \E I \in SUBSET InputIds : AdmitInputs(t, I) \/ DiscardInputs(t, I)
           \/ \E tr \in Transitions : CommitTransition(t, tr)
      \/ \E j \in InputIds : EnqueueInput(j)
  BY DEF Next, vars, Start, Forget, FinishEffect, WriteControl, Acquire, Release, Expire
<1> QED
  BY <1>1, <1>2, <1>3, <1>4, <1>5, <1>6, <1>7 DEF ClaimInput, AdmitInputs, DiscardInputs

(* No operation renumbers an input, re-opens a terminal one or takes it    *)
(* back out of the queue.                                                  *)
THEOREM InputsNeverGoBack == Spec => InputsOnlyAdvance
<1>1. TypeOK /\ [Next]_vars =>
        [\A i \in InputIds :
           /\ StatusRank(inputs'[i].status) >= StatusRank(inputs[i].status)
           /\ inputs[i] # Unqueued => inputs'[i].sequence = inputs[i].sequence]_vars
  BY InputsAdvance DEF InputAdvances
<1> QED
  BY <1>1, LedgerTypes, PTL DEF Spec, InputsOnlyAdvance

-----------------------------------------------------------------------------
(* Transitions.                                                            *)

Changed == {k \in Keys : entries'[k] # entries[k]}

(* A write of one step is no write of two.                                 *)
LEMMA OneKey ==
  ASSUME NEW k, \A j \in Keys \ {k} : entries'[j] = entries[j]
  PROVE  ~ Cardinality(Changed) > 1
<1>1. Changed = {} \/ Changed = {k}
  BY DEF Changed
<1>2. Cardinality({}) = 0 /\ Cardinality({k}) = 1
  BY FS_EmptySet, FS_Singleton
<1> QED
  BY <1>1, <1>2

Whole(tr) ==
  /\ Changed \subseteq DOMAIN tr.controls \cup {e.key : e \in tr.effects}
  /\ \A k \in DOMAIN tr.controls : entries'[k] = Done(tr.controls[k])
  /\ \A e \in tr.effects : entries'[e.key] = Done(e.value)

LEMMA CommitIsWhole ==
  ASSUME NEW t, NEW tr \in Transitions, CommitTransition(t, tr)
  PROVE  Whole(tr)
<1>1. IsTransition(tr) /\ entries' = Committed(tr)
  BY LedgerAssumption DEF CommitTransition
<1>2. DOMAIN tr.controls \subseteq Keys /\ \A e \in tr.effects : e.key \in EffectKeys
  BY <1>1 DEF IsTransition, Keys, Completion
<1>3. Changed \subseteq DOMAIN tr.controls \cup {e.key : e \in tr.effects}
  BY <1>1 DEF Changed, Committed
<1>4. \A k \in DOMAIN tr.controls : entries'[k] = Done(tr.controls[k])
  BY <1>1, <1>2 DEF Committed
<1>5. ASSUME NEW e \in tr.effects
      PROVE  entries'[e.key] = Done(e.value)
  <2>1. e.key \in Keys /\ e.key \notin DOMAIN tr.controls
    BY <1>1, <1>2, LedgerAssumption DEF IsTransition, Keys
  <2>2. (CHOOSE x \in tr.effects : x.key = e.key) = e
    BY <1>1 DEF IsTransition
  <2> QED
    BY <1>1, <2>1, <2>2 DEF Committed
<1> QED
  BY <1>3, <1>4, <1>5 DEF Whole

LEMMA WritesAreWhole ==
  ASSUME TypeOK, [Next]_vars, Cardinality(Changed) > 1
  PROVE  \E tr \in Transitions : Whole(tr)
<1>1. ASSUME NEW k, NEW v, entries' = [entries EXCEPT ![k] = v]
      PROVE  FALSE
  BY <1>1, OneKey DEF TypeOK
<1>2. ASSUME UNCHANGED entries
      PROVE  FALSE
  BY <1>2, OneKey
<1>3. ASSUME NEW t, NEW k, Start(t, k) \/ Forget(t, k)
      PROVE  FALSE
  BY <1>1, <1>3 DEF Start, Forget
<1>4. ASSUME NEW t, NEW k, NEW v, FinishEffect(t, k, v) \/ WriteControl(t, k, v)
      PROVE  FALSE
  BY <1>1, <1>4 DEF FinishEffect, WriteControl
<1>5. \E t \in Tokens, tr \in Transitions : CommitTransition(t, tr)
  BY <1>2, <1>3, <1>4
     DEF Next, vars, Acquire, Release, Expire, EnqueueInput, ClaimInput, AdmitInputs,
         DiscardInputs
<1> QED
  BY <1>5, CommitIsWhole

(* Only a transition changes several steps, and it has changed all it was  *)
(* asked to.                                                               *)
THEOREM TransitionsHappenWhole == Spec => TransitionsAreWhole
<1>1. TypeOK /\ [Next]_vars =>
        [LET changed == {k \in Keys : entries'[k] # entries[k]} IN
         Cardinality(changed) > 1 =>
           \E tr \in Transitions :
             /\ changed \subseteq DOMAIN tr.controls \cup {e.key : e \in tr.effects}
             /\ \A k \in DOMAIN tr.controls : entries'[k] = Done(tr.controls[k])
             /\ \A e \in tr.effects : entries'[e.key] = Done(e.value)]_vars
  BY WritesAreWhole DEF Changed, Whole
<1> QED
  BY <1>1, LedgerTypes, PTL DEF Spec, TransitionsAreWhole
=============================================================================
