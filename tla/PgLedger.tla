------------------------------ MODULE PgLedger ------------------------------
(***************************************************************************)
(* The execution ledger of one branch as `PostgresSteps` keeps it          *)
(* (semora_store_pg/postgres.py).  Every leased operation is a READ        *)
(* COMMITTED transaction of two statements or more: `_fence` selects the   *)
(* branch's token without locking the lease row, and the write follows.    *)
(* Rows a statement writes stay locked until the commit; other sessions    *)
(* come in between the fence and the write.  A transaction that raises, or *)
(* whose connection is lost, rolls back.                                   *)
(*                                                                         *)
(* An insert into ledger_input draws its sequence from a bigserial, which  *)
(* no transaction locks and no rollback restores, and the row is seen at   *)
(* the commit: rows of different ids become visible in any order.  Here    *)
(* the column is `number`, and rows drawn but not committed are `drafts`.  *)
(* The `sequence` in Ledger's `inputs` is history in this module: the      *)
(* place of the row's commit among the commits, which no column records.   *)
(*                                                                         *)
(* A lease holder may have several transactions in flight: tools marked    *)
(* concurrency-safe run side by side.                                      *)
(***************************************************************************)
EXTENDS Ledger

CONSTANTS
  InputBatches,  \* the sets of ids admit_inputs and discard_inputs are called with
  MaxInFlight,   \* bound on one lease holder's concurrent transactions
  MaxNumber      \* bound on the numbers drawn

ASSUME PgLedgerAssumption ==
  /\ InputBatches \subseteq SUBSET InputIds
  /\ MaxInFlight \in Nat
  /\ MaxNumber \in Nat

VARIABLES
  token,       \* the token each owner was given
  inFlight,    \* its transactions that passed the fence and have yet to commit
  writing,     \* those of them that wrote the keys of a transition, and lock them
  drafts,      \* inserted inputs whose transaction has not committed
  number,      \* the sequence column of each committed input
  serial,      \* the bigserial's next value
  earlier,     \* history: the inputs already in the queue when each was numbered
  lateWrites   \* history: writes that landed after a newer token was issued

numbering == <<drafts, number, serial, earlier>>
pgVars == <<vars, token, inFlight, writing, numbering, lateWrites>>

Transactions == [op : {"commit_transition"}, transition : Transitions]

Requests ==
  [op : {"start", "forget"}, key : EffectKeys]
    \cup [op : {"finish_effect"}, key : EffectKeys, value : Values]
    \cup [op : {"write_control"}, key : ControlKeys, value : Values]
    \cup [op : {"claim_input"}, inputs : {{i} : i \in InputIds}]
    \cup [op : {"admit_inputs", "discard_inputs"}, inputs : InputBatches]
    \cup Transactions

PgInit ==
  /\ Init
  /\ token = [o \in Owners |-> 0]
  /\ inFlight = [o \in Owners |-> {}]
  /\ writing = [o \in Owners |-> {}]
  /\ drafts = {}
  /\ number = [i \in InputIds |-> 0]
  /\ serial = 0
  /\ earlier = [i \in InputIds |-> {}]
  /\ lateWrites = [o \in Owners |-> 0]

(* The insert ... on conflict do update where of acquire, one statement.   *)
PgAcquire(o) ==
  /\ Acquire(o)
  /\ token' = [token EXCEPT ![o] = IF @ = 0 THEN AcquireResult(o) ELSE @]
  /\ UNCHANGED <<inFlight, writing, numbering, lateWrites>>

(* A worker releases when its attempt is over; its next lease is another   *)
(* owner's.                                                                *)
PgRelease(o) ==
  /\ token[o] # 0
  /\ inFlight[o] = {}
  /\ Release(o)
  /\ token' = [token EXCEPT ![o] = 0]
  /\ lateWrites' = [lateWrites EXCEPT ![o] = 0]
  /\ UNCHANGED <<inFlight, writing, numbering>>

PgExpire == Expire /\ UNCHANGED <<token, inFlight, writing, numbering, lateWrites>>

(* Faulty variant: no fence.                                               *)
PassAnyToken(o, req) ==
  /\ token[o] # 0
  /\ Cardinality(inFlight[o]) < MaxInFlight
  /\ inFlight' = [inFlight EXCEPT ![o] = @ \cup {req}]
  /\ UNCHANGED <<vars, token, writing, numbering, lateWrites>>

(* The select of _fence.                                                   *)
PassFence(o, req) ==
  /\ token[o] # 0
  /\ ~ Fences(token[o])
  /\ Cardinality(inFlight[o]) < MaxInFlight
  /\ inFlight' = [inFlight EXCEPT ![o] = @ \cup {req}]
  /\ UNCHANGED <<vars, token, writing, numbering, lateWrites>>

-----------------------------------------------------------------------------
(* The inserts into ledger_input.                                          *)

(* The inputs already in the queue, and those an open transition inserted. *)
InQueue == {i \in InputIds : inputs[i] # Unqueued}
Own(by) == {d \in drafts : d.by # {} /\ d.by = by}
OwnInputs(by) == {d.input : d \in Own(by)}

(* Faulty variant: the number is counted from the rows the insert sees.    *)
CountVisible(by, i) ==
  /\ serial < MaxNumber
  /\ drafts' = drafts \cup
       {[by |-> by, input |-> i, number |-> Cardinality(InQueue), held |-> FALSE,
         after |-> InQueue \cup OwnInputs(by)]}
  /\ serial' = serial + 1
  /\ UNCHANGED <<vars, token, inFlight, writing, number, earlier, lateWrites>>

(* The values of the insert are computed first, the sequence among them.   *)
(* `by` is the transition the insert is part of, if any.                   *)
Draw(by, i) ==
  /\ serial < MaxNumber
  /\ drafts' = drafts \cup
       {[by |-> by, input |-> i, number |-> serial, held |-> FALSE,
         after |-> InQueue \cup OwnInputs(by)]}
  /\ serial' = serial + 1
  /\ UNCHANGED <<vars, token, inFlight, writing, number, earlier, lateWrites>>

(* The unique index: an insert waits while another open one has the id...  *)
HoldRow(d) ==
  /\ inputs[d.input] = Unqueued
  /\ \A e \in drafts : e.held => e.input # d.input
  /\ drafts' = (drafts \ {d}) \cup {[d EXCEPT !.held = TRUE]}
  /\ UNCHANGED <<vars, token, inFlight, writing, number, serial, earlier, lateWrites>>

(* ... and does nothing once the id is committed.  Its number is spent.    *)
InsertNothing(d) ==
  /\ ~ d.held
  /\ inputs[d.input] # Unqueued
  /\ drafts' = drafts \ {d}
  /\ UNCHANGED <<vars, token, inFlight, writing, number, serial, earlier, lateWrites>>

(* The rows D become visible.                                              *)
ShowRows(D) ==
  /\ drafts' = drafts \ D
  /\ number' = [i \in InputIds |->
                  IF \E d \in D : d.input = i
                  THEN (CHOOSE d \in D : d.input = i).number ELSE number[i]]
  /\ earlier' = [i \in InputIds |->
                   IF \E d \in D : d.input = i
                   THEN (CHOOSE d \in D : d.input = i).after ELSE earlier[i]]
  /\ UNCHANGED serial

(* enqueue_input: one insert, committed by the end of its connection block.*)
PgEnqueue(i) == Draw({}, i)

CommitEnqueue(d) ==
  /\ d.by = {} /\ d.held
  /\ EnqueueInput(d.input)
  /\ ShowRows({d})
  /\ UNCHANGED <<token, inFlight, writing, lateWrites>>

(* The connection is lost before the commit.                               *)
LoseEnqueue(d) ==
  /\ d.by = {}
  /\ drafts' = drafts \ {d}
  /\ UNCHANGED <<vars, token, inFlight, writing, number, serial, earlier, lateWrites>>

-----------------------------------------------------------------------------
(* The writes of a transaction, and its commit.                            *)

TransitionKeys(tr) == DOMAIN tr.controls \cup {e.key : e \in tr.effects}

(* Keys an open transition wrote: other writes of them wait for its end.   *)
Locked == UNION {TransitionKeys(req.transition) : req \in UNION {writing[o] : o \in Owners}}

Commits(o, req) ==
  /\ req \in inFlight[o]
  /\ inFlight' = [inFlight EXCEPT ![o] = @ \ {req}]
  /\ LET wrote == entries' # entries \/ inputs' # inputs IN
       /\ lastWriter' = IF wrote THEN token[o] ELSE lastWriter
       /\ lateWrites' = [lateWrites EXCEPT ![o] =
                           IF wrote /\ Fences(token[o]) THEN @ + 1 ELSE @]
  /\ UNCHANGED <<lease, issued, token>>

CommitsKey(o, req) ==
  /\ req.key \notin Locked
  /\ UNCHANGED <<inputs, inputSequence, writing, numbering>>
  /\ Commits(o, req)

(* insert ... 'running' on conflict do nothing                             *)
InsertIntent(o, req) ==
  /\ req.op = "start"
  /\ entries' = [entries EXCEPT ![req.key] = IF @ = Absent THEN Running ELSE @]
  /\ CommitsKey(o, req)

(* Faulty variants: forget deletes the row whatever its status, or keeps   *)
(* it with a status of its own.                                            *)
DeleteStep(o, req) ==
  /\ req.op = "forget"
  /\ entries' = [entries EXCEPT ![req.key] = Absent]
  /\ CommitsKey(o, req)

MarkForgotten(o, req) ==
  /\ req.op = "forget"
  /\ entries' = [entries EXCEPT ![req.key] =
                   IF @ = Running THEN [status |-> "forgotten"] ELSE @]
  /\ CommitsKey(o, req)

(* delete ... where status = 'running'                                     *)
DeleteIntent(o, req) ==
  /\ req.op = "forget"
  /\ entries' = [entries EXCEPT ![req.key] = IF @ = Running THEN Absent ELSE @]
  /\ CommitsKey(o, req)

(* update ... set status = 'done' where status = 'running'; when no row    *)
(* matches the value on record is compared, or EffectConflict raised.      *)
CompleteEffect(o, req) ==
  /\ req.op = "finish_effect"
  /\ entries' = [entries EXCEPT ![req.key] = IF @ = Running THEN Done(req.value) ELSE @]
  /\ CommitsKey(o, req)

(* insert ... on conflict do update                                        *)
UpsertControl(o, req) ==
  /\ req.op = "write_control"
  /\ entries' = [entries EXCEPT ![req.key] = Done(req.value)]
  /\ CommitsKey(o, req)

(* The three updates of ledger_input, with the statuses each leaves alone. *)
UpdateInput(o, req) ==
  /\ \/ req.op = "claim_input" /\ Mark(req.inputs, "claimed", {"admitted", "discarded"})
     \/ req.op = "admit_inputs" /\ Mark(req.inputs, "admitted", {"discarded"})
     \/ req.op = "discard_inputs" /\ Mark(req.inputs, "discarded", {})
  /\ UNCHANGED <<entries, inputSequence, writing, numbering>>
  /\ Commits(o, req)

(* commit_transition: its effects and its controls, unless one conflicts.  *)
WriteTransition(o, req) ==
  /\ req.op = "commit_transition" /\ req \notin writing[o]
  /\ TransitionKeys(req.transition) \cap Locked = {}
  /\ ~ CommitConflicts(req.transition)
  /\ writing' = [writing EXCEPT ![o] = @ \cup {req}]
  /\ UNCHANGED <<vars, token, inFlight, numbering, lateWrites>>

(* Its inputs, one insert after the other.                                 *)
Missing(by, tr) == {n \in Fresh(tr) : tr.inputs[n] \notin OwnInputs(by)}
Inserted(by) == \A d \in Own(by) : d.held

InsertInput(o, req) ==
  /\ req \in writing[o]
  /\ Inserted({<<o, req>>})
  /\ \E n \in Missing({<<o, req>>}, req.transition) :
       /\ \A m \in Missing({<<o, req>>}, req.transition) : n <= m
       /\ Draw({<<o, req>>}, req.transition.inputs[n])

(* All of it becomes visible at once.                                      *)
ApplyTransition(o, req) ==
  /\ req \in writing[o]
  /\ Inserted({<<o, req>>}) /\ Missing({<<o, req>>}, req.transition) = {}
  /\ entries' = Committed(req.transition)
  /\ QueueAll(req.transition)
  /\ ShowRows(Own({<<o, req>>}))
  /\ writing' = [writing EXCEPT ![o] = @ \ {req}]
  /\ Commits(o, req)

(* An effect conflicts, a statement fails or the connection is lost:       *)
(* nothing is kept but the numbers drawn.                                  *)
RollBack(o, req) ==
  /\ UNCHANGED <<entries, inputs, inputSequence, number, serial, earlier>>
  /\ drafts' = drafts \ Own({<<o, req>>})
  /\ writing' = [writing EXCEPT ![o] = @ \ {req}]
  /\ Commits(o, req)

PgNext ==
  \/ \E o \in Owners :
       \/ PgAcquire(o) \/ PgRelease(o)
       \/ \E req \in Requests : PassFence(o, req)
       \/ \E req \in inFlight[o] :
            \/ InsertIntent(o, req) \/ DeleteIntent(o, req) \/ CompleteEffect(o, req)
            \/ UpsertControl(o, req) \/ UpdateInput(o, req)
            \/ WriteTransition(o, req) \/ InsertInput(o, req)
            \/ ApplyTransition(o, req) \/ RollBack(o, req)
  \/ PgExpire
  \/ \E i \in InputIds : PgEnqueue(i)
  \/ \E d \in drafts :
       HoldRow(d) \/ InsertNothing(d) \/ CommitEnqueue(d) \/ LoseEnqueue(d)

PgSpec == PgInit /\ [][PgNext]_pgVars

-----------------------------------------------------------------------------
(* Properties.                                                             *)

Insertion ==
  [by : SUBSET (Owners \X Requests), input : InputIds, number : Nat, held : BOOLEAN,
   after : SUBSET InputIds]

PgTypeOK ==
  /\ TypeOK
  /\ token \in [Owners -> Nat]
  /\ inFlight \in [Owners -> SUBSET Requests]
  /\ writing \in [Owners -> SUBSET Transactions]
  /\ \A o \in Owners : writing[o] \subseteq inFlight[o]
  /\ drafts \subseteq Insertion
  /\ number \in [InputIds -> Nat]
  /\ serial \in Nat
  /\ earlier \in [InputIds -> SUBSET InputIds]
  /\ lateWrites \in [Owners -> Nat]

(* Take the fence away and, but for the numbers of the inputs, the two     *)
(* stores agree: every transaction that commits is one operation of        *)
(* MemorySteps called without a lease, on the state it finds when it       *)
(* commits and not on what the fence saw.  The sequence of an input is     *)
(* mapped to the order of the commits, so this says nothing of the order   *)
(* list_inputs shows.                                                      *)
Unleased == INSTANCE Ledger WITH lastWriter <- 0

ImplementsUnleasedLedger == Unleased!Spec

(* What is left of "in submission order" (list_inputs): no two inputs      *)
(* share a number, and an input that was in the queue when another was     *)
(* inserted, or that the same transition inserted before it, is listed     *)
(* first.  Only inputs whose submissions overlap may be listed otherwise   *)
(* than they appeared.                                                     *)
ListedInOrder ==
  \A i, j \in InQueue :
    /\ number[i] = number[j] => i = j
    /\ j \in earlier[i] => number[j] < number[i]

(* What the fence still guarantees: once a newer token is out, a replaced  *)
(* worker lands at most the transactions that were already past the fence, *)
(* one for each tool it was running, and never another.                    *)
LateWritesAreBounded ==
  \A o \in Owners :
    /\ lateWrites[o] <= MaxInFlight
    /\ Fences(token[o]) => lateWrites[o] + Cardinality(inFlight[o]) <= MaxInFlight

(* The store's contract on forget, "lease-protected like every other       *)
(* write": intent is never erased by a worker after its successor wrote to *)
(* the branch.  (ledger.py:186-191, README: "fencing rejects stale ledger  *)
(* writes".)                                                               *)
NoLateForget ==
  [][\A k \in EffectKeys :
       entries[k] = Running /\ entries'[k] = Absent => lastWriter' >= lastWriter]_pgVars
=============================================================================
