------------------------------- MODULE Ledger -------------------------------
(***************************************************************************)
(* The execution ledger of one branch, as `MemorySteps` keeps it           *)
(* (semora_store/ledger.py).  No operation of that store awaits, so each   *)
(* is one atomic action here.  The state is the branch's steps, its run    *)
(* lease, the fencing token counter and its input queue.                   *)
(*                                                                         *)
(* On its own the module is the most general client: anyone may call any   *)
(* operation with token zero (an unleased write) or with any token ever    *)
(* issued, current or stale.  Components that drive the ledger INSTANCE it *)
(* and conjoin these actions with their own state changes.                 *)
(*                                                                         *)
(* A call that raises (`Fenced`, `EffectConflict`) or reports a refusal    *)
(* (`False`, token 0) leaves the ledger as it was and so is no action; the *)
(* conditions for it are operators (Fences, Conflicts, AcquireResult).     *)
(***************************************************************************)
EXTENDS Integers, FiniteSets, Sequences

CONSTANTS
  Owners,        \* lease owners: a fresh uuid for every lease the runtime opens
  NoOne,         \* the owner of a released lease, and of a branch never leased
  EffectKeys,    \* step keys of effects (tool:<id>, agent:model:<hash>)
  ControlKeys,   \* step keys of control state (after:<id>, active suspension, ...)
  Values,        \* what a step may record
  InputIds,      \* ids of queued inputs
  Transitions,   \* the arguments `commit_transition` is called with
  MaxToken       \* bound on the fencing tokens issued

(* One argument of commit_transition: completions with distinct keys (a    *)
(* repeated key raises ValueError before anything is written), control     *)
(* values by key, and queued inputs in order.                              *)
Completion == [key : EffectKeys, value : Values, expected : {"absent", "running"}]

IsTransition(tr) ==
  /\ tr.effects \subseteq Completion
  /\ \A e, f \in tr.effects : e.key = f.key => e = f
  /\ DOMAIN tr.controls \subseteq ControlKeys
  /\ \A k \in DOMAIN tr.controls : tr.controls[k] \in Values
  /\ tr.inputs \in Seq(InputIds)

ASSUME LedgerAssumption ==
  /\ EffectKeys \cap ControlKeys = {}
  /\ NoOne \notin Owners
  /\ MaxToken \in Nat
  /\ \A tr \in Transitions : IsTransition(tr)

VARIABLES
  entries,        \* the step recorded under each key
  lease,          \* the branch's lease: owner, token, and whether it is unexpired
  issued,         \* the newest fencing token issued
  inputs,         \* status and sequence number of each queued input
  inputSequence,  \* the next sequence number
  lastWriter      \* history: token of the last leased call that wrote to the ledger

vars == <<entries, lease, issued, inputs, inputSequence, lastWriter>>

Keys == EffectKeys \cup ControlKeys

Absent  == [status |-> "absent"]
Running == [status |-> "running"]
Done(v) == [status |-> "done", value |-> v]

Steps == {Absent, Running} \cup {Done(v) : v \in Values}

Unqueued == [status |-> "unqueued", sequence |-> 0]
Queued(status, n) == [status |-> status, sequence |-> n]

Init ==
  /\ entries = [k \in Keys |-> Absent]
  /\ lease = [owner |-> NoOne, token |-> 0, live |-> FALSE]
  /\ issued = 0
  /\ inputs = [i \in InputIds |-> Unqueued]
  /\ inputSequence = 0
  /\ lastWriter = 0

-----------------------------------------------------------------------------
(* Faulty variant: the fence compares with the token before last.           *)
FencesLate(t) == t # 0 /\ t < issued - 1

(* The fence: a leased write is refused once a newer token was issued; an  *)
(* unleased one (token 0) never is.                                        *)
Fences(t) == t # 0 /\ t < issued

Fenced(t) ==
  /\ ~ Fences(t)
  /\ lastWriter' = IF t = 0 THEN lastWriter ELSE t

(* Steps.                                                                  *)

Start(t, k) ==
  /\ Fenced(t)
  /\ entries[k] = Absent
  /\ entries' = [entries EXCEPT ![k] = Running]
  /\ UNCHANGED <<lease, issued, inputs, inputSequence>>

Conflicts(k, v) == entries[k] # Running /\ entries[k] # Done(v)

FinishEffect(t, k, v) ==
  /\ Fenced(t)
  /\ ~ Conflicts(k, v)
  /\ entries' = [entries EXCEPT ![k] = Done(v)]
  /\ UNCHANGED <<lease, issued, inputs, inputSequence>>

WriteControl(t, k, v) ==
  /\ Fenced(t)
  /\ entries' = [entries EXCEPT ![k] = Done(v)]
  /\ UNCHANGED <<lease, issued, inputs, inputSequence>>

(* Faulty variant: forget removes whatever is on record.                   *)
ForgetAny(t, k) ==
  /\ Fenced(t)
  /\ entries' = [entries EXCEPT ![k] = Absent]
  /\ UNCHANGED <<lease, issued, inputs, inputSequence>>

Forget(t, k) ==
  /\ Fenced(t)
  /\ entries' = [entries EXCEPT ![k] = IF @.status = "done" THEN @ ELSE Absent]
  /\ UNCHANGED <<lease, issued, inputs, inputSequence>>

-----------------------------------------------------------------------------
(* The lease.  Its holder keeps the token when it renews, even after the   *)
(* expiry; a new lease or a takeover of an expired one moves the token.    *)

AcquireResult(o) ==
  IF lease.owner = o THEN lease.token
  ELSE IF lease.live THEN 0
  ELSE issued + 1

Acquire(o) ==
  /\ AcquireResult(o) \in 1 .. MaxToken
  /\ lease' = [owner |-> o, token |-> AcquireResult(o), live |-> TRUE]
  /\ issued' = IF lease.owner = o THEN issued ELSE issued + 1
  /\ UNCHANGED <<entries, inputs, inputSequence, lastWriter>>

Release(o) ==
  /\ lease' = IF lease.owner = o THEN [owner |-> NoOne, token |-> lease.token, live |-> FALSE]
              ELSE lease
  /\ UNCHANGED <<entries, issued, inputs, inputSequence, lastWriter>>

(* The monotonic clock passes the lease's expiry.                          *)
Expire ==
  /\ lease.live
  /\ lease' = [lease EXCEPT !.live = FALSE]
  /\ UNCHANGED <<entries, issued, inputs, inputSequence, lastWriter>>

-----------------------------------------------------------------------------
(* The input queue.  Enqueueing takes no token: it is append-only.         *)

(* Faulty variant: the input is numbered before the first.                 *)
EnqueueBefore(i) ==
  /\ inputs[i] = Unqueued
  /\ inputs' = [inputs EXCEPT ![i] = Queued("pending", inputSequence - 1)]
  /\ inputSequence' = inputSequence + 1
  /\ UNCHANGED <<entries, lease, issued, lastWriter>>

EnqueueInput(i) ==
  /\ inputs[i] = Unqueued
  /\ inputs' = [inputs EXCEPT ![i] = Queued("pending", inputSequence)]
  /\ inputSequence' = inputSequence + 1
  /\ UNCHANGED <<entries, lease, issued, lastWriter>>

Mark(I, status, except) ==
  inputs' = [i \in InputIds |->
               IF i \in I /\ inputs[i].status \notin except \cup {"unqueued"}
               THEN Queued(status, inputs[i].sequence) ELSE inputs[i]]

(* Faulty variant: only a discarded input counts as terminal.              *)
ClaimAdmitted(t, i) ==
  /\ Fenced(t)
  /\ Mark({i}, "claimed", {"discarded"})
  /\ UNCHANGED <<entries, lease, issued, inputSequence>>

ClaimInput(t, i) ==
  /\ Fenced(t)
  /\ Mark({i}, "claimed", {"admitted", "discarded"})
  /\ UNCHANGED <<entries, lease, issued, inputSequence>>

AdmitInputs(t, I) ==
  /\ Fenced(t)
  /\ Mark(I, "admitted", {"discarded"})
  /\ UNCHANGED <<entries, lease, issued, inputSequence>>

DiscardInputs(t, I) ==
  /\ Fenced(t)
  /\ Mark(I, "discarded", {})
  /\ UNCHANGED <<entries, lease, issued, inputSequence>>

-----------------------------------------------------------------------------
(* commit_transition validates every effect before it writes anything.     *)

CommitConflicts(tr) ==
  \E e \in tr.effects :
    /\ entries[e.key] # Done(e.value)
    /\ entries[e.key].status # e.expected

(* Faulty variant: the controls of a transition that completes effects are *)
(* left for later.                                                         *)
CommittedEffects(tr) ==
  [k \in Keys |->
     IF \E e \in tr.effects : e.key = k
     THEN Done((CHOOSE e \in tr.effects : e.key = k).value)
     ELSE entries[k]]

Committed(tr) ==
  [k \in Keys |->
     IF k \in DOMAIN tr.controls THEN Done(tr.controls[k])
     ELSE IF \E e \in tr.effects : e.key = k
          THEN Done((CHOOSE e \in tr.effects : e.key = k).value)
          ELSE entries[k]]

(* The positions of tr.inputs that insert: ids not queued before, at their *)
(* first occurrence.                                                       *)
Fresh(tr) ==
  {n \in DOMAIN tr.inputs :
     /\ inputs[tr.inputs[n]] = Unqueued
     /\ \A m \in 1 .. n - 1 : tr.inputs[m] # tr.inputs[n]}

Position(tr, i) == CHOOSE n \in Fresh(tr) : tr.inputs[n] = i

(* Faulty variant: the counter is read once for all of the inputs.         *)
QueueAllAtOnce(tr) ==
  /\ inputs' = [i \in InputIds |->
                  IF \E n \in Fresh(tr) : tr.inputs[n] = i
                  THEN Queued("pending", inputSequence) ELSE inputs[i]]
  /\ inputSequence' = inputSequence + Cardinality(Fresh(tr))

QueueAll(tr) ==
  /\ inputs' = [i \in InputIds |->
                  IF \E n \in Fresh(tr) : tr.inputs[n] = i
                  THEN Queued("pending", inputSequence
                         + Cardinality({m \in Fresh(tr) : m < Position(tr, i)}))
                  ELSE inputs[i]]
  /\ inputSequence' = inputSequence + Cardinality(Fresh(tr))

CommitTransition(t, tr) ==
  /\ Fenced(t)
  /\ ~ CommitConflicts(tr)
  /\ entries' = Committed(tr)
  /\ QueueAll(tr)
  /\ UNCHANGED <<lease, issued>>

-----------------------------------------------------------------------------
(* The most general client.                                                *)

Tokens == 0 .. issued

Next ==
  \/ \E t \in Tokens :
       \/ \E k \in EffectKeys : Start(t, k) \/ Forget(t, k)
       \/ \E k \in EffectKeys, v \in Values : FinishEffect(t, k, v)
       \/ \E k \in ControlKeys, v \in Values : WriteControl(t, k, v)
       \/ \E i \in InputIds : ClaimInput(t, i)
       \/ \E I \in SUBSET InputIds : AdmitInputs(t, I) \/ DiscardInputs(t, I)
       \/ \E tr \in Transitions : CommitTransition(t, tr)
  \/ \E o \in Owners : Acquire(o) \/ Release(o)
  \/ Expire
  \/ \E i \in InputIds : EnqueueInput(i)

Spec == Init /\ [][Next]_vars

-----------------------------------------------------------------------------
(* Properties.                                                             *)

InputStatus == {"pending", "claimed", "admitted", "discarded"}

TypeOK ==
  /\ entries \in [Keys -> Steps]
  /\ lease \in [owner : Owners \cup {NoOne}, token : Nat, live : BOOLEAN]
  /\ issued \in Nat
  /\ inputs \in [InputIds -> {Unqueued} \cup [status : InputStatus, sequence : Nat]]
  /\ inputSequence \in Nat
  /\ lastWriter \in Nat

(* "The fence rejects stale ledger writes": over any history of takeovers, *)
(* the tokens of the calls that wrote to the ledger never go back, so no   *)
(* replaced worker writes after its successor has.  (_fence, and the fence *)
(* at the head of every leased operation.)                                 *)
WritersNeverGoBack == [][lastWriter' >= lastWriter]_vars

(* An effect result that was committed is never replaced, cleared or       *)
(* reopened by any operation, whoever calls it: every later attempt        *)
(* replays the same value.  (finish_effect, forget, commit_transition.)    *)
CommittedIsFinal ==
  [][\A k \in EffectKeys : entries[k].status = "done" => entries'[k] = entries[k]]_vars

(* What commit_transition promises its caller: after one that the fence    *)
(* and the validation let through, every control and every effect of the   *)
(* transition is on record with the value asked for, and when it changes   *)
(* any step it has not overwritten an effect that reported otherwise.      *)
(* Stated as: a step that writes two keys or more is a whole transition.   *)
TransitionsAreWhole ==
  [][LET changed == {k \in Keys : entries'[k] # entries[k]} IN
     Cardinality(changed) > 1 =>
       \E tr \in Transitions :
         /\ changed \subseteq DOMAIN tr.controls \cup {e.key : e \in tr.effects}
         /\ \A k \in DOMAIN tr.controls : entries'[k] = Done(tr.controls[k])
         /\ \A e \in tr.effects : entries'[e.key] = Done(e.value)]_vars

(* Inputs keep their submission order for good: sequence numbers of queued *)
(* inputs are distinct and below the counter, and no later call renumbers  *)
(* an input, re-opens a terminal one or takes it back out of the queue.    *)
(* (enqueue_input, claim_input, admit_inputs, discard_inputs.)             *)
QueueOrder ==
  /\ \A i \in InputIds : inputs[i] # Unqueued => inputs[i].sequence < inputSequence
  /\ \A i, j \in InputIds :
       /\ inputs[i] # Unqueued /\ inputs[j] # Unqueued
       /\ inputs[i].sequence = inputs[j].sequence
       => i = j

StatusRank(s) ==
  CASE s = "unqueued" -> 0 [] s = "pending" -> 1 [] s = "claimed" -> 2
    [] s = "admitted" -> 3 [] s = "discarded" -> 4

InputsOnlyAdvance ==
  [][\A i \in InputIds :
       /\ StatusRank(inputs'[i].status) >= StatusRank(inputs[i].status)
       /\ inputs[i] # Unqueued => inputs'[i].sequence = inputs[i].sequence]_vars
=============================================================================
