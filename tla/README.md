# Semora in TLA+

This directory is a verification development of Semora: TLA+ modules translated from the Python
source, TLC configurations that check them on small instances, and TLAPS proofs for every value of
their constants. Source paths below are relative to `src/packages/`; `PROJECT.json` (`map`) names
the lines behind every definition.

Semora makes an agent's run durable. A *run* drives a model and its tools; every model request and
every tool call goes through an *execution boundary* that records intent before and result after the
effect in a per-branch *execution ledger*; a *runtime* holds the branch's lease around a run and
parks rounds that wait for a person; a *transcript* keeps the conversation. The agent framework
(pydantic_ai) and PostgreSQL are external.

## 1. Inventory

### Execution ledger — `semora-store/src/semora_store/ledger.py`
State, per branch: steps (`absent`/`running`/`done` with a value), one lease (owner, token, expiry),
the newest fencing token, an input queue with a sequence counter. Operations: `start`,
`finish_effect`, `write_control`, `forget`, `acquire`, `release`, `enqueue_input`, `claim_input`,
`admit_inputs`, `discard_inputs`, `commit_transition`. `MemorySteps` never awaits inside one.
*Hard*: a replaced worker that wakes up; transitions that fail half way; order of queued inputs.
*Correct when*: writers' tokens never go back, committed results never change, transitions are
whole, the queue keeps its order. → `Ledger`

### PostgreSQL ledger — `semora-store-pg/src/semora_store_pg/postgres.py`
The same contract as tables and READ COMMITTED transactions; the fence is an unlocked `SELECT`, and
an input's sequence is a bigserial, drawn at the insert and seen at the commit. *Hard*: a takeover
between a transaction's fence and its write; submissions that overlap. *Correct when*: but for the
numbers of the inputs it shows nothing the in-memory ledger could not, an input submitted after
another had appeared is listed after it, and the fence bounds what a replaced worker can still
write. → `PgLedger`

### Execution boundary — `semora/src/semora/effects.py`
State, per attempt: suspensions of the round, resume decisions, the regate set; durable: step
records, `after:<call>` markers, the pending round. Operations: `_admit`, `_record_pending`,
`_decide_finish`, `before_tool_execute`/`_gate`, `wrap_tool_execute`/`_execute`, `_journal_once`,
`wrap_model_request`. Called by the agent framework around each request and call; calls the ledger
and the control plane. *Hard*: a crash between effect and result, state read before a gate that may
take long and used after it, hooks that run before their marker is durable, rounds whose calls run
concurrently, bodies that raise a signal instead of acting. *Correct when*: effects go out at most
once (or once more per licensed retry), all attempts show the same answer, nothing begins behind a
call its gate suspended, an approval is asked of no call that has a result or a stray intent. →
`Effects`, `EffectOnce`; input admission and the finish decision → `Conversation`

### Runtime — `semora/src/semora/runtime.py`
State: none of its own between calls; durable: the active suspension, suspend indices, run records.
Operations: `run`, `resume`, `recover`, `fork`, `submit`, `dispatch`, `pending`, `state`, `_park`,
`_finalize`, `_lease` (with the renewal task), `_InputSession`. *Hard*: the park is read, merged and
written back across awaits by different processes; finalizations that crash; runs that looked before
another worker parked; a fork's calls that must be gated again. *Correct when*: no answer is lost,
nothing undecided runs, a completed continuation settled every approved call, a fork makes up no
result and repeats no effect. → `Suspension`, `Fork`; `run`, `submit`, `state` and the input session
→ `Conversation`; the lease block is also in `Effects`

### Command dispatch — `semora/src/semora/dispatch.py`
No state. Picks a transition (`StartRun`, `QueueSteer`, `ResumeApproval`, `RecoverInterrupted`,
`ReplayJournal`) from the command and the observed run state, hands a prompt of a busy branch to the
queue. *Hard*: the state is observed without the lease; a prompt may be handed to the queue while
the holder is finishing. *Correct when*: whatever the interleaving, an input that was queued before
the holder's last look is delivered, once and in its order. → `Conversation`

### Control plane — `semora/src/semora/controls.py`
Composes hooks: `Ingress`, `Permissions`, `Journal`, `FinishPolicy`, `Steering`, `Suspending`. Pure
functions of the verdicts; what a policy answers is arbitrary, and may differ in each attempt.
*Correct when*: a denial wins wherever it stands and no verifier's objection is lost. → `Controls`

### Transcript — `semora/src/semora/transcript.py`, the stores in `semora-store` and `semora-store-pg`
State: an append-only list of rows (messages, leaf markers, tombstones) per conversation; run
records merged field by field. Operations: `opened`, `record`, `rewind`, `closed`,
`Branch.replace`/`append`, `active_branch`. *Hard*: appends carry no token; a replayed attempt
records what the conversation has already; a park or a recovery replaces a history; run records are
keyed by branch only, and a branch that once completed reads as completed while it is driven again.
*Correct when*: at the end of an attempt the active branch is the history the model saw. →
`Transcript`, `Conversation`

### Not to be modelled
The agent facade (`agent.py`) forwards arguments; `contracts.py` and `ids.py` are declarations and
hashing; `context.py` is a record of coordinates; examples, benchmarks and packaging have no program
logic. Where one of them matters for a hazard, `PROJECT.json` lists it.

### How the parts interact
A host calls the runtime; the runtime acquires the branch, reads the transcript and the active
suspension, and drives the agent; the framework calls the boundary around each request and call; the
boundary asks the control plane and reads and writes the ledger under the lease's token; suspended
calls reach the runtime as deferred requests and are parked in one `commit_transition`; answers come
back through `resume`, from any process. All cross-process interaction is through the ledger and the
transcript. That is why the modules interleave at awaits: between two of them a coroutine is atomic
in its process, and another process may do anything the ledger lets it.

## 2. Modules and how they correspond to the code

**`Ledger`** — one action per operation of `MemorySteps`, for one branch. A call that raises or
reports a refusal leaves the ledger alone and has no action; its condition is an operator (`Fences`,
`Conflicts`, `CommitConflicts`, `AcquireResult`). Token 0 is an unleased call. Time is one action,
`Expire`. Values, keys and input ids are model values. Its `Next` is the most general client: any
operation, with any token ever issued. `lastWriter` is a history variable: the token of the last
leased write. Scoping by conversation only picks which branch a call reaches, and is left out.

**`PgLedger`** (extends `Ledger`) — each leased operation is two steps or more: `PassFence` (the
`SELECT` in `_fence`) and the write, since rows are locked from the first write to the commit. An
owner has at most `MaxInFlight` transactions past the fence. `acquire` and `release` are single
statements. `commit_transition` is `WriteTransition` (its effects and controls, whose keys are
`Locked` until it ends), one `InsertInput` for each input it submits, and `ApplyTransition`;
`RollBack` ends any transaction that conflicts, fails or loses its connection. An insert into
`ledger_input`, of a transition or of `enqueue_input`, is drawn (`Draw`: the sequence is taken from
the bigserial whatever becomes of the insert), holds its id in the unique index (`HoldRow`) or finds
it committed (`InsertNothing`), and is seen when its transaction commits (`ApplyTransition`,
`CommitEnqueue`) unless that is lost (`LoseEnqueue`). Uncommitted rows are `drafts`; the column is
`number`, the bigserial `serial`. The `sequence` that `Ledger` keeps in `inputs` is history here, the
order of the commits; `earlier`, also history, is what was in the queue when a row was drawn.
Statements on several rows take their locks at once: taken one by one they could deadlock, and
PostgreSQL then rolls one back.

**`Effects`** (instances `Ledger`) — attempts at one round. An attempt is one `_lease` block:
`Begin`, `Inspect`, the model request, `RecordPending`, then each call through gate
(`CheckRecorded`, `Continue`/`Refuse`/`Suspend`), the step (`ReadAbsent`, `ReadRunning`,
`Indeterminate`, `ClearStep`, `StartStep`, `Execute`, `NothingHappened`, `WithdrawStep`,
`FinishStep`, `ReplayStep`), the journal (`NotJournalled`, `Hook`, `WriteMarker`, `ReplayJournal`),
and the round's end (`Answer`, `ParkRound`, `RefusePark`). A body that raises one of
`_NOTHING_HAPPENED` has its intent cleared and the call goes where that signal takes it
(`Signals`): `ModelRetry` answers the model (`withdrawn`), `ApprovalRequired` waits to be parked
with what the gate suspended (`asked`), `CallDeferred` makes `_park` raise (`deferred`,
`RefusePark`, which also stands for a pending id used twice and a hook that raises). Only the gate's
suspensions hold back the calls behind them (`blocked`), as in `_gate`. Every action ends at an
await of the code. `Crash`,
`Cancel`, `Renew`, `ExpireLease` come at any time. `Renew` models that the renewal task drops what
`acquire` returns: an attempt may hold the lease under a token it does not use. `runs`, `outcome`,
`licensed`, `hooks` are history.

**`EffectOnce`** — what the boundary promises, with no attempts, leases or tokens: begun, possibly
withdrawn while not out, out once, recorded as produced, shown one way. `Effects` ends with the
refinement mapping: the stage of a step is read off its record and whether it went out, what the
model is shown off its marker.

**`Suspension`** (instances `Ledger`) — workers, each one call of `run`, `resume` or `recover`, on a
branch whose round may park: looking before the lease (`Look`, `BeginRun`), merging an answer
(`BeginResume`, `FindPark`, `RecordAnswer`), recovering (`BeginRecover`, `CheckPark`), finalizing
(`StartFinalizing`), taking calls through the boundary (`CallStep`, coarser than in `Effects`), and
parking (`ParkRound`) or completing (`Complete`). A call is to be parked because its gate suspended
it (`SuspendCall`) or its body asked (`AskCall`). The pending ids are chosen by the policy or the
body; two calls may get the same one (the park is then not written).

**`Transcript`** — the transcript of one conversation as operators on the sequence of its rows:
`Appended` (a store appends a message row once), `Tip` (the newest message since the last leaf row,
or where that leaf row points), `Walk`/`ActiveBranch` (from the root to the tip, without what is
buried), `Record` and `Advanced` (a message that is on record already moves the tip to it by a leaf
row), `Rewound` (the common prefix `Branch.replace` goes back to). A message row's identifier is a
hash of parent and message; here it is the row's place, which gives the same equalities.

**`Controls`** — `Ingress`, `Permissions`, `Steering`, `FinishPolicy` as recursive functions over a
list of verdicts, one value per turn of the code's loop, `Without` (what a screen that drops some
inputs leaves of a list), and what the compositions promise (`DenialWins`, `ObjectionsAccumulate`)
stated without a loop. `MCFork` evaluates both for every list of up to four verdicts (`ASSUME
CompositionsAgree`).

**`Conversation`** (extends `Transcript` and `Controls`, instances `Ledger`) — the composition: a
branch driven through `dispatch` by workers that serve one command at a time. Commands:
`StartRun`/`QueueBehind`/`Contend` (`run` looked for a park, and queued, raised `Contended` or got
the lease) and `QueueSteer`, the router's next row for a contended prompt, as a later action of its
own; `Observe` and `BeginRecover` (the state and the history are read before there is a lease),
`BeginAnswer`. A prompt with a `prompt_id` may be sent again at any time. The attempt:
`Finalize`/`DriveRound`, `Open` (`Branch.open`), `Align` (`Branch.replace`, one append at a time,
before and after the run), `EnqueuePrompt`/`AdmitPrompt`, `Start` (the framework's first node),
`Claim`, `Screen`, `RecordRequest`, `AdmitRequest` (`_admit` and the recorder), `Replay`/`Ask`,
`RecordPending`, `EndRound`/`SuspendRound`, `Finish` (`_decide_finish`), and the ends `CommitPark`,
`CloseRun`, `Complete`, `Leave`; `Abandon` (`Raise` or `Crash`) and `ExpireLease` at any await.
A round is what the transcript and the queue see of it; its ledger steps are in `Effects`, its
answers in `Suspension`. What a history shows is read off its requests as sets: `PartsOf` (the inputs in their
content) and `InputIdsOf` (the ids in their metadata, `represented_inputs`). Two history variables
that no guard reads: `excused` collects the inputs an attempt that ended in an error, a
cancellation, a crash or a halt, or a replaced history, may have damaged, and those on which queue and conversation disagree (`Damaged`) when an attempt begins, or
reads the history, while another has not left (`ExcuseOthers`); `strayed` is set when a replaced
worker writes to the transcript.

**`Fork`** (extends `Controls`, instances `Ledger`) — attempts at forking a round, and recoveries of
the target from the same history: copying record by record (`ReadSource`, `CopyDoubt`, `StartCopy`,
`FinishCopy`, `SkipCopy`) while the source goes on (`SourceStep`), then driving (`ReplayCall`,
`Gate` with the calls to gate again, `ReplayAllowed`, `ClearStep`, `StartCall`, `Execute`,
`WithdrawCall`, `FinishCall`). `ran`, `begun`, `cleared` are history.

Operators commented *Faulty variant* are not reachable from any specification. Each is a definition
of the module with one slip a programmer might make (a missing fence, a dropped guard); putting it
in the place of the correct one makes a named property fail, which shows that the property depends
on the code it is about. `PROJECT.json` (`mutants`) pairs them.

## 3. What is checked

State counts are distinct states; times are for two TLC workers.

| run | instance | shows |
|---|---|---|
| `ledger` (31,488; 20 s) | 2 owners, 2 effects, 1 control key, 2 values, 2 inputs, 3 transitions, tokens ≤ 2 | `QueueOrder`, `WritersNeverGoBack`, `CommittedIsFinal`, `TransitionsAreWhole`, `InputsOnlyAdvance` under any client |
| `effects` (88,557; 75 s) | 2 attempts, 2 sequential calls, 2 values, tokens ≤ 3, no retry | `AtMostOnce`, `AnswersAgree`, `RecordedIsReal`, `HooksAreAccounted`, `NothingBeginsBehindSuspension`, `RefusalsRespectRecords`, `ApprovalsAreOfTheFuture`; implements `EffectOnce` |
| `effects_retry` (83,927; 65 s) | 2 attempts that retry, 1 concurrency-safe call | `RunsAreLicensed`, `OwnerIsUncontested`, liveness `RetryFinishes` |
| `pg_ledger` (940,241; 160 s) | 2 owners, 1 transaction in flight each, any number of open enqueues, 2 inputs, 1 transition that submits both, numbers < 2, tokens ≤ 2 | implements `Ledger` without leases, up to the numbers; `LateWritesAreBounded`, `ListedInOrder` |
| `suspension` (264,814; 125 s) | 3 workers, 2 calls, 2 pending ids, 2 parks, tokens ≤ 3 | `CopyIsFresh`, `RunsOnlyWhatWasApproved`, `AnswersSurvive`, `CompletionIsEarned` |
| `conversation` (983,455; 150 s) | 2 workers, 2 prompts (1 with an id), 2 attempts, 2 model calls | `DeliveredOnce`, `NoOvertaking`, `TranscriptIsHistory`, `NothingIsLeftBehind` |
| `fork` (574,001; 45 s) | 2 workers, 2 calls, 3 lists of verdicts, tokens ≤ 3, with retry | `CopiesAreReal`, `InheritedIsNotRepeated`, `RegatedWaits`; the compositions of `Controls` |
| `effects_refused`, `pg_forget`, `park_overrun`, `answer_again`, `conversation_state` | as above | violations, see 5 |

*Why the bounds are enough to be interesting.* Two attempts and three tokens allow a takeover, and a
second one by the attempt that was replaced (through `Renew`), which is the longest chain of
ownership the rules of `_lease` distinguish: current, replaced, back under an unused token. Two
calls are the fewest with an order between them, and the fewest of which one can be decided while
the other is not. Two values let two attempts disagree. Three workers are one that parks, one that
finalizes and crashes, and one that answers or recovers; a second park lets a call be suspended
again. Two transitions of `MCLedger` conflict in the two ways the code tests, and one repeats an
input. Two numbers are enough in `pg_ledger` for a row to appear before one with a smaller number,
and for a number to be lost; one transaction in flight per owner leaves the bound of
`LateWritesAreBounded` for more to its proof. In `conversation` a second attempt takes over from, repeats, answers or recovers the first at
every await of it, and two model calls are a round and the turn after it, or two turns; a prompt
with an id can be sent twice and handed off once, and one without an id gets a new queue id each
time it is queued. On-input screens pass all, drop one prompt, or halt; `before_finish` ends or goes
on; `before_model` only proceeds, a halt of it being one of `on_inputs` as far as the attempt goes.
In `fork` two attempts at two calls let a fork be cut off, or taken over, at every await and then
repeated or recovered. Symmetry is used over values that no definition orders or chooses; the run
with a liveness property uses none.

*What is cut off.* `conversation` has the constraint `Tidy`: states after a replaced worker's write
to the transcript are not explored, because its properties say nothing from there on (`strayed`).
The views `Seen` leave out what no action or property of their run reads: `lastWriter` in
`conversation`, `fork`, `pg_ledger` and `suspension`; in `effects`, `lastWriter` and what an attempt that is
over had reached, beyond what it showed.

*Deadlock* is off except for `ledger`: attempts end, and a bounded number of them stops.

*Fairness.* Only `RetryFinishes` needs it: weak fairness of `AttemptStep(a)` for each attempt, i.e.
the event loop goes on running the coroutine of a process that lives, and models and tools return.
Beginning, renewing, lease expiry, cancellation and crashes are not fair. A crashed attempt has no
enabled step, so fairness says nothing of it.

*On each property.* The comment above it names the code. Four deserve a word.
`RefusalsRespectRecords` holds only of the attempt that owns the branch: `before_tool_execute` reads
the record, then awaits a gate for as long as a hook takes; nobody else can finish the call
meanwhile because of the fence. `RunsOnlyWhatWasApproved` and `AnswersSurvive` except the runs in
`overran`: a run that got the lease of a parked branch, which is the finding `park_overrun`; the
exception is confined to the steps of those runs. `AtMostOnce` is about the in-memory ledger's
atomic fence; what changes under PostgreSQL is in `pg_ledger` and `pg_forget`. `DeliveredOnce`
compares the queue with the conversation when no attempt is in progress. The two are separate
stores, so an attempt that ends in any raised error, is cancelled, crashes or is taken over between
recording a request and admitting its inputs, or between admitting a prompt and recording it, leaves
them apart; the property excuses exactly the inputs that differ at that moment, so an input that
goes astray in any other way is still an error. It says nothing of the excused inputs: that a prompt
may be lost there, and how a later attempt tells which claimed inputs the model has, is what the
model reproduces and no property judges.

The excuse covers one case that the runs' bounds are too small to meet and that the proof brought
up: an attempt crashes after it recorded a request; the next one takes that request out of the
history and records it again under itself, for a moment twice; `RecoverInterrupted`
(`dispatch.py:235`) reads the history just then, before there is a lease, and drives on from it.
Whether queue and conversation disagree is therefore also looked at when a history is read while an
attempt is under way, and not only when an attempt ends or begins. `NothingIsLeftBehind` has no such
exception: it holds of excused inputs too.

## 4. What is proved

`LedgerProofs`, `PgLedgerProofs`, `EffectsProofs`, `SuspensionProofs`, `ForkProofs`,
`TranscriptProofs`, `ConversationProofs` and, on top of it, `DeliveryProofs`, for every value of the
constants satisfying the modules' assumptions (`LedgerAssumption`, `PgLedgerAssumption`,
`EffectsAssumption`, `SuspensionAssumption`, `ForkAssumption`, `ConversationAssumption`; the runs
evaluate them): any number of attempts, workers, calls, values, prompts, inputs, transitions and
pending ids, any round, any screens and verdicts, any bound on tokens, parks and model calls. Every
safety property and both refinements of all passing runs are proved.

*Ledger.* `LedgerTypes`; `FenceOrdersWriters` (from `WriterIsIssued`: the last writer's token is at
most the newest issued, and a leased write needs a token at least as new); `CommittedStays` (every
operation that changes an effect's step asks for it to be unfinished or to hold the same value);
`QueueIsOrdered`, which is inductive with the types once the numbering of a transition's new inputs
is shown to be injective and below the counter it leaves (by the cardinality of the places before
each); `InputsNeverGoBack`; `TransitionsHappenWhole` (all single-key operations change one key at
most).

*PostgreSQL ledger.* `PgLedgerTypes`; `PgImplementsLedger` by cases of the step: the commit of a
transaction is the in-memory operation with token 0, whose fence lets everything through, since
every write tests the row it finds; passing the fence, drawing numbers and rolling back are stutters;
the leases map to themselves, and the sequence of an input to the order of the commits. A transition
tests its effects when it writes them and shows them when it commits: `LockInv` says that what it
found still holds, no two open transitions sharing a key. `SubmissionsListedInOrder`
(`ListedInOrder`) from `OrderInv`: numbers of rows and of drafts are distinct and below the
bigserial; an id is held by one draft; and what a draft comes after is visible with a smaller
number, or a held draft of its own transition, which commits with it or is lost with it.
`LateWritesBounded` from `LateInv`: what a replaced owner has written since, plus
what it still has in flight, is at most `MaxInFlight`, because only an owner of the newest token
adds to what is in flight, and it has no late writes.

*Effects.* The argument, each step a conjunct added to the inductive invariant:
1. `TypeInv` — types, and that an attempt that is finishing carries a value of its step
   (`EffectsTypes`).
2. `TokenInv` — tokens given out are at most `issued` and belong to one attempt; a new attempt has
   none. With the fence it gives `WriterIsCurrent`: an attempt whose write gets through owns the
   newest token, and no other attempt has it.
3. `OwnInv` — what the current attempt has read of a step still holds: free when it is about to
   start it, running while it executes and reports (`OwnerUncontested`). Not inductive without 2: a
   stale writer could break it. It is also why `FinishEffect` never meets a conflict under a lease.
4. `JournalInv` — an answered call's marker is durable with the value shown (`OneAnswerPerCall`).
5. `LicenceInv` — for each step, its runs plus the attempts that recorded an intent and have not yet
   run or cleared it are at most the licences plus one if an intent or result is on record. The
   bound `RunsAreLicensed` alone is not inductive: an attempt at `executing` is about to add a run,
   and what pays for it is its intent on record (`EffectsAreLicensed`; `EffectsHappenOnce` is the
   case without retries).
6. `RealInv` — besides the property itself, an attempt that is about to report carries what its
   effect produced. That no other run came in between needs 5: the first to run has used up the only
   intent (`RecordsAreReal`).
7. `HookInv` — a call's hooks are at most its marker plus the attempts between hook and marker,
   counted as in 5 (`HooksAccounted`).
8. `BarrierInv` — in a sequential round a call is begun only when all before it are resolved, and
   what is behind a gate's suspension is at most looked at or replayed from its record
   (`SuspensionBars`). A call whose body asked for approval counts as resolved, as in the code.
   It needs that no step takes a result off the record (`ResultsStay`), which is 2 and 3.
9. `GateInv` — while the owner of the branch is gating a call, the call has no result on record: it
   had none when the owner looked, and only the owner writes (`RefusalsAreRight`). While the owner
   holds a call to be parked that is still so, and if the body asked there is no intent either, by 3
   (`ApprovalsAskAhead`).
10. `PastInv` — a call whose result is being journalled has it on record. With it, 3, 5 and 6, every
    step maps to a step of `EffectOnce` or a stutter (`BoundaryIsOnce`, where no runtime retries):
    executing is going out, which needs the intent on record and no run before (`IntentIsThere`,
    from 5); withdrawing likewise; finishing is recording, as the record is running by 3; the marker
    is the one showing, since 4 has it absent.

*Suspension.* The inductive invariant is `IInv`, again types and `TokenInv`, and per worker `Safe`:
1. `Fresh` — while the worker owns the branch its copy of the park is the park on record, with at
   most its own answer added. The park is only written by a worker that passes the fence
   (`ParkWriters`), so nobody else writes while it is the owner; a worker that is not may hold any
   old copy, and can do nothing with it (`CopiesAreFresh`).
2. `Decided` — a finalizer's copy has every answer; `Marked` — the park is marked `resuming` while
   it is driven, and a worker that drives without a copy drives where nothing is parked, unless it
   is in `overran`; `Taken` — a finalizer takes exactly the calls of its copy, and an answered call
   has its result on record.

Then each action property follows from `IInv` and one look at the steps that write the park or an
intent: `NoAnswerIsLost` (`AnswersSurvive`), `OnlyApprovedRuns` (`RunsOnlyWhatWasApproved`),
`CompletionsAreEarned` (`CompletionIsEarned`). The exception for `overran` appears in the invariant
at one place only, `Marked`.

*Fork.* One inductive invariant, with no use of the lease: `Real` (an attempt that is to copy a
result read it in the source; one that is to report ran its call), `Replays` (what it copied is on
record as copied, so it is never about to run it; a call is let through only while nothing asks),
`Kept` (a call nobody cleared stays on record from its first intent on, so that only one attempt is
about to run it, and none if it was copied). `CopiesReal`, `NotRepeated`, `RegateHolds` follow. The
argument does not need the fence because `start` succeeds for one of several writers only.

*Transcript.* Not about a state machine but about any sequence of rows that is `Sound` (a message's
parent is a message before it or the root, a leaf row points at a message or the root; nothing is
buried, as no runtime operation writes a tombstone): `TipFollowsRecord` (after `Record` the tip is
the message's row, on whatever branch it was; here rows may be any), `RecordRenamesNothing`
(rows stay distinct and keep their identifiers), `RecordExtends` and `RewindKeepsPrefix` (what one
`record` or `rewind` makes of the branch an attempt holds, new rows and old alike),
`ActiveBranchIsChain` and `HeldIsActive` (what the next attempt reads). `Walk` is a recursive
function. What it computes for all rows needs induction, which the library's theorems, with an
operator as parameter, cannot give here; the sets of numbers for which the claim holds are compared
with the domain instead, by the least number left out (`NatLeast`, and `UpTo` in
`ConversationProofs`). The loops of `Controls` are treated likewise (`WithoutDropsOnly`: a screened
list has all and only what is not dropped, in its order).

*Conversation.* The inductive invariant, part by part, `ConversationProofs` first:
1. `Typed` — types, `Sound` of the rows, the queue's numbering (`QueueIsOrdered` again, through
   `QueueAdvances`: what any operation of this module does to the queue), and what each program
   counter says of the rest of its attempt (`TypeCorrect`).
2. `Ownership` — tokens belong to one attempt, and the owner of a live lease has the newest one.
3. `HeldBranch` — while nobody strayed, the attempt with the newest token holds the active branch,
   and its history is what that branch says once it is aligned. It gives `TranscriptKept`. Not
   inductive without 2 and `RecordExtends`, `RewindKeepsPrefix`: a replaced worker's write moves the
   tip from under it, and that is when `strayed` is set.
4. `SeenIsKept` — what an attempt has claimed is terminal, in its history, or in its hands, all the
   way to its end. It gives `NothingLeft`: an input queued before the last look was claimable then,
   or was one of those three already.

`DeliveryProofs` then, which needs more than the property says:

5. `Delivered` — the property holds between attempts only, so the invariant says what holds at every
   await: `Whole`, when the conversation fits the queue (every unexcused input that is admitted is
   shown once, any other not at all), and for the attempt that owns the branch which inputs are on
   their way, in its request, recorded and not admitted, or admitted and not recorded (`Carried`);
   and for the histories that lie about, in a park, in the hands of a recovery that read before it
   had a lease, what they show (`GivenEarly`). `EveryInputDelivered` follows.
6. `KeptInOrder` — the histories of parks (`OrderedParks`) and of attempts (`OrderedAttempts`), and
   the conversation, have their input ids in queue order, and what an attempt carries comes after
   all of them: what is claimed now was queued after everything that is admitted, or was claimed and
   lost, and is then in nobody's history. `QueueOrderKept` follows.

TLC checked the parts 5 and 6 as invariants before they were proved, over the whole of the instance
of `conversation` and over a part of the states with three and four tokens, where the case of
section 3 came up.

### Only model-checked
`RetryFinishes`, which is liveness under fairness and, with `ENABLED`, out of the prover's reach;
the compositions `DenialWins` and `ObjectionsAccumulate` of `Controls`, checked for lists of up to
four verdicts; and the violations of 5.

## 5. Where the code and its documentation disagree

* `effects_refused` — the gate is asked about a `running` step, so a call whose effect went out can
  be denied and reported as not executed (`effects.py:417`), against the module's docstring on
  `Indeterminate`.
* `pg_forget` — under READ COMMITTED a replaced worker's `forget` can delete its successor's intent
  (`postgres.py:185`), which the contract of `forget` names as what the token prevents.
* `park_overrun` — `run` looks for a park before it has the lease; a run that gets the lease of a
  branch parked meanwhile replaces the park and its pending ids (`runtime.py:161`).
* `answer_again` — an answer for a call already decided is accepted after a finalization that
  crashed, and a refusal then hides a recorded result (`runtime.py:282`).
* `conversation_state` — the run record keeps `ended_at` of the attempt that completed, so a branch
  that is driven again, or whose second attempt crashed, reads as `completed` and not `interrupted`
  (`transcript.py:193`); `dispatch(Recover)` then finds no row and raises `InvalidTransition`.

Two more that no run of its own shows:

* A tool body that raises `ApprovalRequired` parks its call (`effects.py:507`), but only the gate
  sets `_suspended_this_round` (`effects.py:435`): the later calls of a sequential round run while
  the first waits. The comment in `_gate` has it that anything behind a suspension "must not run
  before the earlier call is decided" (`effects.py:451-453`). `Effects` and `Suspension` reproduce it
  (the place `asked`), and `NothingBeginsBehindSuspension` is confined to the gate's suspensions.
* Under PostgreSQL a later row may carry the smaller number, if the two submissions overlap: a
  consumer that listed, claimed or admitted one input may then find another listed before it
  (`postgres.py:250`, and `postgres.py:367` for a transition). `list_inputs` promises "submission
  order", which overlapping submissions do not have; `ListedInOrder` is what remains of it.
  `NoOvertaking` of `Conversation` is about the in-memory ledger, whose enqueue is atomic.

## 6. Not modelled

The agent facade, contexts and declarations (see 1). Scoping: the modules have one branch of one
conversation, so ids that contain a slash and branches of the same name in two conversations are
left out. A routing table a host has reordered. The PostgreSQL transcript store beyond the contract
it shares with the in-memory one; model usage; reads with a limit. Connection pooling and DDL,
serialization of messages and results, streaming, telemetry: no state the properties are about. A
host that calls `run` without a prompt on a branch it knows to be parked is left out of `Suspension`
(the dispatcher never does).

`Conversation` leaves out what the other modules have: model steps that never report and the renewal
task (`Effects`), and a `run` that looks for a park, and another worker that parks before it
acquires (`Suspension`). It does not follow a replaced worker's appends, which carry no token. In
`Fork` the set of calls to gate again belongs to one attempt, as in the code: an attempt that
repeats the fork replays what its predecessor copied, and `RegatedWaits` says nothing of that.

## 7. Plan

All modules of the plan are written: `Ledger`, `PgLedger`, `Effects` with `EffectOnce`,
`Suspension`, `Transcript`, `Controls`, `Conversation`, `Fork`, and the proofs of section 4.

What remains: the compositions of `Controls` for lists of any length, with the argument that serves
`Walk` and `Without`; and a second branch, for the hazards of scoping that are listed without a
property.
