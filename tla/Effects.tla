------------------------------ MODULE Effects ------------------------------
(***************************************************************************)
(* The execution boundary (semora/effects.py): attempts at one round of a  *)
(* run, each under its own lease of the branch (semora/runtime.py), drive  *)
(* one model request and the tool calls it issues through the ledger.      *)
(*                                                                         *)
(* An attempt is one `_lease` block: it acquires the branch under a fresh  *)
(* owner, replays or performs the model request, then takes every call of  *)
(* the round through gate, intent, effect, result and journal.  Each step  *)
(* of an attempt ends at an await, so attempts interleave between any two  *)
(* ledger operations.  An attempt may crash (it stops, its lease runs out) *)
(* or just be slow, so that a successor takes the branch over while it     *)
(* still holds a step it read before: what keeps the record straight then  *)
(* is the fence and the rules below, not the lease.                        *)
(*                                                                         *)
(* Left to other modules: how a parked round is answered and the input     *)
(* queue.  Policy is arbitrary here: a gate may answer differently in each *)
(* attempt.  The control plane is present; without one nothing is          *)
(* journalled.                                                             *)
(***************************************************************************)
EXTENDS Integers, FiniteSets, Sequences

CONSTANTS
  Attempts,         \* attempts at the round; each is the owner of its lease
  NoOne,            \* the owner of a released lease
  Calls,            \* tool call ids
  Round,            \* the calls of the model's response, in model order
  ConcurrencySafe,  \* calls of tools whose metadata says order cannot matter
  RetryAttempts,    \* attempts of a runtime with retry_running=True
  Values,           \* tool results and their projections
  Model,            \* the model request's step
  Response,         \* what the model answered
  MaxToken          \* bound on the fencing tokens issued

ASSUME EffectsAssumption ==
  /\ NoOne \notin Attempts
  /\ Model \notin Calls
  /\ Round \in Seq(Calls)
  /\ RetryAttempts \subseteq Attempts
  /\ MaxToken \in Nat

VARIABLES
  entries, lease, issued, lastWriter,  \* the ledger of the branch
  phase,    \* of each attempt: where its lease block stands, or how it ended
  token,    \* the fencing token each attempt was given when it began
  held,     \* attempts that have not left their lease block
  pc,       \* of each attempt and step: the await it is at
  got,      \* of each attempt and step: the value it carries
  blocked,  \* attempts with a suspension in the round (_suspended_this_round)
  runs,     \* history: how often each step's effect went out
  outcome,  \* history: what it last produced
  licensed, \* history: how often a retry cleared a step that never reported
  hooks     \* history: how often post_tool_use saw each call

ledgerVars == <<entries, lease, issued, lastWriter>>
attemptVars == <<phase, token, held, pc, got, blocked>>
historyVars == <<runs, outcome, licensed, hooks>>
vars == <<ledgerVars, attemptVars, historyVars>>

Effect == Calls \cup {Model}
StepKey(s) == <<"step", s>>
AfterKey(c) == <<"after", c>>
PendingRound == <<"control", "pending-round">>
ActiveSuspension == <<"control", "active-suspension">>

NoValue == <<"no value">>
RoundRecord == <<"round">>
ParkRecord == <<"park">>

ToolKeys == {StepKey(s) : s \in Effect}
ControlStateKeys == {AfterKey(c) : c \in Calls} \cup {PendingRound, ActiveSuspension}

L == INSTANCE Ledger WITH
       Owners <- Attempts,
       EffectKeys <- ToolKeys,
       ControlKeys <- ControlStateKeys,
       Values <- Values \cup {Response, RoundRecord, ParkRecord},
       InputIds <- {}, inputs <- <<>>, inputSequence <- 0,
       Transitions <- {[effects |-> {},
                        controls |-> [k \in {ActiveSuspension} |-> ParkRecord],
                        inputs |-> <<>>]}

Park == [effects |-> {}, controls |-> [k \in {ActiveSuspension} |-> ParkRecord],
         inputs |-> <<>>]

Working == {"opened", "model", "round"}
Ended == {"answered", "parked", "indeterminate", "fenced", "raised", "cancelled"}

Init ==
  /\ L!Init
  /\ phase = [a \in Attempts |-> "new"]
  /\ token = [a \in Attempts |-> 0]
  /\ held = {}
  /\ pc = [a \in Attempts |-> [s \in Effect |-> IF s = Model THEN "ready" ELSE "idle"]]
  /\ got = [a \in Attempts |-> [s \in Effect |-> NoValue]]
  /\ blocked = {}
  /\ runs = [s \in Effect |-> 0]
  /\ outcome = [s \in Effect |-> NoValue]
  /\ licensed = [s \in Effect |-> 0]
  /\ hooks = [c \in Calls |-> 0]

-----------------------------------------------------------------------------
(* The lease block.                                                        *)

Begin(a) ==
  /\ phase[a] = "new"
  /\ L!Acquire(a)
  /\ token' = [token EXCEPT ![a] = L!AcquireResult(a)]
  /\ held' = held \cup {a}
  /\ phase' = [phase EXCEPT ![a] = "opened"]
  /\ UNCHANGED <<pc, got, blocked, historyVars>>

(* The renewal task ignores what acquire returns: a lease that was lost    *)
(* may come back to this owner under a token the attempt does not use.     *)
Renew(a) ==
  /\ a \in held
  /\ phase[a] \in Working
  /\ L!Acquire(a)
  /\ UNCHANGED <<attemptVars, historyVars>>

(* Every way out of the block but a crash releases the lease.              *)
Close(a) ==
  /\ a \in held
  /\ phase[a] \in Ended
  /\ L!Release(a)
  /\ held' = held \ {a}
  /\ UNCHANGED <<phase, token, pc, got, blocked, historyVars>>

EndAs(a, how) ==
  /\ phase' = [phase EXCEPT ![a] = how]
  /\ UNCHANGED <<ledgerVars, token, held, pc, got, blocked, historyVars>>

(* recover reads the active suspension first: a parked round stays parked. *)
Inspect(a) ==
  /\ phase[a] = "opened"
  /\ EndAs(a, IF entries[ActiveSuspension] # L!Absent THEN "parked" ELSE "model")

(* The host's cancellation, or a runtime signal of a nested run: whatever  *)
(* was running is left running.                                            *)
Cancel(a) ==
  /\ phase[a] \in Working
  /\ EndAs(a, "cancelled")

Crash(a) ==
  /\ a \in held
  /\ phase' = [phase EXCEPT ![a] = "crashed"]
  /\ held' = held \ {a}
  /\ UNCHANGED <<ledgerVars, token, pc, got, blocked, historyVars>>

ExpireLease ==
  /\ L!Expire
  /\ UNCHANGED <<attemptVars, historyVars>>

-----------------------------------------------------------------------------
(* Steps of the model request and of the calls.                            *)

Active(a, s) == phase[a] = (IF s = Model THEN "model" ELSE "round")

Go(a, s, from, to) ==
  /\ Active(a, s)
  /\ pc[a][s] = from
  /\ pc' = [pc EXCEPT ![a][s] = to]

Carry(a, s, v) == got' = [got EXCEPT ![a][s] = v]

(* Where a call is done with for this attempt.  `withdrawn`, `asked` and   *)
(* `deferred` are the three signals of _NOTHING_HAPPENED.                  *)
Withdrawn == {"withdrawn", "asked", "deferred"}
Resolved == {"answered", "refused", "suspended"} \cup Withdrawn

(* Unless every call of the round may run concurrently, the round is a     *)
(* chain of barriers: a call begins when the ones before it are resolved.  *)
Parallel == Calls \subseteq ConcurrencySafe

Before(c, d) == \E m, n \in DOMAIN Round : m < n /\ Round[m] = c /\ Round[n] = d

MyTurn(a, d) ==
  Parallel \/ \A c \in Calls : Before(c, d) => pc[a][c] \in Resolved

(* Call order is committed before the first gate or effect of the round,   *)
(* and the round starts with no suspension.                                *)
RecordPending(a) ==
  /\ phase[a] = "model"
  /\ pc[a][Model] = "answered"
  /\ L!WriteControl(token[a], PendingRound, RoundRecord)
  /\ blocked' = blocked \ {a}
  /\ phase' = [phase EXCEPT ![a] = "round"]
  /\ UNCHANGED <<token, held, pc, got, historyVars>>

(* Faulty variant: every call is asked about, the finished ones too.       *)
AskAgain(a, c) ==
  /\ MyTurn(a, c)
  /\ Go(a, c, "idle", "gating")
  /\ UNCHANGED <<ledgerVars, phase, token, held, got, blocked, historyVars>>

(* A finished call is not asked about again; every other one is.           *)
CheckRecorded(a, c) ==
  /\ MyTurn(a, c)
  /\ Go(a, c, "idle", IF entries[StepKey(c)].status = "done" THEN "ready" ELSE "gating")
  /\ UNCHANGED <<ledgerVars, phase, token, held, got, blocked, historyVars>>

(* Faulty variant: a call goes ahead behind a suspension.                  *)
ContinueAnyway(a, c) ==
  /\ Go(a, c, "gating", "ready")
  /\ UNCHANGED <<ledgerVars, phase, token, held, got, blocked, historyVars>>

Continue(a, c) ==
  /\ a \notin blocked
  /\ Go(a, c, "gating", "ready")
  /\ UNCHANGED <<ledgerVars, phase, token, held, got, blocked, historyVars>>

(* A denial by the policy, or a call the policy would let through behind a *)
(* suspension: the model is told the call was not executed.                *)
Refuse(a, c) ==
  /\ Go(a, c, "gating", "refused")
  /\ UNCHANGED <<ledgerVars, phase, token, held, got, blocked, historyVars>>

Suspend(a, c) ==
  /\ Go(a, c, "gating", "suspended")
  /\ blocked' = blocked \cup {a}
  /\ UNCHANGED <<ledgerVars, phase, token, held, got, historyVars>>

Replayed(s) == IF s = Model THEN "answered" ELSE "journal"

ReplayStep(a, s) ==
  /\ entries[StepKey(s)].status = "done"
  /\ Go(a, s, "ready", Replayed(s))
  /\ Carry(a, s, entries[StepKey(s)].value)
  /\ UNCHANGED <<ledgerVars, phase, token, held, blocked, historyVars>>

ReadAbsent(a, s) ==
  /\ entries[StepKey(s)] = L!Absent
  /\ Go(a, s, "ready", "starting")
  /\ UNCHANGED <<ledgerVars, phase, token, held, got, blocked, historyVars>>

(* Faulty variant: every runtime retries a step with no result.            *)
RetryRunning(a, s) ==
  /\ entries[StepKey(s)] = L!Running
  /\ Go(a, s, "ready", "clearing")
  /\ UNCHANGED <<ledgerVars, phase, token, held, got, blocked, historyVars>>

ReadRunning(a, s) ==
  /\ entries[StepKey(s)] = L!Running
  /\ a \in RetryAttempts
  /\ Go(a, s, "ready", "clearing")
  /\ UNCHANGED <<ledgerVars, phase, token, held, got, blocked, historyVars>>

(* Faulty variant: retry_running is not looked at.                         *)
NeverRetry(a, s) ==
  /\ Active(a, s)
  /\ pc[a][s] = "ready"
  /\ entries[StepKey(s)] = L!Running
  /\ EndAs(a, "indeterminate")

(* Refuse to guess.                                                        *)
Indeterminate(a, s) ==
  /\ Active(a, s)
  /\ pc[a][s] = "ready"
  /\ entries[StepKey(s)] = L!Running
  /\ a \notin RetryAttempts
  /\ EndAs(a, "indeterminate")

(* Faulty variant: the intent is cleared without the lease's token.        *)
ClearUnleased(a, s) ==
  /\ Go(a, s, "clearing", "starting")
  /\ L!Forget(0, StepKey(s))
  /\ licensed' = [licensed EXCEPT ![s] =
                    IF entries[StepKey(s)] = L!Running THEN @ + 1 ELSE @]
  /\ UNCHANGED <<phase, token, held, got, blocked, runs, outcome, hooks>>

ClearStep(a, s) ==
  /\ Go(a, s, "clearing", "starting")
  /\ L!Forget(token[a], StepKey(s))
  /\ licensed' = [licensed EXCEPT ![s] =
                    IF entries[StepKey(s)] = L!Running THEN @ + 1 ELSE @]
  /\ UNCHANGED <<phase, token, held, got, blocked, runs, outcome, hooks>>

StartStep(a, s) ==
  /\ Go(a, s, "starting", "executing")
  /\ L!Start(token[a], StepKey(s))
  /\ UNCHANGED <<phase, token, held, got, blocked, historyVars>>

Produces(s) == IF s = Model THEN {Response} ELSE Values

(* Faulty variant: the handler's result is dropped.                        *)
ExecuteUnseen(a, s, v) ==
  /\ Go(a, s, "executing", "finishing")
  /\ runs' = [runs EXCEPT ![s] = @ + 1]
  /\ outcome' = [outcome EXCEPT ![s] = v]
  /\ UNCHANGED <<ledgerVars, phase, token, held, got, blocked, licensed, hooks>>

(* The handler ran to its end.  A tool that raised has a result too: the   *)
(* error is recorded as what the call returned.                            *)
Execute(a, s, v) ==
  /\ Go(a, s, "executing", "finishing")
  /\ Carry(a, s, v)
  /\ runs' = [runs EXCEPT ![s] = @ + 1]
  /\ outcome' = [outcome EXCEPT ![s] = v]
  /\ UNCHANGED <<ledgerVars, phase, token, held, blocked, licensed, hooks>>

(* Faulty variants: an intent is withdrawn after the effect went out, or   *)
(* the withdrawn effect is finished like one that ran.                     *)
NothingRecorded(a, s) ==
  /\ Go(a, s, "finishing", "withdrawing")
  /\ UNCHANGED <<ledgerVars, phase, token, held, got, blocked, historyVars>>

NothingFinished(a, s) ==
  /\ Go(a, s, "executing", "finishing")
  /\ UNCHANGED <<ledgerVars, phase, token, held, got, blocked, historyVars>>

(* A signal the tool's body raises before any side effect, or a model      *)
(* request that raised: the intent is to be cleared.                       *)
NothingHappened(a, s) ==
  /\ Go(a, s, "executing", "withdrawing")
  /\ UNCHANGED <<ledgerVars, phase, token, held, got, blocked, historyVars>>

(* Which signal it was: ModelRetry asks the model again, ApprovalRequired  *)
(* parks the call with the round, CallDeferred fails the park.             *)
Signals(s) == IF s = Model THEN {"withdrawn"} ELSE Withdrawn

(* Faulty variant: the signal is passed on with the intent left behind.    *)
KeepIntent(a, s, to) ==
  /\ Go(a, s, "withdrawing", to)
  /\ ~ L!Fences(token[a])
  /\ phase' = [phase EXCEPT ![a] = IF s = Model THEN "raised" ELSE @]
  /\ UNCHANGED <<ledgerVars, token, held, got, blocked, historyVars>>

(* The intent is cleared and the signal raised on.  Only a gate marks the  *)
(* round as suspended: behind a body that asked, the calls after it go on. *)
WithdrawStep(a, s, to) ==
  /\ Go(a, s, "withdrawing", to)
  /\ L!Forget(token[a], StepKey(s))
  /\ phase' = [phase EXCEPT ![a] = IF s = Model THEN "raised" ELSE @]
  /\ UNCHANGED <<token, held, got, blocked, historyVars>>

FinishStep(a, s) ==
  /\ Go(a, s, "finishing", Replayed(s))
  /\ L!FinishEffect(token[a], StepKey(s), got[a][s])
  /\ UNCHANGED <<phase, token, held, got, blocked, historyVars>>

-----------------------------------------------------------------------------
(* The journal: one marker per call holds what the model is shown.         *)

ReplayJournal(a, c) ==
  /\ entries[AfterKey(c)].status = "done"
  /\ Go(a, c, "journal", "answered")
  /\ Carry(a, c, entries[AfterKey(c)].value)
  /\ UNCHANGED <<ledgerVars, phase, token, held, blocked, historyVars>>

(* Faulty variant: the hook runs whether or not there is a marker.         *)
JournalAgain(a, c) ==
  /\ Go(a, c, "journal", "hooking")
  /\ UNCHANGED <<ledgerVars, phase, token, held, got, blocked, historyVars>>

NotJournalled(a, c) ==
  /\ entries[AfterKey(c)] = L!Absent
  /\ Go(a, c, "journal", "hooking")
  /\ UNCHANGED <<ledgerVars, phase, token, held, got, blocked, historyVars>>

(* post_tool_use may rewrite its copy of the result.                       *)
Hook(a, c, v) ==
  /\ Go(a, c, "hooking", "marking")
  /\ Carry(a, c, v)
  /\ hooks' = [hooks EXCEPT ![c] = @ + 1]
  /\ UNCHANGED <<ledgerVars, phase, token, held, blocked, runs, outcome, licensed>>

(* Faulty variant: the marker is written without the lease's token.        *)
WriteUnleased(a, c) ==
  /\ Go(a, c, "marking", "answered")
  /\ L!WriteControl(0, AfterKey(c), got[a][c])
  /\ UNCHANGED <<phase, token, held, got, blocked, historyVars>>

WriteMarker(a, c) ==
  /\ Go(a, c, "marking", "answered")
  /\ L!WriteControl(token[a], AfterKey(c), got[a][c])
  /\ UNCHANGED <<phase, token, held, got, blocked, historyVars>>

-----------------------------------------------------------------------------
(* The ways a round or an attempt ends.                                    *)

(* A ledger write of a replaced attempt raises Fenced, which nothing below *)
(* the host catches.  The other refusals of the ledger, a start that finds *)
(* the step present and an EffectConflict, cannot come up under leases:    *)
(* OwnerIsUncontested below is checked, and they have no action here.      *)
FencedOut(a, s) ==
  /\ Active(a, s)
  /\ pc[a][s] \in {"clearing", "starting", "finishing", "withdrawing", "marking"}
  /\ L!Fences(token[a])
  /\ EndAs(a, "fenced")

RoundResolved(a) ==
  /\ phase[a] = "round"
  /\ \A c \in Calls : pc[a][c] \in Resolved

(* The approvals and the calls of the round's DeferredToolRequests.        *)
Suspended(a) == {c \in Calls : pc[a][c] \in {"suspended", "asked"}}
Deferred(a) == {c \in Calls : pc[a][c] = "deferred"}

Answer(a) ==
  /\ RoundResolved(a)
  /\ Suspended(a) \cup Deferred(a) = {}
  /\ EndAs(a, "answered")

(* _park raises before it writes: a call was deferred, two requests share  *)
(* a pending_id or one has none, or on_suspend raised.                     *)
RefusePark(a) ==
  /\ RoundResolved(a)
  /\ Suspended(a) \cup Deferred(a) # {}
  /\ EndAs(a, "raised")

(* The round's approvals park together, in one transition.                 *)
ParkRound(a) ==
  /\ RoundResolved(a)
  /\ Suspended(a) # {} /\ Deferred(a) = {}
  /\ L!CommitTransition(token[a], Park)
  /\ phase' = [phase EXCEPT ![a] = "parked"]
  /\ UNCHANGED <<token, held, pc, got, blocked, historyVars>>

FencedControl(a) ==
  /\ \/ phase[a] = "model" /\ pc[a][Model] = "answered"
     \/ RoundResolved(a) /\ Suspended(a) # {} /\ Deferred(a) = {}
  /\ L!Fences(token[a])
  /\ EndAs(a, "fenced")

-----------------------------------------------------------------------------

EffectStep(a, s) ==
  \/ ReplayStep(a, s) \/ ReadAbsent(a, s) \/ ReadRunning(a, s) \/ Indeterminate(a, s)
  \/ ClearStep(a, s) \/ StartStep(a, s)
  \/ \E v \in Produces(s) : Execute(a, s, v)
  \/ NothingHappened(a, s)
  \/ \E to \in Signals(s) : WithdrawStep(a, s, to)
  \/ FinishStep(a, s)
  \/ FencedOut(a, s)

CallStep(a, c) ==
  \/ CheckRecorded(a, c) \/ Continue(a, c) \/ Refuse(a, c) \/ Suspend(a, c)
  \/ ReplayJournal(a, c) \/ NotJournalled(a, c)
  \/ \E v \in Values : Hook(a, c, v)
  \/ WriteMarker(a, c)

AttemptStep(a) ==
  \/ Inspect(a) \/ RecordPending(a) \/ Answer(a) \/ RefusePark(a) \/ ParkRound(a)
  \/ FencedControl(a)
  \/ \E s \in Effect : EffectStep(a, s)
  \/ \E c \in Calls : CallStep(a, c)
  \/ Close(a)

Next ==
  \/ \E a \in Attempts :
       AttemptStep(a) \/ Begin(a) \/ Renew(a) \/ Cancel(a) \/ Crash(a)
  \/ ExpireLease

Spec == Init /\ [][Next]_vars

(* The event loop runs the coroutine of a live attempt, and tools return.  *)
FairSpec == Spec /\ \A a \in Attempts : WF_vars(AttemptStep(a))


-----------------------------------------------------------------------------
(* Properties.                                                             *)

Places == {"idle", "gating", "ready", "clearing", "starting", "executing",
           "finishing", "withdrawing", "journal", "hooking", "marking"} \cup Resolved

TypeOK ==
  /\ entries \in [ToolKeys \cup ControlStateKeys -> L!Steps]
  /\ lease \in [owner : Attempts \cup {NoOne}, token : Nat, live : BOOLEAN]
  /\ issued \in Nat /\ lastWriter \in Nat
  /\ phase \in [Attempts -> {"new", "crashed"} \cup Working \cup Ended]
  /\ token \in [Attempts -> Nat]
  /\ held \subseteq Attempts
  /\ pc \in [Attempts -> [Effect -> Places]]
  /\ got \in [Attempts -> [Effect -> Values \cup {Response, NoValue, RoundRecord, ParkRecord}]]
  /\ blocked \subseteq Attempts
  /\ runs \in [Effect -> Nat] /\ licensed \in [Effect -> Nat] /\ hooks \in [Calls -> Nat]
  /\ outcome \in [Effect -> Values \cup {Response, NoValue}]

(* However attempts crash, stall, lose the lease and are replaced, an      *)
(* effect goes out once, and once more only for each time a runtime with   *)
(* retry_running cleared an intent that had not reported.  (start, the     *)
(* Indeterminate branches, and forget after NothingHappened.)              *)
RunsAreLicensed == \A s \in Effect : runs[s] <= 1 + licensed[s]

(* Without retry_running anywhere, that is at most once.                   *)
AtMostOnce == RetryAttempts = {} => \A s \in Effect : runs[s] <= 1

(* Whatever attempts show the model for one executed call is the same      *)
(* value, the one in the durable marker: a replaced worker that stalled    *)
(* between the hook and the marker cannot make a second version.           *)
(* (_journal_once, and the fence on the marker's write.)                   *)
AnswersAgree ==
  \A a \in Attempts, c \in Calls :
    pc[a][c] = "answered" => entries[AfterKey(c)] = L!Done(got[a][c])

(* A recorded result is what the effect last produced; no result is        *)
(* recorded for an effect that never went out.                             *)
RecordedIsReal ==
  \A s \in Effect : entries[StepKey(s)].status = "done" =>
     runs[s] > 0 /\ (licensed[s] = 0 => entries[StepKey(s)].value = outcome[s])

(* The ledger never refuses the attempt that owns the branch: a step it    *)
(* found free is still free when it starts it, and one it started is still *)
(* its own when it reports, however many writers came before.  (The        *)
(* `if not start` branches and EffectConflict of finish_effect.)           *)
OwnerIsUncontested ==
  \A a \in Attempts, s \in Effect :
    token[a] = issued =>
      /\ pc[a][s] = "starting" => entries[StepKey(s)] = L!Absent
      /\ pc[a][s] \in {"executing", "finishing"} => entries[StepKey(s)] = L!Running

(* post_tool_use sees a call a second time only when an attempt was lost   *)
(* between the hook and its marker.                                        *)
HooksAreAccounted ==
  \A c \in Calls :
    hooks[c] <= 1 + Cardinality({a \in Attempts : pc[a][c] = "marking"})

(* In a sequential round nothing has begun behind a call that its gate     *)
(* suspended, so no effect that approval was meant to guard is out.        *)
(* (_suspended_this_round in _gate, and the barriers of prepare_tools.)    *)
(* It says nothing of a call that parked because its body raised           *)
(* ApprovalRequired: that sets no _suspended_this_round, and the calls     *)
(* behind it do run before it is decided (place "asked" here).             *)
NothingBeginsBehindSuspension ==
  ~ Parallel =>
    \A a \in Attempts, c, d \in Calls :
      Before(c, d) /\ pc[a][c] = "suspended" =>
        pc[a][d] \notin {"clearing", "starting", "executing", "finishing", "withdrawing"}

(* The attempt that owns the branch never tells the model "not executed"   *)
(* of a call whose result is on record, though it read the record before   *)
(* it asked a gate that may take arbitrarily long.  (before_tool_execute.) *)
RefusalsRespectRecords ==
  [][\A a \in Attempts, c \in Calls :
       /\ pc[a][c] = "gating" /\ pc'[a][c] \in {"refused", "suspended"}
       /\ token[a] = issued
       => entries[StepKey(c)].status # "done"]_vars

(* An approval is never asked of the past: while an attempt that owns the  *)
(* branch holds a call to be parked, no result of the call is on record,   *)
(* and one whose body asked has no intent left either, so that once it is  *)
(* approved it reruns instead of being Indeterminate.                      *)
(* (before_tool_execute, and the forget of _execute.)                      *)
ApprovalsAreOfTheFuture ==
  \A a \in Attempts, c \in Calls :
    token[a] = issued =>
      /\ pc[a][c] = "suspended" => entries[StepKey(c)].status # "done"
      /\ pc[a][c] = "asked" => entries[StepKey(c)] = L!Absent

(* "A step running with no result is Indeterminate: the ledger will not    *)
(* claim the effect went out, and will not claim it did not."  The refusal *)
(* of a call claims that it did not.  (effects.py:3-8.)                    *)
RefusedHasNotRun ==
  [][\A a \in Attempts, c \in Calls :
       pc[a][c] = "gating" /\ pc'[a][c] = "refused" => runs[c] = 0]_vars

(* An attempt that owns the branch and may retry is never stuck: it ends   *)
(* with the round answered or parked, unless it is killed, replaced, or    *)
(* the model request or the park raises.                                   *)
RetryFinishes ==
  \A a \in RetryAttempts :
    phase[a] \in Working ~>
      \/ phase[a] \in {"answered", "parked", "cancelled", "crashed", "raised"}
      \/ token[a] < issued

-----------------------------------------------------------------------------
(* What the boundary implements: the life of an effect, read off the       *)
(* ledger and the history variables.                                       *)

StageOf(s) ==
  CASE entries[StepKey(s)].status = "absent" -> "fresh"
    [] entries[StepKey(s)].status = "done" -> "recorded"
    [] OTHER -> IF runs[s] = 0 THEN "begun" ELSE "out"

ShownOf(s) ==
  IF s = Model \/ entries[AfterKey(s)] = L!Absent THEN NoValue
  ELSE entries[AfterKey(s)].value

Once == INSTANCE EffectOnce WITH
          Steps <- Effect, Outcomes <- Values \cup {Response}, NoOutcome <- NoValue,
          stage <- [s \in Effect |-> StageOf(s)],
          result <- outcome,
          shown <- [s \in Effect |-> ShownOf(s)]

(* Where nothing retries, the boundary implements EffectOnce: seen from    *)
(* the outside the attempts, their leases and their crashes disappear.     *)
ImplementsEffectOnce == Once!Spec
=============================================================================
