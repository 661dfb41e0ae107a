----------------------------- MODULE Suspension -----------------------------
(***************************************************************************)
(* The life of a parked round (semora/runtime.py): workers that run,       *)
(* resume and recover one branch park the calls that a gate suspended or   *)
(* whose body asked for approval, collect a person's answers, and finish   *)
(* the round once every call is decided.                                   *)
(*                                                                         *)
(* The park is one control value of the ledger, the active suspension.     *)
(* Every change of it reads the value and writes it back, with awaits in   *)
(* between, in different processes: what keeps an answer from being lost,  *)
(* or acted on twice, is that both happen under one lease and the fence.   *)
(*                                                                         *)
(* A worker is one call of run, resume or recover.  The calls of the round *)
(* are taken in any order and each in two steps, start and finish; module  *)
(* Effects has the finer grain.  Runtimes do not retry unreported steps    *)
(* here.  Prompts and the input queue are left to another module, and so   *)
(* is a host that calls run without a prompt on a branch it knows parked:  *)
(* recover is the call for that, and dispatch never makes it.              *)
(***************************************************************************)
EXTENDS Integers, FiniteSets, Sequences, Functions

CONSTANTS
  Workers,     \* calls of the runtime's entry points; each owns its lease
  NoOne,       \* the owner of a released lease, and of a branch never leased
  Calls,       \* the tool calls of the round
  PendingIds,  \* the external ids an answer is routed by, chosen by the policy
  MaxToken,    \* bound on the fencing tokens issued
  MaxParks     \* bound on the parks written

ASSUME SuspensionAssumption ==
  /\ NoOne \notin Workers
  /\ MaxToken \in Nat
  /\ MaxParks \in Nat

VARIABLES
  entries, lease, issued, lastWriter,  \* the ledger of the branch
  phase,     \* of each worker: where it stands, or how it ended
  token,     \* the fencing token it was given
  held,      \* workers that have not left their lease block
  want,      \* of each resume: the pending id and the answer it brings
  active,    \* of each worker: its copy of the park, with the answers merged
  at,        \* of each worker and call: how far it took the call
  roundOver, \* the transcript holds the finished round
  parks,     \* history: parks written
  overran    \* history: runs that got the lease of a branch that is parked

ledgerVars == <<entries, lease, issued, lastWriter>>
workerVars == <<phase, token, held, want, active, at>>
historyVars == <<parks, overran>>
vars == <<ledgerVars, workerVars, roundOver, historyVars>>

StepKey(c) == <<"step", c>>
SuspendKey(c) == <<"suspend", c>>
ActiveSuspension == <<"control", "active-suspension">>

Result == [record |-> "result"]
Index == [record |-> "index"]  \* of a call into the active suspension; nothing reads it back

(* The undecided and the decided calls of a park, by the ids the policy    *)
(* gave them; a completed one keeps no answers.                            *)
Waiting(ids) == [state |-> "waiting", ids |-> ids, answers |-> <<>>]
Completed == [state |-> "completed"]
NoPark == [state |-> "none"]
Undecided(p) == DOMAIN p.ids \ DOMAIN p.answers

AnswerTypes == {"approve", "error"}
Partial(S, T) == UNION {[D -> T] : D \in SUBSET S}
Parks == {p \in [state : {"waiting", "resuming"}, ids : Partial(Calls, PendingIds),
                 answers : Partial(Calls, AnswerTypes)] :
            DOMAIN p.answers \subseteq DOMAIN p.ids /\ DOMAIN p.ids # {}}

L == INSTANCE Ledger WITH
       Owners <- Workers,
       EffectKeys <- {StepKey(c) : c \in Calls},
       ControlKeys <- {SuspendKey(c) : c \in Calls} \cup {ActiveSuspension},
       Values <- Parks \cup {Completed, Result, Index},
       InputIds <- {}, inputs <- <<>>, inputSequence <- 0,
       Transitions <- {}

(* The live continuation, or none.                                         *)
Active ==
  IF entries[ActiveSuspension].status = "done"
     /\ entries[ActiveSuspension].value.state \in {"waiting", "resuming"}
  THEN entries[ActiveSuspension].value ELSE NoPark

Ended == {"queued", "lookup", "parked", "completed", "indeterminate", "raised", "fenced"}

NoCall == [c \in Calls |-> "none"]

Init ==
  /\ L!Init
  /\ phase = [w \in Workers |-> "new"]
  /\ token = [w \in Workers |-> 0]
  /\ held = {}
  /\ want = [w \in Workers |-> <<>>]
  /\ active = [w \in Workers |-> NoPark]
  /\ at = [w \in Workers |-> NoCall]
  /\ roundOver = FALSE
  /\ parks = 0
  /\ overran = {}

-----------------------------------------------------------------------------
(* The lease block around every entry point, and how a worker leaves it.   *)

Lease(w) ==
  /\ L!Acquire(w)
  /\ token' = [token EXCEPT ![w] = L!AcquireResult(w)]
  /\ held' = held \cup {w}

Renew(w) ==
  /\ w \in held
  /\ phase[w] \notin Ended
  /\ L!Acquire(w)
  /\ UNCHANGED <<workerVars, roundOver, historyVars>>

(* The locals of a coroutine that ended are gone.                          *)
EndAs(w, how) ==
  /\ phase' = [phase EXCEPT ![w] = how]
  /\ want' = [want EXCEPT ![w] = <<>>]
  /\ active' = [active EXCEPT ![w] = NoPark]
  /\ at' = [at EXCEPT ![w] = NoCall]
  /\ UNCHANGED <<token, held>>

Close(w) ==
  /\ w \in held
  /\ phase[w] \in Ended
  /\ L!Release(w)
  /\ held' = held \ {w}
  /\ UNCHANGED <<phase, token, want, active, at, roundOver, historyVars>>

Crash(w) ==
  /\ w \in held
  /\ phase' = [phase EXCEPT ![w] = "crashed"]
  /\ held' = held \ {w}
  /\ want' = [want EXCEPT ![w] = <<>>]
  /\ active' = [active EXCEPT ![w] = NoPark]
  /\ at' = [at EXCEPT ![w] = NoCall]
  /\ UNCHANGED <<ledgerVars, token, roundOver, historyVars>>

ExpireLease ==
  /\ L!Expire
  /\ UNCHANGED <<workerVars, roundOver, historyVars>>

GoOn(w, next) ==
  /\ phase' = [phase EXCEPT ![w] = next]
  /\ UNCHANGED <<want, at>>

Keep(w, p) == active' = [active EXCEPT ![w] = p]

-----------------------------------------------------------------------------
(* run: it looks for a park before it has the lease (dispatch too observes *)
(* the state first).  A prompt for a parked branch is queued.              *)

Look(w) ==
  /\ phase[w] = "new"
  /\ IF Active # NoPark THEN EndAs(w, "queued")
     ELSE GoOn(w, "looked") /\ UNCHANGED <<token, held, active>>
  /\ UNCHANGED <<ledgerVars, roundOver, historyVars>>

Drive(w, S) ==
  /\ phase' = [phase EXCEPT ![w] = "driving"]
  /\ at' = [at EXCEPT ![w] = [c \in Calls |-> IF c \in S THEN "todo" ELSE "none"]]

(* The round is taken from the committed history: all of it, unless a park *)
(* or its end is on record.                                                *)
ToDrive ==
  IF roundOver THEN {} ELSE IF Active # NoPark THEN DOMAIN Active.ids ELSE Calls

BeginRun(w) ==
  /\ phase[w] = "looked"
  /\ Lease(w)
  /\ Drive(w, ToDrive)
  /\ overran' = IF Active # NoPark THEN overran \cup {w} ELSE overran
  /\ UNCHANGED <<want, active, roundOver, parks>>

-----------------------------------------------------------------------------
(* resume: an answer is merged into the park, by its pending id.           *)

BeginResume(w, id, answer) ==
  /\ phase[w] = "new"
  /\ Lease(w)
  /\ phase' = [phase EXCEPT ![w] = "resume"]
  /\ want' = [want EXCEPT ![w] = <<id, answer>>]
  /\ UNCHANGED <<active, at, roundOver, historyVars>>

Answered(p, id, answer) ==
  [p EXCEPT !.answers =
     [c \in DOMAIN @ \cup {d \in DOMAIN p.ids : p.ids[d] = id} |->
        IF p.ids[c] = id THEN answer ELSE @[c]]]

Asks(p, id) == p # NoPark /\ id \in Range(p.ids)

FindPark(w) ==
  /\ phase[w] = "resume"
  /\ IF Asks(Active, want[w][1])
     THEN /\ Keep(w, Answered(Active, want[w][1], want[w][2]))
          /\ GoOn(w, "answering")
          /\ UNCHANGED <<token, held>>
     ELSE EndAs(w, "lookup")
  /\ UNCHANGED <<ledgerVars, roundOver, historyVars>>

(* Until every parked call is decided an answer is only recorded, and the  *)
(* undecided ones are announced again.                                     *)
Record(w, t) ==
  /\ phase[w] = "answering"
  /\ L!WriteControl(t, ActiveSuspension, active[w])
  /\ IF Undecided(active[w]) # {} THEN EndAs(w, "parked")
     ELSE GoOn(w, "finalizing") /\ UNCHANGED <<token, held, active>>
  /\ UNCHANGED <<roundOver, historyVars>>

(* Faulty variant: the answer is written without the lease's token.        *)
RecordUnleased(w) == Record(w, 0)

RecordAnswer(w) == Record(w, token[w])

-----------------------------------------------------------------------------
(* recover: a parked round stays parked, a decided one is finished, and an *)
(* interrupted one is driven from the history.                             *)

BeginRecover(w) ==
  /\ phase[w] = "new"
  /\ Lease(w)
  /\ phase' = [phase EXCEPT ![w] = "recover"]
  /\ UNCHANGED <<want, active, at, roundOver, historyVars>>

Resolve(w, decided) ==
  /\ phase[w] = "recover"
  /\ \/ /\ Active = NoPark
        /\ Drive(w, ToDrive)
        /\ UNCHANGED <<token, held, want, active>>
     \/ /\ Active # NoPark /\ ~ decided
        /\ EndAs(w, "parked")
     \/ /\ Active # NoPark /\ decided
        /\ Keep(w, Active)
        /\ GoOn(w, "finalizing")
        /\ UNCHANGED <<token, held>>
  /\ UNCHANGED <<ledgerVars, roundOver, historyVars>>

(* Faulty variant: one answer is enough.                                   *)
CheckAnyAnswer(w) == Resolve(w, Active # NoPark /\ DOMAIN Active.answers # {})

CheckPark(w) == Resolve(w, Active # NoPark /\ Undecided(Active) = {})

(* The answers become approvals and denials of the parked calls, and the   *)
(* attempt goes on from the messages the park kept.                        *)
StartFinalizing(w) ==
  /\ phase[w] = "finalizing"
  /\ L!WriteControl(token[w], ActiveSuspension, [active[w] EXCEPT !.state = "resuming"])
  /\ Drive(w, DOMAIN active[w].ids)
  /\ UNCHANGED <<token, held, want, active, roundOver, historyVars>>

-----------------------------------------------------------------------------
(* The attempt takes the calls through the boundary.                       *)

Take(w, c, from, to) ==
  /\ phase[w] = "driving"
  /\ at[w][c] = from
  /\ at' = [at EXCEPT ![w][c] = to]
  /\ UNCHANGED <<phase, token, held, want, active, roundOver, historyVars>>

Finalizing(w) == active[w] # NoPark

Denied(w, c) ==
  Finalizing(w) /\ c \in DOMAIN active[w].answers /\ active[w].answers[c] = "error"

OnRecord(c) == entries[StepKey(c)].status = "done"

(* The calls that park: a gate held them back, or their body asked.        *)
Suspended(w) == {c \in Calls : at[w][c] \in {"suspended", "asked"}}

(* A refusal by the person answers the call before any hook of the         *)
(* boundary sees it, whatever is on record.                                *)
DenyCall(w, c) ==
  /\ Denied(w, c)
  /\ Take(w, c, "todo", "refused")
  /\ UNCHANGED ledgerVars

ReplayCall(w, c) ==
  /\ ~ Denied(w, c)
  /\ OnRecord(c)
  /\ Take(w, c, "todo", "answered")
  /\ UNCHANGED ledgerVars

(* Only a gate holds calls back, behind the ones that a gate suspended:    *)
(* on_resume decides each approved call for itself.                        *)
StartCall(w, c) ==
  /\ ~ Denied(w, c)
  /\ Finalizing(w) \/ \A d \in Calls : at[w][d] # "suspended"
  /\ Take(w, c, "todo", "executing")
  /\ L!Start(token[w], StepKey(c))

(* pre_tool_use or on_resume denies, or asks a person (again).             *)
RefuseCall(w, c) ==
  /\ ~ Denied(w, c) /\ ~ OnRecord(c)
  /\ Take(w, c, "todo", "refused")
  /\ UNCHANGED ledgerVars

SuspendCall(w, c) ==
  /\ ~ Denied(w, c) /\ ~ OnRecord(c)
  /\ Take(w, c, "todo", "suspended")
  /\ UNCHANGED ledgerVars

FinishCall(w, c) ==
  /\ Take(w, c, "executing", "answered")
  /\ L!FinishEffect(token[w], StepKey(c), Result)

(* The body raised ModelRetry, or CallDeferred, which then fails the park. *)
WithdrawCall(w, c) ==
  /\ Take(w, c, "executing", "withdrawn")
  /\ L!Forget(token[w], StepKey(c))

(* The body raised ApprovalRequired.                                       *)
AskCall(w, c) ==
  /\ Take(w, c, "executing", "asked")
  /\ L!Forget(token[w], StepKey(c))

Indeterminate(w) ==
  /\ phase[w] = "driving"
  /\ \E c \in Calls :
       at[w][c] = "todo" /\ ~ Denied(w, c) /\ entries[StepKey(c)] = L!Running
  /\ EndAs(w, "indeterminate")
  /\ UNCHANGED <<ledgerVars, roundOver, historyVars>>

-----------------------------------------------------------------------------
(* The ways an attempt ends.                                               *)

Driven(w) ==
  /\ phase[w] = "driving"
  /\ \A c \in Calls : at[w][c] \notin {"todo", "executing"}

Finish(w, record) ==
  /\ Suspended(w) = {}
  /\ IF Finalizing(w) THEN L!WriteControl(token[w], ActiveSuspension, record)
     ELSE UNCHANGED ledgerVars
  /\ EndAs(w, "completed")
  /\ roundOver' = TRUE
  /\ UNCHANGED historyVars

(* Faulty variants: the completed park keeps its answers, is written when  *)
(* the first call is through, or without the lease's token.                *)
CompleteKept(w) == Driven(w) /\ Finish(w, [active[w] EXCEPT !.state = "completed"])

CompleteEarly(w) ==
  /\ phase[w] = "driving"
  /\ \E c \in Calls : at[w][c] \in {"answered", "refused"}
  /\ Finish(w, Completed)

CompleteUnleased(w) ==
  /\ Driven(w) /\ Finalizing(w) /\ Suspended(w) = {}
  /\ L!WriteControl(0, ActiveSuspension, Completed)
  /\ EndAs(w, "completed")
  /\ roundOver' = TRUE
  /\ UNCHANGED historyVars

Complete(w) == Driven(w) /\ Finish(w, Completed)

(* The round's suspended calls park together, under the ids the policy or  *)
(* the body gave them; a park that would reuse an id is never written.     *)
ParkTransition(ids) ==
  [effects |-> {},
   controls |-> [k \in {ActiveSuspension} \cup {SuspendKey(c) : c \in DOMAIN ids} |->
                   IF k = ActiveSuspension THEN Waiting(ids) ELSE Index],
   inputs |-> <<>>]

ParkRound(w, ids) ==
  /\ Driven(w)
  /\ Suspended(w) # {}
  /\ IsInjective(ids)
  /\ parks < MaxParks
  /\ L!CommitTransition(token[w], ParkTransition(ids))
  /\ EndAs(w, "parked")
  /\ parks' = parks + 1
  /\ UNCHANGED <<roundOver, overran>>

(* A cancellation at any await, a model request that raises, or a park     *)
(* that is refused (two calls under one pending id, a deferred call): the  *)
(* worker leaves, and the park on record is as it was.                     *)
Raise(w) ==
  /\ w \in held
  /\ phase[w] \notin Ended
  /\ EndAs(w, "raised")
  /\ UNCHANGED <<ledgerVars, roundOver, historyVars>>

Writes(w) ==
  \/ phase[w] \in {"answering", "finalizing"}
  \/ phase[w] = "driving" /\ (Finalizing(w) \/ Suspended(w) # {})
  \/ \E c \in Calls : at[w][c] \in {"todo", "executing"}

FencedOut(w) ==
  /\ Writes(w)
  /\ L!Fences(token[w])
  /\ EndAs(w, "fenced")
  /\ UNCHANGED <<ledgerVars, roundOver, historyVars>>

-----------------------------------------------------------------------------

CallStep(w, c) ==
  \/ DenyCall(w, c) \/ ReplayCall(w, c) \/ StartCall(w, c) \/ RefuseCall(w, c)
  \/ SuspendCall(w, c) \/ FinishCall(w, c) \/ WithdrawCall(w, c)
  \/ AskCall(w, c)

WorkerStep(w) ==
  \/ BeginRun(w)
  \/ FindPark(w) \/ RecordAnswer(w) \/ CheckPark(w) \/ StartFinalizing(w)
  \/ \E c \in Calls : CallStep(w, c)
  \/ Indeterminate(w) \/ Complete(w) \/ FencedOut(w) \/ Close(w)
  \/ \E ids \in [Suspended(w) -> PendingIds] : ParkRound(w, ids)

Next ==
  \/ \E w \in Workers :
       \/ WorkerStep(w)
       \/ Look(w) \/ BeginRecover(w)
       \/ \E id \in PendingIds, answer \in AnswerTypes : BeginResume(w, id, answer)
       \/ Renew(w) \/ Raise(w) \/ Crash(w)
  \/ ExpireLease

Spec == Init /\ [][Next]_vars

-----------------------------------------------------------------------------
(* Properties.                                                             *)

Phases == {"new", "looked", "resume", "recover", "answering", "finalizing", "driving",
           "crashed"} \cup Ended
Places == {"none", "todo", "executing", "answered", "refused", "suspended", "withdrawn",
           "asked"}

TypeOK ==
  /\ \A c \in Calls : /\ entries[StepKey(c)] \in {L!Absent, L!Running, L!Done(Result)}
                      /\ entries[SuspendKey(c)] \in {L!Absent, L!Done(Index)}
  /\ DOMAIN entries = L!Keys
  /\ entries[ActiveSuspension] \in {L!Absent} \cup {L!Done(p) : p \in Parks \cup {Completed}}
  /\ lease \in [owner : Workers \cup {NoOne}, token : Nat, live : BOOLEAN]
  /\ issued \in Nat /\ lastWriter \in Nat
  /\ phase \in [Workers -> Phases]
  /\ token \in [Workers -> Nat]
  /\ held \subseteq Workers
  /\ want \in [Workers -> {<<>>} \cup (PendingIds \X AnswerTypes)]
  /\ active \in [Workers -> {NoPark} \cup Parks]
  /\ at \in [Workers -> [Calls -> Places]]
  /\ roundOver \in BOOLEAN /\ parks \in Nat /\ overran \subseteq Workers

(* The copy of the park that a worker carries across its awaits is the     *)
(* park on record, give or take the one answer it is about to write, for   *)
(* as long as the worker owns the branch: what it writes back drops no     *)
(* other worker's answer and reopens no finished round.  (resume, recover  *)
(* and _finalize read before and write after several awaits.)              *)
CopyIsFresh ==
  \A w \in Workers :
    Finalizing(w) /\ token[w] = issued =>
      /\ Active # NoPark
      /\ Active.ids = active[w].ids
      /\ phase[w] = "answering" =>
           active[w] = Answered(Active, want[w][1], want[w][2])
      /\ phase[w] # "answering" => Active.answers = active[w].answers

(* "A batch park executes nothing until every parked call is decided", and *)
(* then only what the durable answers approve: whatever crashed or was     *)
(* replaced before, the effect of a parked call begins only when the park  *)
(* on record is wholly decided and its answer is an approval.  A run that  *)
(* looked before the round parked does not know better: it is excepted.    *)
RunsOnlyWhatWasApproved ==
  [][\A c \in Calls :
       /\ entries[StepKey(c)] = L!Absent /\ entries'[StepKey(c)] = L!Running
       /\ Active # NoPark
       /\ \A w \in overran : at'[w] = at[w]
       => /\ Undecided(Active) = {} /\ Active.state = "resuming"
          /\ c \in DOMAIN Active.answers /\ Active.answers[c] = "approve"]_vars

(* A park that still waits for answers stays, under its pending ids, with  *)
(* every answer it has: concurrent answers, replaced workers and recovery  *)
(* only ever add one.                                                      *)
ParkKept ==
  /\ Active' # NoPark
  /\ Active'.ids = Active.ids
  /\ DOMAIN Active.answers \subseteq DOMAIN Active'.answers

Waits == Active # NoPark /\ Undecided(Active) # {}

(* So it is whenever no run drives on over the park.                       *)
AnswersSurvive ==
  [][Waits /\ (\A w \in overran : phase'[w] = phase[w]) => ParkKept]_vars

(* A run that observed an unparked branch may get its lease after another  *)
(* worker parked: "the lease attempt inside run is what tells them apart"  *)
(* (dispatch.py, ReplayJournal) says that it then is not driven, and       *)
(* recover that a parked round "stays parked under its original pending    *)
(* ids" (runtime.py).                                                      *)
ParkOutlivesRuns == [][Waits => ParkKept]_vars

(* A continuation is completed only when every call the person approved    *)
(* has its result on record, or its worker told the model what else the    *)
(* policy or the tool decided: no crash or takeover in the middle of a     *)
(* finalization makes its successor skip an approved call.                 *)
CompletionIsEarned ==
  [][Active # NoPark /\ entries'[ActiveSuspension] = L!Done(Completed) =>
       \A c \in DOMAIN Active.ids :
         Active.answers[c] = "approve" =>
           \/ OnRecord(c)
           \/ \E w \in Workers : phase'[w] # phase[w] /\ at[w][c] \in {"refused", "withdrawn"}]_vars

(* "The effect happened.  No gate can undo it ...: the record replays"     *)
(* (effects.py, before_tool_execute): no attempt tells the model that a    *)
(* call was refused whose result is on record, also not when an answer is  *)
(* given again after a finalization that crashed.                          *)
ResultsOutrankAnswers ==
  [][overran = {} =>
       \A w \in Workers, c \in Calls :
         at[w][c] = "todo" /\ at'[w][c] = "refused" => ~ OnRecord(c)]_vars
=============================================================================
