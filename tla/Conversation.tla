---------------------------- MODULE Conversation ----------------------------
(***************************************************************************)
(* A conversation driven through dispatch (semora/dispatch.py and          *)
(* semora/runtime.py): prompts, answers and recoveries of one branch, its  *)
(* input queue, the transcript, and the attempts that carry the one into   *)
(* the other.  It composes the Ledger with the operators of Transcript     *)
(* and Controls.                                                           *)
(*                                                                         *)
(* A round of tool calls is here what the transcript and the queue see of  *)
(* it: it ends or parks, and a parked one has one answer.  Effects has its *)
(* ledger steps and Suspension its answers, in their finer grain.          *)
(*                                                                         *)
(* A worker is a process that serves one command at a time.  The agent     *)
(* loop is Pydantic AI's, modelled by the nodes it hands to the boundary.  *)
(***************************************************************************)
EXTENDS Transcript, Controls, FiniteSets

CONSTANTS
  Workers,  \* processes that run attempts; a lease owner each
  NoOne,    \* the owner of a released lease, and of a branch never leased
  Prompts,  \* prompt commands
  Named,    \* those with a prompt_id; their host may send them again
  Screens,   \* what on_inputs may answer
  Steerings, \* what before_model may answer
  TurnVerdicts, \* what before_finish may answer
  MaxToken, \* bound on the attempts
  MaxAsks   \* bound on the model's calls

ASSUME ConversationAssumption ==
  /\ NoOne \notin Workers
  /\ Named \subseteq Prompts
  /\ MaxToken \in Nat /\ MaxAsks \in Nat

VARIABLES
  entries, lease, issued, inputs, inputSequence, lastWriter,  \* the ledger of the branch
  journal,    \* its model steps, by the history the model is shown
  rows,       \* the transcript of the conversation
  runRecord,  \* the branch's run record: none, open, or with an end
  sent,       \* of each prompt: how far its command has come
  att,        \* of each worker: its attempt
  excused,    \* history: inputs an attempt's loss, a halt or a replaced history may have damaged
  strayed     \* history: a replaced worker wrote to the transcript

ledgerVars == <<entries, lease, issued, inputs, inputSequence, lastWriter>>
storeVars == <<ledgerVars, journal, rows, runRecord>>
vars == <<storeVars, sent, att, excused, strayed>>

(* An input by its id: the prompt_id, or for a prompt without one the uuid *)
(* that submit draws, each time anew.  Number 0 is the attempt's own.      *)
Id(p, n) == <<p, IF p \in Named THEN 0 ELSE n>>
QueueIds == {Id(p, 0) : p \in Named} \cup {Id(p, n) : p \in Prompts \ Named, n \in {1, 2}}
NoPrompt == <<>>

ActiveSuspension == "active-suspension"
PendingRound == "pending-round"

L == INSTANCE Ledger WITH
       Owners <- Workers, EffectKeys <- {}, ControlKeys <- {ActiveSuspension, PendingRound},
       Values <- {}, InputIds <- QueueIds, Transitions <- {}

(* Messages: a request carries the parts of inputs, and the ids of the     *)
(* queued ones among them in its metadata.                                 *)
Request(parts, ids) == [role |-> "user", parts |-> parts, ids |-> ids]
Response(n, calls) == [role |-> "model", n |-> n, calls |-> calls]
NoRequest == Request(<<>>, <<>>)

Requests(messages) == {n \in DOMAIN messages : messages[n].role = "user"}
PartsOf(messages) == UNION {ToSet(messages[n].parts) : n \in Requests(messages)}
InputIdsOf(messages) == UNION {ToSet(messages[n].ids) : n \in Requests(messages)}

EndsIn(messages, role) == messages # <<>> /\ Last(messages).role = role
Unprocessed(messages) == EndsIn(messages, "model") /\ Last(messages).calls

-----------------------------------------------------------------------------
(* What the durable stores say of the branch.                              *)

NoPark == [state |-> "none"]
Completed == [state |-> "completed"]
Park(state, messages) == [state |-> state, messages |-> messages]

Active ==
  IF entries[ActiveSuspension] \in {L!Absent, L!Done(Completed)} THEN NoPark
  ELSE entries[ActiveSuspension].value

State ==
  CASE Active # NoPark -> Active.state
    [] runRecord = "none" -> "fresh"
    [] runRecord = "ended" -> "completed"
    [] OTHER -> "interrupted"

-----------------------------------------------------------------------------
(* An attempt: what its coroutine holds.                                   *)

Idle ==
  [pc |-> "idle", token |-> 0, prompt |-> NoPrompt, finalizing |-> FALSE, parked |-> FALSE,
   branch |-> <<>>, given |-> FALSE, hist |-> <<>>, req |-> NoRequest,
   taken |-> <<>>, seen |-> {}, looked |-> 0]

Init ==
  /\ L!Init
  /\ journal = <<>> /\ rows = <<>> /\ runRecord = "none"
  /\ sent = [p \in Prompts |-> "new"]
  /\ att = [w \in Workers |-> Idle]
  /\ excused = {} /\ strayed = FALSE

Attempted == {w \in Workers : att[w].pc \notin {"idle", "recover", "rerun"}}

Become(w, attempt) == att' = [att EXCEPT ![w] = attempt]
Go(w, pc) == att' = [att EXCEPT ![w].pc = pc]

Free(w) == att[w].pc = "idle"

ShownOnce(messages, i) ==
  \E n \in Requests(messages) : \E k \in DOMAIN messages[n].parts :
    /\ messages[n].parts[k] = i
    /\ \A m \in Requests(messages) : \A l \in DOMAIN messages[m].parts :
         messages[m].parts[l] = i => m = n /\ l = k

(* Inputs of which the queue and the conversation disagree: an admitted    *)
(* one is to be shown once, any other not at all.                          *)
Damaged ==
  LET shown == MessagesOf(rows)
      parts == PartsOf(shown)
  IN {i \in QueueIds : IF inputs[i].status = "admitted" THEN ~ ShownOnce(shown, i)
                       ELSE i \in parts}

(* History: what an error, a cancellation or a crash interrupts, and what  *)
(* another attempt takes over, or reads, from one not gone, may stay.      *)
ExcuseOthers == excused' = excused \cup (IF Attempted = {} THEN {} ELSE Damaged)

Begin(w, attempt) ==
  /\ L!Acquire(w)
  /\ Become(w, [attempt EXCEPT !.token = L!AcquireResult(w)])
  /\ ExcuseOthers

Submit(i) == IF inputs[i] = L!Unqueued THEN L!EnqueueInput(i) ELSE UNCHANGED ledgerVars

-----------------------------------------------------------------------------
(* Prompt: run looks for a park, queues behind one, or tries to start.  A  *)
(* busy branch, or a park that is answered, raises Contended, and the      *)
(* router's next row queues the prompt.                                    *)

Prompted(p) == sent[p] = "new" \/ (p \in Named /\ sent[p] = "sent")
Send(p, how) == sent' = [sent EXCEPT ![p] = how]

StartRun(w, p) ==
  /\ Free(w) /\ Prompted(p) /\ Active = NoPark
  /\ Begin(w, [Idle EXCEPT !.pc = "open", !.prompt = Id(p, 0)])
  /\ Send(p, "sent")
  /\ UNCHANGED <<journal, rows, runRecord, strayed>>

QueueBehind(p) ==
  /\ Prompted(p) /\ Active # NoPark
  /\ Submit(Id(p, 1))
  /\ Send(p, IF Active.state = "waiting" THEN "sent" ELSE "contended")
  /\ UNCHANGED <<journal, rows, runRecord, att, excused, strayed>>

Contend(p) ==
  /\ lease.live /\ Prompted(p) /\ Active = NoPark
  /\ Send(p, "contended")
  /\ UNCHANGED <<storeVars, att, excused, strayed>>

QueueSteer(p) ==
  /\ sent[p] = "contended"
  /\ Submit(Id(p, 2))
  /\ Send(p, "sent")
  /\ UNCHANGED <<journal, rows, runRecord, att, excused, strayed>>

-----------------------------------------------------------------------------
(* Recover: the state names the row, and a parked branch's committed       *)
(* history is read, before there is a lease.  A host may call recover      *)
(* itself when that history ends in an open round.                         *)

Observe(w) ==
  /\ Free(w) /\ issued < MaxToken
  /\ \/ /\ State \in {"waiting", "resuming"} \/ Unprocessed(MessagesOf(rows))
        /\ Become(w, [Idle EXCEPT !.pc = "recover", !.given = TRUE, !.hist = MessagesOf(rows)])
        /\ ExcuseOthers
     \/ /\ State = "interrupted"
        /\ Become(w, [Idle EXCEPT !.pc = "rerun"])
        /\ UNCHANGED excused
  /\ UNCHANGED <<storeVars, sent, strayed>>

BeginRecover(w) ==
  /\ att[w].pc \in {"recover", "rerun"}
  /\ Begin(w, [att[w] EXCEPT !.pc = IF @ = "recover" THEN "resolve" ELSE "open"])
  /\ UNCHANGED <<journal, rows, runRecord, sent, strayed>>

(* Answer: resume routes it by the park.  (One that finds none raises.)    *)
BeginAnswer(w) ==
  /\ Free(w) /\ Active # NoPark
  /\ Begin(w, [Idle EXCEPT !.pc = "answer"])
  /\ UNCHANGED <<journal, rows, runRecord, sent, strayed>>

(* The answer is merged, and the attempt goes on from the messages of the  *)
(* park; recover does so with a park that has its answer.                  *)
Finalize(w) ==
  /\ \/ att[w].pc = "answer" /\ Active # NoPark
     \/ att[w].pc = "resolve" /\ Active.state = "resuming"
  /\ L!WriteControl(att[w].token, ActiveSuspension, Park("resuming", Active.messages))
  /\ Become(w, [att[w] EXCEPT !.pc = "open", !.finalizing = TRUE, !.given = TRUE,
                              !.hist = Active.messages])
  /\ UNCHANGED <<journal, rows, runRecord, sent, excused, strayed>>

(* Without a park recover drives the round the history ends in, when that  *)
(* is the one on record.                                                   *)
DriveRound(w) ==
  /\ att[w].pc = "resolve" /\ Active = NoPark
  /\ Unprocessed(att[w].hist) /\ entries[PendingRound] # L!Absent
       => entries[PendingRound] = L!Done(Last(att[w].hist).n)
  /\ Go(w, "open")
  /\ UNCHANGED <<storeVars, sent, excused, strayed>>

-----------------------------------------------------------------------------
(* The attempt.  Its writes to the transcript carry no token.              *)

Write(w, newRows) ==
  /\ rows' = newRows
  /\ strayed' = (strayed \/ L!Fences(att[w].token))

(* Branch.open; a history the caller brings replaces what it leaves out.   *)
Open(w) ==
  LET a == att[w]
      branch == ActiveBranch(rows)
      shown == Bodies(rows, branch)
      hist == IF a.given THEN a.hist ELSE shown
  IN /\ a.pc = "open"
     /\ runRecord' = IF runRecord = "none" THEN "open" ELSE runRecord
     /\ Become(w, [a EXCEPT !.pc = "prompt", !.branch = branch, !.hist = hist,
                        !.given = FALSE])
     /\ excused' = excused \cup (PartsOf(shown) \ PartsOf(hist))
     /\ UNCHANGED <<ledgerVars, journal, rows, sent, strayed>>

(* Branch.replace, before and after the run, one append at a time.         *)
Aligned(w) == Bodies(rows, att[w].branch) = att[w].hist

Align(w) ==
  LET a == att[w]
      held == Bodies(rows, a.branch)
      back == Rewound(rows, a.branch, a.hist)
      next == a.hist[Len(held) + 1]
  IN /\ a.pc \in {"prompt", "closing"} /\ ~ Aligned(w)
     /\ IF IsPrefix(held, a.hist)
        THEN /\ Write(w, Record(rows, a.branch, next))
             /\ Become(w, [a EXCEPT !.branch = Advanced(rows, a.branch, next)])
        ELSE /\ Write(w, Append(rows, Leaf(Parent(back))))
             /\ Become(w, [a EXCEPT !.branch = back])
     /\ UNCHANGED <<ledgerVars, journal, runRecord, sent, excused>>

(* Faulty variant: a prompt is delivered however often it is sent.         *)
EnqueueRepeated(w) ==
  /\ att[w].pc = "prompt" /\ Aligned(w) /\ att[w].prompt \in QueueIds
  /\ Submit(att[w].prompt)
  /\ Go(w, "admit prompt")
  /\ UNCHANGED <<journal, rows, runRecord, sent, excused, strayed>>

(* A prompt with an id that is queued already was delivered before.        *)
EnqueuePrompt(w) ==
  LET a == att[w] IN
  /\ a.pc = "prompt" /\ Aligned(w) /\ a.prompt \in QueueIds
  /\ Submit(a.prompt)
  /\ Become(w, IF inputs[a.prompt] = L!Unqueued THEN [a EXCEPT !.pc = "admit prompt"]
               ELSE [a EXCEPT !.pc = "start", !.prompt = NoPrompt])
  /\ UNCHANGED <<journal, rows, runRecord, sent, excused, strayed>>

AdmitPrompt(w) ==
  /\ att[w].pc = "admit prompt"
  /\ L!AdmitInputs(att[w].token, {att[w].prompt})
  /\ Go(w, "start")
  /\ UNCHANGED <<journal, rows, runRecord, sent, excused, strayed>>

(* The loop's first node: a round that the history ends in, the request it *)
(* ends in, or a new one.  A prompt after an open round raises.            *)
Start(w) ==
  LET a == att[w]
      reuse == EndsIn(a.hist, "user")
  IN /\ a.pc = "start" \/ (a.pc = "prompt" /\ Aligned(w) /\ a.prompt \notin QueueIds)
     /\ \/ /\ a.prompt = NoPrompt /\ EndsIn(a.hist, "model")
           /\ Go(w, "round")
        \/ /\ a.prompt = NoPrompt /\ ~ EndsIn(a.hist, "model")
           /\ Become(w, [a EXCEPT !.pc = "claim",
                                  !.req = IF reuse THEN Last(a.hist) ELSE NoRequest,
                                  !.hist = IF reuse THEN Front(a.hist) ELSE a.hist])
        \/ /\ a.prompt # NoPrompt /\ ~ Unprocessed(a.hist)
           /\ Become(w, [a EXCEPT !.pc = "claim", !.req = Request(<<a.prompt>>, <<>>),
                                  !.prompt = NoPrompt])
     /\ UNCHANGED <<storeVars, sent, excused, strayed>>

(* The inputs that are neither terminal, nor in the history, nor claimed   *)
(* by this attempt before, in the order they were queued.                  *)
Claimable(a) ==
  {i \in QueueIds : /\ inputs[i].status \in {"pending", "claimed"}
                    /\ i \notin InputIdsOf(a.hist) \cup a.seen}

TakeClaims(w, pc, claims, seen) ==
  /\ Become(w, [att[w] EXCEPT !.pc = pc, !.taken = @ \o claims, !.seen = seen,
                              !.looked = IF pc = "closing" THEN inputSequence ELSE 0])
  /\ IF claims = <<>> THEN UNCHANGED ledgerVars
     ELSE /\ L!Fenced(att[w].token)
          /\ L!Mark(ToSet(claims), "claimed", {"admitted", "discarded"})
          /\ UNCHANGED <<entries, lease, issued, inputSequence>>

Before(i, j) == inputs[i].sequence < inputs[j].sequence
Queue(w) ==
  LET C == Claimable(att[w]) IN
  CHOOSE q \in [1 .. Cardinality(C) -> C] : \A m, n \in DOMAIN q : m < n => Before(q[m], q[n])

(* Faulty variants: newest first; what is claimed is not remembered.       *)
TakeNewest(w, pc) ==
  TakeClaims(w, pc, Reverse(Queue(w)), att[w].seen \cup Claimable(att[w]))
TakeForgetfully(w, pc) == TakeClaims(w, pc, Queue(w), att[w].seen)

Take(w, pc) == TakeClaims(w, pc, Queue(w), att[w].seen \cup Claimable(att[w]))

Claim(w) ==
  /\ att[w].pc = "claim"
  /\ Take(w, "screen")
  /\ UNCHANGED <<journal, rows, runRecord, sent, excused, strayed>>

(* What is left of the group enters the request; a halt leaves without it. *)
Screen(w, screen, steering) ==
  LET a == att[w]
      group == a.req.parts \o a.taken
      screened == IF group = <<>> THEN Passed(<<>>) ELSE Ingress(<<screen>>, group)
      dropped == IF IsHalt(screened) THEN {} ELSE ToSet(a.taken) \ ToSet(screened.inputs)
      keep == Without(a.taken, dropped)
      halts == IsHalt(screened) \/ IsHalt(Steering(<<steering>>))
  IN /\ a.pc = "screen"
     /\ IF dropped = {} THEN UNCHANGED ledgerVars ELSE L!DiscardInputs(a.token, dropped)
     /\ IF halts
        THEN /\ Go(w, "closing")
             /\ excused' = excused \cup ToSet(a.req.parts)
        ELSE /\ Become(w, [a EXCEPT !.pc = "record", !.taken = keep,
                                    !.req = Request(screened.inputs, IF keep = <<>> THEN @.ids ELSE keep)])
             /\ excused' = excused \cup (ToSet(a.req.parts) \ ToSet(screened.inputs))
     /\ UNCHANGED <<journal, rows, runRecord, sent, strayed>>

RecordRequest(w) ==
  LET a == att[w] IN
  /\ a.pc = "record"
  /\ Write(w, Record(rows, a.branch, a.req))
  /\ Become(w, [a EXCEPT !.pc = IF a.taken = <<>> THEN "ask" ELSE "admit", !.branch = Advanced(rows, @, a.req),
                         !.hist = Append(@, a.req), !.req = NoRequest])
  /\ UNCHANGED <<ledgerVars, journal, runRecord, sent, excused>>

AdmitRequest(w) ==
  LET a == att[w] IN
  /\ a.pc = "admit"
  /\ L!AdmitInputs(a.token, ToSet(a.taken))
  /\ Become(w, [a EXCEPT !.pc = "ask", !.taken = <<>>])
  /\ UNCHANGED <<journal, rows, runRecord, sent, excused, strayed>>

(* The model step of the history: replayed, or asked and reported.  (One   *)
(* that never reports lets nobody pass; Effects has that.)                 *)
Replay(w) ==
  LET a == att[w] IN
  /\ a.pc = "ask" /\ a.hist \in DOMAIN journal
  /\ Become(w, [a EXCEPT !.pc = "round", !.hist = Append(@, journal[a.hist])])
  /\ UNCHANGED <<storeVars, sent, excused, strayed>>

Asked == Cardinality(DOMAIN journal)

Ask(w, calls) ==
  LET a == att[w]
      response == Response(Asked + 1, calls)
  IN /\ a.pc = "ask" /\ a.hist \notin DOMAIN journal /\ Asked < MaxAsks
     /\ L!Fenced(a.token)
     /\ journal' = [h \in DOMAIN journal \cup {a.hist} |->
                      IF h = a.hist THEN response ELSE journal[h]]
     /\ Become(w, [a EXCEPT !.pc = "round", !.hist = Append(@, response)])
     /\ UNCHANGED <<entries, lease, issued, inputs, inputSequence, rows, runRecord, sent,
                    excused, strayed>>

RecordPending(w) ==
  LET response == Last(att[w].hist) IN
  /\ att[w].pc = "round" /\ response.calls
  /\ L!WriteControl(att[w].token, PendingRound, response.n)
  /\ Go(w, "calls")
  /\ UNCHANGED <<journal, rows, runRecord, sent, excused, strayed>>

(* The response is recorded after its round, and not at all if that parks. *)
EndRound(w) ==
  LET a == att[w]
      response == Last(a.hist)
  IN /\ a.pc \in {"calls", "round"}
     /\ response.calls <=> a.pc = "calls"
     /\ Write(w, Record(rows, a.branch, response))
     /\ Become(w, [a EXCEPT !.pc = IF response.calls THEN "claim" ELSE "finish",
                            !.branch = Advanced(rows, @, response), !.req = NoRequest])
     /\ UNCHANGED <<ledgerVars, journal, runRecord, sent, excused>>

SuspendRound(w) ==
  /\ att[w].pc = "calls"
  /\ Become(w, [att[w] EXCEPT !.pc = "closing", !.parked = TRUE])
  /\ UNCHANGED <<storeVars, sent, excused, strayed>>

(* Faulty variant: nothing is claimed once the model has finished.         *)
FinishAtOnce(w, turn) ==
  /\ att[w].pc = "finish"
  /\ Become(w, [att[w] EXCEPT !.pc = IF IsHalt(FinishPolicy(<<turn>>, "completed"))
                                     THEN "closing" ELSE "claim", !.looked = inputSequence])
  /\ UNCHANGED <<storeVars, sent, excused, strayed>>

(* What arrived while the turn was finishing cancels the stop; so does a   *)
(* verifier that objects.                                                  *)
Finish(w, turn) ==
  /\ att[w].pc = "finish"
  /\ Take(w, IF Claimable(att[w]) # {} \/ ~ IsHalt(FinishPolicy(<<turn>>, "completed"))
             THEN "claim" ELSE "closing")
  /\ UNCHANGED <<journal, rows, runRecord, sent, excused, strayed>>

-----------------------------------------------------------------------------
(* The ways an attempt ends, once the transcript is its history.           *)

CommitPark(w) ==
  /\ att[w].pc = "closing" /\ Aligned(w) /\ att[w].parked
  /\ L!CommitTransition(att[w].token,
       [effects |-> {}, inputs |-> <<>>,
        controls |-> [k \in {ActiveSuspension} |-> Park("waiting", att[w].hist)]])
  /\ Go(w, "parked")
  /\ UNCHANGED <<journal, rows, runRecord, sent, excused, strayed>>

CloseRun(w) ==
  /\ att[w].pc = "closing" /\ Aligned(w) /\ ~ att[w].parked
  /\ runRecord' = "ended"
  /\ Go(w, IF att[w].finalizing THEN "complete" ELSE "completed")
  /\ UNCHANGED <<ledgerVars, journal, rows, sent, excused, strayed>>

Complete(w) ==
  /\ att[w].pc = "complete"
  /\ L!WriteControl(att[w].token, ActiveSuspension, Completed)
  /\ Go(w, "completed")
  /\ UNCHANGED <<journal, rows, runRecord, sent, excused, strayed>>

Leave(w) ==
  /\ att[w].pc \in {"parked", "completed"}
  /\ L!Release(w)
  /\ Become(w, Idle)
  /\ UNCHANGED <<journal, rows, runRecord, sent, excused, strayed>>

(* A crash leaves the lease.  A cancellation at any await, an             *)
(* Indeterminate, Fenced or LookupError does not, and a Contended never    *)
(* had it.                                                                 *)
Crash(w) ==
  /\ lease' = [lease EXCEPT !.owner = IF @ = w THEN NoOne ELSE @]
  /\ UNCHANGED <<entries, issued, inputs, inputSequence, lastWriter>>

Raise(w) == L!Release(w)

Abandon(w) ==
  /\ att[w].pc \notin {"idle", "parked", "completed"}
  /\ Become(w, Idle)
  /\ excused' = excused \cup Damaged
  /\ UNCHANGED <<journal, rows, runRecord, sent, strayed>>
  /\ Crash(w) \/ Raise(w)

(* An expiry that no worker could make use of is put off.                  *)
ExpireLease ==
  /\ issued < MaxToken /\ \E w \in Workers : Free(w)
  /\ L!Expire
  /\ UNCHANGED <<journal, rows, runRecord, sent, att, excused, strayed>>

-----------------------------------------------------------------------------

AttemptStep(w) ==
  \/ BeginRecover(w) \/ Finalize(w) \/ DriveRound(w)
  \/ Open(w) \/ Align(w) \/ EnqueuePrompt(w) \/ AdmitPrompt(w) \/ Start(w)
  \/ Claim(w) \/ \E s \in Screens, t \in Steerings : Screen(w, s, t)
  \/ RecordRequest(w) \/ AdmitRequest(w)
  \/ Replay(w) \/ \E calls \in BOOLEAN : Ask(w, calls)
  \/ RecordPending(w) \/ EndRound(w) \/ SuspendRound(w)
  \/ \E t \in TurnVerdicts : Finish(w, t)
  \/ CommitPark(w) \/ CloseRun(w) \/ Complete(w) \/ Leave(w)

Next ==
  \/ \E p \in Prompts : \/ QueueBehind(p) \/ Contend(p) \/ QueueSteer(p)
                        \/ \E w \in Workers : StartRun(w, p)
  \/ \E w \in Workers : Observe(w) \/ BeginAnswer(w) \/ AttemptStep(w) \/ Abandon(w)
  \/ ExpireLease

Spec == Init /\ [][Next]_vars

-----------------------------------------------------------------------------
(* Properties.                                                             *)

PCs == {"idle", "recover", "rerun", "resolve", "answer", "open", "prompt", "admit prompt",
        "start", "claim", "screen", "record", "admit", "ask", "round",
        "calls", "finish", "closing", "parked", "complete", "completed"}

TypeOK ==
  /\ entries[ActiveSuspension] # L!Absent =>
       /\ entries[ActiveSuspension].status = "done"
       /\ entries[ActiveSuspension].value.state \in {"waiting", "resuming", "completed"}
  /\ entries[PendingRound] \in {L!Absent} \cup {L!Done(n) : n \in 1 .. Asked}
  /\ inputs \in [QueueIds -> {L!Unqueued} \cup [status : L!InputStatus, sequence : Nat]]
  /\ issued \in 0 .. MaxToken
  /\ runRecord \in {"none", "open", "ended"}
  /\ sent \in [Prompts -> {"new", "contended", "sent"}]
  /\ \A w \in Workers : /\ att[w].pc \in PCs /\ att[w].token \in 0 .. issued
                        /\ ToSet(att[w].taken) \subseteq att[w].seen
                        /\ att[w].seen \subseteq QueueIds
  /\ \A n \in DOMAIN rows : rows[n].type \in {"message", "leaf"}
  /\ excused \subseteq QueueIds \cup {<<p, 0>> : p \in Prompts}

(* Whenever nothing is in progress, a queued input is in the conversation  *)
(* exactly once if the queue has it as admitted, and not at all if it is   *)
(* still pending or was discarded: no input is lost or shown twice, over   *)
(* any series of prompts, hand-offs, parks, answers and recoveries.        *)
(* Excused are the inputs on which queue and transcript disagreed when an  *)
(* attempt ended by an error of any kind, a cancellation or a crash, or    *)
(* was overlapped by another, and those that went with a halted request or *)
(* a replaced history: of inputs caught between the two stores it says     *)
(* nothing.                                                                *)
(* (_admit, _InputSession, prompt_id in _attempt, Branch.replace.)         *)
DeliveredOnce == Attempted = {} /\ ~ strayed => Damaged \subseteq excused

(* Queued inputs enter the conversation in the order they were queued,     *)
(* whichever attempts carried them.  (claim, _prefetched, list_inputs.)    *)
InQueueOrder(messages) ==
  \A m, n \in Requests(messages) :
    \A k \in DOMAIN messages[m].ids, l \in DOMAIN messages[n].ids :
      LET i == messages[m].ids[k]
          j == messages[n].ids[l]
      IN {i, j} \cap excused = {} /\ (m < n \/ (m = n /\ k < l)) => Before(i, j)

NoOvertaking == Attempted = {} /\ ~ strayed => InQueueOrder(MessagesOf(rows))

(* When an attempt that owns the branch announces its park or its end, the *)
(* active branch of the transcript is exactly the history its model saw:   *)
(* what a replay or a crash recorded besides is off the branch.            *)
(* (Branch.replace, TranscriptWriter.record and rewind, active_branch.)    *)
TranscriptIsHistory ==
  \A w \in Workers :
    att[w].pc \in {"parked", "complete", "completed"} /\ att[w].token = issued /\ ~ strayed
      => MessagesOf(rows) = att[w].hist

(* "A steer that landed while the turn was finishing cancels the stop": a  *)
(* run completes only when every input queued before its last look is in   *)
(* the conversation or discarded.  (_decide_finish.)                       *)
NothingIsLeftBehind ==
  [][\A w \in Workers :
       att[w].pc = "closing" /\ att'[w].pc \in {"complete", "completed"} =>
         \A i \in QueueIds :
           inputs[i] # L!Unqueued /\ inputs[i].sequence < att[w].looked
             => \/ inputs[i].status \in {"admitted", "discarded"}
                \/ i \in InputIdsOf(att[w].hist)]_vars

(* "interrupted (an open round - a crash, or a run another worker is still *)
(* driving; ...)" (AgentRuntime.state): it is what the branch is called    *)
(* while an attempt is in its loop and nothing is parked.                  *)
DrivenIsInterrupted ==
  (\E w \in Attempted : att[w].pc \in {"claim", "ask", "round", "calls", "finish"}
                        /\ att[w].token = issued)
  /\ Active = NoPark => State = "interrupted"
=============================================================================
