-------------------------------- MODULE Fork --------------------------------
(***************************************************************************)
(* A fork (AgentRuntime.fork): a branch that starts from a history of      *)
(* another one, in the middle of a round of tool calls.  What the source   *)
(* has on record of these calls is copied into the target's ledger, one    *)
(* await at a time, while the source may still be running; then the round  *)
(* is driven in the target.  A fork that was cut off is tried again, or    *)
(* the target recovered from the same history.                             *)
(*                                                                         *)
(* Calls are copied and taken one at a time, in any order.  The journal of *)
(* a call and the grain of a step are in Effects, what becomes of a        *)
(* suspended call is in Suspension: here each attempt of the target may    *)
(* meet another verdict.                                                   *)
(***************************************************************************)
EXTENDS Controls, FiniteSets

CONSTANTS
  Workers,   \* calls of fork and recover on the target; each owns its lease
  NoOne,     \* the owner of a released lease, and of a branch never leased
  Calls,     \* the unanswered calls of the history
  NoCall,
  Gates,     \* verdicts of the stages of the target's pre_tool_use
  Retry,     \* whether an unreported step may run again (retry_running)
  MaxToken   \* bound on the fencing tokens issued

ASSUME ForkAssumption ==
  /\ NoOne \notin Workers /\ NoCall \notin Calls
  /\ Retry \in BOOLEAN /\ MaxToken \in Nat

VARIABLES
  entries, lease, issued, lastWriter,  \* the ledger of the target
  source,   \* the steps of the source
  att,      \* of each worker: its attempt
  ran,      \* history: how often each call's effect went out in the target
  begun,    \* history: calls whose record was copied, or begun to be copied
  cleared   \* history: calls of which a retry took the unreported intent away

ledgerVars == <<entries, lease, issued, lastWriter>>
historyVars == <<ran, begun, cleared>>
vars == <<ledgerVars, source, att, historyVars>>

L == INSTANCE Ledger WITH
       Owners <- Workers, EffectKeys <- Calls, ControlKeys <- {}, Values <- {"source", "own"},
       InputIds <- {}, inputs <- <<>>, inputSequence <- 0, Transitions <- {}

Attempt ==
  [pc : {"new", "copy", "doubt", "record", "finish", "drive", "allowed", "cleared",
         "started", "ran", "gone"},
   token : Nat,
   left : SUBSET Calls,       \* calls still to be copied, or to be taken
   call : Calls \cup {NoCall}, \* the one in hand
   regating : BOOLEAN,        \* the fork was asked to gate copied calls again
   copied : SUBSET Calls,
   asks : BOOLEAN,            \* a gate suspended a call of the round
   answered : SUBSET Calls]

New == [pc |-> "new", token |-> 0, left |-> {}, call |-> NoCall, regating |-> FALSE,
        copied |-> {}, asks |-> FALSE, answered |-> {}]

Init ==
  /\ L!Init
  /\ source = [c \in Calls |-> L!Absent]
  /\ att = [w \in Workers |-> New]
  /\ ran = [c \in Calls |-> 0]
  /\ begun = {} /\ cleared = {}

Become(w, attempt) == att' = [att EXCEPT ![w] = attempt]
Go(w, pc) == att' = [att EXCEPT ![w].pc = pc]
At(w, pc) == att[w].pc = pc

(* The call in hand is dealt with; the next one is taken at pc.            *)
Pass(w, pc, c) == Become(w, [att[w] EXCEPT !.pc = pc, !.left = @ \ {c}, !.call = NoCall])

(* Faulty variant: the call stays in hand.                                 *)
AnswerKept(w, c) ==
  Become(w, [att[w] EXCEPT !.pc = "drive", !.left = @ \ {c}, !.answered = @ \cup {c}])

Answer(w, c) ==
  Become(w, [att[w] EXCEPT !.pc = "drive", !.left = @ \ {c}, !.call = NoCall,
                           !.answered = @ \cup {c}])

-----------------------------------------------------------------------------
(* The source goes on with its own run: an effect begins, reports, or      *)
(* withdraws its intent.                                                   *)

SourceStep(c) ==
  /\ \/ source[c] = L!Absent /\ source' = [source EXCEPT ![c] = L!Running]
     \/ source[c] = L!Running /\ \E s \in {L!Absent, L!Done("source")} :
                                    source' = [source EXCEPT ![c] = s]
  /\ UNCHANGED <<ledgerVars, att, historyVars>>

-----------------------------------------------------------------------------
(* The lease block of an attempt, and the ways out of it.                  *)

Begin(w, pc, regating) ==
  /\ At(w, "new")
  /\ L!Acquire(w)
  /\ Become(w, [New EXCEPT !.pc = pc, !.token = L!AcquireResult(w), !.left = Calls,
                           !.regating = regating])
  /\ UNCHANGED <<source, historyVars>>

BeginFork(w, regating) == Begin(w, "copy", regating)
BeginRecover(w) == Begin(w, "drive", FALSE)

(* The end of the round, Indeterminate, Fenced, EffectConflict, or a       *)
(* cancellation at any await.                                              *)
Leave(w) ==
  /\ ~ At(w, "new") /\ ~ At(w, "gone")
  /\ Become(w, [New EXCEPT !.pc = "gone"])
  /\ L!Release(w)
  /\ UNCHANGED <<source, historyVars>>

Crash(w) ==
  /\ ~ At(w, "new") /\ ~ At(w, "gone")
  /\ Become(w, [New EXCEPT !.pc = "gone"])
  /\ UNCHANGED <<ledgerVars, source, historyVars>>

ExpireLease == L!Expire /\ UNCHANGED <<source, att, historyVars>>

-----------------------------------------------------------------------------
(* Copying: a record of the source becomes one of the target, unless the   *)
(* target has its own.                                                     *)

ReadSource(w, c) ==
  /\ At(w, "copy") /\ c \in att[w].left
  /\ IF source[c] = L!Absent THEN Pass(w, "copy", c)
     ELSE Become(w, [att[w] EXCEPT !.call = c,
                       !.pc = IF source[c] = L!Running THEN "doubt" ELSE "record"])
  /\ UNCHANGED <<ledgerVars, source, historyVars>>

(* Faulty variant: only results are copied.                                *)
DropDoubt(w) ==
  /\ At(w, "doubt")
  /\ Pass(w, "copy", att[w].call)
  /\ begun' = begun \cup {att[w].call}
  /\ UNCHANGED <<ledgerVars, source, ran, cleared>>

CopyDoubt(w) ==
  /\ At(w, "doubt")
  /\ L!Start(att[w].token, att[w].call)
  /\ Pass(w, "copy", att[w].call)
  /\ begun' = begun \cup {att[w].call}
  /\ UNCHANGED <<source, ran, cleared>>

StartCopy(w) ==
  /\ At(w, "record")
  /\ L!Start(att[w].token, att[w].call)
  /\ Go(w, "finish")
  /\ begun' = begun \cup {att[w].call}
  /\ UNCHANGED <<source, ran, cleared>>

FinishCopy(w) ==
  LET a == att[w] IN
  /\ At(w, "finish")
  /\ L!FinishEffect(a.token, a.call, "source")
  /\ Become(w, [a EXCEPT !.pc = "copy", !.left = @ \ {a.call}, !.call = NoCall,
                         !.copied = @ \cup {a.call}])
  /\ UNCHANGED <<source, historyVars>>

SkipCopy(w) ==
  /\ At(w, "doubt") \/ At(w, "record")
  /\ ~ L!Fences(att[w].token) /\ entries[att[w].call] # L!Absent
  /\ Pass(w, "copy", att[w].call)
  /\ UNCHANGED <<ledgerVars, source, historyVars>>

StartDriving(w) ==
  /\ At(w, "copy") /\ att[w].left = {}
  /\ Become(w, [att[w] EXCEPT !.pc = "drive", !.left = Calls])
  /\ UNCHANGED <<ledgerVars, source, historyVars>>

-----------------------------------------------------------------------------
(* Driving: a recorded call replays without a gate, unless this fork       *)
(* copied it and is to gate it again.                                      *)

Regate(w) == IF att[w].regating THEN att[w].copied ELSE {}
OnRecord(c) == entries[c].status = "done"

(* Faulty variant: what is on record replays, whoever put it there.        *)
ReplayAnyCall(w, c) ==
  /\ At(w, "drive") /\ c \in att[w].left
  /\ OnRecord(c)
  /\ Answer(w, c)
  /\ UNCHANGED <<ledgerVars, source, historyVars>>

ReplayCall(w, c) ==
  /\ At(w, "drive") /\ c \in att[w].left
  /\ c \notin Regate(w) /\ OnRecord(c)
  /\ Answer(w, c)
  /\ UNCHANGED <<ledgerVars, source, historyVars>>

(* Behind a suspension only another suspension is kept.                    *)
Gate(w, c, stages) ==
  LET a == att[w]
      verdict == Permissions(stages).type
  IN /\ At(w, "drive") /\ c \in a.left
     /\ c \in Regate(w) \/ ~ OnRecord(c)
     /\ IF verdict = "continue" /\ ~ a.asks
        THEN Become(w, [a EXCEPT !.pc = "allowed", !.call = c])
        ELSE Become(w, [a EXCEPT !.left = @ \ {c}, !.asks = @ \/ verdict = "suspend"])
     /\ UNCHANGED <<ledgerVars, source, historyVars>>

ReplayAllowed(w) ==
  /\ At(w, "allowed") /\ OnRecord(att[w].call)
  /\ Answer(w, att[w].call)
  /\ UNCHANGED <<ledgerVars, source, historyVars>>

ClearStep(w) ==
  /\ At(w, "allowed") /\ entries[att[w].call] = L!Running /\ Retry
  /\ L!Forget(att[w].token, att[w].call)
  /\ Go(w, "cleared")
  /\ cleared' = cleared \cup {att[w].call}
  /\ UNCHANGED <<source, ran, begun>>

StartCall(w) ==
  /\ At(w, "allowed") \/ At(w, "cleared")
  /\ L!Start(att[w].token, att[w].call)
  /\ Go(w, "started")
  /\ UNCHANGED <<source, historyVars>>

Execute(w) ==
  /\ At(w, "started")
  /\ ran' = [ran EXCEPT ![att[w].call] = @ + 1]
  /\ Go(w, "ran")
  /\ UNCHANGED <<ledgerVars, source, begun, cleared>>

(* A signal the body raises; one that asks for approval suspends nothing   *)
(* for the calls behind it.                                                *)
WithdrawCall(w) ==
  /\ At(w, "started")
  /\ L!Forget(att[w].token, att[w].call)
  /\ Pass(w, "drive", att[w].call)
  /\ UNCHANGED <<source, historyVars>>

(* Faulty variant: the intent is reported as done before the effect.       *)
FinishEarlier(w) ==
  /\ At(w, "started")
  /\ L!FinishEffect(att[w].token, att[w].call, "own")
  /\ Answer(w, att[w].call)
  /\ UNCHANGED <<source, historyVars>>

FinishCall(w) ==
  /\ At(w, "ran")
  /\ L!FinishEffect(att[w].token, att[w].call, "own")
  /\ Answer(w, att[w].call)
  /\ UNCHANGED <<source, historyVars>>

-----------------------------------------------------------------------------

CallStep(w) ==
  \/ CopyDoubt(w) \/ StartCopy(w) \/ FinishCopy(w) \/ SkipCopy(w) \/ StartDriving(w)
  \/ ReplayAllowed(w) \/ ClearStep(w) \/ StartCall(w) \/ Execute(w) \/ WithdrawCall(w)
  \/ FinishCall(w)

Next ==
  \/ \E w \in Workers :
       \/ \E regating \in BOOLEAN : BeginFork(w, regating)
       \/ BeginRecover(w) \/ Leave(w) \/ Crash(w) \/ CallStep(w)
       \/ \E c \in Calls : ReadSource(w, c) \/ ReplayCall(w, c)
       \/ \E c \in Calls, stages \in Gates : Gate(w, c, stages)
  \/ \E c \in Calls : SourceStep(c)
  \/ ExpireLease

Spec == Init /\ [][Next]_vars

-----------------------------------------------------------------------------
(* Properties.                                                             *)

TypeOK ==
  /\ entries \in [Calls -> L!Steps]
  /\ lease \in [owner : Workers \cup {NoOne}, token : Nat, live : BOOLEAN]
  /\ issued \in Nat /\ lastWriter \in Nat
  /\ source \in [Calls -> {L!Absent, L!Running, L!Done("source")}]
  /\ att \in [Workers -> Attempt]
  /\ \A w \in Workers :
       att[w].call = NoCall <=> att[w].pc \in {"new", "copy", "drive", "gone"}
  /\ ran \in [Calls -> Nat]
  /\ begun \subseteq Calls /\ cleared \subseteq Calls

(* "Calls in that history the source run finished are copied ... so they   *)
(* replay instead of running again"; "a call the source started and never  *)
(* reported is copied as started: the new run inherits the doubt, and      *)
(* retry_running decides": once the copy of a record has begun, its effect *)
(* goes out in the target only after a retry cleared an unreported intent, *)
(* over any series of forks, recoveries, crashes and takeovers.            *)
(* (fork, wrap_tool_execute.)                                              *)
InheritedIsNotRepeated ==
  [][\A c \in Calls : ran'[c] # ran[c] /\ c \in begun => c \in cleared]_vars

(* Every result in the target stands for an effect: one that went out here *)
(* before it was recorded, or one the source reported itself.              *)
(* (fork's copy of record.value, _execute.)                                *)
CopiesAreReal ==
  \A c \in Calls :
    /\ entries[c] = L!Done("own") => ran[c] > 0
    /\ entries[c] = L!Done("source") => source[c] = L!Done("source")

(* "regate=True asks the new run's pre_tool_use first ... and only a       *)
(* Continue replays it": a fork that gates again shows the model no call   *)
(* it copied from behind a gate's suspension of the round, nor before its  *)
(* own gate let the call through.  (before_tool_execute, _gate.)           *)
RegatedWaits ==
  [][\A w \in Workers, c \in Calls :
       c \in (att'[w].answered \ att[w].answered) \cap Regate(w)
         => att[w].pc = "allowed" /\ ~ att[w].asks]_vars
=============================================================================
