---------------------------- MODULE EffectsProofs ----------------------------
(***************************************************************************)
(* The execution boundary for any number of attempts, calls and tokens:    *)
(* types; that the fence leaves the attempt that owns the branch           *)
(* uncontested; that all attempts show the model the same answer; that an  *)
(* effect goes out at most once when nothing retries, and what is recorded *)
(* of it is what it produced; that a hook is not repeated unless an        *)
(* attempt was lost; and that nothing begins behind a gate's suspension.   *)
(***************************************************************************)
EXTENDS Effects, FiniteSetTheorems, TLAPS

-----------------------------------------------------------------------------
(* Keys and ledger operations.                                             *)

(* The key vocabularies do not overlap.                                    *)
LEMMA KeyFacts ==
  /\ L!Keys = ToolKeys \cup ControlStateKeys
  /\ \A s \in Effect : StepKey(s) \in L!Keys
  /\ \A c \in Calls : AfterKey(c) \in L!Keys
  /\ PendingRound \in L!Keys /\ ActiveSuspension \in L!Keys
  /\ \A s, r \in Effect : StepKey(s) = StepKey(r) => s = r
  /\ \A c, d \in Calls : AfterKey(c) = AfterKey(d) => c = d
  /\ \A s \in Effect, c \in Calls : StepKey(s) # AfterKey(c)
  /\ \A s \in Effect : StepKey(s) # PendingRound /\ StepKey(s) # ActiveSuspension
  /\ \A c \in Calls : AfterKey(c) # PendingRound /\ AfterKey(c) # ActiveSuspension
BY DEF L!Keys, ToolKeys, ControlStateKeys, StepKey, AfterKey, PendingRound, ActiveSuspension

(* The transition that parks a round writes the active suspension only.    *)
LEMMA ParkWrites ==
  ASSUME NEW t, L!CommitTransition(t, Park), DOMAIN entries = L!Keys
  PROVE  /\ L!Fenced(t)
         /\ entries' = [entries EXCEPT ![ActiveSuspension] = L!Done(ParkRecord)]
         /\ UNCHANGED <<lease, issued>>
<1>1. entries' = L!Committed(Park) /\ L!Fenced(t) /\ UNCHANGED <<lease, issued>>
  BY DEF L!CommitTransition
<1>2. /\ Park.effects = {}
      /\ DOMAIN Park.controls = {ActiveSuspension}
      /\ Park.controls[ActiveSuspension] = ParkRecord
  BY DEF Park
<1>3. L!Committed(Park) = [k \in L!Keys |-> IF k = ActiveSuspension THEN L!Done(ParkRecord)
                                           ELSE entries[k]]
  BY <1>2 DEF L!Committed
<1>4. ActiveSuspension \in L!Keys
  BY KeyFacts
<1>5. entries' = [k \in L!Keys |-> IF k = ActiveSuspension THEN L!Done(ParkRecord)
                                   ELSE entries[k]]
  BY <1>1, <1>3
<1>6. [entries EXCEPT ![ActiveSuspension] = L!Done(ParkRecord)]
        = [k \in L!Keys |-> IF k = ActiveSuspension THEN L!Done(ParkRecord) ELSE entries[k]]
  BY <1>4
<1> QED
  BY <1>1, <1>5, <1>6

-----------------------------------------------------------------------------
(* Types.  What an attempt is about to record is a value it produced.      *)

Carried ==
  \A a \in Attempts, s \in Effect :
    pc[a][s] \in {"finishing", "marking"} => got[a][s] \in Values \cup {Response}

TypeInv == TypeOK /\ Carried

USE DEF Working, Ended, Places, Resolved, Withdrawn

(* A step withdrawn, whatever signal it was.                               *)
Withdraws(a, s) == \E to \in Signals(s) : WithdrawStep(a, s, to)

LEMMA TypeInit == Init => TypeInv
<1> SUFFICES ASSUME Init
             PROVE  TypeInv
  OBVIOUS
<1>1. entries \in [ToolKeys \cup ControlStateKeys -> L!Steps]
  BY KeyFacts DEF Init, L!Init, L!Steps
<1>2. lease \in [owner : Attempts \cup {NoOne}, token : Nat, live : BOOLEAN]
  BY DEF Init, L!Init
<1> QED
  BY <1>1, <1>2 DEF Init, L!Init, TypeInv, TypeOK, Carried

(* Steps that leave the ledger alone and move one attempt.                 *)
LEMMA TypeEndings ==
  ASSUME TypeInv, NEW a \in Attempts,
         \/ Inspect(a) \/ Cancel(a) \/ Answer(a) \/ RefusePark(a) \/ FencedControl(a) \/ Crash(a)
         \/ \E s \in Effect : Indeterminate(a, s) \/ FencedOut(a, s)
  PROVE  TypeInv'
<1> USE DEF TypeInv, TypeOK, Carried
<1>1. ASSUME NEW how \in Working \cup Ended, EndAs(a, how)
      PROVE  TypeInv'
  BY <1>1 DEF EndAs, ledgerVars, historyVars
<1>2. CASE Crash(a)
  BY <1>2 DEF Crash, ledgerVars, historyVars
<1> QED
  BY <1>1, <1>2 DEF Inspect, Cancel, Answer, RefusePark, FencedControl, Indeterminate, FencedOut

LEMMA TypeMoves ==
  ASSUME TypeInv, NEW a \in Attempts, NEW s \in Effect,
         \/ ReadAbsent(a, s) \/ ReadRunning(a, s) \/ NothingHappened(a, s)
         \/ s \in Calls /\ \/ CheckRecorded(a, s) \/ Continue(a, s) \/ Refuse(a, s)
                           \/ Suspend(a, s) \/ NotJournalled(a, s)
  PROVE  TypeInv'
<1> USE DEF TypeInv, TypeOK, Carried
<1>1. ASSUME NEW to \in Places \ {"finishing", "marking"}, pc' = [pc EXCEPT ![a][s] = to],
             blocked' \subseteq Attempts,
             UNCHANGED <<ledgerVars, phase, token, held, got, historyVars>>
      PROVE  TypeInv'
  BY <1>1 DEF ledgerVars, historyVars
<1>2. CASE ReadAbsent(a, s) \/ ReadRunning(a, s) \/ NothingHappened(a, s)
  BY <1>1, <1>2 DEF ReadAbsent, ReadRunning, NothingHappened, Go
<1>3. CASE CheckRecorded(a, s)
  BY <1>1, <1>3 DEF CheckRecorded, Go
<1>4. CASE Continue(a, s) \/ Refuse(a, s) \/ Suspend(a, s) \/ NotJournalled(a, s)
  BY <1>1, <1>4 DEF Continue, Refuse, Suspend, NotJournalled, Go
<1> QED
  BY <1>2, <1>3, <1>4

LEMMA TypeCarries ==
  ASSUME TypeInv, NEW a \in Attempts, NEW s \in Effect,
         \/ ReplayStep(a, s) \/ \E v \in Produces(s) : Execute(a, s, v)
         \/ s \in Calls /\ (ReplayJournal(a, s) \/ \E v \in Values : Hook(a, s, v))
  PROVE  TypeInv'
<1> USE DEF TypeInv, TypeOK, Carried
<1>1. ASSUME NEW k \in ToolKeys \cup ControlStateKeys, entries[k].status = "done"
      PROVE  entries[k].value \in Values \cup {Response, RoundRecord, ParkRecord}
  BY <1>1 DEF L!Steps, L!Absent, L!Running, L!Done
<1>2. StepKey(s) \in ToolKeys \cup ControlStateKeys
      /\ (s \in Calls => AfterKey(s) \in ToolKeys \cup ControlStateKeys)
  BY KeyFacts
<1>3. CASE ReplayStep(a, s)
  BY <1>1, <1>2, <1>3 DEF ReplayStep, Go, Carry, Replayed, ledgerVars, historyVars
<1>4. ASSUME NEW v \in Produces(s), Execute(a, s, v)
      PROVE  TypeInv'
  BY <1>4 DEF Execute, Produces, Go, Carry, ledgerVars
<1>5. CASE s \in Calls /\ ReplayJournal(a, s)
  BY <1>1, <1>2, <1>5 DEF ReplayJournal, Go, Carry, ledgerVars, historyVars
<1>6. ASSUME s \in Calls, NEW v \in Values, Hook(a, s, v)
      PROVE  TypeInv'
  BY <1>6 DEF Hook, Go, Carry, ledgerVars
<1> QED
  BY <1>3, <1>4, <1>5, <1>6

(* Steps that write to the ledger.                                         *)
LEMMA TypeWrites ==
  ASSUME TypeInv, NEW a \in Attempts,
         \/ RecordPending(a) \/ ParkRound(a)
         \/ \E s \in Effect : \/ ClearStep(a, s) \/ StartStep(a, s) \/ Withdraws(a, s)
                             \/ FinishStep(a, s)
         \/ \E c \in Calls : WriteMarker(a, c)
  PROVE  TypeInv'
<1> USE DEF TypeInv, TypeOK, Carried
<1> DEFINE K == ToolKeys \cup ControlStateKeys
<1>1. ASSUME NEW k \in K, NEW v \in {L!Absent, L!Running}
      PROVE  [entries EXCEPT ![k] = v] \in [K -> L!Steps]
  BY <1>1 DEF L!Steps
<1>2. ASSUME NEW k \in K, NEW v \in Values \cup {Response, RoundRecord, ParkRecord}
      PROVE  [entries EXCEPT ![k] = L!Done(v)] \in [K -> L!Steps]
  BY <1>2 DEF L!Steps
<1>3. ASSUME NEW t \in Nat, L!Fenced(t)
      PROVE  lastWriter' \in Nat
  BY <1>3 DEF L!Fenced
<1>4. CASE RecordPending(a)
  <2>1. entries' \in [K -> L!Steps]
    BY <1>2, <1>4, KeyFacts DEF RecordPending, L!WriteControl
  <2> QED
    BY <1>3, <1>4, <2>1 DEF RecordPending, L!WriteControl, historyVars
<1>5. CASE ParkRound(a)
  <2>1. L!CommitTransition(token[a], Park) /\ DOMAIN entries = L!Keys
    BY <1>5, KeyFacts DEF ParkRound
  <2>2. /\ L!Fenced(token[a])
        /\ entries' = [entries EXCEPT ![ActiveSuspension] = L!Done(ParkRecord)]
        /\ UNCHANGED <<lease, issued>>
    BY <2>1, ParkWrites
  <2>3. entries' \in [K -> L!Steps]
    BY <1>2, <2>2, KeyFacts
  <2> QED
    BY <1>3, <1>5, <2>2, <2>3 DEF ParkRound, historyVars
<1>6. ASSUME NEW s \in Effect, ClearStep(a, s)
      PROVE  TypeInv'
  <2>1. entries' = [entries EXCEPT ![StepKey(s)] =
                     IF @.status = "done" THEN @ ELSE L!Absent]
    BY <1>6 DEF ClearStep, L!Forget
  <2>2. entries' \in [K -> L!Steps]
    BY <2>1, <1>1, KeyFacts
  <2>3. licensed' \in [Effect -> Nat]
    BY <1>6 DEF ClearStep
  <2> QED
    BY <1>3, <1>6, <2>2, <2>3 DEF ClearStep, Go, L!Forget
<1>7. ASSUME NEW s \in Effect, StartStep(a, s)
      PROVE  TypeInv'
  <2>1. entries' \in [K -> L!Steps]
    BY <1>1, <1>7, KeyFacts DEF StartStep, L!Start
  <2> QED
    BY <1>3, <1>7, <2>1 DEF StartStep, Go, L!Start, historyVars
<1>8. ASSUME NEW s \in Effect, Withdraws(a, s)
      PROVE  TypeInv'
  <2>1. entries' = [entries EXCEPT ![StepKey(s)] =
                     IF @.status = "done" THEN @ ELSE L!Absent]
    BY <1>8 DEF Withdraws, WithdrawStep, Signals, L!Forget
  <2>2. entries' \in [K -> L!Steps]
    BY <2>1, <1>1, KeyFacts
  <2> QED
    BY <1>3, <1>8, <2>2 DEF Withdraws, WithdrawStep, Signals, Go, L!Forget, historyVars
<1>9. ASSUME NEW s \in Effect, FinishStep(a, s)
      PROVE  TypeInv'
  <2>1. got[a][s] \in Values \cup {Response}
    BY <1>9 DEF FinishStep, Go
  <2>2. entries' \in [K -> L!Steps]
    BY <1>2, <1>9, <2>1, KeyFacts DEF FinishStep, L!FinishEffect
  <2> QED
    BY <1>3, <1>9, <2>2 DEF FinishStep, Go, Replayed, L!FinishEffect, historyVars
<1>10. ASSUME NEW c \in Calls, WriteMarker(a, c)
       PROVE  TypeInv'
  <2>1. c \in Effect /\ got[a][c] \in Values \cup {Response}
    BY <1>10 DEF WriteMarker, Go, Effect
  <2>2. entries' \in [K -> L!Steps]
    BY <1>2, <1>10, <2>1, KeyFacts DEF WriteMarker, L!WriteControl
  <2> QED
    BY <1>3, <1>10, <2>1, <2>2 DEF WriteMarker, Go, L!WriteControl, historyVars
<1> QED
  BY <1>4, <1>5, <1>6, <1>7, <1>8, <1>9, <1>10

LEMMA TypeLeases ==
  ASSUME TypeInv, ExpireLease \/ \E a \in Attempts : Begin(a) \/ Renew(a) \/ Close(a)
  PROVE  TypeInv'
<1> USE DEF TypeInv, TypeOK, Carried
<1>1. ASSUME NEW a \in Attempts, L!Acquire(a)
      PROVE  /\ L!AcquireResult(a) \in Nat
             /\ lease' \in [owner : Attempts \cup {NoOne}, token : Nat, live : BOOLEAN]
             /\ issued' \in Nat
             /\ UNCHANGED <<entries, lastWriter>>
  <2>1. L!AcquireResult(a) \in Nat
    BY DEF L!AcquireResult
  <2> QED
    BY <1>1, <2>1 DEF L!Acquire
<1>2. ASSUME NEW a \in Attempts, Begin(a)
      PROVE  TypeInv'
  BY <1>1, <1>2 DEF Begin, historyVars
<1>3. ASSUME NEW a \in Attempts, Renew(a)
      PROVE  TypeInv'
  BY <1>1, <1>3 DEF Renew, attemptVars, historyVars
<1>4. ASSUME NEW a \in Attempts, Close(a)
      PROVE  TypeInv'
  <2>1. lease' \in [owner : Attempts \cup {NoOne}, token : Nat, live : BOOLEAN]
        /\ UNCHANGED <<entries, issued, lastWriter>>
    BY <1>4 DEF Close, L!Release
  <2> QED
    BY <1>4, <2>1 DEF Close, historyVars
<1>5. CASE ExpireLease
  <2>1. lease' \in [owner : Attempts \cup {NoOne}, token : Nat, live : BOOLEAN]
        /\ UNCHANGED <<entries, issued, lastWriter>>
    BY <1>5 DEF ExpireLease, L!Expire
  <2> QED
    BY <1>5, <2>1 DEF ExpireLease, attemptVars, historyVars
<1> QED
  BY <1>2, <1>3, <1>4, <1>5

LEMMA TypeNext == TypeInv /\ [Next]_vars => TypeInv'
<1> SUFFICES ASSUME TypeInv, [Next]_vars
             PROVE  TypeInv'
  OBVIOUS
<1>1. CASE UNCHANGED vars
  BY <1>1 DEF vars, ledgerVars, attemptVars, historyVars, TypeInv, TypeOK, Carried
<1>2. Calls \subseteq Effect
  BY DEF Effect
<1> QED
  BY <1>1, <1>2, TypeEndings, TypeMoves, TypeCarries, TypeWrites, TypeLeases
  DEF Next, AttemptStep, EffectStep, CallStep, Withdraws

(* The boundary keeps its types: the ledger holds values only, and what an *)
(* attempt is about to record is something it produced.                    *)
THEOREM EffectsTypes == Spec => []TypeOK
<1>1. Spec => []TypeInv
  BY TypeInit, TypeNext, PTL DEF Spec
<1>2. TypeInv => TypeOK
  BY DEF TypeInv
<1> QED
  BY <1>1, <1>2, PTL

-----------------------------------------------------------------------------
(* Tokens.  No two attempts hold the same token, and none is newer than    *)
(* the newest issued, so at most one attempt passes the fence.             *)

TokenInv ==
  /\ \A a \in Attempts : token[a] <= issued /\ (phase[a] = "new" <=> token[a] = 0)
  /\ \A a \in Attempts :
       phase[a] = "new" => /\ lease.owner # a /\ a \notin held
                           /\ \A s \in Effect : pc[a][s] \in {"idle", "ready"}
  /\ \A a, b \in Attempts : token[a] = token[b] /\ token[a] # 0 => a = b

LEMMA TokenInit == Init => TokenInv
  BY EffectsAssumption DEF Init, L!Init, TokenInv

LEMMA TokenNext == TypeInv /\ TokenInv /\ [Next]_vars => TokenInv'
<1> SUFFICES ASSUME TypeInv, TokenInv, [Next]_vars
             PROVE  TokenInv'
  OBVIOUS
<1> USE DEF TypeInv, TypeOK
<1>1. ASSUME NEW a \in Attempts,
             \/ Inspect(a) \/ Cancel(a) \/ Answer(a) \/ RefusePark(a) \/ FencedControl(a)
             \/ \E s \in Effect : Indeterminate(a, s) \/ FencedOut(a, s)
      PROVE  TokenInv'
  <2>1. ASSUME NEW how \in Working \cup Ended, EndAs(a, how), phase[a] # "new"
        PROVE  TokenInv'
    BY <2>1 DEF EndAs, ledgerVars, TokenInv
  <2>2. \A s \in Effect : Active(a, s) => phase[a] # "new"
    BY DEF Active
  <2> QED
    BY <1>1, <2>1, <2>2 DEF Inspect, Cancel, Answer, RefusePark, FencedControl, Indeterminate, FencedOut,
                            RoundResolved
<1>2. ASSUME NEW a \in Attempts, Crash(a)
      PROVE  TokenInv'
  BY <1>2 DEF Crash, TokenInv, ledgerVars
<1>3. ASSUME NEW a \in Attempts, NEW s \in Effect, NEW from, NEW to \in Places,
             Go(a, s, from, to), UNCHANGED <<lease, issued, token, held>>,
             phase' = phase \/ phase' = [phase EXCEPT ![a] = "raised"]
      PROVE  TokenInv'
  BY <1>3 DEF Go, Active, TokenInv
<1>4. ASSUME NEW a \in Attempts, NEW s \in Effect, EffectStep(a, s)
      PROVE  TokenInv'
  <2>1. CASE ReplayStep(a, s) \/ ReadAbsent(a, s) \/ ReadRunning(a, s) \/ NothingHappened(a, s)
             \/ \E v \in Produces(s) : Execute(a, s, v)
    BY <1>3, <2>1 DEF ReplayStep, ReadAbsent, ReadRunning, NothingHappened, Execute, Replayed,
                      ledgerVars
  <2>2. CASE ClearStep(a, s) \/ StartStep(a, s) \/ Withdraws(a, s) \/ FinishStep(a, s)
    BY <1>3, <2>2 DEF ClearStep, StartStep, Withdraws, WithdrawStep, Signals, FinishStep, Replayed,
                      L!Forget, L!Start, L!FinishEffect
  <2> QED
    BY <1>1, <1>4, <2>1, <2>2 DEF EffectStep, Withdraws
<1>5. ASSUME NEW a \in Attempts, NEW c \in Calls, CallStep(a, c)
      PROVE  TokenInv'
  <2>1. c \in Effect
    BY DEF Effect
  <2>2. CASE CheckRecorded(a, c) \/ Continue(a, c) \/ Refuse(a, c) \/ Suspend(a, c)
             \/ ReplayJournal(a, c) \/ NotJournalled(a, c) \/ \E v \in Values : Hook(a, c, v)
    BY <1>3, <2>1, <2>2 DEF CheckRecorded, Continue, Refuse, Suspend, ReplayJournal, NotJournalled,
                            Hook, ledgerVars
  <2>3. CASE WriteMarker(a, c)
    BY <1>3, <2>1, <2>3 DEF WriteMarker, L!WriteControl
  <2> QED
    BY <1>5, <2>2, <2>3 DEF CallStep
<1>6. ASSUME NEW a \in Attempts, RecordPending(a)
      PROVE  TokenInv'
  BY <1>6 DEF RecordPending, L!WriteControl, TokenInv
<1>7. ASSUME NEW a \in Attempts, ParkRound(a)
      PROVE  TokenInv'
  BY <1>7 DEF ParkRound, RoundResolved, L!CommitTransition, TokenInv
<1>8. ASSUME NEW a \in Attempts, Begin(a)
      PROVE  TokenInv'
  <2>1. /\ phase[a] = "new" /\ lease.owner # a
        /\ L!AcquireResult(a) = issued + 1
        /\ lease'.owner = a /\ issued' = issued + 1
        /\ token' = [token EXCEPT ![a] = issued + 1]
        /\ phase' = [phase EXCEPT ![a] = "opened"]
        /\ held' = held \cup {a} /\ pc' = pc
    <3>1. phase[a] = "new" /\ lease.owner # a
      BY <1>8 DEF Begin, TokenInv
    <3>2. L!AcquireResult(a) \in 1 .. MaxToken
      BY <1>8 DEF Begin, L!Acquire
    <3>3. L!AcquireResult(a) \in {0, issued + 1}
      BY <3>1 DEF L!AcquireResult
    <3>4. L!AcquireResult(a) = issued + 1
      BY <3>2, <3>3, EffectsAssumption
    <3> QED
      BY <1>8, <3>1, <3>4 DEF Begin, L!Acquire
  <2> QED
    BY <2>1 DEF TokenInv
<1>9. ASSUME NEW a \in Attempts, Renew(a)
      PROVE  TokenInv'
  <2>1. /\ phase[a] # "new" /\ lease'.owner = a /\ issued' \in {issued, issued + 1}
        /\ UNCHANGED <<phase, token, held, pc>>
    BY <1>9 DEF Renew, L!Acquire, attemptVars
  <2> QED
    BY <2>1 DEF TokenInv
<1>10. ASSUME NEW a \in Attempts, Close(a)
       PROVE  TokenInv'
  <2>1. /\ lease'.owner \in {lease.owner, NoOne} /\ issued' = issued /\ held' \subseteq held
        /\ UNCHANGED <<phase, token, pc>>
    BY <1>10 DEF Close, L!Release
  <2> QED
    BY <2>1, EffectsAssumption DEF TokenInv
<1>11. CASE ExpireLease
  <2>1. lease'.owner = lease.owner /\ UNCHANGED <<issued, phase, token, held, pc>>
    BY <1>11 DEF ExpireLease, L!Expire, attemptVars
  <2> QED
    BY <2>1 DEF TokenInv
<1>12. CASE UNCHANGED vars
  BY <1>12 DEF vars, ledgerVars, attemptVars, TokenInv
<1> QED
  BY <1>1, <1>2, <1>4, <1>5, <1>6, <1>7, <1>8, <1>9, <1>10, <1>11, <1>12 DEF Next, AttemptStep

(* The attempt that writes under a lease is the one with the newest token. *)
LEMMA WriterIsCurrent ==
  ASSUME TypeInv, TokenInv, NEW a \in Attempts, phase[a] # "new", L!Fenced(token[a])
  PROVE  /\ token[a] = issued
         /\ \A b \in Attempts : token[b] = issued => b = a
<1>1. issued \in Nat /\ token[a] \in Nat /\ token[a] # 0 /\ token[a] <= issued
  BY DEF TypeInv, TypeOK, TokenInv
<1>2. ~ (token[a] # 0 /\ token[a] < issued)
  BY DEF L!Fenced, L!Fences
<1>3. token[a] = issued
  BY <1>1, <1>2
<1> QED
  BY <1>1, <1>3 DEF TokenInv

-----------------------------------------------------------------------------
(* What a step can do to the record of one effect and to the marker of one *)
(* call, and what it does to the places of attempts.  The safety proofs    *)
(* below only look at these.                                               *)

(* Steps that leave every attempt where it was and every step key and      *)
(* marker as it was.  Only leases move tokens, and never to one in use.    *)
Elsewhere ==
  /\ UNCHANGED <<pc, got, runs, outcome, licensed, hooks>>
  /\ \A s \in Effect : entries'[StepKey(s)] = entries[StepKey(s)]
  /\ \A c \in Calls : entries'[AfterKey(c)] = entries[AfterKey(c)]
  /\ issued' >= issued
  /\ \A a \in Attempts :
       token'[a] = issued' =>
         token[a] = issued \/ \A s \in Effect : pc[a][s] \in {"idle", "ready"}

(* Steps of one attempt at one step that leave the ledger alone.           *)
Thinks(a, s) ==
  /\ UNCHANGED <<entries, issued, token, licensed>>
  /\ \/ /\ UNCHANGED <<got, runs, outcome, hooks>>
        /\ \/ ReadAbsent(a, s) \/ ReadRunning(a, s) \/ NothingHappened(a, s)
           \/ s \in Calls /\ \/ CheckRecorded(a, s) \/ Continue(a, s) \/ Refuse(a, s)
                             \/ Suspend(a, s) \/ NotJournalled(a, s)
     \/ /\ UNCHANGED <<runs, outcome, hooks>>
        /\ ReplayStep(a, s) \/ (s \in Calls /\ ReplayJournal(a, s))
     \/ hooks' = hooks /\ \E v \in Produces(s) : Execute(a, s, v)
     \/ /\ UNCHANGED <<runs, outcome>>
        /\ s \in Calls /\ \E v \in Values : Hook(a, s, v)

(* Its writes.                                                             *)
Writes(a, s) ==
  /\ UNCHANGED <<issued, token, got, runs, outcome, hooks>>
  /\ token[a] = issued /\ \A b \in Attempts : token[b] = issued => b = a
  /\ \/ ClearStep(a, s) \/ StartStep(a, s) \/ Withdraws(a, s) \/ FinishStep(a, s)
     \/ s \in Calls /\ WriteMarker(a, s)

LEMMA StepsSplit ==
  ASSUME TypeInv, TokenInv, [Next]_vars
  PROVE  Elsewhere \/ \E a \in Attempts, s \in Effect : Thinks(a, s) \/ Writes(a, s)
<1> USE DEF TypeInv, TypeOK
<1>0. Calls \subseteq Effect
  BY DEF Effect
<1>1. ASSUME UNCHANGED <<pc, got, runs, outcome, licensed, hooks, entries, issued, token>>
      PROVE  Elsewhere
  BY <1>1 DEF Elsewhere
<1>2. ASSUME NEW a \in Attempts,
             \/ Inspect(a) \/ Cancel(a) \/ Answer(a) \/ RefusePark(a) \/ FencedControl(a) \/ Crash(a)
             \/ \E s \in Effect : Indeterminate(a, s) \/ FencedOut(a, s)
      PROVE  Elsewhere
  BY <1>1, <1>2 DEF Inspect, Cancel, Answer, RefusePark, FencedControl, Crash, Indeterminate, FencedOut,
                    EndAs, ledgerVars, historyVars
<1>3. ASSUME NEW a \in Attempts, NEW s \in Effect, EffectStep(a, s)
      PROVE  Elsewhere \/ Thinks(a, s) \/ Writes(a, s)
  <2>1. CASE \/ ReplayStep(a, s) \/ ReadAbsent(a, s) \/ ReadRunning(a, s) \/ NothingHappened(a, s)
             \/ \E v \in Produces(s) : Execute(a, s, v)
    <3>1. UNCHANGED <<entries, issued, token, licensed>>
      BY <2>1 DEF ReplayStep, ReadAbsent, ReadRunning, NothingHappened, Execute, ledgerVars,
                  historyVars
    <3>2. ASSUME ReadAbsent(a, s) \/ ReadRunning(a, s) \/ NothingHappened(a, s)
          PROVE  UNCHANGED <<got, runs, outcome, hooks>>
      BY <3>2 DEF ReadAbsent, ReadRunning, NothingHappened, historyVars
    <3>3. ASSUME ReplayStep(a, s)
          PROVE  UNCHANGED <<runs, outcome, hooks>>
      BY <3>3 DEF ReplayStep, historyVars
    <3>4. ASSUME \E v \in Produces(s) : Execute(a, s, v)
          PROVE  Thinks(a, s)
      <4>1. hooks' = hooks
        BY <3>4 DEF Execute
      <4> QED
        BY <3>1, <3>4, <4>1, Zenon DEF Thinks
    <3>5. ASSUME ReadAbsent(a, s) \/ ReadRunning(a, s) \/ NothingHappened(a, s)
          PROVE  Thinks(a, s)
      <4>1. UNCHANGED <<got, runs, outcome, hooks>>
        BY <3>2, <3>5
      <4> QED
        BY <3>1, <3>5, <4>1, Zenon DEF Thinks
    <3>6. ASSUME ReplayStep(a, s)
          PROVE  Thinks(a, s)
      <4>1. UNCHANGED <<runs, outcome, hooks>>
        BY <3>3, <3>6
      <4> QED
        BY <3>1, <3>6, <4>1, Zenon DEF Thinks
    <3> QED
      BY <2>1, <3>4, <3>5, <3>6, Zenon
  <2>2. CASE ClearStep(a, s) \/ StartStep(a, s) \/ Withdraws(a, s) \/ FinishStep(a, s)
    <3>1. phase[a] # "new" /\ L!Fenced(token[a])
      BY <2>2 DEF ClearStep, StartStep, Withdraws, WithdrawStep, Signals, FinishStep, Go, Active,
                  L!Forget, L!Start, L!FinishEffect
    <3>2. UNCHANGED <<issued, token, got, runs, outcome, hooks>>
      BY <2>2 DEF ClearStep, StartStep, Withdraws, WithdrawStep, Signals, FinishStep, L!Forget,
                  L!Start, L!FinishEffect, historyVars
    <3> QED
      BY <2>2, <3>1, <3>2, WriterIsCurrent DEF Writes
  <2> QED
    BY <1>2, <1>3, <2>1, <2>2 DEF EffectStep, Withdraws
<1>4. ASSUME NEW a \in Attempts, NEW c \in Calls, CallStep(a, c)
      PROVE  Thinks(a, c) \/ Writes(a, c)
  <2>1. CASE WriteMarker(a, c)
    <3>1. phase[a] # "new" /\ L!Fenced(token[a])
      BY <1>0, <2>1, EffectsAssumption DEF WriteMarker, Go, Active, L!WriteControl
    <3>2. UNCHANGED <<issued, token, got, runs, outcome, hooks>>
      BY <2>1 DEF WriteMarker, L!WriteControl, historyVars
    <3> QED
      BY <2>1, <3>1, <3>2, WriterIsCurrent DEF Writes
  <2>2. CASE \/ CheckRecorded(a, c) \/ Continue(a, c) \/ Refuse(a, c) \/ Suspend(a, c)
             \/ ReplayJournal(a, c) \/ NotJournalled(a, c) \/ \E v \in Values : Hook(a, c, v)
    BY <2>2 DEF CheckRecorded, Continue, Refuse, Suspend, ReplayJournal, NotJournalled, Hook,
                Thinks, ledgerVars, historyVars
  <2> QED
    BY <1>4, <2>1, <2>2 DEF CallStep
<1>5. ASSUME NEW a \in Attempts, RecordPending(a)
      PROVE  Elsewhere
  <2>1. UNCHANGED <<pc, got, runs, outcome, licensed, hooks, issued, token>>
        /\ entries' = [entries EXCEPT ![PendingRound] = L!Done(RoundRecord)]
    BY <1>5 DEF RecordPending, L!WriteControl, historyVars
  <2> QED
    BY <2>1, KeyFacts DEF Elsewhere
<1>6. ASSUME NEW a \in Attempts, ParkRound(a)
      PROVE  Elsewhere
  <2>1. L!CommitTransition(token[a], Park) /\ DOMAIN entries = L!Keys
    BY <1>6, KeyFacts DEF ParkRound
  <2>2. UNCHANGED <<pc, got, runs, outcome, licensed, hooks, issued, token>>
        /\ entries' = [entries EXCEPT ![ActiveSuspension] = L!Done(ParkRecord)]
    BY <1>6, <2>1, ParkWrites DEF ParkRound, historyVars
  <2> QED
    BY <2>2, KeyFacts DEF Elsewhere
<1>7. ASSUME NEW a \in Attempts, Begin(a)
      PROVE  Elsewhere
  <2>1. /\ UNCHANGED <<pc, got, runs, outcome, licensed, hooks, entries>>
        /\ issued' \in {issued, issued + 1} /\ \A b \in Attempts : b # a => token'[b] = token[b]
    BY <1>7 DEF Begin, L!Acquire, historyVars
  <2>2. \A s \in Effect : pc[a][s] \in {"idle", "ready"}
    BY <1>7 DEF Begin, TokenInv
  <2> QED
    BY <2>1, <2>2 DEF Elsewhere, TokenInv
<1>8. ASSUME NEW a \in Attempts, Renew(a)
      PROVE  Elsewhere
  <2>1. UNCHANGED <<pc, got, runs, outcome, licensed, hooks, entries, token>> /\ issued' \in {issued, issued + 1}
    BY <1>8 DEF Renew, L!Acquire, attemptVars, historyVars
  <2> QED
    BY <2>1 DEF Elsewhere, TokenInv
<1>9. ASSUME NEW a \in Attempts, Close(a)
      PROVE  Elsewhere
  BY <1>1, <1>9 DEF Close, L!Release, historyVars
<1>10. CASE ExpireLease
  BY <1>1, <1>10 DEF ExpireLease, L!Expire, attemptVars, historyVars
<1>11. CASE UNCHANGED vars
  BY <1>1, <1>11 DEF vars, ledgerVars, attemptVars, historyVars
<1> QED
  BY <1>0, <1>2, <1>3, <1>4, <1>5, <1>6, <1>7, <1>8, <1>9, <1>10, <1>11 DEF Next, AttemptStep

(* Where a thought takes a call: what it carries there, and what it saw.   *)
LEMMA ThinksMoves ==
  ASSUME TypeInv, NEW a \in Attempts, NEW s \in Effect, Thinks(a, s)
  PROVE  \E to \in Places :
           /\ pc' = [pc EXCEPT ![a][s] = to]
           /\ to = "starting" => pc[a][s] = "ready" /\ entries[StepKey(s)] = L!Absent
           /\ to = "clearing" => /\ entries[StepKey(s)] = L!Running
                                 /\ a \in RetryAttempts
           /\ to = "finishing" => /\ pc[a][s] = "executing"
                                  /\ runs' = [runs EXCEPT ![s] = @ + 1]
                                  /\ \E v : /\ got' = [got EXCEPT ![a][s] = v]
                                            /\ outcome' = [outcome EXCEPT ![s] = v]
           /\ to = "withdrawing" => pc[a][s] = "executing"
           /\ to # "finishing" => UNCHANGED <<runs, outcome>>
           /\ to = "hooking" => s \in Calls /\ entries[AfterKey(s)] = L!Absent
           /\ to = "marking" => /\ s \in Calls /\ pc[a][s] = "hooking"
                                /\ hooks' = [hooks EXCEPT ![s] = @ + 1]
           /\ to = "answered" /\ s \in Calls =>
                /\ entries[AfterKey(s)].status = "done"
                /\ got' = [got EXCEPT ![a][s] = entries[AfterKey(s)].value]
           /\ to # "marking" => hooks' = hooks
           /\ to # "executing" /\ to \notin Withdrawn
           /\ pc[a][s] \notin {"withdrawing", "marking"}
           /\ pc[a][s] = "executing" => to \in {"finishing", "withdrawing"}
           /\ \A b \in Attempts, r \in Effect : <<b, r>> # <<a, s>> => got'[b][r] = got[b][r]
<1> USE DEF TypeInv, TypeOK
<1>1. CASE /\ UNCHANGED <<got, runs, outcome, hooks>>
           /\ ReadAbsent(a, s) \/ ReadRunning(a, s) \/ NothingHappened(a, s)
  BY <1>1, EffectsAssumption DEF ReadAbsent, ReadRunning, NothingHappened, Go
<1>2. CASE /\ s \in Calls /\ UNCHANGED <<got, runs, outcome, hooks>>
           /\ \/ CheckRecorded(a, s) \/ Continue(a, s) \/ Refuse(a, s)
              \/ Suspend(a, s) \/ NotJournalled(a, s)
  BY <1>2 DEF CheckRecorded, Continue, Refuse, Suspend, NotJournalled, Go
<1>3. CASE ReplayStep(a, s)
  <2>1. /\ pc[a][s] = "ready" /\ pc' = [pc EXCEPT ![a][s] = Replayed(s)]
        /\ got' = [got EXCEPT ![a][s] = entries[StepKey(s)].value]
        /\ UNCHANGED <<runs, outcome, hooks>>
    BY <1>3 DEF ReplayStep, Go, Carry, historyVars
  <2>2. \A b \in Attempts, r \in Effect : <<b, r>> # <<a, s>> => got'[b][r] = got[b][r]
    BY <2>1
  <2>3. Replayed(s) \in {"answered", "journal"} /\ (s \in Calls => Replayed(s) = "journal")
    BY EffectsAssumption DEF Replayed
  <2> QED
    BY <2>1, <2>2, <2>3
<1>4. CASE s \in Calls /\ ReplayJournal(a, s)
  BY <1>4 DEF ReplayJournal, Go, Carry, historyVars
<1>5. ASSUME NEW v, Execute(a, s, v)
      PROVE  \E to \in Places : to = "finishing"
               /\ pc' = [pc EXCEPT ![a][s] = to] /\ pc[a][s] = "executing"
               /\ runs' = [runs EXCEPT ![s] = @ + 1]
               /\ got' = [got EXCEPT ![a][s] = v]
               /\ outcome' = [outcome EXCEPT ![s] = v]
               /\ hooks' = hooks
  BY <1>5 DEF Execute, Go, Carry
<1>6. ASSUME s \in Calls, NEW v, Hook(a, s, v)
      PROVE  \E to \in Places : to = "marking"
               /\ pc' = [pc EXCEPT ![a][s] = to] /\ pc[a][s] = "hooking"
               /\ UNCHANGED <<runs, outcome>>
               /\ got' = [got EXCEPT ![a][s] = v]
               /\ hooks' = [hooks EXCEPT ![s] = @ + 1]
  BY <1>6 DEF Hook, Go, Carry
<1>7. CASE \E v \in Produces(s) : Execute(a, s, v)
  BY <1>5, <1>7
<1>8. CASE s \in Calls /\ \E v \in Values : Hook(a, s, v)
  BY <1>6, <1>8
<1> QED
  BY <1>1, <1>2, <1>3, <1>4, <1>7, <1>8 DEF Thinks

(* What a write does to the place of its attempt, to the entry and to the  *)
(* account of retries.                                                     *)
WriteMoves(a, s) ==
  /\ pc[a][s] \in {"clearing", "starting", "withdrawing", "finishing", "marking"}
  /\ pc[a][s] = "clearing" =>
       /\ pc' = [pc EXCEPT ![a][s] = "starting"]
       /\ entries' = [entries EXCEPT ![StepKey(s)] = IF @.status = "done" THEN @ ELSE L!Absent]
       /\ licensed' = [licensed EXCEPT ![s] =
                         IF entries[StepKey(s)] = L!Running THEN @ + 1 ELSE @]
  /\ pc[a][s] = "starting" =>
       /\ pc' = [pc EXCEPT ![a][s] = "executing"]
       /\ entries[StepKey(s)] = L!Absent
       /\ entries' = [entries EXCEPT ![StepKey(s)] = L!Running]
  /\ pc[a][s] = "withdrawing" =>
       /\ \E to \in Withdrawn : pc' = [pc EXCEPT ![a][s] = to]
       /\ entries' = [entries EXCEPT ![StepKey(s)] = IF @.status = "done" THEN @ ELSE L!Absent]
  /\ pc[a][s] = "finishing" =>
       /\ pc' = [pc EXCEPT ![a][s] = Replayed(s)]
       /\ entries' = [entries EXCEPT ![StepKey(s)] = L!Done(got[a][s])]
  /\ pc[a][s] = "marking" =>
       /\ s \in Calls
       /\ pc' = [pc EXCEPT ![a][s] = "answered"]
       /\ entries' = [entries EXCEPT ![AfterKey(s)] = L!Done(got[a][s])]
  /\ pc[a][s] # "clearing" => licensed' = licensed
  /\ \E to \in Places : pc' = [pc EXCEPT ![a][s] = to]

LEMMA WritesMove ==
  ASSUME TypeInv, NEW a \in Attempts, NEW s \in Effect, Writes(a, s)
  PROVE  WriteMoves(a, s)
<1> USE DEF WriteMoves
<1>1. CASE ClearStep(a, s)
  BY <1>1 DEF ClearStep, Go, L!Forget
<1>2. CASE StartStep(a, s)
  BY <1>2 DEF StartStep, Go, L!Start, historyVars
<1>3. CASE Withdraws(a, s)
  BY <1>3 DEF Withdraws, WithdrawStep, Signals, Go, L!Forget, historyVars
<1>4. CASE FinishStep(a, s)
  <2>1. Replayed(s) \in Places
    BY DEF Replayed
  <2> QED
    BY <1>4, <2>1 DEF FinishStep, Go, L!FinishEffect, historyVars
<1>5. CASE s \in Calls /\ WriteMarker(a, s)
  BY <1>5 DEF WriteMarker, Go, L!WriteControl, historyVars
<1> QED
  BY <1>1, <1>2, <1>3, <1>4, <1>5 DEF Writes

(* It touches one entry: the step's, or the marker of the call.            *)
LEMMA WritesTouch ==
  ASSUME TypeInv, NEW a \in Attempts, NEW s \in Effect, Writes(a, s), NEW k \in L!Keys,
         k # StepKey(s), s \in Calls => k # AfterKey(s)
  PROVE  entries'[k] = entries[k]
<1>1. k \in DOMAIN entries
  BY KeyFacts DEF TypeInv, TypeOK
<1>2. ASSUME NEW j, NEW v, entries' = [entries EXCEPT ![j] = v], j # k
      PROVE  entries'[k] = entries[k]
  BY <1>1, <1>2
<1>3. CASE entries' = [entries EXCEPT ![StepKey(s)] =
                        IF @.status = "done" THEN @ ELSE L!Absent]
  BY <1>2, <1>3
<1>4. CASE entries' = [entries EXCEPT ![StepKey(s)] = L!Running]
  BY <1>2, <1>4
<1>5. CASE entries' = [entries EXCEPT ![StepKey(s)] = L!Done(got[a][s])]
  BY <1>2, <1>5
<1>6. CASE s \in Calls /\ entries' = [entries EXCEPT ![AfterKey(s)] = L!Done(got[a][s])]
  BY <1>2, <1>6
<1> QED
  BY <1>3, <1>4, <1>5, <1>6, WritesMove DEF WriteMoves

-----------------------------------------------------------------------------
(* The owner of the branch is uncontested.  What it saw of a step when it  *)
(* read it is still so when it writes: nobody else can write until it has  *)
(* lost the branch.                                                        *)

OwnInv ==
  \A a \in Attempts, s \in Effect :
    token[a] = issued =>
      /\ pc[a][s] \in {"starting"} \cup Withdrawn => entries[StepKey(s)] = L!Absent
      /\ pc[a][s] \in {"clearing", "executing", "withdrawing", "finishing"} =>
           entries[StepKey(s)] = L!Running

LEMMA OwnInit == Init => OwnInv
  BY DEF Init, OwnInv

LEMMA OwnNext == TypeInv /\ TokenInv /\ OwnInv /\ [Next]_vars => OwnInv'
<1> SUFFICES ASSUME TypeInv, TokenInv, OwnInv, [Next]_vars
             PROVE  OwnInv'
  OBVIOUS
<1> USE DEF TypeInv, TypeOK
<1>1. CASE Elsewhere
  <2> SUFFICES ASSUME NEW a \in Attempts, NEW s \in Effect, token'[a] = issued'
               PROVE  /\ pc'[a][s] \in {"starting"} \cup Withdrawn => entries'[StepKey(s)] = L!Absent
                      /\ pc'[a][s] \in {"clearing", "executing", "withdrawing", "finishing"}
                           => entries'[StepKey(s)] = L!Running
    BY DEF OwnInv
  <2>1. pc' = pc /\ entries'[StepKey(s)] = entries[StepKey(s)]
        /\ (token[a] = issued \/ pc[a][s] \in {"idle", "ready"})
    BY <1>1, Zenon DEF Elsewhere
  <2> QED
    BY <2>1 DEF OwnInv
<1>2. ASSUME NEW a \in Attempts, NEW s \in Effect, Thinks(a, s)
      PROVE  OwnInv'
  <2>1. UNCHANGED <<entries, issued, token>>
    BY <1>2 DEF Thinks
  <2>2. PICK to \in Places :
           /\ pc' = [pc EXCEPT ![a][s] = to]
           /\ to = "starting" => entries[StepKey(s)] = L!Absent
           /\ to = "clearing" => entries[StepKey(s)] = L!Running
           /\ to \in {"finishing", "withdrawing"} => pc[a][s] = "executing"
           /\ to # "executing" /\ to \notin Withdrawn
    BY <1>2, ThinksMoves
  <2> QED
    BY <2>1, <2>2 DEF OwnInv
<1>3. ASSUME NEW a \in Attempts, NEW s \in Effect, Writes(a, s)
      PROVE  OwnInv'
  <2>0. WriteMoves(a, s)
    BY <1>3, WritesMove
  <2>1. /\ UNCHANGED <<issued, token>>
        /\ token[a] = issued /\ \A b \in Attempts : token[b] = issued => b = a
    BY <1>3 DEF Writes
  <2>2. SUFFICES ASSUME NEW r \in Effect, token[a] = issued
                 PROVE  /\ pc'[a][r] \in {"starting"} \cup Withdrawn => entries'[StepKey(r)] = L!Absent
                        /\ pc'[a][r] \in {"clearing", "executing", "withdrawing", "finishing"}
                             => entries'[StepKey(r)] = L!Running
    BY <2>1 DEF OwnInv
  <2>3. CASE r = s
    <3>1. pc'[a][s] \in {"clearing", "executing", "withdrawing", "finishing"} => entries'[StepKey(s)] = L!Running
      BY <2>0, <2>1, KeyFacts DEF Replayed, WriteMoves
    <3>2. ASSUME pc'[a][s] \in {"starting"} \cup Withdrawn
          PROVE  entries'[StepKey(s)] = L!Absent
      <4>1. pc[a][s] \in {"clearing", "withdrawing"} /\ entries' = [entries EXCEPT ![StepKey(s)] =
                             IF @.status = "done" THEN @ ELSE L!Absent]
        BY <2>0, <3>2 DEF Replayed, WriteMoves
      <4>2. entries[StepKey(s)].status = "running"
        BY <2>1, <4>1 DEF OwnInv, L!Running
      <4> QED
        BY <4>1, <4>2, KeyFacts
    <3> QED
      BY <2>3, <3>1, <3>2
  <2>4. CASE r # s
    <3>1. pc'[a][r] = pc[a][r]
      BY <2>0, <2>4 DEF WriteMoves
    <3>2. StepKey(r) # StepKey(s) /\ (s \in Calls => StepKey(r) # AfterKey(s))
      BY <2>4, KeyFacts
    <3>3. entries'[StepKey(r)] = entries[StepKey(r)]
      BY <1>3, <3>2, WritesTouch, KeyFacts
    <3> QED
      BY <2>1, <3>1, <3>3 DEF OwnInv
  <2> QED
    BY <2>3, <2>4
<1> QED
  BY <1>1, <1>2, <1>3, StepsSplit

(* The ledger never refuses the attempt that holds the newest token.       *)
THEOREM OwnerUncontested == Spec => []OwnerIsUncontested
<1>1. Init => TypeInv /\ TokenInv /\ OwnInv
  BY TypeInit, TokenInit, OwnInit
<1>2. TypeInv /\ TokenInv /\ OwnInv /\ [Next]_vars => (TypeInv /\ TokenInv /\ OwnInv)'
  BY TypeNext, TokenNext, OwnNext
<1>3. OwnInv => OwnerIsUncontested
  BY DEF OwnInv, OwnerIsUncontested
<1> QED
  BY <1>1, <1>2, <1>3, PTL DEF Spec

-----------------------------------------------------------------------------
(* One answer per executed call.  The attempt that owns the branch and has *)
(* seen no marker is the only one that can write it, so nobody has been    *)
(* answered yet.                                                           *)

JournalInv ==
  \A a \in Attempts, c \in Calls :
    /\ token[a] = issued /\ pc[a][c] \in {"hooking", "marking"} =>
         entries[AfterKey(c)] = L!Absent
    /\ pc[a][c] = "answered" => entries[AfterKey(c)] = L!Done(got[a][c])

LEMMA JournalInit == Init => JournalInv
  BY EffectsAssumption DEF Init, JournalInv, Effect

LEMMA JournalNext == TypeInv /\ TokenInv /\ JournalInv /\ [Next]_vars => JournalInv'
<1> SUFFICES ASSUME TypeInv, TokenInv, JournalInv, [Next]_vars
             PROVE  JournalInv'
  OBVIOUS
<1> USE DEF TypeInv, TypeOK
<1>0. Calls \subseteq Effect /\ \A c \in Calls : Replayed(c) = "journal"
  BY EffectsAssumption DEF Effect, Replayed
<1>1. CASE Elsewhere
  <2> SUFFICES ASSUME NEW a \in Attempts, NEW c \in Calls
               PROVE  /\ token'[a] = issued' /\ pc'[a][c] \in {"hooking", "marking"} =>
                           entries'[AfterKey(c)] = L!Absent
                      /\ pc'[a][c] = "answered" => entries'[AfterKey(c)] = L!Done(got'[a][c])
    BY DEF JournalInv
  <2>1. /\ pc' = pc /\ got' = got /\ entries'[AfterKey(c)] = entries[AfterKey(c)]
        /\ token'[a] = issued' => token[a] = issued \/ pc[a][c] \in {"idle", "ready"}
    BY <1>0, <1>1, Zenon DEF Elsewhere
  <2> QED
    BY <2>1 DEF JournalInv
<1>2. ASSUME NEW a \in Attempts, NEW s \in Effect, Thinks(a, s)
      PROVE  JournalInv'
  <2>1. UNCHANGED <<entries, issued, token>>
    BY <1>2 DEF Thinks
  <2>2. PICK to \in Places :
           /\ pc' = [pc EXCEPT ![a][s] = to]
           /\ to = "hooking" => s \in Calls /\ entries[AfterKey(s)] = L!Absent
           /\ to = "marking" => s \in Calls /\ pc[a][s] = "hooking"
           /\ to = "answered" /\ s \in Calls =>
                /\ entries[AfterKey(s)].status = "done"
                /\ got' = [got EXCEPT ![a][s] = entries[AfterKey(s)].value]
           /\ \A b \in Attempts, r \in Effect : <<b, r>> # <<a, s>> => got'[b][r] = got[b][r]
    BY <1>2, ThinksMoves
  <2>3. ASSUME NEW b \in Attempts, NEW c \in Calls, <<b, c>> # <<a, s>>
        PROVE  pc'[b][c] = pc[b][c] /\ got'[b][c] = got[b][c]
    BY <1>0, <2>2, <2>3
  <2>4. ASSUME s \in Calls
        PROVE  /\ token[a] = issued /\ pc'[a][s] \in {"hooking", "marking"} =>
                    entries[AfterKey(s)] = L!Absent
               /\ pc'[a][s] = "answered" => entries[AfterKey(s)] = L!Done(got'[a][s])
    <3>1. pc'[a][s] = to
      BY <2>2
    <3>2. entries[AfterKey(s)] \in L!Steps
      BY <2>4, KeyFacts
    <3>3. entries[AfterKey(s)].status = "done" =>
            entries[AfterKey(s)] = L!Done(entries[AfterKey(s)].value)
      BY <3>2 DEF L!Steps, L!Absent, L!Running, L!Done
    <3>4. to = "answered" => got'[a][s] = entries[AfterKey(s)].value
      BY <2>2, <2>4
    <3> QED
      BY <2>2, <2>4, <3>1, <3>3, <3>4 DEF JournalInv
  <2> SUFFICES ASSUME NEW b \in Attempts, NEW c \in Calls
               PROVE  /\ token[b] = issued /\ pc'[b][c] \in {"hooking", "marking"} =>
                           entries[AfterKey(c)] = L!Absent
                      /\ pc'[b][c] = "answered" => entries[AfterKey(c)] = L!Done(got'[b][c])
    BY <2>1 DEF JournalInv
  <2>5. CASE <<b, c>> = <<a, s>>
    <3>1. b = a /\ c = s /\ s \in Calls
      BY <2>5
    <3> QED
      BY <2>4, <3>1
  <2>6. CASE <<b, c>> # <<a, s>>
    <3>1. pc'[b][c] = pc[b][c] /\ got'[b][c] = got[b][c]
      BY <2>3, <2>6
    <3> QED
      BY <3>1 DEF JournalInv
  <2> QED
    BY <2>5, <2>6
<1>3. ASSUME NEW a \in Attempts, NEW s \in Effect, Writes(a, s)
      PROVE  JournalInv'
  <2>0. WriteMoves(a, s)
    BY <1>3, WritesMove
  <2>1. /\ UNCHANGED <<issued, token, got>>
        /\ token[a] = issued /\ \A b \in Attempts : token[b] = issued => b = a
    BY <1>3 DEF Writes
  <2>2. ASSUME NEW b \in Attempts, NEW c \in Calls, <<b, c>> # <<a, s>>
        PROVE  pc'[b][c] = pc[b][c]
    <3>1. PICK to : pc' = [pc EXCEPT ![a][s] = to]
      BY <2>0 DEF WriteMoves
    <3> QED
      BY <1>0, <2>2, <3>1
  <2>3. CASE s \in Calls /\ pc[a][s] = "marking"
    <3>1. /\ pc' = [pc EXCEPT ![a][s] = "answered"]
          /\ entries' = [entries EXCEPT ![AfterKey(s)] = L!Done(got[a][s])]
          /\ AfterKey(s) \in DOMAIN entries
      BY <2>0, <2>3, KeyFacts DEF WriteMoves
    <3>2. entries[AfterKey(s)] = L!Absent
      BY <2>1, <2>3 DEF JournalInv
    <3>3. \A b \in Attempts : pc[b][s] # "answered"
      <4>1. L!Absent.status # "done" /\ \A v : L!Done(v).status = "done"
        BY DEF L!Absent, L!Done
      <4> QED
        BY <2>3, <3>2, <4>1 DEF JournalInv
    <3>4. \A c \in Calls : c # s => entries'[AfterKey(c)] = entries[AfterKey(c)]
      BY <2>3, <3>1, KeyFacts
    <3>5. pc'[a][s] = "answered" /\ entries'[AfterKey(s)] = L!Done(got[a][s])
      BY <3>1
    <3>6. ASSUME NEW b \in Attempts, NEW c \in Calls
          PROVE  /\ token[b] = issued /\ pc'[b][c] \in {"hooking", "marking"} =>
                      entries'[AfterKey(c)] = L!Absent
                 /\ pc'[b][c] = "answered" => entries'[AfterKey(c)] = L!Done(got[b][c])
      <4>1. CASE c # s
        <5>1. pc'[b][c] = pc[b][c] /\ entries'[AfterKey(c)] = entries[AfterKey(c)]
          BY <2>2, <3>4, <4>1
        <5> QED
          BY <5>1 DEF JournalInv
      <4>2. CASE c = s /\ b # a
        BY <2>1, <2>2, <3>3, <4>2
      <4>3. CASE c = s /\ b = a
        BY <3>5, <4>3
      <4> QED
        BY <4>1, <4>2, <4>3
    <3> QED
      BY <2>1, <3>6 DEF JournalInv
  <2>4. CASE ~ (s \in Calls /\ pc[a][s] = "marking")
    <3>1. \A c \in Calls : entries'[AfterKey(c)] = entries[AfterKey(c)]
      <4>1. \E v : entries' = [entries EXCEPT ![StepKey(s)] = v]
        <5>1. ASSUME NEW v, entries' = [entries EXCEPT ![StepKey(s)] = v]
              PROVE  \E w : entries' = [entries EXCEPT ![StepKey(s)] = w]
          BY <5>1
        <5>2. CASE entries' = [entries EXCEPT ![StepKey(s)] =
                               IF @.status = "done" THEN @ ELSE L!Absent]
          BY <5>1, <5>2
        <5> QED
          BY <2>0, <2>4, <5>1, <5>2 DEF WriteMoves
      <4> QED
        BY <4>1, KeyFacts
    <3>2. s \in Calls => pc'[a][s] \in {"starting", "executing", "journal"} \cup Withdrawn
      BY <1>0, <2>0, <2>4 DEF WriteMoves
    <3>3. \A b \in Attempts, c \in Calls :
            \/ pc'[b][c] = pc[b][c] /\ got'[b][c] = got[b][c]
            \/ pc'[b][c] \notin {"hooking", "marking", "answered"}
      BY <1>0, <2>1, <2>2, <3>2
    <3> QED
      BY <2>1, <3>1, <3>3 DEF JournalInv
  <2> QED
    BY <2>3, <2>4
<1> QED
  BY <1>1, <1>2, <1>3, StepsSplit

(* Every attempt that shows the model a result of an executed call shows   *)
(* the value of the durable marker, the same for all of them.              *)
THEOREM OneAnswerPerCall == Spec => []AnswersAgree
<1>1. Init => TypeInv /\ TokenInv /\ JournalInv
  BY TypeInit, TokenInit, JournalInit
<1>2. TypeInv /\ TokenInv /\ JournalInv /\ [Next]_vars => (TypeInv /\ TokenInv /\ JournalInv)'
  BY TypeNext, TokenNext, JournalNext
<1>3. JournalInv => AnswersAgree
  BY DEF JournalInv, AnswersAgree
<1> QED
  BY <1>1, <1>2, <1>3, PTL DEF Spec

-----------------------------------------------------------------------------
(* Effects go out once.  Every attempt that may still run a step, and      *)
(* every run of it, is paid for: by its intent, or by a retry that cleared *)
(* one.                                                                    *)

Going(s) == {a \in Attempts : pc[a][s] \in {"executing", "withdrawing"}}

Intents(s) == IF entries[StepKey(s)] = L!Absent THEN 0 ELSE 1

LicenceInv ==
  /\ \A s \in Effect : /\ IsFiniteSet(Going(s))
                       /\ runs[s] + Cardinality(Going(s)) <= licensed[s] + Intents(s)
  /\ \A a \in Attempts, s \in Effect : pc[a][s] = "clearing" => a \in RetryAttempts
  /\ RetryAttempts = {} => \A s \in Effect : licensed[s] = 0

LEMMA LicenceInit == Init => LicenceInv
<1> SUFFICES ASSUME Init
             PROVE  LicenceInv
  OBVIOUS
<1>1. \A s \in Effect : Going(s) = {}
  BY DEF Init, Going
<1>2. \A s \in Effect : Intents(s) = 0
  BY KeyFacts DEF Init, L!Init, Intents
<1>3. IsFiniteSet({}) /\ Cardinality({}) = 0
  BY FS_EmptySet
<1>4. \A s \in Effect : runs[s] = 0 /\ licensed[s] = 0
  BY DEF Init
<1>5. \A a \in Attempts, s \in Effect : pc[a][s] # "clearing"
  BY DEF Init
<1> QED
  BY <1>1, <1>2, <1>3, <1>4, <1>5 DEF LicenceInv

(* Moving one attempt changes who may still run its step by at most it.    *)
LEMMA GoingMoves ==
  ASSUME TypeInv, NEW a \in Attempts, NEW s \in Effect, NEW to,
         pc' = [pc EXCEPT ![a][s] = to], IsFiniteSet(Going(s))
  PROVE  /\ \A r \in Effect : r # s => Going(r)' = Going(r)
         /\ IsFiniteSet(Going(s)')
         /\ Cardinality(Going(s)) \in Nat
         /\ Cardinality(Going(s)') =
              Cardinality(Going(s))
                + (IF to \in {"executing", "withdrawing"} THEN 1 ELSE 0)
                - (IF pc[a][s] \in {"executing", "withdrawing"} THEN 1 ELSE 0)
<1> USE DEF TypeInv, TypeOK
<1>1. \A r \in Effect : r # s => Going(r)' = Going(r)
  BY DEF Going
<1>2. \A b \in Attempts : pc'[b][s] = IF b = a THEN to ELSE pc[b][s]
  OBVIOUS
<1>3. Going(s)' = {b \in Attempts : pc'[b][s] \in {"executing", "withdrawing"}}
  BY DEF Going
<1>4. Cardinality(Going(s)) \in Nat
  BY FS_CardinalityType
<1>5. a \in Going(s) <=> pc[a][s] \in {"executing", "withdrawing"}
  BY DEF Going
<1>6. CASE to \in {"executing", "withdrawing"}
  <2>1. Going(s)' = Going(s) \cup {a}
    BY <1>2, <1>3, <1>6 DEF Going
  <2>2. /\ IsFiniteSet(Going(s) \cup {a})
        /\ Cardinality(Going(s) \cup {a}) = IF a \in Going(s) THEN Cardinality(Going(s))
                                    ELSE Cardinality(Going(s)) + 1
    BY FS_AddElement, Zenon
  <2>3. Cardinality(Going(s)') = IF a \in Going(s) THEN Cardinality(Going(s))
                                 ELSE Cardinality(Going(s)) + 1
    BY <2>1, <2>2
  <2> QED
    BY <1>1, <1>4, <1>5, <1>6, <2>1, <2>2, <2>3
<1>7. CASE to \notin {"executing", "withdrawing"}
  <2>1. Going(s)' = Going(s) \ {a}
    BY <1>2, <1>3, <1>7 DEF Going
  <2>2. /\ IsFiniteSet(Going(s) \ {a})
        /\ Cardinality(Going(s) \ {a}) = IF a \in Going(s) THEN Cardinality(Going(s)) - 1
                                    ELSE Cardinality(Going(s))
    BY FS_RemoveElement, Zenon
  <2>3. Cardinality(Going(s)') = IF a \in Going(s) THEN Cardinality(Going(s)) - 1
                                 ELSE Cardinality(Going(s))
    BY <2>1, <2>2
  <2> QED
    BY <1>1, <1>4, <1>5, <1>7, <2>1, <2>2, <2>3
<1> QED
  BY <1>6, <1>7

LEMMA LicenceNext == TypeInv /\ TokenInv /\ LicenceInv /\ [Next]_vars => LicenceInv'
<1> SUFFICES ASSUME TypeInv, TokenInv, LicenceInv, [Next]_vars
             PROVE  LicenceInv'
  OBVIOUS
<1> USE DEF TypeInv, TypeOK
<1>1. CASE Elsewhere
  <2>1. \A s \in Effect : Going(s)' = Going(s) /\ Intents(s)' = Intents(s)
    BY <1>1 DEF Elsewhere, Going, Intents
  <2> QED
    BY <1>1, <2>1 DEF Elsewhere, LicenceInv
<1>2. ASSUME NEW a \in Attempts, NEW s \in Effect, Thinks(a, s)
      PROVE  LicenceInv'
  <2>1. UNCHANGED <<entries, licensed>> /\ \A r \in Effect : Intents(r)' = Intents(r)
    BY <1>2 DEF Thinks, Intents
  <2>2. PICK to \in Places :
           /\ pc' = [pc EXCEPT ![a][s] = to]
           /\ to = "clearing" => a \in RetryAttempts
           /\ to = "finishing" => /\ pc[a][s] = "executing"
                                  /\ runs' = [runs EXCEPT ![s] = @ + 1]
           /\ to = "withdrawing" => pc[a][s] = "executing"
           /\ to # "finishing" => runs' = runs
           /\ to # "executing" /\ pc[a][s] # "withdrawing"
           /\ pc[a][s] = "executing" => to \in {"finishing", "withdrawing"}
    BY <1>2, ThinksMoves
  <2>3. IsFiniteSet(Going(s))
    BY DEF LicenceInv
  <2>4. /\ \A r \in Effect : r # s => Going(r)' = Going(r)
        /\ IsFiniteSet(Going(s)')
        /\ Cardinality(Going(s)) \in Nat
        /\ Cardinality(Going(s)') = Cardinality(Going(s)) - (IF to = "finishing" THEN 1 ELSE 0)
    <3>1. pc' = [pc EXCEPT ![a][s] = to]
      BY <2>2
    <3>2. /\ \A r \in Effect : r # s => Going(r)' = Going(r)
          /\ IsFiniteSet(Going(s)')
          /\ Cardinality(Going(s)) \in Nat
          /\ Cardinality(Going(s)') =
               Cardinality(Going(s))
                 + (IF to \in {"executing", "withdrawing"} THEN 1 ELSE 0)
                 - (IF pc[a][s] \in {"executing", "withdrawing"} THEN 1 ELSE 0)
      BY <2>3, <3>1, GoingMoves, Zenon
    <3> QED
      BY <2>2, <3>2
  <2>5. runs'[s] = runs[s] + (IF to = "finishing" THEN 1 ELSE 0)
        /\ \A r \in Effect : r # s => runs'[r] = runs[r]
    BY <2>2
  <2>6. ASSUME NEW r \in Effect
        PROVE  /\ IsFiniteSet(Going(r)')
               /\ runs'[r] + Cardinality(Going(r)') <= licensed[r] + Intents(r)
    <3>1. runs[r] + Cardinality(Going(r)) <= licensed[r] + Intents(r) /\ IsFiniteSet(Going(r))
      BY DEF LicenceInv
    <3>2. CASE r = s
      BY <2>4, <2>5, <3>1, <3>2 DEF Intents
    <3>3. CASE r # s
      BY <2>4, <2>5, <3>1, <3>3
    <3> QED
      BY <3>2, <3>3
  <2>7. \A b \in Attempts, r \in Effect : pc'[b][r] = "clearing" => b \in RetryAttempts
    BY <2>2 DEF LicenceInv
  <2> QED
    BY <2>1, <2>6, <2>7 DEF LicenceInv
<1>3. ASSUME NEW a \in Attempts, NEW s \in Effect, Writes(a, s)
      PROVE  LicenceInv'
  <2>0. WriteMoves(a, s)
    BY <1>3, WritesMove
  <2>1. runs' = runs
    BY <1>3 DEF Writes
  <2>2. StepKey(s) \in DOMAIN entries /\ entries[StepKey(s)] \in L!Steps
    BY KeyFacts
  <2>3. IsFiniteSet(Going(s)) /\ runs[s] + Cardinality(Going(s)) <= licensed[s] + Intents(s)
    BY DEF LicenceInv
  <2>4. PICK to \in Places :
           /\ pc' = [pc EXCEPT ![a][s] = to]
           /\ to \notin {"clearing", "withdrawing"}
           /\ pc[a][s] # "executing"
           /\ to = "executing" => /\ licensed' = licensed
                                  /\ entries[StepKey(s)] = L!Absent
                                  /\ entries'[StepKey(s)] = L!Running
           /\ to # "executing" /\ pc[a][s] # "withdrawing" =>
                \/ entries'[StepKey(s)] = entries[StepKey(s)] /\ licensed' = licensed
                \/ entries'[StepKey(s)] # L!Absent /\ licensed' = licensed
                \/ /\ entries[StepKey(s)] = L!Running
                   /\ licensed' = [licensed EXCEPT ![s] = @ + 1]
           /\ pc[a][s] = "withdrawing" => to # "executing" /\ licensed' = licensed
           /\ licensed' # licensed => a \in RetryAttempts
    <3>1. L!Running # L!Absent /\ \A v : L!Done(v) # L!Absent /\ L!Done(v).status = "done"
      BY DEF L!Running, L!Absent, L!Done
    <3>2. entries[StepKey(s)].status = "done" \/ entries[StepKey(s)] \in {L!Absent, L!Running}
      BY <2>2 DEF L!Steps, L!Done
    <3>3. CASE pc[a][s] = "clearing"
      <4>1. pc' = [pc EXCEPT ![a][s] = "starting"]
            /\ entries' = [entries EXCEPT ![StepKey(s)] =
                             IF @.status = "done" THEN @ ELSE L!Absent]
            /\ licensed' = [licensed EXCEPT ![s] =
                              IF entries[StepKey(s)] = L!Running THEN @ + 1 ELSE @]
        BY <2>0, <3>3 DEF WriteMoves
      <4>2. a \in RetryAttempts
        BY <3>3 DEF LicenceInv
      <4>3. CASE entries[StepKey(s)] = L!Running
        BY <3>3, <4>1, <4>2, <4>3
      <4>4. CASE entries[StepKey(s)] # L!Running
        <5>1. licensed' = licensed
          BY <4>1, <4>4
        <5>2. entries'[StepKey(s)] = entries[StepKey(s)]
          BY <2>2, <3>2, <4>1, <4>4
        <5> QED
          BY <3>3, <4>1, <5>1, <5>2
      <4> QED
        BY <4>3, <4>4
    <3>4. CASE pc[a][s] # "clearing"
      <4>1. licensed' = licensed
        BY <2>0, <3>4 DEF WriteMoves
      <4>2. CASE pc[a][s] = "starting"
        BY <2>0, <2>2, <4>1, <4>2 DEF WriteMoves
      <4>3. CASE pc[a][s] = "withdrawing"
        BY <2>0, <4>1, <4>3 DEF WriteMoves
      <4>4. CASE pc[a][s] = "finishing"
        <5>1. /\ pc' = [pc EXCEPT ![a][s] = Replayed(s)]
              /\ entries'[StepKey(s)] = L!Done(got[a][s])
          BY <2>0, <2>2, <4>4 DEF WriteMoves
        <5>2. Replayed(s) \in {"answered", "journal"}
          BY DEF Replayed
        <5> QED
          BY <3>1, <4>1, <4>4, <5>1, <5>2
      <4>5. CASE pc[a][s] = "marking"
        <5>1. /\ pc' = [pc EXCEPT ![a][s] = "answered"]
              /\ s \in Calls
          BY <2>0, <4>5 DEF WriteMoves
        <5>2. entries'[StepKey(s)] = entries[StepKey(s)]
          BY <2>0, <2>2, <4>5, <5>1, KeyFacts DEF WriteMoves
        <5> QED
          BY <4>1, <4>5, <5>1, <5>2
      <4> QED
        BY <2>0, <3>4, <4>2, <4>3, <4>4, <4>5 DEF WriteMoves
    <3> QED
      BY <3>3, <3>4
  <2>5. /\ \A r \in Effect : r # s => Going(r)' = Going(r)
        /\ IsFiniteSet(Going(s)')
        /\ Cardinality(Going(s)) \in Nat
        /\ Cardinality(Going(s)') =
             Cardinality(Going(s)) + (IF to = "executing" THEN 1 ELSE 0)
                                   - (IF pc[a][s] = "withdrawing" THEN 1 ELSE 0)
    BY <2>3, <2>4, GoingMoves
  <2>6. runs'[s] + Cardinality(Going(s)') <= licensed'[s] + Intents(s)'
    <3>1. L!Running # L!Absent
      BY DEF L!Running, L!Absent
    <3>2. licensed[s] \in Nat /\ runs[s] \in Nat
      OBVIOUS
    <3>3. CASE to = "executing"
      BY <2>1, <2>3, <2>4, <2>5, <3>1, <3>2, <3>3 DEF Intents
    <3>4. CASE pc[a][s] = "withdrawing"
      BY <2>1, <2>3, <2>4, <2>5, <3>2, <3>4 DEF Intents
    <3>5. CASE to # "executing" /\ pc[a][s] # "withdrawing"
      BY <2>1, <2>3, <2>4, <2>5, <3>1, <3>2, <3>5 DEF Intents
    <3> QED
      BY <3>3, <3>4, <3>5
  <2>7. ASSUME NEW r \in Effect, r # s
        PROVE  /\ IsFiniteSet(Going(r)')
               /\ runs'[r] + Cardinality(Going(r)') <= licensed'[r] + Intents(r)'
    <3>1. entries'[StepKey(r)] = entries[StepKey(r)]
      BY <1>3, <2>7, WritesTouch, KeyFacts
    <3>2. licensed'[r] = licensed[r]
      BY <2>0, <2>7 DEF WriteMoves
    <3> QED
      BY <2>1, <2>5, <2>7, <3>1, <3>2 DEF LicenceInv, Intents
  <2>8. \A b \in Attempts, r \in Effect : pc'[b][r] = "clearing" => b \in RetryAttempts
    BY <2>4 DEF LicenceInv
  <2>9. RetryAttempts = {} => licensed' = licensed
    BY <2>4
  <2>10. \A r \in Effect : /\ IsFiniteSet(Going(r)')
                          /\ runs'[r] + Cardinality(Going(r)') <= licensed'[r] + Intents(r)'
    BY <2>5, <2>6, <2>7
  <2>11. RetryAttempts = {} => \A r \in Effect : licensed'[r] = 0
    BY <2>9 DEF LicenceInv
  <2> QED
    BY <2>8, <2>10, <2>11, Zenon DEF LicenceInv
<1> QED
  BY <1>1, <1>2, <1>3, StepsSplit

(* An effect goes out once, and once more for every retry that cleared an  *)
(* intent with no result.                                                  *)
THEOREM EffectsAreLicensed == Spec => []RunsAreLicensed
<1>1. Init => TypeInv /\ TokenInv /\ LicenceInv
  BY TypeInit, TokenInit, LicenceInit
<1>2. TypeInv /\ TokenInv /\ LicenceInv /\ [Next]_vars => (TypeInv /\ TokenInv /\ LicenceInv)'
  BY TypeNext, TokenNext, LicenceNext
<1>3. TypeInv /\ LicenceInv => RunsAreLicensed
  <2> SUFFICES ASSUME TypeInv, LicenceInv, NEW s \in Effect
               PROVE  runs[s] <= 1 + licensed[s]
    BY DEF RunsAreLicensed
  <2>1. IsFiniteSet(Going(s)) /\ runs[s] + Cardinality(Going(s)) <= licensed[s] + Intents(s)
    BY DEF LicenceInv
  <2>2. Cardinality(Going(s)) \in Nat
    BY <2>1, FS_CardinalityType
  <2> QED
    BY <2>1, <2>2 DEF Intents, TypeInv, TypeOK
<1> QED
  BY <1>1, <1>2, <1>3, PTL DEF Spec

(* With no runtime that retries, an effect goes out at most once.          *)
THEOREM EffectsHappenOnce == Spec => []AtMostOnce
<1>1. Init => TypeInv /\ TokenInv /\ LicenceInv
  BY TypeInit, TokenInit, LicenceInit
<1>2. TypeInv /\ TokenInv /\ LicenceInv /\ [Next]_vars => (TypeInv /\ TokenInv /\ LicenceInv)'
  BY TypeNext, TokenNext, LicenceNext
<1>3. LicenceInv /\ RunsAreLicensed => AtMostOnce
  BY DEF LicenceInv, RunsAreLicensed, AtMostOnce
<1>4. Spec => []LicenceInv
  BY <1>1, <1>2, PTL DEF Spec
<1> QED
  BY <1>3, <1>4, EffectsAreLicensed, PTL

-----------------------------------------------------------------------------
(* What is recorded of an effect is what it produced.  While no retry has  *)
(* cleared an intent, the licence leaves room for a single run, so the     *)
(* attempt about to report is the only one that has something to report.   *)

RealInv ==
  \A s \in Effect :
    /\ entries[StepKey(s)].status = "done" =>
         runs[s] > 0 /\ (licensed[s] = 0 => entries[StepKey(s)].value = outcome[s])
    /\ \A a \in Attempts : pc[a][s] = "finishing" =>
         runs[s] > 0 /\ (licensed[s] = 0 => got[a][s] = outcome[s])

LEMMA RealInit == Init => RealInv
<1> SUFFICES ASSUME Init
             PROVE  RealInv
  OBVIOUS
<1>1. \A s \in Effect : entries[StepKey(s)] = L!Absent
  BY KeyFacts DEF Init, L!Init
<1> QED
  BY <1>1 DEF Init, RealInv, L!Absent

(* An attempt that is executing has not been preceded by any run that a    *)
(* retry did not clear.                                                    *)
LEMMA FirstToRun ==
  ASSUME TypeInv, LicenceInv, NEW a \in Attempts, NEW s \in Effect,
         pc[a][s] = "executing", licensed[s] = 0
  PROVE  runs[s] = 0
<1>1. IsFiniteSet(Going(s)) /\ runs[s] + Cardinality(Going(s)) <= licensed[s] + Intents(s)
  BY DEF LicenceInv
<1>2. a \in Going(s)
  BY DEF Going
<1>3. Cardinality(Going(s)) \in Nat /\ Cardinality(Going(s)) # 0
  BY <1>1, <1>2, FS_CardinalityType, FS_EmptySet
<1>4. Intents(s) \in {0, 1}
  BY DEF Intents
<1>5. runs[s] \in Nat
  BY DEF TypeInv, TypeOK
<1> QED
  BY <1>1, <1>3, <1>4, <1>5

LEMMA RealNext == TypeInv /\ TokenInv /\ LicenceInv /\ RealInv /\ [Next]_vars => RealInv'
<1> SUFFICES ASSUME TypeInv, TokenInv, LicenceInv, RealInv, [Next]_vars
             PROVE  RealInv'
  OBVIOUS
<1> USE DEF TypeInv, TypeOK
<1>1. CASE Elsewhere
  <2>1. /\ UNCHANGED <<pc, got, runs, outcome, licensed>>
        /\ \A s \in Effect : entries'[StepKey(s)] = entries[StepKey(s)]
    BY <1>1 DEF Elsewhere
  <2> QED
    BY <2>1 DEF RealInv
<1>2. ASSUME NEW a \in Attempts, NEW s \in Effect, Thinks(a, s)
      PROVE  RealInv'
  <2>1. UNCHANGED <<entries, licensed>>
    BY <1>2 DEF Thinks
  <2>2. PICK to \in Places :
           /\ pc' = [pc EXCEPT ![a][s] = to]
           /\ to = "finishing" => /\ pc[a][s] = "executing"
                                  /\ runs' = [runs EXCEPT ![s] = @ + 1]
                                  /\ \E v : /\ got' = [got EXCEPT ![a][s] = v]
                                            /\ outcome' = [outcome EXCEPT ![s] = v]
           /\ to # "finishing" => UNCHANGED <<runs, outcome>>
           /\ \A b \in Attempts, r \in Effect : <<b, r>> # <<a, s>> => got'[b][r] = got[b][r]
    BY <1>2, ThinksMoves
  <2>3. ASSUME NEW b \in Attempts, NEW r \in Effect, <<b, r>> # <<a, s>>
        PROVE  pc'[b][r] = pc[b][r] /\ got'[b][r] = got[b][r]
    BY <2>2, <2>3
  <2>4. pc'[a][s] = to
    BY <2>2
  <2>5. CASE to # "finishing"
    <3>1. \A b \in Attempts, r \in Effect :
            pc'[b][r] = "finishing" => pc[b][r] = "finishing" /\ got'[b][r] = got[b][r]
      BY <2>3, <2>4, <2>5
    <3> QED
      BY <2>1, <2>2, <2>5, <3>1 DEF RealInv
  <2>6. CASE to = "finishing"
    <3>1. PICK v : /\ got' = [got EXCEPT ![a][s] = v]
                   /\ outcome' = [outcome EXCEPT ![s] = v]
      BY <2>2, <2>6
    <3>2. pc[a][s] = "executing" /\ runs' = [runs EXCEPT ![s] = @ + 1]
      BY <2>2, <2>6
    <3>3. licensed[s] = 0 => runs[s] = 0
      BY <3>2, FirstToRun
    <3>4. licensed[s] = 0 =>
            /\ entries[StepKey(s)].status # "done"
            /\ \A b \in Attempts : pc[b][s] # "finishing"
      BY <3>3 DEF RealInv
    <3>5. got'[a][s] = v /\ outcome'[s] = v /\ runs'[s] > 0
      BY <3>1, <3>2
    <3>6. /\ entries[StepKey(s)].status = "done" =>
               runs'[s] > 0 /\ (licensed[s] = 0 => entries[StepKey(s)].value = outcome'[s])
          /\ \A b \in Attempts : pc'[b][s] = "finishing" =>
               runs'[s] > 0 /\ (licensed[s] = 0 => got'[b][s] = outcome'[s])
      <4>1. /\ runs'[s] > 0
            /\ licensed[s] = 0 => entries[StepKey(s)].status # "done"
        BY <3>4, <3>5
      <4>2. ASSUME NEW b \in Attempts, pc'[b][s] = "finishing", licensed[s] = 0
            PROVE  b = a
        BY <2>3, <3>4, <4>2
      <4> QED
        BY <3>5, <4>1, <4>2
    <3>7. ASSUME NEW r \in Effect, r # s
          PROVE  /\ runs'[r] = runs[r] /\ outcome'[r] = outcome[r]
                 /\ \A b \in Attempts : pc'[b][r] = pc[b][r] /\ got'[b][r] = got[b][r]
      BY <2>3, <3>1, <3>2, <3>7
    <3> QED
      BY <2>1, <3>6, <3>7 DEF RealInv
  <2> QED
    BY <2>5, <2>6
<1>3. ASSUME NEW a \in Attempts, NEW s \in Effect, Writes(a, s)
      PROVE  RealInv'
  <2>0. WriteMoves(a, s)
    BY <1>3, WritesMove
  <2>1. UNCHANGED <<got, runs, outcome>>
    BY <1>3 DEF Writes
  <2>2. PICK to \in Places : pc' = [pc EXCEPT ![a][s] = to]
    BY <2>0 DEF WriteMoves
  <2>3. pc'[a][s] # "finishing"
    BY <2>0 DEF WriteMoves, Replayed
  <2>4. \A b \in Attempts, r \in Effect : pc'[b][r] = "finishing" => pc[b][r] = "finishing"
    BY <2>2, <2>3
  <2>5. \A r \in Effect : licensed'[r] = 0 => licensed[r] = 0
    BY <2>0 DEF WriteMoves
  <2>6. ASSUME entries'[StepKey(s)].status = "done"
        PROVE  \/ entries'[StepKey(s)] = entries[StepKey(s)]
               \/ pc[a][s] = "finishing" /\ entries'[StepKey(s)].value = got[a][s]
    <3>1. StepKey(s) \in DOMAIN entries
      BY KeyFacts
    <3>2. L!Absent.status # "done" /\ L!Running.status # "done"
          /\ \A v : L!Done(v).value = v
      BY DEF L!Absent, L!Running, L!Done
    <3>3. CASE pc[a][s] \in {"clearing", "withdrawing"}
      BY <2>0, <2>6, <3>1, <3>2, <3>3 DEF WriteMoves
    <3>4. CASE pc[a][s] \in {"starting", "finishing"}
      BY <2>0, <2>6, <3>1, <3>2, <3>4 DEF WriteMoves
    <3>5. CASE pc[a][s] = "marking"
      <4>1. s \in Calls /\ entries' = [entries EXCEPT ![AfterKey(s)] = L!Done(got[a][s])]
        BY <2>0, <3>5 DEF WriteMoves
      <4> QED
        BY <4>1, KeyFacts
    <3> QED
      BY <2>0, <3>3, <3>4, <3>5 DEF WriteMoves
  <2>7. \A r \in Effect : r # s => entries'[StepKey(r)] = entries[StepKey(r)]
    BY <1>3, WritesTouch, KeyFacts
  <2>8. ASSUME NEW r \in Effect, entries'[StepKey(r)].status = "done"
        PROVE  runs[r] > 0 /\ (licensed'[r] = 0 => entries'[StepKey(r)].value = outcome[r])
    <3>1. CASE entries'[StepKey(r)] = entries[StepKey(r)]
      BY <2>5, <2>8, <3>1 DEF RealInv
    <3>2. CASE r = s /\ pc[a][s] = "finishing" /\ entries'[StepKey(s)].value = got[a][s]
      BY <2>5, <3>2 DEF RealInv
    <3> QED
      BY <2>6, <2>7, <2>8, <3>1, <3>2
  <2>9. \A r \in Effect, b \in Attempts : pc'[b][r] = "finishing" =>
          runs[r] > 0 /\ (licensed'[r] = 0 => got[b][r] = outcome[r])
    BY <2>4, <2>5 DEF RealInv
  <2> QED
    BY <2>1, <2>8, <2>9 DEF RealInv
<1> QED
  BY <1>1, <1>2, <1>3, StepsSplit

(* A recorded result is what the effect last produced, and no result is    *)
(* recorded of an effect that never went out.                              *)
THEOREM RecordsAreReal == Spec => []RecordedIsReal
<1>1. Init => TypeInv /\ TokenInv /\ LicenceInv /\ RealInv
  BY TypeInit, TokenInit, LicenceInit, RealInit
<1>2. TypeInv /\ TokenInv /\ LicenceInv /\ RealInv /\ [Next]_vars
        => (TypeInv /\ TokenInv /\ LicenceInv /\ RealInv)'
  BY TypeNext, TokenNext, LicenceNext, RealNext
<1>3. RealInv => RecordedIsReal
  BY DEF RealInv, RecordedIsReal
<1> QED
  BY <1>1, <1>2, <1>3, PTL DEF Spec

-----------------------------------------------------------------------------
(* post_tool_use sees a call again only if an attempt was lost in between. *)
(* Every time it saw the call is accounted for by an attempt that has yet  *)
(* to write the marker, or by the marker: the write that takes an attempt  *)
(* off the account puts the marker on it, because the owner of the branch  *)
(* finds no marker there.                                                  *)

Marking(c) == {a \in Attempts : pc[a][c] = "marking"}

Markers(c) == IF entries[AfterKey(c)] = L!Absent THEN 0 ELSE 1

HookInv ==
  \A c \in Calls : /\ IsFiniteSet(Marking(c))
                   /\ hooks[c] <= Cardinality(Marking(c)) + Markers(c)

LEMMA HookInit == Init => HookInv
<1> SUFFICES ASSUME Init, NEW c \in Calls
             PROVE  /\ IsFiniteSet(Marking(c))
                    /\ hooks[c] <= Cardinality(Marking(c)) + Markers(c)
  BY DEF HookInv
<1>1. Marking(c) = {}
  BY DEF Init, Marking, Effect
<1>2. hooks[c] = 0 /\ Markers(c) \in {0, 1}
  BY DEF Init, Markers
<1> QED
  BY <1>1, <1>2, FS_EmptySet

(* Moving one attempt changes who has yet to write the marker by it alone. *)
LEMMA MarkingMoves ==
  ASSUME TypeInv, NEW a \in Attempts, NEW s \in Effect, NEW to,
         pc' = [pc EXCEPT ![a][s] = to]
  PROVE  /\ \A c \in Calls : c # s => Marking(c)' = Marking(c)
         /\ s \in Calls =>
              Marking(s)' = IF to = "marking" THEN Marking(s) \cup {a} ELSE Marking(s) \ {a}
<1> USE DEF TypeInv, TypeOK
<1>1. Calls \subseteq Effect
  BY DEF Effect
<1>2. \A b \in Attempts, r \in Effect :
        pc'[b][r] = IF b = a /\ r = s THEN to ELSE pc[b][r]
  OBVIOUS
<1>3. ASSUME NEW c \in Calls, c # s
      PROVE  Marking(c)' = Marking(c)
  BY <1>1, <1>2, <1>3 DEF Marking
<1>4. CASE s \in Calls /\ to = "marking"
  <2>1. Marking(s)' = Marking(s) \cup {a}
    BY <1>2, <1>4 DEF Marking
  <2> QED
    BY <1>3, <1>4, <2>1
<1>5. CASE s \in Calls /\ to # "marking"
  <2>1. Marking(s)' = Marking(s) \ {a}
    BY <1>2, <1>5 DEF Marking
  <2> QED
    BY <1>3, <1>5, <2>1
<1> QED
  BY <1>3, <1>4, <1>5

LEMMA HookNext ==
  TypeInv /\ TokenInv /\ JournalInv /\ HookInv /\ [Next]_vars => HookInv'
<1> SUFFICES ASSUME TypeInv, TokenInv, JournalInv, HookInv, [Next]_vars
             PROVE  HookInv'
  OBVIOUS
<1> USE DEF TypeInv, TypeOK
<1>0. Calls \subseteq Effect
  BY DEF Effect
<1>1. CASE Elsewhere
  <2>1. \A c \in Calls : Marking(c)' = Marking(c) /\ Markers(c)' = Markers(c)
    BY <1>1 DEF Elsewhere, Marking, Markers
  <2>2. hooks' = hooks
    BY <1>1 DEF Elsewhere
  <2> QED
    BY <2>1, <2>2 DEF HookInv
<1>2. ASSUME NEW a \in Attempts, NEW s \in Effect, Thinks(a, s)
      PROVE  HookInv'
  <2>1. \A c \in Calls : Markers(c)' = Markers(c)
    BY <1>2 DEF Thinks, Markers
  <2>2. PICK to \in Places :
           /\ pc' = [pc EXCEPT ![a][s] = to]
           /\ to = "marking" => /\ s \in Calls /\ pc[a][s] = "hooking"
                                /\ hooks' = [hooks EXCEPT ![s] = @ + 1]
           /\ to # "marking" => hooks' = hooks
           /\ pc[a][s] # "marking"
    BY <1>2, ThinksMoves
  <2>3. /\ \A c \in Calls : c # s => Marking(c)' = Marking(c)
        /\ s \in Calls =>
             Marking(s)' = IF to = "marking" THEN Marking(s) \cup {a} ELSE Marking(s) \ {a}
    BY <2>2, MarkingMoves
  <2>4. a \notin Marking(s)
    BY <2>2 DEF Marking
  <2>5. CASE to = "marking"
    <3>1. IsFiniteSet(Marking(s)) /\ hooks[s] <= Cardinality(Marking(s)) + Markers(s)
      BY <2>2, <2>5 DEF HookInv
    <3>2. /\ IsFiniteSet(Marking(s) \cup {a})
          /\ Cardinality(Marking(s) \cup {a}) = Cardinality(Marking(s)) + 1
      BY <2>4, <3>1, FS_AddElement
    <3>3. Cardinality(Marking(s)) \in Nat /\ Markers(s) \in Nat
      BY <3>1, FS_CardinalityType DEF Markers
    <3>4. /\ IsFiniteSet(Marking(s)')
          /\ hooks'[s] <= Cardinality(Marking(s)') + Markers(s)'
      <4>1. Marking(s)' = Marking(s) \cup {a}
        BY <2>2, <2>3, <2>5
      <4>2. Cardinality(Marking(s)') = Cardinality(Marking(s)) + 1 /\ IsFiniteSet(Marking(s)')
        BY <3>2, <4>1
      <4>3. Markers(s)' = Markers(s)
        BY <2>1, <2>2, <2>5
      <4>4. hooks'[s] = hooks[s] + 1 /\ hooks[s] \in Nat
        BY <2>2, <2>5
      <4> QED
        BY <3>1, <3>3, <4>2, <4>3, <4>4
    <3>5. ASSUME NEW c \in Calls, c # s
          PROVE  hooks'[c] = hooks[c] /\ Marking(c)' = Marking(c) /\ Markers(c)' = Markers(c)
      BY <2>1, <2>2, <2>3, <2>5, <3>5
    <3>6. \A c \in Calls : /\ IsFiniteSet(Marking(c)')
                           /\ hooks'[c] <= Cardinality(Marking(c)') + Markers(c)'
      BY <3>4, <3>5 DEF HookInv
    <3> QED
      BY <3>6 DEF HookInv
  <2>6. CASE to # "marking"
    <3>0. hooks' = hooks
      BY <2>2, <2>6
    <3>1. Marking(s) \ {a} = Marking(s)
      BY <2>4
    <3>2. ASSUME NEW c \in Calls
          PROVE  Marking(c)' = Marking(c)
      <4>1. CASE c = s
        BY <2>3, <2>6, <3>1, <4>1
      <4>2. CASE c # s
        BY <2>3, <4>2, Zenon
      <4> QED
        BY <4>1, <4>2
    <3>3. ASSUME NEW c \in Calls
          PROVE  /\ IsFiniteSet(Marking(c)')
                 /\ hooks'[c] <= Cardinality(Marking(c)') + Markers(c)'
      <4>1. Marking(c)' = Marking(c) /\ Markers(c)' = Markers(c) /\ hooks'[c] = hooks[c]
        BY <2>1, <3>0, <3>2
      <4> QED
        BY <4>1 DEF HookInv
    <3> QED
      BY <3>3 DEF HookInv
  <2> QED
    BY <2>5, <2>6
<1>3. ASSUME NEW a \in Attempts, NEW s \in Effect, Writes(a, s)
      PROVE  HookInv'
  <2>0. WriteMoves(a, s)
    BY <1>3, WritesMove
  <2>1. hooks' = hooks /\ token[a] = issued
    BY <1>3 DEF Writes
  <2>2. PICK to \in Places : pc' = [pc EXCEPT ![a][s] = to]
    BY <2>0 DEF WriteMoves
  <2>3. to # "marking"
    <3>1. pc'[a][s] = to
      BY <2>2
    <3> QED
      BY <2>0, <3>1 DEF WriteMoves, Replayed
  <2>4. /\ \A c \in Calls : c # s => Marking(c)' = Marking(c)
        /\ s \in Calls => Marking(s)' = Marking(s) \ {a}
    BY <2>2, <2>3, MarkingMoves
  <2>5. ASSUME NEW c \in Calls, c # s
        PROVE  Markers(c)' = Markers(c)
    <3>1. entries'[AfterKey(c)] = entries[AfterKey(c)]
      BY <1>3, <2>5, WritesTouch, KeyFacts
    <3> QED
      BY <3>1 DEF Markers
  <2>6. ASSUME s \in Calls
        PROVE  /\ IsFiniteSet(Marking(s)')
               /\ hooks[s] <= Cardinality(Marking(s)') + Markers(s)'
    <3>1. IsFiniteSet(Marking(s)) /\ hooks[s] <= Cardinality(Marking(s)) + Markers(s)
      BY <2>6 DEF HookInv
    <3>2. /\ IsFiniteSet(Marking(s) \ {a})
          /\ Cardinality(Marking(s) \ {a}) =
               IF a \in Marking(s) THEN Cardinality(Marking(s)) - 1 ELSE Cardinality(Marking(s))
      BY <3>1, FS_RemoveElement
    <3>3. Cardinality(Marking(s)) \in Nat
      BY <3>1, FS_CardinalityType
    <3>4. CASE pc[a][s] = "marking"
      <4>1. Markers(s) = 0
        BY <2>1, <2>6, <3>4 DEF JournalInv, Markers
      <4>2. Markers(s)' = 1
        <5>1. entries'[AfterKey(s)] = L!Done(got[a][s])
          BY <2>0, <2>6, <3>4, KeyFacts DEF WriteMoves
        <5> QED
          BY <5>1 DEF Markers, L!Done, L!Absent
      <4>3. Marking(s)' = Marking(s) \ {a} /\ a \in Marking(s)
        BY <2>4, <2>6, <3>4 DEF Marking
      <4>4. IsFiniteSet(Marking(s)') /\ Cardinality(Marking(s)') = Cardinality(Marking(s)) - 1
        BY <3>2, <4>3
      <4> QED
        BY <3>1, <3>3, <4>1, <4>2, <4>4
    <3>5. CASE pc[a][s] # "marking"
      <4>1. a \notin Marking(s)
        BY <3>5 DEF Marking
      <4>2. entries'[AfterKey(s)] = entries[AfterKey(s)]
        BY <2>0, <2>6, <3>5, KeyFacts DEF WriteMoves
      <4> QED
        BY <2>4, <2>6, <3>1, <3>2, <4>1, <4>2 DEF Markers
    <3> QED
      BY <3>4, <3>5
  <2>7. ASSUME NEW c \in Calls, c # s
        PROVE  /\ IsFiniteSet(Marking(c)')
               /\ hooks[c] <= Cardinality(Marking(c)') + Markers(c)'
    <3>1. IsFiniteSet(Marking(c)) /\ hooks[c] <= Cardinality(Marking(c)) + Markers(c)
      BY DEF HookInv
    <3>2. Marking(c)' = Marking(c) /\ Markers(c)' = Markers(c)
      BY <2>4, <2>5, <2>7
    <3> QED
      BY <3>1, <3>2
  <2>8. \A c \in Calls : /\ IsFiniteSet(Marking(c)')
                         /\ hooks'[c] <= Cardinality(Marking(c)') + Markers(c)'
    BY <2>1, <2>6, <2>7
  <2> QED
    BY <2>8, Zenon DEF HookInv
<1> QED
  BY <1>1, <1>2, <1>3, StepsSplit

(* post_tool_use sees a call once, and once more only for an attempt lost  *)
(* between the hook and its marker.                                        *)
THEOREM HooksAccounted == Spec => []HooksAreAccounted
<1>1. Init => TypeInv /\ TokenInv /\ JournalInv /\ HookInv
  BY TypeInit, TokenInit, JournalInit, HookInit
<1>2. TypeInv /\ TokenInv /\ JournalInv /\ HookInv /\ [Next]_vars
        => (TypeInv /\ TokenInv /\ JournalInv /\ HookInv)'
  BY TypeNext, TokenNext, JournalNext, HookNext
<1>3. TypeInv /\ HookInv => HooksAreAccounted
  <2> SUFFICES ASSUME TypeInv, HookInv, NEW c \in Calls
               PROVE  hooks[c] <= 1 + Cardinality(Marking(c))
    BY DEF HooksAreAccounted, Marking
  <2>1. IsFiniteSet(Marking(c)) /\ hooks[c] <= Cardinality(Marking(c)) + Markers(c)
    BY DEF HookInv
  <2>2. Cardinality(Marking(c)) \in Nat
    BY <2>1, FS_CardinalityType
  <2> QED
    BY <2>1, <2>2 DEF Markers, TypeInv, TypeOK
<1> QED
  BY <1>1, <1>2, <1>3, PTL DEF Spec

-----------------------------------------------------------------------------
(* Nothing begins behind a gate's suspension.  The round is a chain of     *)
(* barriers: a call that has begun stands behind resolved calls only, so   *)
(* when a call is suspended the ones behind it have not begun.  From then  *)
(* on they only replay what is on record, or are refused.                  *)

Early(a) == phase[a] \in {"new", "opened", "model"}

(* Where a call behind a suspension may be.                                *)
Harmless == {"idle", "gating", "journal", "hooking", "marking"} \cup Resolved

Waits(a, d) ==
  pc[a][d] \in Harmless \/ (pc[a][d] = "ready" /\ entries[StepKey(d)].status = "done")

BarrierInv ==
  /\ \A a \in Attempts : Early(a) => \A c \in Calls : pc[a][c] = "idle"
  /\ \A a \in Attempts, c, d \in Calls :
       Before(c, d) /\ pc[a][d] # "idle" => pc[a][c] \in Resolved
  /\ \A a \in Attempts, c \in Calls :
       phase[a] = "round" /\ pc[a][c] = "suspended" => a \in blocked
  /\ \A a \in Attempts, c, d \in Calls :
       Before(c, d) /\ pc[a][c] = "suspended" => Waits(a, d)

LEMMA BarrierInit == Init => BarrierInv
<1> SUFFICES ASSUME Init
             PROVE  BarrierInv
  OBVIOUS
<1>1. \A a \in Attempts, c \in Calls : pc[a][c] = "idle"
  BY EffectsAssumption DEF Init, Effect
<1> QED
  BY <1>1 DEF BarrierInv

(* How the lease block and the note of a suspension move: the round starts *)
(* without one, before any call, and never loses one.                      *)
Paced ==
  \A a \in Attempts :
    /\ Early(a)' => Early(a)
    /\ phase'[a] = "round" =>
         Early(a) \/ (phase[a] = "round" /\ (a \in blocked => a \in blocked'))

LEMMA PacedNext == TypeInv /\ [Next]_vars => Paced
<1> SUFFICES ASSUME TypeInv, [Next]_vars
             PROVE  Paced
  OBVIOUS
<1> USE DEF TypeInv, TypeOK
<1>1. ASSUME UNCHANGED phase, \A a \in Attempts : a \in blocked => a \in blocked'
      PROVE  Paced
  BY <1>1 DEF Paced, Early
<1>2. ASSUME NEW a \in Attempts, NEW to, phase' = [phase EXCEPT ![a] = to], UNCHANGED blocked,
             to \in {"opened", "model"} => Early(a), to # "round", to # "new"
      PROVE  Paced
  BY <1>2 DEF Paced, Early
<1>3. ASSUME NEW a \in Attempts,
             \/ Inspect(a) \/ Cancel(a) \/ Answer(a) \/ RefusePark(a) \/ FencedControl(a) \/ Crash(a)
             \/ \E s \in Effect : Indeterminate(a, s) \/ FencedOut(a, s)
      PROVE  Paced
  <2>1. ASSUME NEW how \in Ended \cup {"model"}, EndAs(a, how), how = "model" => Early(a)
        PROVE  Paced
    BY <1>2, <2>1 DEF EndAs
  <2> QED
    BY <1>2, <1>3, <2>1 DEF Inspect, Cancel, Answer, RefusePark, FencedControl, Crash, Indeterminate,
                            FencedOut, Early
<1>4. ASSUME NEW a \in Attempts, NEW s \in Effect, EffectStep(a, s)
      PROVE  Paced
  <2>1. CASE Withdraws(a, s)
    <3>1. phase' = phase \/ phase' = [phase EXCEPT ![a] = "raised"]
      BY <2>1 DEF Withdraws, WithdrawStep, Signals
    <3> QED
      BY <1>1, <1>2, <2>1, <3>1 DEF Withdraws, WithdrawStep, Signals
  <2>2. CASE \/ ReplayStep(a, s) \/ ReadAbsent(a, s) \/ ReadRunning(a, s) \/ NothingHappened(a, s)
             \/ \E v \in Produces(s) : Execute(a, s, v)
    BY <1>1, <2>2 DEF ReplayStep, ReadAbsent, ReadRunning, NothingHappened, Execute
  <2>3. CASE ClearStep(a, s) \/ StartStep(a, s) \/ FinishStep(a, s)
    BY <1>1, <2>3 DEF ClearStep, StartStep, FinishStep
  <2> QED
    BY <1>3, <1>4, <2>1, <2>2, <2>3 DEF EffectStep, Withdraws
<1>5. ASSUME NEW a \in Attempts, NEW c \in Calls, CallStep(a, c)
      PROVE  Paced
  BY <1>1, <1>5 DEF CallStep, CheckRecorded, Continue, Refuse, Suspend, ReplayJournal,
                    NotJournalled, Hook, WriteMarker
<1>6. ASSUME NEW a \in Attempts, RecordPending(a)
      PROVE  Paced
  BY <1>6 DEF RecordPending, Paced, Early
<1>7. ASSUME NEW a \in Attempts, ParkRound(a)
      PROVE  Paced
  BY <1>2, <1>7 DEF ParkRound
<1>8. ASSUME NEW a \in Attempts, Begin(a) \/ Renew(a) \/ Close(a)
      PROVE  Paced
  BY <1>1, <1>2, <1>8 DEF Begin, Renew, Close, attemptVars, Early
<1>9. CASE ExpireLease \/ UNCHANGED vars
  BY <1>1, <1>9 DEF ExpireLease, vars, attemptVars
<1> QED
  BY <1>3, <1>4, <1>5, <1>6, <1>7, <1>8, <1>9 DEF Next, AttemptStep

(* One step of a call.                                                     *)
Barred(a, d, to) ==
  /\ phase[a] = "round"
  /\ pc' = [pc EXCEPT ![a][d] = to]
  /\ to # "idle"
  /\ pc[a][d] = "idle" => /\ MyTurn(a, d)
                          /\ to = "gating" \/ (to = "ready" /\ entries[StepKey(d)].status = "done")
  /\ pc[a][d] \notin Resolved
  /\ to = "suspended" => pc[a][d] = "gating" /\ a \in blocked'
  /\ pc[a][d] = "gating" => to \in Resolved \/ (to = "ready" /\ a \notin blocked)
  /\ pc[a][d] = "ready" => to = "journal" \/ entries[StepKey(d)].status # "done"
  /\ pc[a][d] \in {"journal", "hooking", "marking"} => to \in Harmless

LEMMA CallsAreBarred ==
  ASSUME TypeInv, NEW a \in Attempts, NEW d \in Calls, Thinks(a, d) \/ Writes(a, d)
  PROVE  \E to \in Places : Barred(a, d, to)
<1> USE DEF TypeInv, TypeOK, Barred, Harmless
<1>0. d \in Effect /\ d # Model /\ Replayed(d) = "journal"
  BY EffectsAssumption DEF Effect, Replayed
<1>1. L!Absent.status # "done" /\ L!Running.status # "done"
  BY DEF L!Absent, L!Running
<1>2. CASE ReadAbsent(a, d) \/ ReadRunning(a, d) \/ NothingHappened(a, d)
  BY <1>0, <1>1, <1>2 DEF ReadAbsent, ReadRunning, NothingHappened, Go, Active
<1>3. CASE CheckRecorded(a, d)
  BY <1>0, <1>3 DEF CheckRecorded, Go, Active
<1>4. CASE Continue(a, d) \/ Refuse(a, d) \/ Suspend(a, d) \/ NotJournalled(a, d)
  BY <1>0, <1>4 DEF Continue, Refuse, Suspend, NotJournalled, Go, Active
<1>5. CASE ReplayStep(a, d) \/ ReplayJournal(a, d)
  BY <1>0, <1>5 DEF ReplayStep, ReplayJournal, Go, Active
<1>6. CASE \/ \E v \in Produces(d) : Execute(a, d, v)
           \/ \E v \in Values : Hook(a, d, v)
  BY <1>0, <1>6 DEF Execute, Hook, Go, Active
<1>7. CASE ClearStep(a, d) \/ StartStep(a, d) \/ Withdraws(a, d) \/ FinishStep(a, d)
           \/ WriteMarker(a, d)
  BY <1>0, <1>7 DEF ClearStep, StartStep, Withdraws, WithdrawStep, Signals, FinishStep, WriteMarker, Go, Active
<1> QED
  BY <1>2, <1>3, <1>4, <1>5, <1>6, <1>7 DEF Thinks, Writes

(* No step takes a result off the record.                                  *)
LEMMA ResultsStay ==
  ASSUME TypeInv, TokenInv, [Next]_vars, NEW d \in Calls, entries[StepKey(d)].status = "done"
  PROVE  entries'[StepKey(d)].status = "done"
<1>0. d \in Effect
  BY DEF Effect
<1>1. CASE Elsewhere
  BY <1>0, <1>1 DEF Elsewhere
<1>2. ASSUME NEW a \in Attempts, NEW s \in Effect, Thinks(a, s)
      PROVE  entries'[StepKey(d)].status = "done"
  BY <1>2 DEF Thinks
<1>3. ASSUME NEW a \in Attempts, NEW s \in Effect, Writes(a, s)
      PROVE  entries'[StepKey(d)].status = "done"
  <2>1. CASE d # s
    BY <1>0, <1>3, <2>1, WritesTouch, KeyFacts
  <2>2. CASE d = s
    <3>1. WriteMoves(a, s)
      BY <1>3, WritesMove
    <3>2. StepKey(s) \in DOMAIN entries
      BY KeyFacts DEF TypeInv, TypeOK
    <3>3. L!Absent.status # "done" /\ \A v : L!Done(v).status = "done"
      BY DEF L!Absent, L!Done
    <3>4. CASE pc[a][s] \in {"clearing", "withdrawing"}
      BY <2>2, <3>1, <3>2, <3>4 DEF WriteMoves
    <3>5. CASE pc[a][s] \in {"starting", "finishing"}
      BY <2>2, <3>1, <3>2, <3>3, <3>5 DEF WriteMoves
    <3>6. CASE pc[a][s] = "marking"
      <4>1. s \in Calls /\ entries' = [entries EXCEPT ![AfterKey(s)] = L!Done(got[a][s])]
        BY <3>1, <3>6 DEF WriteMoves
      <4>2. entries'[StepKey(s)] = entries[StepKey(s)]
        BY <4>1, KeyFacts
      <4> QED
        BY <2>2, <4>2
    <3> QED
      BY <3>1, <3>4, <3>5, <3>6 DEF WriteMoves
  <2> QED
    BY <2>1, <2>2
<1> QED
  BY <1>1, <1>2, <1>3, StepsSplit

LEMMA BarrierNext ==
  ~ Parallel /\ TypeInv /\ TokenInv /\ BarrierInv /\ [Next]_vars => BarrierInv'
<1> SUFFICES ASSUME ~ Parallel, TypeInv, TokenInv, BarrierInv, [Next]_vars
             PROVE  BarrierInv'
  OBVIOUS
<1> USE DEF TypeInv, TypeOK
<1>0. Calls \subseteq Effect /\ Paced
  BY PacedNext DEF Effect
<1>1. ASSUME \A a \in Attempts, c \in Calls : pc'[a][c] = pc[a][c]
      PROVE  BarrierInv'
  <2>1. \A a \in Attempts : Early(a)' => \A c \in Calls : pc'[a][c] = "idle"
    BY <1>0, <1>1 DEF BarrierInv, Paced
  <2>2. \A a \in Attempts, c, d \in Calls :
          Before(c, d) /\ pc'[a][d] # "idle" => pc'[a][c] \in Resolved
    <3>1. \A a \in Attempts, c, d \in Calls :
            Before(c, d) /\ pc[a][d] # "idle" => pc[a][c] \in Resolved
      BY Zenon DEF BarrierInv
    <3>2. \A a \in Attempts, c, d \in Calls : pc'[a][c] = pc[a][c] /\ pc'[a][d] = pc[a][d]
      BY <1>1
    <3> HIDE DEF TypeInv, TypeOK, Before, Resolved
    <3> QED
      BY <3>1, <3>2, Zenon
  <2>3. ASSUME NEW a \in Attempts, NEW c \in Calls,
               phase'[a] = "round", pc'[a][c] = "suspended"
        PROVE  a \in blocked'
    <3>1. pc[a][c] = "suspended" /\ ~ Early(a)
      BY <1>1, <2>3 DEF BarrierInv
    <3> QED
      BY <1>0, <2>3, <3>1 DEF BarrierInv, Paced
  <2>4. ASSUME NEW a \in Attempts, NEW d \in Calls, Waits(a, d)
        PROVE  Waits(a, d)'
    <3>1. pc'[a][d] = pc[a][d]
      BY <1>1
    <3>2. entries[StepKey(d)].status = "done" => entries'[StepKey(d)].status = "done"
      BY ResultsStay
    <3> QED
      BY <2>4, <3>1, <3>2, Zenon DEF Waits, Harmless
  <2>5. ASSUME NEW a \in Attempts, NEW c \in Calls, NEW d \in Calls,
               Before(c, d), pc'[a][c] = "suspended"
        PROVE  Waits(a, d)'
    <3>1. pc[a][c] = "suspended"
      BY <1>1, <2>5
    <3>2. Waits(a, d)
      BY <2>5, <3>1, Zenon DEF BarrierInv
    <3> QED
      BY <2>4, <3>2, Zenon
  <2> QED
    BY <2>1, <2>2, <2>3, <2>5 DEF BarrierInv, Before
<1>2. CASE Elsewhere
  BY <1>1, <1>2 DEF Elsewhere
<1>3. ASSUME NEW a \in Attempts, Thinks(a, Model) \/ Writes(a, Model)
      PROVE  BarrierInv'
  <2>0. Model \in Effect
    BY DEF Effect
  <2>1. \E to \in Places : pc' = [pc EXCEPT ![a][Model] = to]
    <3>1. ASSUME NEW s \in Effect, Thinks(a, s)
          PROVE  \E to \in Places : pc' = [pc EXCEPT ![a][s] = to]
      BY <3>1, ThinksMoves
    <3>2. CASE Writes(a, Model)
      BY <2>0, <3>2, WritesMove DEF WriteMoves
    <3> QED
      BY <1>3, <2>0, <3>1, <3>2
  <2> QED
    BY <1>0, <1>1, <2>1, EffectsAssumption
<1>4. ASSUME NEW a \in Attempts, NEW d \in Calls, Thinks(a, d) \/ Writes(a, d)
      PROVE  BarrierInv'
  <2>1. PICK to \in Places : Barred(a, d, to)
    BY <1>4, CallsAreBarred
  <2>2. \A b \in Attempts, c \in Calls :
          pc'[b][c] = IF b = a /\ c = d THEN to ELSE pc[b][c]
    BY <1>0, <2>1 DEF Barred
  <2>3. phase[a] = "round" /\ ~ Early(a)
    BY <2>1 DEF Barred, Early
  <2>4. ASSUME NEW b \in Attempts, Early(b)', NEW c \in Calls
        PROVE  pc'[b][c] = "idle"
    <3>1. Early(b)
      BY <1>0, <2>4 DEF Paced
    <3>2. b # a /\ pc[b][c] = "idle"
      BY <2>3, <3>1 DEF BarrierInv
    <3> QED
      BY <2>2, <3>2
  <2>5. ASSUME NEW b \in Attempts, NEW c \in Calls, NEW e \in Calls,
               Before(c, e), pc'[b][e] # "idle"
        PROVE  pc'[b][c] \in Resolved
    <3>1. pc[b][c] \in Resolved
      <4>1. CASE pc[b][e] # "idle"
        BY <2>5, <4>1 DEF BarrierInv
      <4>2. CASE pc[b][e] = "idle"
        <5>1. b = a /\ e = d
          BY <2>2, <2>5, <4>2
        <5> QED
          BY <2>1, <2>5, <4>2, <5>1 DEF Barred, MyTurn
      <4> QED
        BY <4>1, <4>2
    <3>2. pc'[b][c] = pc[b][c]
      BY <2>1, <2>2, <3>1 DEF Barred
    <3> QED
      BY <3>1, <3>2
  <2>6. ASSUME NEW b \in Attempts, NEW c \in Calls, phase'[b] = "round", pc'[b][c] = "suspended"
        PROVE  b \in blocked'
    <3>1. CASE b = a /\ c = d
      BY <2>1, <2>2, <2>6, <3>1 DEF Barred
    <3>2. CASE ~ (b = a /\ c = d)
      <4>1. pc[b][c] = "suspended" /\ ~ Early(b)
        BY <2>2, <2>6, <3>2 DEF BarrierInv
      <4> QED
        BY <1>0, <2>6, <4>1 DEF BarrierInv, Paced
    <3> QED
      BY <3>1, <3>2
  <2>7. ASSUME NEW b \in Attempts, NEW c \in Calls, NEW e \in Calls,
               Before(c, e), pc'[b][c] = "suspended"
        PROVE  Waits(b, e)'
    <3>1. CASE b = a /\ c = d
      <4>1. pc[a][d] = "gating"
        BY <2>1, <2>2, <2>7, <3>1 DEF Barred
      <4>2. pc[a][e] = "idle"
        BY <2>7, <3>1, <4>1 DEF BarrierInv
      <4>3. pc'[a][e] = "idle"
        BY <2>2, <4>1, <4>2
      <4> QED
        BY <3>1, <4>3 DEF Waits, Harmless
    <3>2. CASE ~ (b = a /\ c = d) /\ b = a /\ e = d
      <4>1. pc[a][c] = "suspended"
        BY <2>2, <2>7, <3>2
      <4>2. Waits(a, d) /\ a \in blocked
        BY <2>3, <2>7, <3>2, <4>1 DEF BarrierInv
      <4>3. to \in Harmless \/ (to = "ready" /\ entries[StepKey(d)].status = "done")
        BY <2>1, <4>2 DEF Barred, Waits, Harmless
      <4>4. pc'[a][d] = to
        BY <2>2
      <4> QED
        BY <3>2, <4>3, <4>4, ResultsStay DEF Waits
    <3>3. CASE ~ (b = a /\ c = d) /\ ~ (b = a /\ e = d)
      <4>1. pc[b][c] = "suspended" /\ pc'[b][e] = pc[b][e]
        BY <2>2, <2>7, <3>3
      <4>2. Waits(b, e)
        BY <2>7, <4>1 DEF BarrierInv
      <4> QED
        BY <4>1, <4>2, ResultsStay DEF Waits
    <3> QED
      BY <3>1, <3>2, <3>3
  <2> QED
    BY <2>4, <2>5, <2>6, <2>7 DEF BarrierInv, Before
<1> QED
  <2>1. Elsewhere \/ \E a \in Attempts, s \in Effect : Thinks(a, s) \/ Writes(a, s)
    BY StepsSplit
  <2>2. Effect = Calls \cup {Model}
    BY DEF Effect
  <2> QED
    BY <1>2, <1>3, <1>4, <2>1, <2>2

(* In a sequential round nothing has begun behind a call that its gate     *)
(* suspended.  A body that raises ApprovalRequired holds nothing back.     *)
THEOREM SuspensionBars == Spec => []NothingBeginsBehindSuspension
<1>1. CASE Parallel
  <2>1. NothingBeginsBehindSuspension
    BY <1>1 DEF NothingBeginsBehindSuspension
  <2> QED
    BY <2>1, PTL
<1>2. CASE ~ Parallel
  <2>1. Init => TypeInv /\ TokenInv /\ BarrierInv
    BY TypeInit, TokenInit, BarrierInit
  <2>2. TypeInv /\ TokenInv /\ BarrierInv /\ [Next]_vars => (TypeInv /\ TokenInv /\ BarrierInv)'
    BY <1>2, TypeNext, TokenNext, BarrierNext
  <2>3. BarrierInv => NothingBeginsBehindSuspension
    BY DEF BarrierInv, NothingBeginsBehindSuspension, Waits, Harmless
  <2> QED
    BY <2>1, <2>2, <2>3, PTL DEF Spec
<1> QED
  BY <1>1, <1>2

-----------------------------------------------------------------------------
(* The answer of a gate comes long after the record was read.  While the   *)
(* attempt owns the branch nobody else can put a result on record, and it  *)
(* does not run the call it asks about, nor the one it will park.          *)

GateInv ==
  \A a \in Attempts, c \in Calls :
    token[a] = issued /\ pc[a][c] \in {"gating", "suspended"} =>
      entries[StepKey(c)].status # "done"

LEMMA GateInit == Init => GateInv
  BY EffectsAssumption DEF Init, GateInv, Effect

LEMMA GateNext == TypeInv /\ TokenInv /\ GateInv /\ [Next]_vars => GateInv'
<1> SUFFICES ASSUME TypeInv, TokenInv, GateInv, [Next]_vars,
                    NEW a \in Attempts, NEW c \in Calls,
                    token'[a] = issued', pc'[a][c] \in {"gating", "suspended"}
             PROVE  entries'[StepKey(c)].status # "done"
  BY DEF GateInv
<1> USE DEF TypeInv, TypeOK
<1>0. c \in Effect
  BY DEF Effect
<1>1. CASE Elsewhere
  <2>1. /\ pc' = pc /\ entries'[StepKey(c)] = entries[StepKey(c)]
        /\ token[a] = issued \/ pc[a][c] \in {"idle", "ready"}
    BY <1>0, <1>1, Zenon DEF Elsewhere
  <2> QED
    BY <2>1 DEF GateInv
<1>2. ASSUME NEW b \in Attempts, NEW s \in Effect, Thinks(b, s)
      PROVE  entries'[StepKey(c)].status # "done"
  <2>1. UNCHANGED <<entries, issued, token>>
    BY <1>2 DEF Thinks
  <2>2. CASE pc[a][c] \in {"gating", "suspended"}
    BY <2>1, <2>2 DEF GateInv
  <2>3. CASE pc[a][c] \notin {"gating", "suspended"}
    <3>1. PICK to \in Places : pc' = [pc EXCEPT ![b][s] = to]
      BY <1>2, ThinksMoves
    <3>2. b = a /\ s = c
      BY <1>0, <2>3, <3>1
    <3>3. PICK to2 \in Places : Barred(a, c, to2)
      BY <1>2, <3>2, CallsAreBarred
    <3>4. to2 = "gating"
      BY <1>0, <2>3, <3>3 DEF Barred
    <3>5. CheckRecorded(a, c)
      BY <1>0, <1>2, <2>3, <3>2, <3>4, EffectsAssumption
      DEF Thinks, ReadAbsent, ReadRunning, NothingHappened, Continue, Refuse, Suspend,
          NotJournalled, ReplayStep, ReplayJournal, Execute, Hook, Go, Replayed
    <3> QED
      BY <1>0, <2>1, <3>5 DEF CheckRecorded, Go
  <2> QED
    BY <2>2, <2>3
<1>3. ASSUME NEW b \in Attempts, NEW s \in Effect, Writes(b, s)
      PROVE  entries'[StepKey(c)].status # "done"
  <2>0. WriteMoves(b, s)
    BY <1>3, WritesMove
  <2>1. UNCHANGED <<issued, token>> /\ token[b] = issued /\ a = b
    BY <1>3 DEF Writes
  <2>2. PICK to \in Places :
          pc' = [pc EXCEPT ![b][s] = to] /\ to \notin {"gating", "suspended"}
    <3>1. PICK to \in Places : pc' = [pc EXCEPT ![b][s] = to]
      BY <2>0 DEF WriteMoves
    <3>2. pc'[b][s] \notin {"gating", "suspended"}
      BY <2>0 DEF WriteMoves, Replayed
    <3> QED
      BY <3>1, <3>2
  <2>3. s # c /\ pc[a][c] \in {"gating", "suspended"}
    BY <1>0, <2>1, <2>2
  <2>4. entries'[StepKey(c)] = entries[StepKey(c)]
    BY <1>0, <1>3, <2>3, WritesTouch, KeyFacts
  <2> QED
    BY <2>1, <2>3, <2>4 DEF GateInv
<1> QED
  BY <1>1, <1>2, <1>3, StepsSplit

(* The attempt that owns the branch never tells the model "not executed"   *)
(* of a call whose result is on record.                                    *)
THEOREM RefusalsAreRight == Spec => RefusalsRespectRecords
<1>1. Init => TypeInv /\ TokenInv /\ GateInv
  BY TypeInit, TokenInit, GateInit
<1>2. TypeInv /\ TokenInv /\ GateInv /\ [Next]_vars => (TypeInv /\ TokenInv /\ GateInv)'
  BY TypeNext, TokenNext, GateNext
<1>3. GateInv => \A a \in Attempts, c \in Calls :
        /\ pc[a][c] = "gating" /\ pc'[a][c] \in {"refused", "suspended"}
        /\ token[a] = issued
        => entries[StepKey(c)].status # "done"
  BY DEF GateInv
<1> QED
  BY <1>1, <1>2, <1>3, PTL DEF Spec, RefusalsRespectRecords

(* Approvals are asked of calls without a result, and of a body's own      *)
(* request without an intent.                                              *)
THEOREM ApprovalsAskAhead == Spec => []ApprovalsAreOfTheFuture
<1>1. Init => TypeInv /\ TokenInv /\ OwnInv /\ GateInv
  BY TypeInit, TokenInit, OwnInit, GateInit
<1>2. TypeInv /\ TokenInv /\ OwnInv /\ GateInv /\ [Next]_vars
        => (TypeInv /\ TokenInv /\ OwnInv /\ GateInv)'
  BY TypeNext, TokenNext, OwnNext, GateNext
<1>3. OwnInv /\ GateInv => ApprovalsAreOfTheFuture
  BY DEF OwnInv, GateInv, ApprovalsAreOfTheFuture, Effect
<1> QED
  BY <1>1, <1>2, <1>3, PTL DEF Spec

-----------------------------------------------------------------------------
(* The boundary implements EffectOnce where nothing retries.  Taking an    *)
(* intent, withdrawing it, running, recording and writing the marker are   *)
(* the steps of the abstract machine, each at the stage it starts from;    *)
(* everything else an attempt does, and all that happens to leases, leaves *)
(* it where it was.                                                        *)

(* What is shown of a call is shown after its result was recorded.         *)
Past == {"journal", "hooking", "marking", "answered"}

PastInv ==
  \A a \in Attempts, c \in Calls :
    pc[a][c] \in Past => entries[StepKey(c)].status = "done"

LEMMA PastInit == Init => PastInv
  BY EffectsAssumption DEF Init, PastInv, Past, Effect

LEMMA PastNext == TypeInv /\ TokenInv /\ PastInv /\ [Next]_vars => PastInv'
<1> SUFFICES ASSUME TypeInv, TokenInv, PastInv, [Next]_vars,
                    NEW a \in Attempts, NEW c \in Calls, pc'[a][c] \in Past
             PROVE  entries'[StepKey(c)].status = "done"
  BY DEF PastInv
<1> USE DEF TypeInv, TypeOK
<1>0. c \in Effect /\ c # Model /\ Replayed(c) = "journal"
  BY EffectsAssumption DEF Effect, Replayed
<1>1. CASE pc[a][c] \in Past
  BY <1>1, ResultsStay DEF PastInv
<1>2. CASE Elsewhere
  BY <1>1, <1>2 DEF Elsewhere
<1>3. ASSUME NEW b \in Attempts, NEW s \in Effect, Thinks(b, s), pc[a][c] \notin Past
      PROVE  entries'[StepKey(c)].status = "done"
  <2>1. PICK to \in Places : pc' = [pc EXCEPT ![b][s] = to]
    BY <1>3, ThinksMoves
  <2>2. b = a /\ s = c
    BY <1>0, <1>3, <2>1
  <2>3. Thinks(a, c) /\ pc[a][c] \notin Past /\ pc'[a][c] \in Past
    BY <1>3, <2>2
  <2>4. CASE ReplayStep(a, c)
    BY <2>4, ResultsStay DEF ReplayStep
  <2>5. CASE ReadAbsent(a, c) \/ ReadRunning(a, c) \/ NothingHappened(a, c)
             \/ CheckRecorded(a, c) \/ Continue(a, c) \/ Refuse(a, c) \/ Suspend(a, c)
    BY <1>0, <2>3, <2>5 DEF ReadAbsent, ReadRunning, NothingHappened, CheckRecorded, Continue,
                            Refuse, Suspend, Go, Past
  <2>6. CASE NotJournalled(a, c) \/ ReplayJournal(a, c)
             \/ (\E v \in Values : Hook(a, c, v)) \/ \E v \in Produces(c) : Execute(a, c, v)
    BY <1>0, <2>3, <2>6 DEF NotJournalled, ReplayJournal, Hook, Execute, Go, Past
  <2> QED
    BY <2>3, <2>4, <2>5, <2>6 DEF Thinks
<1>4. ASSUME NEW b \in Attempts, NEW s \in Effect, Writes(b, s), pc[a][c] \notin Past
      PROVE  entries'[StepKey(c)].status = "done"
  <2>0. WriteMoves(b, s)
    BY <1>4, WritesMove
  <2>1. PICK to \in Places : pc' = [pc EXCEPT ![b][s] = to]
    BY <2>0 DEF WriteMoves
  <2>2. b = a /\ s = c
    BY <1>0, <1>4, <2>1
  <2>3. pc[a][c] = "finishing"
    BY <1>0, <1>4, <2>0, <2>2 DEF WriteMoves, Past
  <2>4. entries'[StepKey(c)] = L!Done(got[a][c])
    BY <1>0, <2>0, <2>2, <2>3, KeyFacts DEF WriteMoves
  <2> QED
    BY <2>4 DEF L!Done
<1> QED
  BY <1>1, <1>2, <1>3, <1>4, StepsSplit

(* The abstract state depends on entries, runs and outcome only.           *)
LEMMA StageStays ==
  ASSUME NEW s \in Effect, entries'[StepKey(s)] = entries[StepKey(s)], runs'[s] = runs[s]
  PROVE  StageOf(s)' = StageOf(s)
  BY DEF StageOf

LEMMA ShownStays ==
  ASSUME NEW s \in Effect, s # Model => entries'[AfterKey(s)] = entries[AfterKey(s)]
  PROVE  ShownOf(s)' = ShownOf(s)
  BY DEF ShownOf

LEMMA StageValues ==
  ASSUME NEW s \in Effect
  PROVE  /\ entries[StepKey(s)] = L!Absent => StageOf(s) = "fresh"
         /\ entries[StepKey(s)] = L!Running =>
              StageOf(s) = IF runs[s] = 0 THEN "begun" ELSE "out"
         /\ entries[StepKey(s)].status = "done" => StageOf(s) = "recorded"
  BY DEF StageOf, L!Absent, L!Running

LEMMA StageMoves ==
  ASSUME NEW s \in Effect, NEW from, NEW to, StageOf(s) = from, StageOf(s)' = to,
         \A r \in Effect : r # s => StageOf(r)' = StageOf(r)
  PROVE  Once!Move(s, from, to)
  BY DEF Once!Move

(* The invariants the mapping rests on.                                    *)
OnceInv ==
  TypeInv /\ TokenInv /\ OwnInv /\ JournalInv /\ LicenceInv /\ RealInv /\ PastInv

LEMMA OnceInvariant ==
  /\ Init => OnceInv
  /\ OnceInv /\ [Next]_vars => OnceInv'
  BY TypeInit, TokenInit, OwnInit, JournalInit, LicenceInit, RealInit, PastInit,
     TypeNext, TokenNext, OwnNext, JournalNext, LicenceNext, RealNext, PastNext DEF OnceInv

(* An attempt that has an intent and has not used it finds it on record.   *)
LEMMA IntentIsThere ==
  ASSUME OnceInv, RetryAttempts = {}, NEW a \in Attempts, NEW s \in Effect,
         pc[a][s] \in {"executing", "withdrawing"}
  PROVE  entries[StepKey(s)] = L!Running /\ runs[s] = 0
<1>1. /\ IsFiniteSet(Going(s)) /\ runs[s] + Cardinality(Going(s)) <= licensed[s] + Intents(s)
      /\ licensed[s] = 0
  BY DEF OnceInv, LicenceInv
<1>2. a \in Going(s)
  BY DEF Going
<1>3. Cardinality(Going(s)) \in Nat /\ Cardinality(Going(s)) # 0
  BY <1>1, <1>2, FS_CardinalityType, FS_EmptySet
<1>4. runs[s] \in Nat /\ entries[StepKey(s)] \in L!Steps
  BY KeyFacts DEF OnceInv, TypeInv, TypeOK
<1>5. Intents(s) \in {0, 1}
  BY DEF Intents
<1>6. Intents(s) = 1 /\ runs[s] = 0
  BY <1>1, <1>3, <1>4, <1>5
<1>7. entries[StepKey(s)].status # "done"
  BY <1>6 DEF OnceInv, RealInv
<1> QED
  BY <1>4, <1>6, <1>7 DEF Intents, L!Steps, L!Done

(* Nor has a step without an intent gone out.                              *)
LEMMA NothingIsOut ==
  ASSUME OnceInv, RetryAttempts = {}, NEW s \in Effect, entries[StepKey(s)] = L!Absent
  PROVE  runs[s] = 0
<1>1. /\ IsFiniteSet(Going(s)) /\ runs[s] + Cardinality(Going(s)) <= licensed[s] + Intents(s)
      /\ licensed[s] = 0
  BY DEF OnceInv, LicenceInv
<1>2. Intents(s) = 0
  BY DEF Intents, L!Absent, L!Running
<1>3. Cardinality(Going(s)) \in Nat
  BY <1>1, FS_CardinalityType
<1>4. runs[s] \in Nat
  BY DEF OnceInv, TypeInv, TypeOK
<1> QED
  BY <1>1, <1>2, <1>3, <1>4

(* What a thinking attempt does to the outcomes.                           *)
LEMMA ThinksOfOutcomes ==
  ASSUME TypeInv, NEW a \in Attempts, NEW s \in Effect, Thinks(a, s)
  PROVE  \E to \in Places :
           /\ pc' = [pc EXCEPT ![a][s] = to]
           /\ to = "finishing" => /\ pc[a][s] = "executing"
                                  /\ runs' = [runs EXCEPT ![s] = @ + 1]
                                  /\ \E v : /\ got' = [got EXCEPT ![a][s] = v]
                                            /\ outcome' = [outcome EXCEPT ![s] = v]
           /\ to # "finishing" => UNCHANGED <<runs, outcome>>
<1> USE DEF TypeInv, TypeOK
<1> QED
  BY ThinksMoves

LEMMA ShownMoves ==
  ASSUME NEW s \in Effect, NEW v, StageOf(s) = "recorded", ShownOf(s) = NoValue,
         ShownOf(s)' = v, outcome' = outcome,
         \A r \in Effect : StageOf(r)' = StageOf(r),
         \A r \in Effect : r # s => ShownOf(r)' = ShownOf(r)
  PROVE  Once!Show(s, v)
  BY DEF Once!Show

LEMMA OnceInit == Init => Once!Init
<1> SUFFICES ASSUME Init
             PROVE  Once!Init
  OBVIOUS
<1>1. \A s \in Effect : StageOf(s) = "fresh" /\ ShownOf(s) = NoValue
  BY KeyFacts DEF Init, L!Init, StageOf, ShownOf, L!Absent, Effect
<1> QED
  BY <1>1 DEF Init, Once!Init

LEMMA OnceNext ==
  ASSUME RetryAttempts = {}, OnceInv, OnceInv', [Next]_vars
  PROVE  [Once!Next]_(Once!vars)
<1> USE DEF OnceInv, TypeInv, TypeOK
<1>1. ASSUME \A s \in Effect : /\ entries'[StepKey(s)] = entries[StepKey(s)]
                               /\ s # Model => entries'[AfterKey(s)] = entries[AfterKey(s)],
             UNCHANGED <<runs, outcome>>
      PROVE  UNCHANGED Once!vars
  <2>1. \A s \in Effect : StageOf(s)' = StageOf(s) /\ ShownOf(s)' = ShownOf(s)
    BY <1>1, StageStays, ShownStays
  <2> QED
    BY <1>1, <2>1 DEF Once!vars
<1>2. CASE Elsewhere
  <2>1. \A s \in Effect : s # Model => s \in Calls
    BY DEF Effect
  <2> QED
    BY <1>1, <1>2, <2>1 DEF Elsewhere
<1>3. ASSUME NEW a \in Attempts, NEW s \in Effect, Thinks(a, s)
      PROVE  [Once!Next]_(Once!vars)
  <2>1. entries' = entries
    BY <1>3 DEF Thinks
  <2>2. PICK to \in Places :
           /\ pc' = [pc EXCEPT ![a][s] = to]
           /\ to = "finishing" => /\ pc[a][s] = "executing"
                                  /\ runs' = [runs EXCEPT ![s] = @ + 1]
                                  /\ \E v : /\ got' = [got EXCEPT ![a][s] = v]
                                            /\ outcome' = [outcome EXCEPT ![s] = v]
           /\ to # "finishing" => UNCHANGED <<runs, outcome>>
    BY <1>3, ThinksOfOutcomes
  <2>3. CASE to # "finishing"
    BY <1>1, <2>1, <2>2, <2>3
  <2>4. CASE to = "finishing"
    <3>1. PICK v : /\ got' = [got EXCEPT ![a][s] = v]
                   /\ outcome' = [outcome EXCEPT ![s] = v]
      BY <2>2, <2>4
    <3>2. v \in Values \cup {Response}
      <4>1. pc'[a][s] = "finishing" /\ got'[a][s] = v
        BY <2>2, <2>4, <3>1
      <4> QED
        BY <4>1 DEF Carried
    <3>3. pc[a][s] = "executing" /\ runs' = [runs EXCEPT ![s] = @ + 1]
      BY <2>2, <2>4
    <3>4. entries[StepKey(s)] = L!Running /\ runs[s] = 0
      BY <3>3, IntentIsThere
    <3>5. StageOf(s) = "begun"
      BY <3>4, StageValues
    <3>6. StageOf(s)' = "out"
      BY <2>1, <3>3, <3>4 DEF StageOf, L!Running
    <3>7. \A r \in Effect : r # s => StageOf(r)' = StageOf(r)
      BY <2>1, <3>3, StageStays
    <3>8. \A r \in Effect : ShownOf(r)' = ShownOf(r)
      BY <2>1, ShownStays
    <3>9. Once!GoOut(s, v)
      BY <3>1, <3>5, <3>6, <3>7, <3>8, StageMoves DEF Once!GoOut
    <3> QED
      BY <3>2, <3>9 DEF Once!Next
  <2> QED
    BY <2>3, <2>4
<1>4. ASSUME NEW a \in Attempts, NEW s \in Effect, Writes(a, s)
      PROVE  [Once!Next]_(Once!vars)
  <2>0. WriteMoves(a, s)
    BY <1>4, WritesMove
  <2>1. /\ UNCHANGED <<runs, outcome>> /\ token[a] = issued
    BY <1>4 DEF Writes
  <2>2. StepKey(s) \in DOMAIN entries /\ StepKey(s) \in L!Keys
    BY KeyFacts
  <2>3. \A r \in Effect : r # s => StageOf(r)' = StageOf(r)
    <3>1. \A r \in Effect : r # s => entries'[StepKey(r)] = entries[StepKey(r)]
      BY <1>4, WritesTouch, KeyFacts
    <3> QED
      BY <2>1, <3>1, StageStays
  <2>4. ASSUME pc[a][s] # "marking"
        PROVE  \A r \in Effect : ShownOf(r)' = ShownOf(r)
    <3>1. \E v : entries' = [entries EXCEPT ![StepKey(s)] = v]
      <4>1. ASSUME NEW v, entries' = [entries EXCEPT ![StepKey(s)] = v]
            PROVE  \E w : entries' = [entries EXCEPT ![StepKey(s)] = w]
        BY <4>1
      <4>2. CASE entries' = [entries EXCEPT ![StepKey(s)] =
                             IF @.status = "done" THEN @ ELSE L!Absent]
        BY <4>1, <4>2
      <4> QED
        BY <2>0, <2>4, <4>1, <4>2 DEF WriteMoves
    <3>2. \A c \in Calls : entries'[AfterKey(c)] = entries[AfterKey(c)]
      BY <3>1, KeyFacts
    <3>3. \A r \in Effect : r # Model => r \in Calls
      BY DEF Effect
    <3> QED
      BY <3>2, <3>3, ShownStays
  <2>5. CASE pc[a][s] = "clearing"
    BY <2>5 DEF LicenceInv
  <2>6. CASE pc[a][s] = "starting"
    <3>1. /\ entries[StepKey(s)] = L!Absent /\ entries'[StepKey(s)] = L!Running
      BY <2>0, <2>2, <2>6 DEF WriteMoves
    <3>2. runs[s] = 0
      BY <3>1, NothingIsOut
    <3>3. StageOf(s) = "fresh" /\ StageOf(s)' = "begun"
      BY <2>1, <3>1, <3>2 DEF StageOf, L!Absent, L!Running
    <3>4. Once!Begin(s)
      BY <2>1, <2>3, <2>4, <2>6, <3>3, StageMoves DEF Once!Begin
    <3> QED
      BY <3>4 DEF Once!Next
  <2>7. CASE pc[a][s] = "withdrawing"
    <3>1. entries[StepKey(s)] = L!Running /\ runs[s] = 0
      BY <2>7, IntentIsThere
    <3>2. entries'[StepKey(s)] = L!Absent
      BY <2>0, <2>2, <2>7, <3>1 DEF WriteMoves, L!Running
    <3>3. StageOf(s) = "begun" /\ StageOf(s)' = "fresh"
      BY <3>1, <3>2 DEF StageOf, L!Absent, L!Running
    <3>4. Once!Withdraw(s)
      BY <2>1, <2>3, <2>4, <2>7, <3>3, StageMoves DEF Once!Withdraw
    <3> QED
      BY <3>4 DEF Once!Next
  <2>8. CASE pc[a][s] = "finishing"
    <3>1. entries[StepKey(s)] = L!Running /\ runs[s] > 0
      BY <2>1, <2>8 DEF OwnInv, RealInv
    <3>2. entries'[StepKey(s)] = L!Done(got[a][s])
      BY <2>0, <2>2, <2>8 DEF WriteMoves
    <3>3. StageOf(s) = "out" /\ StageOf(s)' = "recorded"
      BY <3>1, <3>2 DEF StageOf, L!Done, L!Running
    <3>4. Once!Record(s)
      BY <2>1, <2>3, <2>4, <2>8, <3>3, StageMoves DEF Once!Record
    <3> QED
      BY <3>4 DEF Once!Next
  <2>9. CASE pc[a][s] = "marking"
    <3>1. /\ s \in Calls /\ s # Model
          /\ entries' = [entries EXCEPT ![AfterKey(s)] = L!Done(got[a][s])]
      BY <2>0, <2>9, EffectsAssumption DEF WriteMoves
    <3>2. entries[AfterKey(s)] = L!Absent
      BY <2>1, <2>9, <3>1 DEF JournalInv
    <3>3. entries'[AfterKey(s)] = L!Done(got[a][s])
      BY <3>1, KeyFacts
    <3>4. got[a][s] \in Values \cup {Response}
      BY <2>9 DEF Carried
    <3>5. ShownOf(s) = NoValue /\ ShownOf(s)' = got[a][s]
      BY <3>1, <3>2, <3>3 DEF ShownOf, L!Done, L!Absent
    <3>6. \A r \in Effect : r # s => ShownOf(r)' = ShownOf(r)
      <4>1. \A r \in Effect : r # Model => r \in Calls
        BY DEF Effect
      <4>2. \A c \in Calls : c # s => entries'[AfterKey(c)] = entries[AfterKey(c)]
        BY <3>1, KeyFacts
      <4> QED
        BY <4>1, <4>2, ShownStays
    <3>7. StageOf(s)' = StageOf(s)
      <4>1. entries'[StepKey(s)] = entries[StepKey(s)]
        BY <3>1, KeyFacts
      <4> QED
        BY <2>1, <4>1, StageStays
    <3>8. StageOf(s) = "recorded"
      BY <2>9, <3>1, StageValues DEF PastInv, Past
    <3>9. Once!Show(s, got[a][s])
      <4>1. \A r \in Effect : StageOf(r)' = StageOf(r)
        BY <2>3, <3>7
      <4> QED
        BY <2>1, <3>5, <3>6, <3>8, <4>1, ShownMoves
    <3> QED
      BY <3>4, <3>9 DEF Once!Next
  <2> QED
    BY <2>0, <2>5, <2>6, <2>7, <2>8, <2>9 DEF WriteMoves
<1> QED
  BY <1>2, <1>3, <1>4, StepsSplit

(* Where nothing retries, attempts, leases and crashes disappear: what     *)
(* happens to a step is one life of EffectOnce.                            *)
THEOREM BoundaryIsOnce == RetryAttempts = {} => (Spec => ImplementsEffectOnce)
<1> SUFFICES ASSUME RetryAttempts = {}
             PROVE  Spec => ImplementsEffectOnce
  OBVIOUS
<1>1. OnceInv /\ OnceInv' /\ [Next]_vars => [Once!Next]_(Once!vars)
  BY OnceNext
<1> QED
  BY <1>1, OnceInvariant, OnceInit, PTL DEF Spec, ImplementsEffectOnce, Once!Spec
=============================================================================
