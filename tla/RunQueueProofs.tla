--------------------------- MODULE RunQueueProofs ---------------------------
(***************************************************************************)
(* Proofs about RunQueue, for any number of runs, runners, clients and     *)
(* waiting slots: its types, its capacity, its safety invariants, and that *)
(* it implements RunLifecycle.                                             *)
(*                                                                         *)
(* None of these is inductive by itself.  The invariant has four layers:   *)
(*   IInv       types and counters: running_ and reserved_ each count the  *)
(*              threads that will lower them;                              *)
(*   Ownership  a run is at one place: with submit(), queued, with a       *)
(*              runner, with a cancel() call, or in stop()'s list;         *)
(*   Records    what the store and the tracker hold for a run at each      *)
(*              place, which only the thread that owns the run changes;    *)
(*   Answers    what a waiter was told is the verdict.                     *)
(***************************************************************************)
EXTENDS RunQueue, FiniteSetTheorems, SequenceTheorems, TLAPS

Busy      == {w \in Runners : runner[w].run # NoRun}
Reserving == {r \in Runs : submitter[r] \in {"insert", "enqueue", "drop"}}

FlagsOK == stopping \in BOOLEAN /\ shutdown \in BOOLEAN /\ runnersStop \in BOOLEAN

QueueOK ==
  /\ queue \in Seq(Runs) /\ active \subseteq Runs
  /\ stopRequested \subseteq Runs /\ drained \in Seq(Runs)

StoreOK ==
  /\ final \in [Runs -> Verdicts \cup {NoRow}]
  /\ rows \in [Runs -> RowStatus] /\ lost \subseteq Runs /\ faults \in 0..MaxFaults

ThreadsOK ==
  /\ submitter \in [Runs -> SubmitPcs]
  /\ runner \in [Runners -> RunnerState]
  /\ canceller \in [Cancellers -> CancelState]
  /\ waiter \in [Waiters -> WaitState]
  /\ stopper \in StopPcs

(* A thread that is going to touch a run has one.                          *)
RunnerHasRun  == \A w \in Runners :
                   runner[w].run = NoRun <=> runner[w].pc \in {"ready", "asleep", "exited"}
ClientsHaveRun ==
  /\ \A c \in Cancellers : canceller[c].pc \in {"finish", "complete"} => canceller[c].run # NoRun
  /\ \A x \in Waiters : waiter[x].pc \in {"read", "blocked"} => waiter[x].run # NoRun

CountersCount ==
  /\ running = Cardinality(Busy)
  /\ IsFiniteSet(Reserving) /\ reserved = Cardinality(Reserving)

IInv ==
  /\ FlagsOK /\ QueueOK /\ StoreOK /\ ThreadsOK
  /\ RunnerHasRun /\ ClientsHaveRun
  /\ CountersCount /\ CapacityRespected

-----------------------------------------------------------------------------
(* Sequences and finite sets                                               *)

LEMMA RemoveAtSeq ==
  ASSUME NEW S, NEW s \in Seq(S), NEW i \in 1..Len(s)
  PROVE  RemoveAt(s, i) \in Seq(S) /\ Len(RemoveAt(s, i)) = Len(s) - 1
<1> DEFINE front == SubSeq(s, 1, i - 1)
           back  == SubSeq(s, i + 1, Len(s))
<1>1. front \in Seq(S) /\ Len(front) = i - 1
  BY SubSeqProperties
<1>2. back \in Seq(S) /\ Len(back) = Len(s) - i
  BY SubSeqProperties
<1>3. RemoveAt(s, i) = front \o back
  BY DEF RemoveAt
<1> HIDE DEF front, back
<1>4. front \o back \in Seq(S) /\ Len(front \o back) = Len(front) + Len(back)
  BY <1>1, <1>2, ConcatProperties
<1> QED BY <1>1, <1>2, <1>3, <1>4

LEMMA EraseQueuedShrinks ==
  ASSUME QueueOK, NEW r \in Runs, EraseQueued(r)
  PROVE  queue' \in Seq(Runs) /\ Len(queue') = Len(queue) - 1
<1>1. PICK i \in DOMAIN queue : queue' = RemoveAt(queue, i)
  BY DEF EraseQueued
<1>2. queue \in Seq(Runs) /\ i \in 1..Len(queue)
  BY DEF QueueOK
<1> QED BY <1>1, <1>2, RemoveAtSeq

LEMMA RunnersCounted ==
  /\ IsFiniteSet(Busy) /\ Cardinality(Busy) \in Nat
  /\ Cardinality(Busy) <= MaxConcurrent /\ MaxConcurrent \in Nat
<1>1. Busy \subseteq Runners BY DEF Busy
<1> QED
  BY <1>1, RunnersAssumption, FS_Subset, FS_CardinalityType DEF MaxConcurrent

-----------------------------------------------------------------------------
LEMMA InitIInv == Init => IInv
<1> SUFFICES ASSUME Init PROVE IInv
  OBVIOUS
<1>1. FlagsOK
  BY Zenon DEF Init, FlagsOK
<1>2. QueueOK
  BY DEF Init, QueueOK
<1>3. StoreOK
  BY BoundsAssumption DEF Init, StoreOK, RowStatus
<1>4. ThreadsOK
  BY DEF Init, ThreadsOK, SubmitPcs, StopPcs, RunnerState, CancelState, WaitState,
         RunnerPcs, CancelPcs, WaitPcs, Outcomes
<1>5. RunnerHasRun /\ ClientsHaveRun
  BY DEF Init, RunnerHasRun, ClientsHaveRun
<1>6. CountersCount
  <2>1. Busy = {} /\ Reserving = {}
    BY DEF Init, Busy, Reserving
  <2> QED BY <2>1, FS_EmptySet DEF Init, CountersCount
<1>7. CapacityRespected
  BY RunnersCounted, BoundsAssumption DEF Init, CapacityRespected
<1> QED BY <1>1, <1>2, <1>3, <1>4, <1>5, <1>6, <1>7 DEF IInv

-----------------------------------------------------------------------------
(* The kinds of steps, by the state they may change                        *)

LEMMA FlagsNext == FlagsOK /\ Next => FlagsOK'
<1> SUFFICES ASSUME FlagsOK, Next PROVE FlagsOK'
  OBVIOUS
<1>1. ASSUME NEW r \in Runs, SubmitAdmit(r) \/ SubmitStep(r) PROVE UNCHANGED <<stopping, shutdown, runnersStop>>
  BY <1>1 DEF SubmitAdmit, SubmitStep, SubmitInsert, SubmitEnqueue, SubmitFinish,
              queueVars, signalVars
<1>2. ASSUME NEW w \in Runners, RunnerStep(w) PROVE UNCHANGED <<stopping, shutdown, runnersStop>>
  BY <1>2 DEF RunnerStep, RunnerTake, RunnerSleep, MarkRunning, EngineReturns, ExecuteThrows,
              PersistFinal, PersistFallback, RunnerComplete, RunnerLeave, queueVars, signalVars
<1>3. ASSUME NEW c \in Cancellers, (\E r \in Runs : CancelFind(c, r)) \/ CancelStep(c)
      PROVE  UNCHANGED <<stopping, shutdown, runnersStop>>
  BY <1>3 DEF CancelFind, CancelStep, CancelFinish, CancelLookup, queueVars, signalVars
<1>4. ASSUME NEW x \in Waiters, (\E r \in Runs : WaitFind(x, r)) \/ WaitStep(x) \/ WaitTimeout(x)
      PROVE  UNCHANGED <<stopping, shutdown, runnersStop>>
  BY <1>4 DEF WaitFind, WaitStep, WaitRead, WaitReturn, WaitTimeout, queueVars, signalVars
<1>5. CASE StopSignal \/ StopStep \/ Terminated
  BY <1>5, Zenon DEF FlagsOK, StopSignal, StopStep, StopBegin, StopFinish, StopRunners, StopJoin,
              Terminated, vars, queueVars, signalVars
<1>6. CASE UNCHANGED <<stopping, shutdown, runnersStop>>
  BY <1>6 DEF FlagsOK
<1> QED BY <1>1, <1>2, <1>3, <1>4, <1>5, <1>6 DEF Next

LEMMA QueueNext == QueueOK /\ ThreadsOK /\ RunnerHasRun /\ Next => QueueOK'
<1> SUFFICES ASSUME QueueOK, ThreadsOK, RunnerHasRun, Next PROVE QueueOK'
  OBVIOUS
<1>1. ASSUME NEW r \in Runs, SubmitAdmit(r) \/ SubmitStep(r) PROVE QueueOK'
  <2>1. CASE SubmitEnqueue(r)
    BY <2>1, AppendProperties DEF QueueOK, SubmitEnqueue, trackerVars, stopVars
  <2>2. CASE SubmitAdmit(r) \/ SubmitInsert(r) \/ SubmitFinish(r)
    BY <2>2 DEF QueueOK, SubmitAdmit, SubmitInsert, SubmitFinish, queueVars, trackerVars, stopVars
  <2> QED BY <1>1, <2>1, <2>2 DEF SubmitStep
<1>2. ASSUME NEW w \in Runners, RunnerStep(w) PROVE QueueOK'
  <2>1. CASE RunnerTake(w)
    BY <2>1, HeadTailProperties DEF QueueOK, RunnerTake, trackerVars, stopVars
  <2>2. CASE RunnerLeave(w)
    BY <2>2 DEF QueueOK, RunnerLeave, trackerVars, stopVars
  <2>3. CASE \/ RunnerSleep(w) \/ MarkRunning(w) \/ EngineReturns(w) \/ ExecuteThrows(w)
             \/ PersistFinal(w) \/ PersistFallback(w) \/ RunnerComplete(w)
    BY <2>3 DEF QueueOK, RunnerSleep, MarkRunning, EngineReturns, ExecuteThrows, PersistFinal,
                PersistFallback, RunnerComplete, queueVars, trackerVars, stopVars
  <2> QED BY <1>2, <2>1, <2>2, <2>3 DEF RunnerStep
<1>3. ASSUME NEW c \in Cancellers, NEW r \in Runs, CancelFind(c, r) PROVE QueueOK'
  <2>1. queue' \in Seq(Runs)
    BY <1>3, EraseQueuedShrinks DEF QueueOK, CancelFind
  <2> QED BY <1>3, <2>1 DEF QueueOK, CancelFind, stopVars
<1>4. ASSUME NEW c \in Cancellers, CancelStep(c) PROVE QueueOK'
  BY <1>4 DEF QueueOK, CancelStep, CancelFinish, CancelLookup, queueVars, trackerVars, stopVars
<1>5. ASSUME NEW x \in Waiters, (\E r \in Runs : WaitFind(x, r)) \/ WaitStep(x) \/ WaitTimeout(x)
      PROVE  QueueOK'
  BY <1>5 DEF QueueOK, WaitFind, WaitStep, WaitRead, WaitReturn, WaitTimeout, queueVars,
              trackerVars, stopVars
<1>6. CASE StopBegin
  BY <1>6 DEF QueueOK, StopBegin, ActiveAfterStop
<1>7. CASE StopFinish
  BY <1>7, HeadTailProperties DEF QueueOK, StopFinish, queueVars
<1>8. CASE StopSignal \/ StopRunners \/ StopJoin \/ Terminated
  BY <1>8 DEF QueueOK, StopSignal, StopRunners, StopJoin, Terminated, vars, queueVars,
              trackerVars, stopVars
<1> QED BY <1>1, <1>2, <1>3, <1>4, <1>5, <1>6, <1>7, <1>8 DEF Next, StopStep

(* Store writes keep statuses statuses, whichever run they are for.        *)
LEMMA WriteOK ==
  ASSUME StoreOK, NEW r, NEW status \in RowStatus, Write(r, status) \/ NoWrite(r)
  PROVE  rows' \in [Runs -> RowStatus] /\ faults' \in 0..MaxFaults
BY BoundsAssumption DEF StoreOK, Write, NoWrite, StoreFault, UpdateRun

LEMMA LastWriteOK ==
  ASSUME StoreOK, NEW r \in Runs, NEW status \in RowStatus, LastWrite(r, status)
  PROVE  /\ rows' \in [Runs -> RowStatus] /\ faults' \in 0..MaxFaults
         /\ lost' \subseteq Runs
<1>1. Write(r, status) \/ NoWrite(r)
  BY DEF LastWrite
<1>2. lost' \subseteq Runs
  BY DEF LastWrite, StoreOK
<1> QED BY <1>1, <1>2, WriteOK

LEMMA StoreNext ==
  StoreOK /\ QueueOK /\ ThreadsOK /\ RunnerHasRun /\ ClientsHaveRun /\ Next => StoreOK'
<1> SUFFICES ASSUME StoreOK, QueueOK, ThreadsOK, RunnerHasRun, ClientsHaveRun, Next
             PROVE  StoreOK'
  OBVIOUS
<1> USE DEF Complete
<1>a. Cancelled \in RowStatus \cap Verdicts /\ Running \in RowStatus /\ Queued \in RowStatus
  BY DEF RowStatus, Verdicts, Live
<1>1. ASSUME NEW r \in Runs, SubmitAdmit(r) \/ SubmitStep(r) PROVE StoreOK'
  <2>1. CASE SubmitInsert(r)
    BY <2>1, <1>a, BoundsAssumption DEF StoreOK, SubmitInsert, InsertRun, StoreFault, trackerVars
  <2>2. CASE SubmitFinish(r)
    BY <2>2, <1>a, LastWriteOK DEF StoreOK, SubmitFinish, storeVars
  <2>3. CASE SubmitAdmit(r) \/ SubmitEnqueue(r)
    BY <2>3 DEF StoreOK, SubmitAdmit, SubmitEnqueue, storeVars, trackerVars
  <2> QED BY <1>1, <2>1, <2>2, <2>3 DEF SubmitStep
<1>2. ASSUME NEW w \in Runners, RunnerStep(w) PROVE StoreOK'
  <2>1. runner[w].verdict \in Verdicts \cup {NoRow} /\ runner[w].verdict \in RowStatus
    BY DEF ThreadsOK, RunnerState, RowStatus
  <2>2. runner[w].pc = "fallback" => runner[w].run \in Runs
    BY DEF ThreadsOK, RunnerState, RunnerHasRun
  <2>3. CASE MarkRunning(w)
    BY <2>3, <1>a, WriteOK DEF StoreOK, MarkRunning, trackerVars
  <2>4. CASE PersistFinal(w)
    BY <2>4, <2>1, WriteOK DEF StoreOK, PersistFinal, trackerVars
  <2>5. CASE PersistFallback(w)
    BY <2>5, <2>1, <2>2, LastWriteOK DEF StoreOK, PersistFallback, trackerVars
  <2>6. CASE RunnerComplete(w)
    BY <2>6, <2>1 DEF StoreOK, RunnerComplete, storeVars
  <2>7. CASE \/ RunnerTake(w) \/ RunnerSleep(w) \/ EngineReturns(w) \/ ExecuteThrows(w)
             \/ RunnerLeave(w)
    BY <2>7 DEF StoreOK, RunnerTake, RunnerSleep, EngineReturns, ExecuteThrows, RunnerLeave,
                storeVars, trackerVars
  <2> QED BY <1>2, <2>3, <2>4, <2>5, <2>6, <2>7 DEF RunnerStep
<1>3. ASSUME NEW c \in Cancellers, (\E r \in Runs : CancelFind(c, r)) \/ CancelStep(c)
      PROVE  StoreOK'
  <2>1. canceller[c].pc = "finish" => canceller[c].run \in Runs
    BY DEF ThreadsOK, CancelState, ClientsHaveRun
  <2>2. CASE CancelFinish(c)
    BY <2>1, <2>2, <1>a, LastWriteOK DEF StoreOK, CancelFinish, storeVars
  <2>3. CASE (\E r \in Runs : CancelFind(c, r)) \/ CancelLookup(c)
    BY <2>3 DEF StoreOK, CancelFind, CancelLookup, storeVars, trackerVars
  <2> QED BY <1>3, <2>2, <2>3 DEF CancelStep
<1>4. ASSUME NEW x \in Waiters, (\E r \in Runs : WaitFind(x, r)) \/ WaitStep(x) \/ WaitTimeout(x)
      PROVE  StoreOK'
  BY <1>4 DEF StoreOK, WaitFind, WaitStep, WaitRead, WaitReturn, WaitTimeout, storeVars, trackerVars
<1>5. CASE StopFinish
  <2>1. Head(drained) \in Runs
    BY <1>5, HeadTailProperties DEF StopFinish, QueueOK
  <2> QED BY <1>5, <2>1, <1>a, LastWriteOK DEF StoreOK, StopFinish, storeVars
<1>6. CASE StopSignal \/ StopBegin \/ StopRunners \/ StopJoin \/ Terminated
  BY <1>6 DEF StoreOK, StopSignal, StopBegin, StopRunners, StopJoin, Terminated, vars,
              storeVars, trackerVars
<1> QED BY <1>1, <1>2, <1>3, <1>4, <1>5, <1>6 DEF Next, StopStep

-----------------------------------------------------------------------------
(* The threads                                                             *)

LEMMA ThreadsNext ==
  ASSUME ThreadsOK, QueueOK, StoreOK, RunnerHasRun, ClientsHaveRun, Next
  PROVE  ThreadsOK' /\ RunnerHasRun' /\ ClientsHaveRun'
<1> USE DEF SubmitTo, RunnerTo, CancelTo
<1>a. ASSUME UNCHANGED <<runner>> PROVE RunnerHasRun'
  BY <1>a DEF RunnerHasRun
<1>b. ASSUME UNCHANGED <<canceller, waiter>> PROVE ClientsHaveRun'
  BY <1>b DEF ClientsHaveRun
<1>1. ASSUME NEW r \in Runs, SubmitAdmit(r) \/ SubmitStep(r)
      PROVE  ThreadsOK' /\ RunnerHasRun' /\ ClientsHaveRun'
  <2>1. submitter' \in [Runs -> SubmitPcs]
    BY <1>1 DEF ThreadsOK, SubmitAdmit, SubmitStep, SubmitInsert, SubmitEnqueue, SubmitFinish,
                SubmitPcs
  <2>2. UNCHANGED <<canceller, waiter, stopper>>
    BY <1>1 DEF SubmitAdmit, SubmitStep, SubmitInsert, SubmitEnqueue, SubmitFinish, stopVars
  <2>3. \/ UNCHANGED runner
        \/ \E w \in Runners : runner[w].pc = "asleep" /\ runner' = [runner EXCEPT ![w].pc = "ready"]
    BY <1>1 DEF SubmitAdmit, SubmitStep, SubmitInsert, SubmitEnqueue, SubmitFinish, NotifyOne
  <2>4. runner' \in [Runners -> RunnerState]
    BY <2>3 DEF ThreadsOK, RunnerState, RunnerPcs
  <2>5. RunnerHasRun'
    BY <2>3 DEF ThreadsOK, RunnerState, RunnerHasRun
  <2> QED BY <2>1, <2>2, <2>4, <2>5, <1>b DEF ThreadsOK
<1>2. ASSUME NEW w \in Runners, RunnerStep(w)
      PROVE  ThreadsOK' /\ RunnerHasRun' /\ ClientsHaveRun'
  <2>1. UNCHANGED <<submitter, canceller, waiter, stopper>>
    BY <1>2 DEF RunnerStep, RunnerTake, RunnerSleep, MarkRunning, EngineReturns, ExecuteThrows,
                PersistFinal, PersistFallback, RunnerComplete, RunnerLeave, stopVars
  <2>2. \E pc \in RunnerPcs, run \in Runs \cup {NoRun}, verdict \in Verdicts \cup {NoRow} :
          /\ runner' = [runner EXCEPT ![w] = [pc |-> pc, run |-> run, verdict |-> verdict]]
          /\ run = NoRun <=> pc \in {"ready", "asleep", "exited"}
    <3>1. /\ runner[w].pc \in RunnerPcs /\ runner[w].run \in Runs \cup {NoRun}
          /\ runner[w].verdict \in Verdicts \cup {NoRow}
          /\ runner[w].run = NoRun <=> runner[w].pc \in {"ready", "asleep", "exited"}
          /\ runner[w] = [pc |-> runner[w].pc, run |-> runner[w].run, verdict |-> runner[w].verdict]
      BY DEF ThreadsOK, RunnerState, RunnerHasRun
    <3>2. CASE RunnerTake(w)
      <4>1. Head(queue) \in Runs /\ Head(queue) # NoRun
        BY <3>2, HeadTailProperties, NoRunAssumption DEF RunnerTake, QueueOK
      <4> QED BY <3>2, <4>1 DEF RunnerTake, RunnerPcs
    <3>3. CASE RunnerLeave(w)
      BY <3>3 DEF RunnerLeave, RunnerPcs
    <3>4. CASE EngineReturns(w) \/ ExecuteThrows(w)
      <4>1. \A b \in BOOLEAN : VerdictOf(runner[w].run, b) \in Verdicts
        BY DEF VerdictOf, Verdicts
      <4>2. PICK pc \in {"persist", "fallback"}, v \in Verdicts :
              runner' = [runner EXCEPT ![w] = [pc |-> pc, run |-> runner[w].run, verdict |-> v]]
        BY <3>1, <3>4, <4>1 DEF EngineReturns, ExecuteThrows, Verdicts, ThreadsOK, RunnerState
      <4>3. runner[w].run # NoRun
        BY <3>1, <3>4 DEF EngineReturns, ExecuteThrows
      <4> QED BY <3>1, <4>2, <4>3 DEF RunnerPcs
    <3>5. CASE \/ RunnerSleep(w) \/ MarkRunning(w) \/ PersistFinal(w) \/ PersistFallback(w)
               \/ RunnerComplete(w)
      <4>1. PICK pc \in RunnerPcs : 
              /\ runner' = [runner EXCEPT ![w].pc = pc]
              /\ pc \in {"ready", "asleep", "exited"} <=> runner[w].pc \in {"ready", "asleep", "exited"}
        BY <3>5 DEF RunnerSleep, MarkRunning, PersistFinal, PersistFallback, RunnerComplete, RunnerPcs
      <4>2. runner' = [runner EXCEPT ![w] = [pc |-> pc, run |-> runner[w].run,
                                             verdict |-> runner[w].verdict]]
        <5>1. [runner[w] EXCEPT !.pc = pc]
                = [pc |-> pc, run |-> runner[w].run, verdict |-> runner[w].verdict]
          BY <3>1
        <5> QED BY <4>1, <5>1 DEF ThreadsOK
      <4> QED BY <3>1, <4>1, <4>2
    <3> QED BY <1>2, <3>2, <3>3, <3>4, <3>5 DEF RunnerStep
  <2>3. runner' \in [Runners -> RunnerState]
    BY <2>2 DEF ThreadsOK, RunnerState
  <2>4. RunnerHasRun'
    BY <2>2 DEF ThreadsOK, RunnerHasRun
  <2> QED BY <2>1, <2>3, <2>4, <1>b DEF ThreadsOK
<1>3. ASSUME NEW c \in Cancellers, (\E r \in Runs : CancelFind(c, r)) \/ CancelStep(c)
      PROVE  ThreadsOK' /\ RunnerHasRun' /\ ClientsHaveRun'
  <2>1. UNCHANGED <<submitter, runner, waiter, stopper>>
    BY <1>3 DEF CancelFind, CancelStep, CancelFinish, CancelLookup, stopVars
  <2>2. canceller' \in [Cancellers -> CancelState]
    BY <1>3 DEF ThreadsOK, CancelState, CancelPcs, Outcomes, CancelFind, CancelStep, CancelFinish,
                CancelLookup, LookupOutcome
  <2>3. ClientsHaveRun'
    BY <1>3, <2>1, NoRunAssumption
       DEF ThreadsOK, CancelState, ClientsHaveRun, CancelFind, CancelStep, CancelFinish, CancelLookup
  <2> QED BY <2>1, <2>2, <2>3, <1>a DEF ThreadsOK
<1>4. ASSUME NEW x \in Waiters, (\E r \in Runs : WaitFind(x, r)) \/ WaitStep(x) \/ WaitTimeout(x)
      PROVE  ThreadsOK' /\ RunnerHasRun' /\ ClientsHaveRun'
  <2>1. UNCHANGED <<submitter, runner, canceller, stopper>>
    BY <1>4 DEF WaitFind, WaitStep, WaitRead, WaitReturn, WaitTimeout, stopVars
  <2>2. waiter' \in [Waiters -> WaitState]
    <3>1. waiter[x].pc \in {"read", "blocked"} => waiter[x].run \in Runs
      BY DEF ThreadsOK, WaitState, ClientsHaveRun
    <3>2. \A status \in RowStatus : FinalRecord(status) \in Verdicts \cup {NoRow}
      BY DEF FinalRecord, IsTerminal, RowStatus
    <3>3. waiter[x].pc = "read" => FinalRecord(rows[waiter[x].run]) \in Verdicts \cup {NoRow}
      BY <3>1, <3>2 DEF StoreOK
    <3>4. waiter[x].pc = "blocked" => final[waiter[x].run] \in Verdicts \cup {NoRow}
      BY <3>1 DEF StoreOK
    <3>5. CASE \E r \in Runs : WaitFind(x, r)
      <4>1. PICK r \in Runs, pc \in {"blocked", "read"} :
              waiter' = [waiter EXCEPT ![x].pc = pc, ![x].run = r]
        BY <3>5 DEF WaitFind
      <4> QED BY <4>1 DEF ThreadsOK, WaitState, WaitPcs
    <3>6. CASE WaitRead(x)
      BY <3>6, <3>3 DEF ThreadsOK, WaitState, WaitPcs, WaitRead
    <3>7. CASE WaitReturn(x)
      BY <3>7, <3>4 DEF ThreadsOK, WaitState, WaitPcs, WaitReturn
    <3>8. CASE WaitTimeout(x)
      BY <3>8 DEF ThreadsOK, WaitState, WaitPcs, WaitTimeout
    <3> QED BY <1>4, <3>5, <3>6, <3>7, <3>8 DEF WaitStep
  <2>3. ClientsHaveRun'
    <3>1. CASE \E r \in Runs : WaitFind(x, r)
      BY <3>1, <2>1, NoRunAssumption DEF ThreadsOK, WaitState, ClientsHaveRun, WaitFind
    <3>2. CASE WaitRead(x)
      BY <3>2, <2>1 DEF ThreadsOK, WaitState, ClientsHaveRun, WaitRead
    <3>3. CASE WaitReturn(x)
      BY <3>3, <2>1 DEF ThreadsOK, WaitState, ClientsHaveRun, WaitReturn
    <3>4. CASE WaitTimeout(x)
      BY <3>4, <2>1 DEF ThreadsOK, WaitState, ClientsHaveRun, WaitTimeout
    <3> QED BY <1>4, <3>1, <3>2, <3>3, <3>4 DEF WaitStep
  <2> QED BY <2>1, <2>2, <2>3, <1>a DEF ThreadsOK
<1>5. CASE StopSignal \/ StopStep
  <2>1. UNCHANGED <<submitter, canceller, waiter>> /\ stopper' \in StopPcs
    BY <1>5 DEF StopSignal, StopStep, StopBegin, StopFinish, StopRunners, StopJoin, StopPcs
  <2>2. runner' \in [Runners -> RunnerState] /\ RunnerHasRun'
    <3>1. CASE StopRunners
      BY <3>1 DEF StopRunners, WakeAll, ThreadsOK, RunnerState, RunnerPcs, RunnerHasRun
    <3>2. CASE StopSignal \/ StopBegin \/ StopFinish \/ StopJoin
      BY <3>2, <1>a DEF StopSignal, StopBegin, StopFinish, StopJoin, ThreadsOK
    <3> QED BY <1>5, <3>1, <3>2 DEF StopStep
  <2> QED BY <2>1, <2>2, <1>b DEF ThreadsOK
<1>6. CASE Terminated
  BY <1>6, <1>a, <1>b DEF Terminated, vars, ThreadsOK, stopVars
<1> QED BY <1>1, <1>2, <1>3, <1>4, <1>5, <1>6 DEF Next

-----------------------------------------------------------------------------
(* The counters                                                            *)

(* A step that keeps every runner's run keeps running_ right, provided it  *)
(* does not change running_; likewise for reserved_.                       *)
LEMMA CountersNext ==
  ASSUME ThreadsOK, ThreadsOK', QueueOK, RunnerHasRun, CountersCount, Next
  PROVE  CountersCount'
<1> USE DEF SubmitTo, RunnerTo, CancelTo
<1>a. ASSUME UNCHANGED <<running, runner>> PROVE running' = Cardinality(Busy')
  BY <1>a DEF CountersCount, Busy
<1>b. ASSUME UNCHANGED <<reserved, submitter>>
      PROVE  IsFiniteSet(Reserving') /\ reserved' = Cardinality(Reserving')
  BY <1>b DEF CountersCount, Reserving
<1>1. ASSUME NEW r \in Runs, SubmitAdmit(r) \/ SubmitStep(r) PROVE CountersCount'
  <2>1. running' = Cardinality(Busy')
    <3>1. UNCHANGED running /\ \A w \in Runners : runner'[w].run = runner[w].run
      BY <1>1 DEF SubmitAdmit, SubmitStep, SubmitInsert, SubmitEnqueue, SubmitFinish, NotifyOne,
                  queueVars, ThreadsOK, RunnerState
    <3>2. Busy' = Busy
      BY <3>1 DEF Busy
    <3> QED BY <3>1, <3>2 DEF CountersCount
  <2>2. IsFiniteSet(Reserving') /\ reserved' = Cardinality(Reserving')
    <3>1. CASE SubmitAdmit(r)
      <4>1. CASE submitter'[r] = "insert"
        <5>1. Reserving' = Reserving \cup {r} /\ r \notin Reserving
          BY <3>1, <4>1 DEF SubmitAdmit, Reserving, ThreadsOK
        <5>2. reserved' = reserved + 1
          BY <3>1, <4>1 DEF SubmitAdmit, ReserveSlot, ThreadsOK
        <5> QED BY <5>1, <5>2, FS_AddElement DEF CountersCount
      <4>2. CASE submitter'[r] # "insert"
        <5>1. Reserving' = Reserving
          BY <3>1, <4>2 DEF SubmitAdmit, Reserving, ThreadsOK
        <5>2. UNCHANGED reserved
          BY <3>1, <4>2 DEF SubmitAdmit, ThreadsOK
        <5> QED BY <5>1, <5>2 DEF CountersCount
      <4> QED BY <4>1, <4>2
    <3>2. CASE SubmitInsert(r) \/ SubmitFinish(r)
      <4>1. Reserving' = Reserving
        BY <3>2 DEF SubmitInsert, SubmitFinish, Reserving, ThreadsOK
      <4>2. UNCHANGED reserved
        BY <3>2 DEF SubmitInsert, SubmitFinish, queueVars
      <4> QED BY <4>1, <4>2 DEF CountersCount
    <3>3. CASE SubmitEnqueue(r)
      <4>1. Reserving' = Reserving \ {r} /\ r \in Reserving
        BY <3>3 DEF SubmitEnqueue, Reserving, ThreadsOK
      <4>2. reserved' = reserved - 1
        BY <3>3 DEF SubmitEnqueue
      <4> QED BY <4>1, <4>2, FS_RemoveElement DEF CountersCount
    <3> QED BY <1>1, <3>1, <3>2, <3>3 DEF SubmitStep
  <2> QED BY <2>1, <2>2 DEF CountersCount
<1>2. ASSUME NEW w \in Runners, RunnerStep(w) PROVE CountersCount'
  <2>1. UNCHANGED <<reserved, submitter>>
    BY <1>2 DEF RunnerStep, RunnerTake, RunnerSleep, MarkRunning, EngineReturns, ExecuteThrows,
                PersistFinal, PersistFallback, RunnerComplete, RunnerLeave, queueVars
  <2>2. CASE RunnerTake(w)
    <3>1. Head(queue) # NoRun
      BY <2>2, HeadTailProperties, NoRunAssumption DEF RunnerTake, QueueOK
    <3>2. Busy' = Busy \cup {w} /\ w \notin Busy
      BY <2>2, <3>1 DEF RunnerTake, Busy, RunnerHasRun, ThreadsOK
    <3>3. running' = running + 1
      BY <2>2 DEF RunnerTake
    <3> QED BY <2>1, <3>2, <3>3, <1>b, RunnersCounted, FS_AddElement DEF CountersCount
  <2>3. CASE RunnerLeave(w)
    <3>1. Busy' = Busy \ {w} /\ w \in Busy
      BY <2>3 DEF RunnerLeave, Busy, RunnerHasRun, ThreadsOK
    <3>2. running' = running - 1
      BY <2>3 DEF RunnerLeave
    <3> QED BY <2>1, <3>1, <3>2, <1>b, RunnersCounted, FS_RemoveElement DEF CountersCount
  <2>4. CASE \/ RunnerSleep(w) \/ MarkRunning(w) \/ EngineReturns(w) \/ ExecuteThrows(w)
             \/ PersistFinal(w) \/ PersistFallback(w) \/ RunnerComplete(w)
    <3>1. UNCHANGED running /\ \A v \in Runners : runner'[v].run = runner[v].run
      BY <2>4 DEF RunnerSleep, MarkRunning, EngineReturns, ExecuteThrows, PersistFinal,
                  PersistFallback, RunnerComplete, queueVars, ThreadsOK, RunnerState
    <3>2. Busy' = Busy
      BY <3>1 DEF Busy
    <3> QED BY <2>1, <3>1, <3>2, <1>b DEF CountersCount
  <2> QED BY <1>2, <2>2, <2>3, <2>4 DEF RunnerStep
<1>3. ASSUME NEW c \in Cancellers, (\E r \in Runs : CancelFind(c, r)) \/ CancelStep(c)
      PROVE  CountersCount'
  <2>1. UNCHANGED <<running, runner, reserved, submitter>>
    BY <1>3 DEF CancelFind, CancelStep, CancelFinish, CancelLookup, queueVars
  <2> QED BY <2>1, <1>a, <1>b DEF CountersCount
<1>4. ASSUME NEW x \in Waiters, (\E r \in Runs : WaitFind(x, r)) \/ WaitStep(x) \/ WaitTimeout(x)
      PROVE  CountersCount'
  <2>1. UNCHANGED <<running, runner, reserved, submitter>>
    BY <1>4 DEF WaitFind, WaitStep, WaitRead, WaitReturn, WaitTimeout, queueVars
  <2> QED BY <2>1, <1>a, <1>b DEF CountersCount
<1>5. CASE StopRunners
  <2>1. UNCHANGED <<running, reserved, submitter>> /\ \A w \in Runners : runner'[w].run = runner[w].run
    BY <1>5 DEF StopRunners, WakeAll, queueVars, ThreadsOK, RunnerState
  <2>2. Busy' = Busy
    BY <2>1 DEF Busy
  <2> QED BY <2>1, <2>2, <1>b DEF CountersCount
<1>6. CASE StopSignal \/ StopBegin \/ StopFinish \/ StopJoin \/ Terminated
  <2>1. UNCHANGED <<running, runner, reserved, submitter>>
    BY <1>6 DEF StopSignal, StopBegin, StopFinish, StopJoin, Terminated, vars, queueVars
  <2> QED BY <2>1, <1>a, <1>b DEF CountersCount
<1> QED BY <1>1, <1>2, <1>3, <1>4, <1>5, <1>6 DEF Next, StopStep

(* What a step does to the number of runs waiting, being persisted or      *)
(* executing: only an admission raises it, and only below the limit.       *)
LEMMA CapacityNext ==
  ASSUME IInv, CountersCount', QueueOK', Next
  PROVE  CapacityRespected'
<1> USE DEF IInv, SubmitTo, RunnerTo, CancelTo
<1>a. running' \in Nat /\ running' <= MaxConcurrent
  <2>1. Busy' \subseteq Runners BY DEF Busy
  <2> QED BY <2>1, RunnersAssumption, FS_Subset, FS_CardinalityType DEF CountersCount, MaxConcurrent
<1>b. /\ running \in Nat /\ reserved \in Nat /\ reserved' \in Nat /\ MaxConcurrent \in Nat
      /\ Len(queue) \in Nat /\ Len(queue') \in Nat /\ MaxQueued \in Nat
  BY RunnersCounted, FS_CardinalityType, BoundsAssumption, LenProperties DEF CountersCount, QueueOK
<1>c. ASSUME Len(queue') + reserved' + running' <= Len(queue) + reserved + running
      PROVE  CapacityRespected'
  BY <1>a, <1>b, <1>c DEF CapacityRespected, MaxConcurrent
<1>d. ASSUME UNCHANGED <<queue, reserved, running>> PROVE CapacityRespected'
  BY <1>b, <1>c, <1>d
<1>1. ASSUME NEW r \in Runs, SubmitAdmit(r) PROVE CapacityRespected'
  <2>1. CASE ~AtCapacity /\ ReserveSlot /\ UNCHANGED <<queue, running>>
    BY <1>a, <1>b, <2>1 DEF AtCapacity, IdleRunners, ReserveSlot, CapacityRespected, MaxConcurrent
  <2> QED BY <1>1, <1>d, <2>1 DEF SubmitAdmit
<1>2. ASSUME NEW r \in Runs, SubmitStep(r) PROVE CapacityRespected'
  <2>1. CASE SubmitEnqueue(r)
    <3>1. Len(queue') <= Len(queue) + 1
      BY <2>1, <1>b, AppendProperties DEF SubmitEnqueue, QueueOK
    <3> QED BY <2>1, <3>1, <1>b, <1>c DEF SubmitEnqueue
  <2>2. CASE SubmitInsert(r) \/ SubmitFinish(r)
    BY <2>2, <1>d DEF SubmitInsert, SubmitFinish, queueVars
  <2> QED BY <1>2, <2>1, <2>2 DEF SubmitStep
<1>3. ASSUME NEW w \in Runners, RunnerStep(w) PROVE CapacityRespected'
  <2>1. CASE RunnerTake(w)
    <3>1. Len(queue') = Len(queue) - 1
      BY <2>1, HeadTailProperties DEF RunnerTake, QueueOK
    <3> QED BY <2>1, <3>1, <1>b, <1>c DEF RunnerTake
  <2>2. CASE RunnerLeave(w)
    BY <2>2, <1>b, <1>c DEF RunnerLeave
  <2>3. CASE \/ RunnerSleep(w) \/ MarkRunning(w) \/ EngineReturns(w) \/ ExecuteThrows(w)
             \/ PersistFinal(w) \/ PersistFallback(w) \/ RunnerComplete(w)
    BY <2>3, <1>d DEF RunnerSleep, MarkRunning, EngineReturns, ExecuteThrows, PersistFinal,
                      PersistFallback, RunnerComplete, queueVars
  <2> QED BY <1>3, <2>1, <2>2, <2>3 DEF RunnerStep
<1>4. ASSUME NEW c \in Cancellers, NEW r \in Runs, CancelFind(c, r) PROVE CapacityRespected'
  <2>1. Len(queue') <= Len(queue)
    BY <1>4, <1>b, EraseQueuedShrinks DEF CancelFind
  <2> QED BY <1>4, <2>1, <1>b, <1>c DEF CancelFind
<1>5. ASSUME NEW c \in Cancellers, CancelStep(c) PROVE CapacityRespected'
  BY <1>5, <1>d DEF CancelStep, CancelFinish, CancelLookup, queueVars
<1>6. ASSUME NEW x \in Waiters, (\E r \in Runs : WaitFind(x, r)) \/ WaitStep(x) \/ WaitTimeout(x)
      PROVE  CapacityRespected'
  BY <1>6, <1>d DEF WaitFind, WaitStep, WaitRead, WaitReturn, WaitTimeout, queueVars
<1>7. CASE StopBegin
  <2>1. Len(queue') = 0
    BY <1>7 DEF StopBegin
  <2> QED BY <1>7, <2>1, <1>b, <1>c DEF StopBegin
<1>8. CASE StopSignal \/ StopFinish \/ StopRunners \/ StopJoin \/ Terminated
  BY <1>8, <1>d DEF StopSignal, StopFinish, StopRunners, StopJoin, Terminated, vars, queueVars
<1> QED BY <1>1, <1>2, <1>3, <1>4, <1>5, <1>6, <1>7, <1>8 DEF Next, StopStep

-----------------------------------------------------------------------------
LEMMA NextIInv == IInv /\ [Next]_vars => IInv'
<1> SUFFICES ASSUME IInv, [Next]_vars PROVE IInv'
  OBVIOUS
<1>1. CASE Next
  <2>1. FlagsOK' BY <1>1, FlagsNext DEF IInv
  <2>2. QueueOK' BY <1>1, QueueNext DEF IInv
  <2>3. StoreOK' BY <1>1, StoreNext DEF IInv
  <2>4. ThreadsOK' /\ RunnerHasRun' /\ ClientsHaveRun' BY <1>1, ThreadsNext DEF IInv
  <2>5. CountersCount' BY <1>1, <2>4, CountersNext DEF IInv
  <2>6. CapacityRespected' BY <1>1, <2>2, <2>5, CapacityNext
  <2> QED BY <2>1, <2>2, <2>3, <2>4, <2>5, <2>6 DEF IInv
<1>2. CASE UNCHANGED vars
  BY <1>2 DEF IInv, FlagsOK, QueueOK, StoreOK, ThreadsOK, RunnerHasRun, ClientsHaveRun,
              CountersCount, Busy, Reserving, CapacityRespected, vars, queueVars, trackerVars,
              storeVars, signalVars, stopVars
<1> QED BY <1>1, <1>2

LEMMA Invariance == Spec => []IInv
BY InitIInv, NextIInv, PTL DEF Spec

(* Every variable of the queue and of its threads keeps its type; the      *)
(* counters running_ and reserved_ (size_t) never go below zero.           *)
THEOREM TypeCorrect == Spec => []TypeOK
<1>1. IInv => TypeOK
  <2> SUFFICES ASSUME IInv PROVE TypeOK
    OBVIOUS
  <2>1. running \in Nat /\ reserved \in Nat
    BY RunnersCounted, FS_CardinalityType DEF IInv, CountersCount
  <2> QED BY <2>1 DEF IInv, FlagsOK, QueueOK, StoreOK, ThreadsOK, TypeOK
<1> QED BY <1>1, Invariance, PTL

(* Backpressure holds for every number of submitting threads: the runs     *)
(* waiting, being persisted or executing never exceed the waiting slots    *)
(* plus the runners.                                                       *)
THEOREM Backpressure == Spec => []CapacityRespected
<1>1. IInv => CapacityRespected BY DEF IInv
<1> QED BY <1>1, Invariance, PTL

-----------------------------------------------------------------------------
(* Sequences without duplicates, and their elements                        *)

LEMMA EmptyElements == IsInjective(<<>>) /\ ToSet(<<>>) = {}
BY DEF IsInjective, ToSet

LEMMA AppendElements ==
  ASSUME NEW S, NEW s \in Seq(S), NEW e \in S
  PROVE  /\ ToSet(Append(s, e)) = ToSet(s) \cup {e}
         /\ IsInjective(s) /\ e \notin ToSet(s) => IsInjective(Append(s, e))
<1>1. /\ DOMAIN s = 1..Len(s) /\ DOMAIN Append(s, e) = 1..(Len(s) + 1) /\ Len(s) \in Nat
      /\ Append(s, e)[Len(s) + 1] = e /\ \A i \in 1..Len(s) : Append(s, e)[i] = s[i]
  OBVIOUS
<1>2. ToSet(Append(s, e)) = ToSet(s) \cup {e}
  BY <1>1 DEF ToSet
<1>3. IsInjective(s) /\ e \notin ToSet(s) => IsInjective(Append(s, e))
  BY <1>1 DEF ToSet, IsInjective
<1> QED BY <1>2, <1>3

LEMMA TailElements ==
  ASSUME NEW S, NEW s \in Seq(S), s # <<>>, IsInjective(s)
  PROVE  /\ Head(s) \in ToSet(s) /\ ToSet(Tail(s)) = ToSet(s) \ {Head(s)}
         /\ IsInjective(Tail(s))
<1>1. /\ DOMAIN s = 1..Len(s) /\ DOMAIN Tail(s) = 1..(Len(s) - 1) /\ Len(s) \in Nat \ {0}
      /\ Head(s) = s[1] /\ \A i \in 1..(Len(s) - 1) : Tail(s)[i] = s[i + 1]
  OBVIOUS
<1>2. Head(s) \in ToSet(s)
  BY <1>1 DEF ToSet
<1>3. ASSUME NEW e \in ToSet(Tail(s)) PROVE e \in ToSet(s) \ {Head(s)}
  BY <1>1, <1>3 DEF ToSet, IsInjective
<1>4. ASSUME NEW e \in ToSet(s), e # Head(s) PROVE e \in ToSet(Tail(s))
  <2>1. PICK i \in 1..Len(s) : e = s[i]
    BY <1>1 DEF ToSet
  <2>2. i - 1 \in 1..(Len(s) - 1) /\ Tail(s)[i - 1] = e
    BY <1>1, <1>4, <2>1
  <2> QED BY <1>1, <2>2 DEF ToSet
<1>5. IsInjective(Tail(s))
  BY <1>1 DEF IsInjective
<1> QED BY <1>2, <1>3, <1>4, <1>5

LEMMA RemoveAtElements ==
  ASSUME NEW S, NEW s \in Seq(S), NEW k \in 1..Len(s), IsInjective(s)
  PROVE  /\ s[k] \in ToSet(s) /\ ToSet(RemoveAt(s, k)) = ToSet(s) \ {s[k]}
         /\ IsInjective(RemoveAt(s, k))
<1> DEFINE t == RemoveAt(s, k)
           n == Len(s)
           front == SubSeq(s, 1, k - 1)
           back  == SubSeq(s, k + 1, n)
<1>0. n \in Nat /\ DOMAIN s = 1..n /\ k \in 1..n
  OBVIOUS
<1>1. front \in Seq(S) /\ Len(front) = k - 1 /\ \A i \in 1..(k - 1) : front[i] = s[i]
  BY <1>0, SubSeqProperties
<1>2. back \in Seq(S) /\ Len(back) = n - k /\ \A i \in 1..(n - k) : back[i] = s[k + i]
  <2>1. \A i \in (k + 1)..n : s[i] \in S
    BY <1>0
  <2>2. /\ back \in Seq(S) /\ Len(back) = IF k + 1 <= n THEN n - (k + 1) + 1 ELSE 0
        /\ \A i \in 1..(n - (k + 1) + 1) : back[i] = s[k + 1 + i - 1]
    BY <1>0, <2>1, SubSeqProperties
  <2> HIDE DEF back, n
  <2>3. Len(back) = n - k
    <3>1. \A a, b \in Int : b <= a => (IF b + 1 <= a THEN a - (b + 1) + 1 ELSE 0) = a - b
      OBVIOUS
    <3>2. n \in Int /\ k \in Int /\ k <= n
      BY <1>0
    <3> QED BY <2>2, <3>1, <3>2
  <2>4. ASSUME NEW i \in 1..(n - k) PROVE back[i] = s[k + i]
    <3>1. i \in 1..(n - (k + 1) + 1) /\ k + 1 + i - 1 = k + i BY <1>0
    <3> QED BY <2>2, <3>1
  <2> QED BY <2>2, <2>3, <2>4
<1>3. t = front \o back
  BY DEF RemoveAt
<1> HIDE DEF front, back, t, n
<1>4. DOMAIN t = 1..(n - 1) /\ \A i \in 1..(k - 1) : t[i] = s[i]
  BY <1>0, <1>1, <1>2, <1>3
<1>5. \A i \in k..(n - 1) : t[i] = s[i + 1]
  <2> SUFFICES ASSUME NEW i \in k..(n - 1) PROVE t[i] = s[i + 1]
    OBVIOUS
  <2>1. i \in 1..(Len(front) + Len(back)) /\ ~(i <= Len(front)) /\ i - Len(front) \in 1..(n - k)
    BY <1>0, <1>1, <1>2
  <2>2. (front \o back)[i] = back[i - Len(front)]
    BY <1>1, <1>2, <2>1, ConcatProperties
  <2>3. back[i - Len(front)] = s[k + (i - Len(front))] /\ k + (i - Len(front)) = i + 1
    BY <1>0, <1>1, <1>2, <2>1
  <2> QED BY <1>3, <2>2, <2>3
<1>6. s[k] \in ToSet(s)
  BY <1>0 DEF ToSet
<1>7. ASSUME NEW i \in 1..(n - 1) PROVE \E j \in 1..n : j # k /\ t[i] = s[j]
  <2>1. CASE i < k BY <1>0, <1>4, <2>1
  <2>2. CASE i >= k
    <3>1. i \in k..(n - 1) /\ i + 1 \in 1..n /\ i + 1 # k BY <1>0, <2>2
    <3> QED BY <1>5, <3>1
  <2> QED BY <1>0, <2>1, <2>2
<1>8. ASSUME NEW e \in ToSet(t) PROVE e \in ToSet(s) \ {s[k]}
  <2>1. PICK i \in 1..(n - 1) : e = t[i] BY <1>4 DEF ToSet
  <2>2. PICK j \in 1..n : j # k /\ e = s[j] BY <1>7, <2>1
  <2> QED BY <1>0, <2>2 DEF ToSet, IsInjective
<1>9. ASSUME NEW e \in ToSet(s), e # s[k] PROVE e \in ToSet(t)
  <2>1. PICK i \in 1..n : e = s[i]
    BY <1>0 DEF ToSet
  <2>2. CASE i < k
    <3>1. i \in 1..(n - 1) /\ t[i] = e
      BY <1>0, <1>4, <2>1, <2>2
    <3> QED BY <1>4, <3>1 DEF ToSet
  <2>3. CASE i > k
    <3>1. i - 1 \in k..(n - 1) /\ i - 1 \in 1..(n - 1) /\ (i - 1) + 1 = i
      BY <1>0, <2>3
    <3>2. t[i - 1] = e
      BY <1>5, <2>1, <3>1
    <3> QED BY <1>4, <3>1, <3>2 DEF ToSet
  <2> QED BY <1>0, <1>9, <2>1, <2>2, <2>3
<1>10. IsInjective(t)
  <2> SUFFICES ASSUME NEW a \in 1..(n - 1), NEW b \in 1..(n - 1), t[a] = t[b] PROVE a = b
    BY <1>4 DEF IsInjective
  <2>1. \A i \in 1..(n - 1) : i >= k => i \in k..(n - 1) /\ i + 1 \in 1..n
    BY <1>0
  <2>2. \A i \in 1..(n - 1) : i < k => i \in 1..(k - 1) /\ i \in 1..n
    BY <1>0
  <2>3. \A i, j \in 1..n : s[i] = s[j] => i = j
    BY <1>0 DEF IsInjective
  <2> QED BY <1>0, <1>4, <1>5, <2>1, <2>2, <2>3
<1> QED BY <1>6, <1>8, <1>9, <1>10 DEF t

-----------------------------------------------------------------------------
(* Ownership.  A run is at one place: with its submit() call, in the       *)
(* queue, with a runner, with a cancel() call, or in stop()'s list.        *)
(* active_ separates the two places a cancel() call looks at from the      *)
(* others.                                                                 *)
Ending(c) == canceller[c].pc \in {"finish", "complete"}

QueueOwns ==
  /\ IsInjective(queue)
  /\ \A r \in ToSet(queue) : r \in active /\ submitter[r] = "ok"

RunnersOwn ==
  /\ \A v, w \in Runners : runner[v].run = runner[w].run /\ runner[v].run # NoRun => v = w
  /\ \A w \in Runners : runner[w].run # NoRun =>
       /\ runner[w].run \in active /\ runner[w].run \notin ToSet(queue)
       /\ submitter[runner[w].run] = "ok"

CancelsOwn ==
  /\ \A c, d \in Cancellers : Ending(c) /\ Ending(d) /\ canceller[c].run = canceller[d].run => c = d
  /\ \A c \in Cancellers : Ending(c) =>
       /\ canceller[c].run \notin active /\ canceller[c].run \notin ToSet(drained)
       /\ submitter[canceller[c].run] = "ok"

StopOwns ==
  /\ IsInjective(drained)
  /\ \A r \in ToSet(drained) : r \notin active /\ submitter[r] = "ok"
  /\ stopping <=> stopper \in {"drain", "drain_complete", "join", "stopped"}
  /\ stopping => queue = <<>>
  /\ drained # <<>> => stopper \in {"drain", "drain_complete"}
  /\ stopper = "drain_complete" => drained # <<>>
  /\ stopper = "stopped" => \A w \in Runners : runner[w].pc = "exited"

ActiveOwned ==
  \A r \in active : /\ submitter[r] = "ok"
                    /\ r \in ToSet(queue) \/ \E w \in Runners : runner[w].run = r

Ownership == QueueOwns /\ RunnersOwn /\ CancelsOwn /\ StopOwns /\ ActiveOwned

(* The places hold runs.                                                   *)
LEMMA OwnedRuns ==
  ASSUME IInv
  PROVE  /\ ToSet(queue) \subseteq Runs /\ ToSet(drained) \subseteq Runs /\ active \subseteq Runs
         /\ \A w \in Runners : runner[w].run \in Runs \cup {NoRun}
         /\ \A c \in Cancellers : Ending(c) => canceller[c].run \in Runs
         /\ queue \in Seq(Runs) /\ drained \in Seq(Runs)
<1>1. ToSet(queue) \subseteq Runs /\ ToSet(drained) \subseteq Runs /\ active \subseteq Runs
  BY DEF IInv, QueueOK, ToSet
<1>2. \A w \in Runners : runner[w].run \in Runs \cup {NoRun}
  BY DEF IInv, ThreadsOK, RunnerState
<1>3. \A c \in Cancellers : Ending(c) => canceller[c].run \in Runs
  BY DEF IInv, ThreadsOK, CancelState, ClientsHaveRun, Ending
<1> QED BY <1>1, <1>2, <1>3 DEF IInv, QueueOK

(* A step that keeps the queue, active_ and stop()'s list, gives no thread *)
(* a run and takes back no acceptance keeps the places of all runs.        *)
LEMMA PlacesKept ==
  ASSUME IInv, Ownership,
         UNCHANGED <<queue, active, drained, stopping, stopper>>,
         \A r \in Runs : submitter[r] = "ok" => submitter'[r] = "ok",
         \A w \in Runners : /\ runner'[w].run = runner[w].run
                            /\ runner[w].pc = "exited" => runner'[w].pc = "exited",
         \A c \in Cancellers : Ending(c)' => Ending(c) /\ canceller'[c].run = canceller[c].run
  PROVE  Ownership'
<1>1. QueueOwns' BY OwnedRuns DEF Ownership, QueueOwns
<1>2. RunnersOwn' BY OwnedRuns DEF Ownership, RunnersOwn
<1>3. CancelsOwn' BY OwnedRuns DEF Ownership, CancelsOwn
<1>4. StopOwns' BY OwnedRuns DEF Ownership, StopOwns
<1>5. ActiveOwned' BY OwnedRuns DEF Ownership, ActiveOwned
<1> QED BY <1>1, <1>2, <1>3, <1>4, <1>5 DEF Ownership

LEMMA InitOwnership == Init => Ownership
BY EmptyElements DEF Init, Ownership, QueueOwns, RunnersOwn, CancelsOwn, StopOwns, ActiveOwned, Ending

LEMMA SubmitOwnership ==
  ASSUME IInv, Ownership, NEW r \in Runs, SubmitAdmit(r) \/ SubmitStep(r)
  PROVE  Ownership'
<1> USE DEF SubmitTo
<1>1. /\ UNCHANGED <<canceller, drained, stopping, stopper>>
      /\ \A w \in Runners : /\ runner'[w].run = runner[w].run
                            /\ runner[w].pc = "exited" => runner'[w].pc = "exited"
      /\ \A q \in Runs : submitter[q] = "ok" => submitter'[q] = "ok"
  BY DEF SubmitAdmit, SubmitStep, SubmitInsert, SubmitEnqueue, SubmitFinish, NotifyOne, queueVars,
         stopVars, IInv, ThreadsOK, RunnerState
<1>2. CASE UNCHANGED <<queue, active>>
  BY <1>1, <1>2, PlacesKept DEF Ending
<1>3. CASE /\ submitter[r] = "enqueue" /\ StillAccepting /\ SubmitTo(r, "ok")
           /\ active' = active \cup {r} /\ queue' = Append(queue, r)
  <2>1. /\ r \notin active /\ r \notin ToSet(queue) /\ r \notin ToSet(drained) /\ submitter'[r] = "ok"
        /\ ~stopping
    BY <1>3 DEF IInv, ThreadsOK, Ownership, ActiveOwned, QueueOwns, StopOwns, StillAccepting
  <2>2. \A w \in Runners : runner[w].run # r
    BY <1>3, OwnedRuns, NoRunAssumption DEF Ownership, RunnersOwn
  <2>3. ToSet(queue') = ToSet(queue) \cup {r} /\ IsInjective(queue')
    BY <1>3, <2>1, OwnedRuns, AppendElements DEF Ownership, QueueOwns
  <2>4. QueueOwns'
    BY <1>1, <1>3, <2>1, <2>3, OwnedRuns DEF Ownership, QueueOwns
  <2>5. RunnersOwn'
    BY <1>1, <1>3, <2>2, <2>3, OwnedRuns, NoRunAssumption DEF Ownership, RunnersOwn
  <2>6. CancelsOwn'
    <3>1. \A c \in Cancellers : Ending(c) => canceller[c].run # r
      BY <1>3 DEF Ownership, CancelsOwn
    <3> QED BY <1>1, <1>3, <3>1, OwnedRuns DEF Ownership, CancelsOwn, Ending
  <2>7. StopOwns'
    BY <1>1, <1>3, <2>1, OwnedRuns DEF Ownership, StopOwns
  <2>8. ActiveOwned'
    BY <1>1, <1>3, <2>1, <2>3, OwnedRuns DEF Ownership, ActiveOwned
  <2> QED BY <2>4, <2>5, <2>6, <2>7, <2>8 DEF Ownership
<1> QED
  BY <1>2, <1>3 DEF SubmitAdmit, SubmitStep, SubmitInsert, SubmitEnqueue, SubmitFinish, queueVars

LEMMA RunnerOwnership ==
  ASSUME IInv, Ownership, NEW w \in Runners, RunnerStep(w)
  PROVE  Ownership'
<1> USE DEF RunnerTo
<1>0. UNCHANGED <<submitter, canceller, drained, stopping, stopper>>
  BY DEF RunnerStep, RunnerTake, RunnerSleep, MarkRunning, EngineReturns, ExecuteThrows,
         PersistFinal, PersistFallback, RunnerComplete, RunnerLeave, queueVars, stopVars
<1>1. CASE RunnerTake(w)
  <2> DEFINE h == Head(queue)
  <2>1. /\ h \in ToSet(queue) /\ h \in Runs /\ h # NoRun
        /\ ToSet(queue') = ToSet(queue) \ {h} /\ IsInjective(queue')
    BY <1>1, OwnedRuns, TailElements, NoRunAssumption DEF RunnerTake, Ownership, QueueOwns
  <2>2. /\ runner'[w].run = h /\ \A v \in Runners \ {w} : runner'[v] = runner[v]
        /\ UNCHANGED active /\ queue # <<>> /\ runner[w].pc # "exited"
    BY <1>1 DEF RunnerTake, IInv, ThreadsOK
  <2>3. h \in active /\ submitter[h] = "ok" /\ \A v \in Runners : runner[v].run # h
    BY <2>1 DEF Ownership, QueueOwns, RunnersOwn
  <2> HIDE DEF h
  <2>4. QueueOwns'
    BY <1>0, <2>1, <2>2 DEF Ownership, QueueOwns
  <2>5. RunnersOwn'
    BY <1>0, <2>1, <2>2, <2>3 DEF Ownership, RunnersOwn
  <2>6. CancelsOwn'
    BY <1>0, <2>2 DEF Ownership, CancelsOwn, Ending
  <2>7. StopOwns'
    BY <1>0, <2>2 DEF Ownership, StopOwns
  <2>8. ActiveOwned'
    <3> SUFFICES ASSUME NEW q \in active
                 PROVE  submitter[q] = "ok" /\ (q \in ToSet(queue') \/ \E v \in Runners : runner'[v].run = q)
      BY <1>0, <2>2 DEF ActiveOwned
    <3>1. submitter[q] = "ok" /\ (q \in ToSet(queue) \/ \E v \in Runners : runner[v].run = q)
      BY DEF Ownership, ActiveOwned
    <3>2. runner[w].run = NoRun
      BY <1>1 DEF RunnerTake, IInv, RunnerHasRun
    <3> QED BY <2>1, <2>2, <3>1, <3>2, OwnedRuns, NoRunAssumption
  <2> QED BY <2>4, <2>5, <2>6, <2>7, <2>8 DEF Ownership
<1>2. CASE RunnerLeave(w)
  <2> DEFINE r == runner[w].run
  <2>1. r \in Runs /\ r # NoRun
    BY <1>2 DEF RunnerLeave, IInv, ThreadsOK, RunnerState, RunnerHasRun
  <2>2. /\ runner'[w].run = NoRun /\ \A v \in Runners \ {w} : runner'[v] = runner[v]
        /\ active' = active \ {r} /\ UNCHANGED queue /\ runner[w].pc # "exited"
    BY <1>2 DEF RunnerLeave, IInv, ThreadsOK
  <2>3. r \in active /\ r \notin ToSet(queue) /\ \A v \in Runners \ {w} : runner[v].run # r
    BY <2>1 DEF Ownership, RunnersOwn
  <2> HIDE DEF r
  <2>4. QueueOwns'
    BY <1>0, <2>2, <2>3 DEF Ownership, QueueOwns
  <2>5. RunnersOwn'
    BY <1>0, <2>2, <2>3 DEF Ownership, RunnersOwn
  <2>6. CancelsOwn'
    BY <1>0, <2>2 DEF Ownership, CancelsOwn, Ending
  <2>7. StopOwns'
    BY <1>0, <2>2 DEF Ownership, StopOwns
  <2>8. ActiveOwned'
    <3> SUFFICES ASSUME NEW q \in active, q # r
                 PROVE  submitter[q] = "ok" /\ (q \in ToSet(queue) \/ \E v \in Runners : runner'[v].run = q)
      BY <1>0, <2>2 DEF ActiveOwned
    <3>1. submitter[q] = "ok" /\ (q \in ToSet(queue) \/ \E v \in Runners : runner[v].run = q)
      BY DEF Ownership, ActiveOwned
    <3> QED BY <2>2, <3>1 DEF r
  <2> QED BY <2>4, <2>5, <2>6, <2>7, <2>8 DEF Ownership
<1>3. CASE \/ RunnerSleep(w) \/ MarkRunning(w) \/ EngineReturns(w) \/ ExecuteThrows(w)
           \/ PersistFinal(w) \/ PersistFallback(w) \/ RunnerComplete(w)
  <2>1. /\ UNCHANGED <<queue, active>>
        /\ \A v \in Runners : /\ runner'[v].run = runner[v].run
                              /\ runner[v].pc = "exited" => runner'[v].pc = "exited"
    BY <1>3 DEF RunnerSleep, MarkRunning, EngineReturns, ExecuteThrows, PersistFinal,
                PersistFallback, RunnerComplete, queueVars, IInv, ThreadsOK, RunnerState
  <2> QED BY <1>0, <2>1, PlacesKept DEF Ending
<1> QED BY <1>1, <1>2, <1>3 DEF RunnerStep

LEMMA CancelOwnership ==
  ASSUME IInv, Ownership, NEW c \in Cancellers, (\E r \in Runs : CancelFind(c, r)) \/ CancelStep(c)
  PROVE  Ownership'
<1> USE DEF CancelTo
<1>0. UNCHANGED <<submitter, runner, drained, stopping, stopper>>
  BY DEF CancelFind, CancelStep, CancelFinish, CancelLookup, queueVars, stopVars
<1>1. ASSUME NEW r \in Runs, EraseQueued(r), active' = active \ {r}, canceller[c].pc = "idle",
             canceller' = [canceller EXCEPT ![c].pc = "finish", ![c].run = r]
      PROVE  Ownership'
  <2>1. r \in ToSet(queue) /\ ToSet(queue') = ToSet(queue) \ {r} /\ IsInjective(queue')
    <3>1. PICK i \in DOMAIN queue : queue[i] = r /\ queue' = RemoveAt(queue, i)
      BY <1>1 DEF EraseQueued
    <3>2. i \in 1..Len(queue)
      BY OwnedRuns, <3>1
    <3> QED BY <3>1, <3>2, OwnedRuns, RemoveAtElements DEF Ownership, QueueOwns
  <2>2. queue # <<>> /\ ~stopping /\ drained = <<>> /\ ToSet(drained) = {}
    BY <2>1, EmptyElements DEF Ownership, StopOwns
  <2>3. r \in active /\ submitter[r] = "ok" /\ \A v \in Runners : runner[v].run # r
    BY <2>1, NoRunAssumption DEF Ownership, QueueOwns, RunnersOwn
  <2>4. /\ Ending(c)' /\ canceller'[c].run = r
        /\ \A d \in Cancellers \ {c} : canceller'[d] = canceller[d] /\ (Ending(d)' <=> Ending(d))
    BY <1>1 DEF IInv, ThreadsOK, CancelState, Ending
  <2>5. QueueOwns'
    BY <1>0, <1>1, <2>1 DEF Ownership, QueueOwns
  <2>6. RunnersOwn'
    BY <1>0, <1>1, <2>1, <2>3 DEF Ownership, RunnersOwn
  <2>7. CancelsOwn'
    <3>0. active' = active \ {r} /\ ToSet(drained') = {} /\ UNCHANGED submitter
      BY <1>0, <1>1, <2>2
    <3>1. \A d \in Cancellers : Ending(d) =>
             /\ canceller[d].run \notin active /\ canceller[d].run # r
             /\ submitter[canceller[d].run] = "ok"
      BY <2>3 DEF Ownership, CancelsOwn
    <3>2. ASSUME NEW d \in Cancellers, Ending(d)'
          PROVE  /\ canceller'[d].run \notin active' /\ canceller'[d].run \notin ToSet(drained')
                 /\ submitter'[canceller'[d].run] = "ok"
      BY <2>3, <2>4, <3>0, <3>1, <3>2
    <3>3. ASSUME NEW d \in Cancellers, NEW e \in Cancellers, Ending(d)', Ending(e)',
                 canceller'[d].run = canceller'[e].run
          PROVE  d = e
      BY <2>4, <3>1, <3>3 DEF Ownership, CancelsOwn
    <3> QED BY <3>2, <3>3 DEF CancelsOwn
  <2>8. StopOwns'
    BY <1>0, <1>1, <2>2, EmptyElements DEF Ownership, StopOwns
  <2>9. ActiveOwned'
    BY <1>0, <1>1, <2>1 DEF Ownership, ActiveOwned
  <2> QED BY <2>5, <2>6, <2>7, <2>8, <2>9 DEF Ownership
<1>2. ASSUME UNCHANGED <<queue, active>>,
             \A d \in Cancellers : Ending(d)' => Ending(d) /\ canceller'[d].run = canceller[d].run
      PROVE  Ownership'
  BY <1>0, <1>2, PlacesKept
<1>3. ASSUME NEW r \in Runs, CancelFind(c, r) PROVE Ownership'
  <2>1. CASE /\ UNCHANGED <<queue, active>>
             /\ \/ canceller' = [canceller EXCEPT ![c] =
                                   [pc |-> "returned", run |-> r, outcome |-> "Cancelling"]]
                \/ canceller' = [canceller EXCEPT ![c].pc = "lookup", ![c].run = r]
    <3>1. canceller'[c].pc \in {"returned", "lookup"} /\ \A d \in Cancellers \ {c} : canceller'[d] = canceller[d]
      BY <2>1 DEF IInv, ThreadsOK, CancelState
    <3> QED BY <1>2, <2>1, <3>1 DEF Ending
  <2> QED BY <1>1, <1>3, <2>1 DEF CancelFind
<1>4. ASSUME CancelStep(c) PROVE Ownership'
  <2>1. /\ UNCHANGED <<queue, active>>
        /\ \A d \in Cancellers : Ending(d)' => Ending(d) /\ canceller'[d].run = canceller[d].run
    BY <1>4 DEF CancelStep, CancelFinish, CancelLookup, queueVars, IInv, ThreadsOK, CancelState, Ending
  <2> QED BY <1>2, <2>1
<1> QED BY <1>3, <1>4

LEMMA StopOwnership ==
  ASSUME IInv, Ownership, StopSignal \/ StopStep
  PROVE  Ownership'
<1>0. UNCHANGED <<submitter, canceller>> /\ \A w \in Runners : runner'[w].run = runner[w].run
  BY DEF StopSignal, StopStep, StopBegin, StopFinish, StopRunners, StopJoin, WakeAll, IInv,
         ThreadsOK, RunnerState
<1>1. CASE StopBegin
  <2>1. /\ drained' = queue /\ queue' = <<>> /\ active' = active \ ToSet(queue)
        /\ stopping' /\ stopper' = "drain" /\ UNCHANGED runner /\ ToSet(queue') = {} /\ IsInjective(queue')
    BY <1>1, EmptyElements DEF StopBegin, ActiveAfterStop
  <2>2. QueueOwns'
    BY <2>1 DEF QueueOwns
  <2>3. RunnersOwn'
    BY <1>0, <2>1 DEF Ownership, RunnersOwn
  <2>4. CancelsOwn'
    BY <1>0, <2>1 DEF Ownership, CancelsOwn, QueueOwns, Ending
  <2>5. StopOwns'
    BY <1>0, <2>1 DEF Ownership, StopOwns, QueueOwns
  <2>6. ActiveOwned'
    BY <1>0, <2>1 DEF Ownership, ActiveOwned
  <2> QED BY <2>2, <2>3, <2>4, <2>5, <2>6 DEF Ownership
<1>2. ASSUME UNCHANGED <<queue, active, stopping>>, ToSet(drained') \subseteq ToSet(drained),
             StopOwns'
      PROVE  Ownership'
  BY <1>0, <1>2 DEF Ownership, QueueOwns, RunnersOwn, CancelsOwn, ActiveOwned, Ending
<1>3. CASE StopSignal \/ StopRunners \/ StopJoin
  <2>1. UNCHANGED <<queue, active, stopping, drained>>
    BY <1>3 DEF StopSignal, StopRunners, StopJoin, queueVars
  <2>2. StopOwns'
    BY <1>0, <1>3, <2>1, Zenon DEF StopSignal, StopRunners, StopJoin, AllJoined, Ownership, StopOwns
  <2> QED BY <1>2, <2>1, <2>2
<1>4. CASE StopFinish
  <2>1. UNCHANGED <<queue, active, stopping, runner>> /\ drained # <<>> /\ stopper \in {"drain", "drain_complete"}
    BY <1>4 DEF StopFinish, queueVars
  <2>2. CASE UNCHANGED drained /\ stopper' = "drain_complete"
    BY <1>0, <1>2, <2>1, <2>2 DEF Ownership, StopOwns
  <2>3. CASE drained' = Tail(drained) /\ stopper' = "drain"
    <3>1. ToSet(drained') = ToSet(drained) \ {Head(drained)} /\ IsInjective(drained')
      BY <2>1, <2>3, OwnedRuns, TailElements DEF Ownership, StopOwns
    <3> QED BY <1>0, <1>2, <2>1, <2>3, <3>1 DEF Ownership, StopOwns
  <2> QED BY <1>4, <2>2, <2>3 DEF StopFinish
<1> QED BY <1>1, <1>3, <1>4 DEF StopStep

LEMMA NextOwnership == IInv /\ Ownership /\ [Next]_vars => Ownership'
<1> SUFFICES ASSUME IInv, Ownership, [Next]_vars PROVE Ownership'
  OBVIOUS
<1>1. ASSUME UNCHANGED <<queueVars, submitter, runner, canceller, stopVars>> PROVE Ownership'
  BY <1>1, PlacesKept DEF queueVars, stopVars, Ending
<1>2. ASSUME NEW x \in Waiters, (\E r \in Runs : WaitFind(x, r)) \/ WaitStep(x) \/ WaitTimeout(x)
      PROVE  Ownership'
  BY <1>1, <1>2 DEF WaitFind, WaitStep, WaitRead, WaitReturn, WaitTimeout
<1>3. CASE UNCHANGED vars
  BY <1>1, <1>3 DEF vars
<1> QED
  BY <1>2, <1>3, SubmitOwnership, RunnerOwnership, CancelOwnership, StopOwnership DEF Next, Terminated

-----------------------------------------------------------------------------
(* Records.  What is known of a run's row and tracker at each place: it    *)
(* has no row yet; its row is live; its final status v was written, or     *)
(* writing it failed; its tracker is completed.                            *)
Fresh(r)     == rows[r] = NoRow /\ r \notin lost /\ ~Done(r)
Open(r)      == rows[r] \in Live /\ r \notin lost /\ ~Done(r)
Stored(r, v) == IF r \in lost THEN rows[r] \in Live ELSE rows[r] = v
Closing(r, v) == ~Done(r) /\ Stored(r, v)

SubmitRecord(r) ==
  /\ submitter[r] \in {"idle", "insert", "drop"} => Fresh(r)
  /\ submitter[r] \in {"enqueue", "finish"} => Open(r)
  /\ submitter[r] = "complete" => Closing(r, Cancelled)
  /\ submitter[r] \in {"queue_full", "store_error"} => ~Done(r)

RunnerRecord(w) ==
  /\ runner[w].pc \in {"mark", "engine", "persist", "fallback"} => Open(runner[w].run)
  /\ runner[w].pc \in {"persist", "fallback", "complete"} => runner[w].verdict \in Verdicts
  /\ runner[w].pc = "complete" => Closing(runner[w].run, runner[w].verdict)
  /\ runner[w].pc = "leave" => Done(runner[w].run)

CancelRecord(c) ==
  /\ canceller[c].pc = "finish" => Open(canceller[c].run)
  /\ canceller[c].pc = "complete" => Closing(canceller[c].run, Cancelled)

StopRecord(r) ==
  IF stopper = "drain_complete" /\ r = Head(drained) THEN Closing(r, Cancelled) ELSE Open(r)

DoneRecord(r) == Done(r) => Stored(r, final[r])

(* An accepted run that has not ended has an owner.                        *)
Accounted(r) ==
  submitter[r] = "ok" /\ ~Done(r) =>
    \/ r \in active \/ r \in ToSet(drained)
    \/ \E c \in Cancellers : Ending(c) /\ canceller[c].run = r

Records ==
  /\ \A r \in Runs : SubmitRecord(r) /\ DoneRecord(r) /\ Accounted(r)
  /\ \A r \in ToSet(queue) : Open(r)
  /\ \A w \in Runners : RunnerRecord(w)
  /\ \A c \in Cancellers : CancelRecord(c)
  /\ \A r \in ToSet(drained) : StopRecord(r)

-----------------------------------------------------------------------------
(* What a step does to the records of one run                              *)

Same(q) == rows'[q] = rows[q] /\ (q \in lost' <=> q \in lost) /\ final'[q] = final[q]

LEMMA SameRecords ==
  ASSUME NEW q, Same(q)
  PROVE  /\ Fresh(q)' <=> Fresh(q)
         /\ Open(q)' <=> Open(q)
         /\ Done(q)' <=> Done(q)
         /\ \A v : Stored(q, v)' <=> Stored(q, v)
         /\ \A v : Closing(q, v)' <=> Closing(q, v)
BY DEF Same, Fresh, Open, Done, Stored, Closing

(* A store write by the owner of a run that is still open.                 *)
LEMMA WriteRecords ==
  ASSUME IInv, NEW r \in Runs, NEW v, Open(r), UNCHANGED final
  PROVE  /\ LastWrite(r, v) => Closing(r, v)' /\ \A q \in Runs \ {r} : Same(q)
         /\ Write(r, v) /\ UNCHANGED lost => Closing(r, v)' /\ \A q \in Runs \ {r} : Same(q)
         /\ Write(r, v) /\ UNCHANGED lost /\ v \in Live => Open(r)'
         /\ NoWrite(r) /\ UNCHANGED lost => Open(r)' /\ \A q \in Runs \ {r} : Same(q)
<1>1. rows \in [Runs -> RowStatus] /\ rows[r] \in Live /\ r \notin lost /\ ~Done(r)
  BY DEF IInv, StoreOK, Open
<1>2. ~Done(r)'
  BY <1>1 DEF Done
<1>3. ASSUME Write(r, v) PROVE rows'[r] = v /\ \A q \in Runs \ {r} : rows'[q] = rows[q]
  BY <1>1, <1>3 DEF Write, UpdateRun
<1>4. ASSUME NoWrite(r) PROVE UNCHANGED rows
  BY <1>4 DEF NoWrite, StoreFault
<1>5. ASSUME Write(r, v), UNCHANGED lost
      PROVE  Closing(r, v)' /\ (v \in Live => Open(r)') /\ \A q \in Runs \ {r} : Same(q)
  BY <1>1, <1>2, <1>3, <1>5 DEF Closing, Stored, Open, Same
<1>6. ASSUME NoWrite(r), lost' = lost \cup {r}
      PROVE  Closing(r, v)' /\ \A q \in Runs \ {r} : Same(q)
  BY <1>1, <1>2, <1>4, <1>6 DEF Closing, Stored, Same
<1>7. ASSUME NoWrite(r), UNCHANGED lost PROVE Open(r)' /\ \A q \in Runs \ {r} : Same(q)
  BY <1>1, <1>2, <1>4, <1>7 DEF Open, Same
<1> QED BY <1>5, <1>6, <1>7 DEF LastWrite

(* complete() by the owner of a run whose final status was written.        *)
LEMMA CompleteRecords ==
  ASSUME IInv, NEW r \in Runs, NEW v \in Verdicts, Closing(r, v), Complete(r, v), UNCHANGED storeVars
  PROVE  Done(r)' /\ Stored(r, final[r])' /\ \A q \in Runs \ {r} : Same(q)
<1>1. final \in [Runs -> Verdicts \cup {NoRow}] /\ NoRow \notin Verdicts
  BY DEF IInv, StoreOK, Verdicts, NoRow, Success, Failed, Cancelled
<1>2. final'[r] = v /\ (\A q \in Runs \ {r} : final'[q] = final[q]) /\ UNCHANGED <<rows, lost>>
  BY <1>1 DEF Complete, storeVars
<1> QED BY <1>1, <1>2 DEF Closing, Stored, Done, Same

LEMMA InitRecords == Init => Records
BY EmptyElements DEF Init, Records, SubmitRecord, RunnerRecord, CancelRecord, DoneRecord, Accounted,
                     Fresh, Done, NoRow

(* A place whose thread and run are left alone by a step.                  *)
LEMMA SubmitKept ==
  ASSUME NEW r \in Runs, Same(r), submitter'[r] = submitter[r]
  PROVE  SubmitRecord(r) => SubmitRecord(r)'
BY SameRecords DEF SubmitRecord

LEMMA DoneKept ==
  ASSUME NEW r \in Runs, Same(r)
  PROVE  DoneRecord(r) => DoneRecord(r)'
BY SameRecords DEF DoneRecord, Same

LEMMA RunnerKept ==
  ASSUME NEW w \in Runners, runner'[w] = runner[w], RunnerHasRun,
         runner[w].run # NoRun => Same(runner[w].run)
  PROVE  RunnerRecord(w) => RunnerRecord(w)'
<1>1. CASE runner[w].run = NoRun
  BY <1>1 DEF RunnerRecord, RunnerHasRun
<1>2. CASE runner[w].run # NoRun
  BY <1>2 DEF RunnerRecord, Same, Open, Closing, Stored, Done
<1> QED BY <1>1, <1>2

LEMMA CancelKept ==
  ASSUME NEW c \in Cancellers, canceller'[c] = canceller[c], Ending(c) => Same(canceller[c].run)
  PROVE  CancelRecord(c) => CancelRecord(c)'
BY DEF CancelRecord, Ending, Same, Open, Closing, Stored, Done

LEMMA StopKept ==
  ASSUME NEW r \in Runs, Same(r), UNCHANGED stopVars
  PROVE  StopRecord(r) => StopRecord(r)'
BY SameRecords DEF StopRecord, stopVars

LEMMA AccountedKept ==
  ASSUME NEW r \in Runs, submitter'[r] = "ok" /\ ~Done(r)' => submitter[r] = "ok" /\ ~Done(r),
         r \in active => r \in active' \/ Done(r)',
         UNCHANGED <<canceller, drained>>
  PROVE  Accounted(r) => Accounted(r)'
BY DEF Accounted, Ending

(* The run of a runner is in no other place.                               *)
LEMMA RunnersRun ==
  ASSUME IInv, Ownership, NEW w \in Runners, runner[w].run # NoRun
  PROVE  /\ runner[w].run \in Runs /\ runner[w].run \notin ToSet(queue) /\ runner[w].run \notin ToSet(drained)
         /\ submitter[runner[w].run] = "ok" /\ runner[w].run \in active
         /\ \A v \in Runners \ {w} : runner[v].run # runner[w].run
         /\ \A c \in Cancellers : Ending(c) => canceller[c].run # runner[w].run
BY OwnedRuns DEF Ownership, RunnersOwn, CancelsOwn, StopOwns

(* Nor is the run of a cancel() call that took it out of the queue.        *)
LEMMA CancelsRun ==
  ASSUME IInv, Ownership, NEW c \in Cancellers, Ending(c)
  PROVE  /\ canceller[c].run \in Runs /\ canceller[c].run \notin ToSet(queue)
         /\ canceller[c].run \notin ToSet(drained) /\ canceller[c].run \notin active
         /\ submitter[canceller[c].run] = "ok"
         /\ \A v \in Runners : runner[v].run # canceller[c].run
         /\ \A d \in Cancellers \ {c} : Ending(d) => canceller[d].run # canceller[c].run
BY OwnedRuns, NoRunAssumption DEF Ownership, RunnersOwn, CancelsOwn, QueueOwns

(* Nor is a run in stop()'s list.                                          *)
LEMMA StopsRun ==
  ASSUME IInv, Ownership, NEW r \in ToSet(drained)
  PROVE  /\ r \in Runs /\ r \notin ToSet(queue) /\ r \notin active
         /\ submitter[r] = "ok"
         /\ \A v \in Runners : runner[v].run # r
         /\ \A d \in Cancellers : Ending(d) => canceller[d].run # r
BY OwnedRuns, NoRunAssumption DEF Ownership, RunnersOwn, CancelsOwn, QueueOwns, StopOwns

(* Nor is a run that submit() has not handed over.                         *)
LEMMA SubmitsRun ==
  ASSUME IInv, Ownership, NEW r \in Runs, submitter[r] # "ok"
  PROVE  /\ r \notin ToSet(queue) /\ r \notin active /\ r \notin ToSet(drained)
         /\ \A v \in Runners : runner[v].run # r
         /\ \A d \in Cancellers : Ending(d) => canceller[d].run # r
BY OwnedRuns, NoRunAssumption DEF Ownership, RunnersOwn, CancelsOwn, QueueOwns, StopOwns, ActiveOwned

-----------------------------------------------------------------------------
LEMMA SubmitStepRecords ==
  ASSUME IInv, Ownership, Records, NEW r \in Runs, SubmitAdmit(r) \/ SubmitStep(r)
  PROVE  Records'
<1> USE DEF SubmitTo
<1>1. /\ submitter[r] \in {"idle", "insert", "enqueue", "drop", "finish", "complete"}
      /\ UNCHANGED <<canceller, stopVars>> /\ (\A q \in Runs \ {r} : submitter'[q] = submitter[q])
      /\ active \subseteq active' /\ \A w \in Runners : runner'[w] # runner[w] => runner[w].run = NoRun
                           /\ runner'[w].run = NoRun /\ runner'[w].pc = "ready"
  BY DEF SubmitAdmit, SubmitStep, SubmitInsert, SubmitEnqueue, SubmitFinish, NotifyOne, queueVars,
         IInv, ThreadsOK, RunnerState, RunnerHasRun
<1>2. submitter[r] # "ok"
  BY <1>1
<1>3. /\ SubmitRecord(r) /\ DoneRecord(r)
      /\ submitter[r] \in {"idle", "insert", "drop"} => Fresh(r)
      /\ submitter[r] \in {"enqueue", "finish"} => Open(r)
      /\ submitter[r] = "complete" => Closing(r, Cancelled)
  BY DEF Records, SubmitRecord
<1>4. /\ \A q \in Runs \ {r} : Same(q)
      /\ SubmitRecord(r)' /\ DoneRecord(r)'
      /\ \/ submitter'[r] # "ok" /\ UNCHANGED <<queue, active>>
         \/ submitter'[r] = "ok" /\ Open(r)' /\ queue' = Append(queue, r) /\ active' = active \cup {r}
  <2>0. /\ submitter \in [Runs -> SubmitPcs] /\ rows \in [Runs -> RowStatus] /\ ~Done(r)
        /\ Queued \in Live /\ Cancelled \in Verdicts
    BY <1>1, <1>3 DEF IInv, ThreadsOK, StoreOK, Fresh, Open, Closing, Live, Verdicts
  <2>1. CASE SubmitAdmit(r)
    <3>1. UNCHANGED <<queue, active>> /\ \A q \in Runs : Same(q)
      BY <2>1 DEF SubmitAdmit, storeVars, trackerVars, Same
    <3>2. Fresh(r) /\ ~Done(r) /\ submitter'[r] \in {"insert", "queue_full", "shutting_down"}
      BY <1>3, <2>0, <2>1 DEF SubmitAdmit
    <3> QED BY <3>1, <3>2, SameRecords DEF SubmitRecord, DoneRecord
  <2>2. CASE SubmitInsert(r)
    <3>1. UNCHANGED <<queue, active, lost, final>> /\ submitter[r] = "insert" /\ Fresh(r)
      BY <1>3, <2>2 DEF SubmitInsert, queueVars, trackerVars
    <3>2. ASSUME rows' = InsertRun(rows, r, Queued), submitter'[r] = "enqueue"
          PROVE  Open(r)' /\ \A q \in Runs \ {r} : Same(q)
      BY <2>0, <3>1, <3>2 DEF InsertRun, Fresh, Open, Same, Done
    <3>3. ASSUME StoreFault, submitter'[r] = "drop"
          PROVE  Fresh(r)' /\ \A q \in Runs : Same(q)
      BY <3>1, <3>3 DEF StoreFault, Fresh, Same, Done
    <3>4. ~Done(r)'
      BY <2>0, <3>1 DEF Done
    <3> QED BY <2>0, <2>2, <3>1, <3>2, <3>3, <3>4 DEF SubmitInsert, SubmitRecord, DoneRecord
  <2>3. CASE SubmitEnqueue(r)
    <3>1. \A q \in Runs : Same(q)
      BY <2>3 DEF SubmitEnqueue, storeVars, trackerVars, Same
    <3>2. \/ submitter[r] = "enqueue" /\ submitter'[r] = "ok" /\ queue' = Append(queue, r) /\ active' = active \cup {r}
          \/ submitter[r] = "enqueue" /\ submitter'[r] = "finish" /\ UNCHANGED <<queue, active>>
          \/ submitter[r] = "drop" /\ submitter'[r] = "store_error" /\ UNCHANGED <<queue, active>>
      BY <2>0, <2>3 DEF SubmitEnqueue
    <3> QED BY <1>3, <2>0, <3>1, <3>2, SameRecords DEF SubmitRecord, DoneRecord
  <2>4. CASE SubmitFinish(r)
    <3>1. UNCHANGED <<queue, active>>
      BY <2>4 DEF SubmitFinish, queueVars
    <3>2. CASE submitter[r] = "finish" /\ LastWrite(r, Cancelled) /\ submitter'[r] = "complete" /\ UNCHANGED final
      <4>1. Closing(r, Cancelled)' /\ \A q \in Runs \ {r} : Same(q)
        BY <1>3, <3>2, WriteRecords
      <4> QED BY <3>1, <3>2, <4>1 DEF SubmitRecord, DoneRecord, Closing
    <3>3. CASE submitter[r] = "complete" /\ Complete(r, Cancelled) /\ submitter'[r] = "shutting_down" /\ UNCHANGED storeVars
      <4>1. Done(r)' /\ Stored(r, final[r])' /\ \A q \in Runs \ {r} : Same(q)
        BY <1>3, <2>0, <3>3, CompleteRecords
      <4> QED BY <3>1, <3>3, <4>1 DEF SubmitRecord, DoneRecord
    <3> QED BY <2>0, <2>4, <3>2, <3>3 DEF SubmitFinish
  <2> QED BY <2>1, <2>2, <2>3, <2>4 DEF SubmitStep
<1>5. ASSUME NEW q \in Runs PROVE SubmitRecord(q)' /\ DoneRecord(q)' /\ Accounted(q)'
  <2>1. CASE q = r
    BY <1>4, <2>1 DEF Accounted
  <2>2. CASE q # r
    <3>1. Same(q) /\ submitter'[q] = submitter[q] /\ SubmitRecord(q) /\ DoneRecord(q) /\ Accounted(q)
      BY <1>1, <1>4, <2>2 DEF Records
    <3>2. SubmitRecord(q)' /\ DoneRecord(q)'
      BY <3>1, SubmitKept, DoneKept
    <3>3. Accounted(q)'
      BY <1>1, <3>1, AccountedKept, SameRecords DEF stopVars
    <3> QED BY <3>2, <3>3
  <2> QED BY <2>1, <2>2
<1>6. ASSUME NEW q \in ToSet(queue') PROVE Open(q)'
  <2>1. q \in ToSet(queue) \/ (q = r /\ Open(r)')
    <3>1. ToSet(Append(queue, r)) = ToSet(queue) \cup {r}
      BY OwnedRuns, AppendElements
    <3> QED BY <1>4, <3>1
  <2>2. q \in ToSet(queue) => Open(q) /\ Same(q)
    BY <1>2, <1>4, SubmitsRun, OwnedRuns DEF Records
  <2> QED BY <2>1, <2>2, SameRecords
<1>7. ASSUME NEW w \in Runners PROVE RunnerRecord(w)'
  <2>1. CASE runner'[w] = runner[w]
    BY <1>2, <1>4, <2>1, SubmitsRun, OwnedRuns, RunnerKept DEF Records, IInv
  <2>2. CASE runner'[w] # runner[w]
    BY <1>1, <2>2 DEF RunnerRecord
  <2> QED BY <2>1, <2>2
<1>8. ASSUME NEW c \in Cancellers PROVE CancelRecord(c)'
  BY <1>1, <1>2, <1>4, SubmitsRun, OwnedRuns, CancelKept DEF Records
<1>9. ASSUME NEW q \in ToSet(drained') PROVE StopRecord(q)'
  <2>1. q \in ToSet(drained) /\ q \in Runs /\ Same(q)
    BY <1>1, <1>2, <1>4, SubmitsRun, OwnedRuns DEF stopVars
  <2> QED BY <1>1, <2>1, StopKept DEF Records
<1> QED BY <1>5, <1>6, <1>7, <1>8, <1>9 DEF Records

LEMMA RunnerStepRecords ==
  ASSUME IInv, Ownership, Records, NEW w \in Runners, RunnerStep(w)
  PROVE  Records'
<1> USE DEF RunnerTo
<1>0. /\ UNCHANGED <<submitter, canceller, drained, stopper>>
      /\ \A v \in Runners \ {w} : runner'[v] = runner[v]
  BY DEF RunnerStep, RunnerTake, RunnerSleep, MarkRunning, EngineReturns, ExecuteThrows,
         PersistFinal, PersistFallback, RunnerComplete, RunnerLeave, queueVars, stopVars, IInv, ThreadsOK
<1>1. ASSUME UNCHANGED <<rows, lost, final>>, ToSet(queue') \subseteq ToSet(queue), RunnerRecord(w)',
             \A q \in active : q \in active' \/ Done(q)
      PROVE  Records'
  <2>1. \A q \in Runs : Same(q)
    BY <1>1 DEF Same
  <2>2. ASSUME NEW q \in Runs PROVE SubmitRecord(q)' /\ DoneRecord(q)' /\ Accounted(q)'
    <3>1. Same(q) /\ SubmitRecord(q) /\ DoneRecord(q) /\ Accounted(q)
      BY <2>1 DEF Records
    <3>2. Accounted(q)'
      BY <1>0, <1>1, <3>1, AccountedKept, SameRecords
    <3> QED BY <1>0, <3>1, <3>2, SubmitKept, DoneKept
  <2>3. ASSUME NEW q \in ToSet(queue') PROVE Open(q)'
    BY <1>1, <2>1, SameRecords, OwnedRuns DEF Records
  <2>4. ASSUME NEW v \in Runners PROVE RunnerRecord(v)'
    BY <1>0, <1>1, <2>1, OwnedRuns, RunnerKept DEF Records, IInv
  <2>5. ASSUME NEW c \in Cancellers PROVE CancelRecord(c)'
    BY <1>0, <2>1, OwnedRuns, CancelKept DEF Records
  <2>6. ASSUME NEW q \in ToSet(drained') PROVE StopRecord(q)'
    BY <1>0, <2>1, OwnedRuns, StopKept DEF Records, stopVars
  <2> QED BY <2>2, <2>3, <2>4, <2>5, <2>6 DEF Records
<1>2. ASSUME NEW r, r = runner[w].run, r # NoRun, UNCHANGED <<queue, active>>,
             \A q \in Runs \ {r} : Same(q), RunnerRecord(w)', DoneRecord(r)'
      PROVE  Records'
  <2>0. /\ r \in Runs /\ r \notin ToSet(queue) /\ r \notin ToSet(drained) /\ submitter[r] = "ok" /\ r \in active
        /\ \A v \in Runners \ {w} : runner[v].run # r
        /\ \A c \in Cancellers : Ending(c) => canceller[c].run # r
    BY <1>2, RunnersRun
  <2>2. ASSUME NEW q \in Runs PROVE SubmitRecord(q)' /\ DoneRecord(q)' /\ Accounted(q)'
    <3>1. CASE q # r
      <4>1. Same(q) /\ SubmitRecord(q) /\ DoneRecord(q) /\ Accounted(q)
        BY <1>2, <3>1 DEF Records
      <4>2. Accounted(q)'
        BY <1>0, <1>2, <4>1, AccountedKept, SameRecords
      <4> QED BY <1>0, <4>1, <4>2, SubmitKept, DoneKept
    <3>2. CASE q = r
      BY <1>0, <1>2, <2>0, <3>2 DEF SubmitRecord, Accounted
    <3> QED BY <3>1, <3>2
  <2>3. ASSUME NEW q \in ToSet(queue') PROVE Open(q)'
    BY <1>2, <2>0, SameRecords, OwnedRuns DEF Records
  <2>4. ASSUME NEW v \in Runners PROVE RunnerRecord(v)'
    BY <1>0, <1>2, <2>0, OwnedRuns, RunnerKept DEF Records, IInv
  <2>5. ASSUME NEW c \in Cancellers PROVE CancelRecord(c)'
    BY <1>0, <1>2, <2>0, OwnedRuns, CancelKept DEF Records
  <2>6. ASSUME NEW q \in ToSet(drained') PROVE StopRecord(q)'
    BY <1>0, <1>2, <2>0, OwnedRuns, StopKept DEF Records, stopVars
  <2> QED BY <2>2, <2>3, <2>4, <2>5, <2>6 DEF Records
<1>3. CASE RunnerTake(w)
  <2>1. UNCHANGED <<rows, lost, final, active>> /\ Head(queue) \in ToSet(queue) /\ ToSet(queue') \subseteq ToSet(queue)
    BY <1>3, OwnedRuns, TailElements DEF RunnerTake, storeVars, trackerVars, Ownership, QueueOwns
  <2>2. Open(Head(queue)) /\ Same(Head(queue))
    BY <2>1 DEF Records, Same
  <2>3. runner'[w].pc = "mark" /\ runner'[w].run = Head(queue)
    BY <1>3 DEF RunnerTake, IInv, ThreadsOK
  <2>4. RunnerRecord(w)'
    BY <2>1, <2>2, <2>3 DEF RunnerRecord, Open, Done
  <2> QED BY <1>1, <2>1, <2>4
<1>4. CASE RunnerSleep(w)
  <2>1. UNCHANGED <<rows, lost, final, active, queue>> /\ runner'[w].pc \in {"exited", "asleep"}
    BY <1>4 DEF RunnerSleep, storeVars, trackerVars, queueVars, IInv, ThreadsOK, RunnerState
  <2> QED BY <1>1, <2>1 DEF RunnerRecord
<1>5. CASE EngineReturns(w) \/ ExecuteThrows(w)
  <2>1. /\ UNCHANGED <<rows, lost, final, active, queue>> /\ runner[w].pc = "engine"
        /\ runner'[w].pc \in {"persist", "fallback"} /\ runner'[w].run = runner[w].run
        /\ runner'[w].verdict \in Verdicts
    BY <1>5 DEF EngineReturns, ExecuteThrows, storeVars, trackerVars, queueVars, IInv, ThreadsOK, RunnerState,
                VerdictOf, Verdicts
  <2>2. Open(runner[w].run)
    BY <2>1 DEF Records, RunnerRecord
  <2>3. RunnerRecord(w)'
    BY <2>1, <2>2 DEF RunnerRecord, Open, Done
  <2> QED BY <1>1, <2>1, <2>3
<1>6. CASE RunnerLeave(w)
  <2>1. /\ UNCHANGED <<rows, lost, final, queue>> /\ active' = active \ {runner[w].run}
        /\ runner'[w].pc = "ready" /\ runner[w].pc = "leave"
    BY <1>6 DEF RunnerLeave, storeVars, trackerVars, IInv, ThreadsOK
  <2>2. Done(runner[w].run)
    BY <2>1 DEF Records, RunnerRecord
  <2>3. RunnerRecord(w)'
    BY <2>1 DEF RunnerRecord
  <2> QED BY <1>1, <2>1, <2>2, <2>3
<1>7. ASSUME NEW r, r = runner[w].run, NEW v, v = runner[w].verdict,
             MarkRunning(w) \/ PersistFinal(w) \/ PersistFallback(w) \/ RunnerComplete(w)
      PROVE  Records'
  <2>1. /\ r # NoRun /\ r \in Runs /\ UNCHANGED <<queue, active>>
        /\ runner'[w].run = r /\ runner'[w].verdict = v
    BY <1>7 DEF MarkRunning, PersistFinal, PersistFallback, RunnerComplete, queueVars, IInv,
                ThreadsOK, RunnerState, RunnerHasRun
  <2>2. RunnerRecord(w) /\ Running \in Live
    BY DEF Records, Live
  <2>3. CASE MarkRunning(w)
    <3>1. /\ Open(r) /\ UNCHANGED <<lost, final>> /\ runner'[w].pc = "engine"
          /\ Write(r, Running) \/ NoWrite(r)
      BY <1>7, <2>2, <2>3 DEF MarkRunning, RunnerRecord, trackerVars, IInv, ThreadsOK, RunnerState
    <3>2. Open(r)' /\ \A q \in Runs \ {r} : Same(q)
      BY <2>1, <2>2, <3>1, WriteRecords
    <3>3. RunnerRecord(w)' /\ DoneRecord(r)'
      BY <2>1, <3>1, <3>2 DEF RunnerRecord, DoneRecord, Open, Done
    <3> QED BY <1>2, <1>7, <2>1, <3>2, <3>3
  <2>4. CASE PersistFinal(w)
    <3>1. /\ Open(r) /\ UNCHANGED <<lost, final>> /\ v \in Verdicts
          /\ \/ Write(r, v) /\ runner'[w].pc = "complete"
             \/ NoWrite(r) /\ runner'[w].pc = "fallback"
      BY <1>7, <2>2, <2>4 DEF PersistFinal, RunnerRecord, trackerVars, IInv, ThreadsOK, RunnerState
    <3>2. CASE Write(r, v) /\ runner'[w].pc = "complete"
      <4>1. Closing(r, v)' /\ \A q \in Runs \ {r} : Same(q)
        BY <2>1, <3>1, <3>2, WriteRecords
      <4>2. RunnerRecord(w)' /\ DoneRecord(r)'
        BY <2>1, <3>1, <3>2, <4>1 DEF RunnerRecord, DoneRecord, Closing, Stored, Done
      <4> QED BY <1>2, <1>7, <2>1, <4>1, <4>2
    <3>3. CASE NoWrite(r) /\ runner'[w].pc = "fallback"
      <4>1. Open(r)' /\ \A q \in Runs \ {r} : Same(q)
        BY <2>1, <3>1, <3>3, WriteRecords
      <4>2. RunnerRecord(w)' /\ DoneRecord(r)'
        BY <2>1, <3>1, <3>3, <4>1 DEF RunnerRecord, DoneRecord, Open, Done
      <4> QED BY <1>2, <1>7, <2>1, <4>1, <4>2
    <3> QED BY <3>1, <3>2, <3>3
  <2>5. CASE PersistFallback(w)
    <3>1. Open(r) /\ UNCHANGED final /\ v \in Verdicts /\ LastWrite(r, v) /\ runner'[w].pc = "complete"
      BY <1>7, <2>2, <2>5 DEF PersistFallback, RunnerRecord, trackerVars, IInv, ThreadsOK, RunnerState
    <3>2. Closing(r, v)' /\ \A q \in Runs \ {r} : Same(q)
      BY <2>1, <3>1, WriteRecords
    <3>3. RunnerRecord(w)' /\ DoneRecord(r)'
      BY <2>1, <3>1, <3>2 DEF RunnerRecord, DoneRecord, Closing, Stored, Done
    <3> QED BY <1>2, <1>7, <2>1, <3>2, <3>3
  <2>6. CASE RunnerComplete(w)
    <3>1. /\ Closing(r, v) /\ v \in Verdicts /\ Complete(r, v) /\ UNCHANGED storeVars
          /\ runner'[w].pc = "leave"
      BY <1>7, <2>2, <2>6 DEF RunnerComplete, RunnerRecord, IInv, ThreadsOK, RunnerState
    <3>2. Done(r)' /\ Stored(r, final[r])' /\ \A q \in Runs \ {r} : Same(q)
      BY <2>1, <3>1, CompleteRecords
    <3>3. RunnerRecord(w)' /\ DoneRecord(r)'
      BY <2>1, <3>1, <3>2 DEF RunnerRecord, DoneRecord, Done
    <3> QED BY <1>2, <1>7, <2>1, <3>2, <3>3
  <2> QED BY <1>7, <2>3, <2>4, <2>5, <2>6
<1> QED BY <1>3, <1>4, <1>5, <1>6, <1>7 DEF RunnerStep

LEMMA CancelStepRecords ==
  ASSUME IInv, Ownership, Records, NEW c \in Cancellers,
         (\E r \in Runs : CancelFind(c, r)) \/ CancelStep(c)
  PROVE  Records'
<1> USE DEF CancelTo
<1>0. /\ UNCHANGED <<submitter, runner, drained, stopper>>
      /\ \A d \in Cancellers \ {c} : canceller'[d] = canceller[d]
  BY DEF CancelFind, CancelStep, CancelFinish, CancelLookup, stopVars, IInv, ThreadsOK
(* A step that touches no run but r, which only this call may own.         *)
<1>1. ASSUME NEW r \in Runs, \A q \in Runs \ {r} : Same(q),
             Same(r) \/ (Ending(c) /\ canceller[c].run = r),
             ToSet(queue') \subseteq ToSet(queue),
             CancelRecord(c)', DoneRecord(r)', Accounted(r)',
             \A q \in Runs \ {r} : q \in active => q \in active',
             \A q \in Runs \ {r} : Ending(c) /\ canceller[c].run = q => Ending(c)' /\ canceller'[c].run = q
      PROVE  Records'
  <2>0. \/ Same(r)
        \/ /\ r \notin ToSet(queue) /\ r \notin ToSet(drained) /\ submitter[r] = "ok"
           /\ \A v \in Runners : runner[v].run # r
           /\ \A d \in Cancellers \ {c} : Ending(d) => canceller[d].run # r
    BY <1>1, CancelsRun
  <2>1. ASSUME NEW q \in Runs PROVE SubmitRecord(q)' /\ DoneRecord(q)' /\ Accounted(q)'
    <3>0. SubmitRecord(q) /\ DoneRecord(q) /\ Accounted(q)
      BY DEF Records
    <3>1. CASE q # r
      <4>1. Same(q)
        BY <1>1, <3>1
      <4>2. Accounted(q)'
        <5>1. ASSUME submitter[q] = "ok", ~Done(q)
              PROVE  \/ q \in active' \/ q \in ToSet(drained')
                     \/ \E d \in Cancellers : Ending(d)' /\ canceller'[d].run = q
          <6>1. \A d \in Cancellers \ {c} : Ending(d)' <=> Ending(d)
            BY <1>0 DEF Ending
          <6> QED BY <1>0, <1>1, <3>0, <3>1, <5>1, <6>1 DEF Accounted
        <5> QED BY <1>0, <4>1, <5>1, SameRecords DEF Accounted
      <4> QED BY <1>0, <3>0, <4>1, <4>2, SubmitKept, DoneKept
    <3>2. CASE q = r
      <4>1. SubmitRecord(r)'
        <5>1. CASE Same(r)
          BY <1>0, <3>0, <3>2, <5>1, SubmitKept
        <5>2. CASE submitter[r] = "ok"
          BY <1>0, <5>2 DEF SubmitRecord
        <5> QED BY <2>0, <5>1, <5>2
      <4> QED BY <1>1, <3>2, <4>1
    <3> QED BY <3>1, <3>2
  <2>2. ASSUME NEW q \in ToSet(queue') PROVE Open(q)'
    <3>1. Open(q) /\ q \in Runs /\ Same(q)
      BY <1>1, <2>0, OwnedRuns DEF Records
    <3> QED BY <3>1, SameRecords
  <2>3. ASSUME NEW v \in Runners PROVE RunnerRecord(v)'
    <3>1. runner[v].run # NoRun => Same(runner[v].run)
      BY <1>1, <2>0, OwnedRuns
    <3> QED BY <1>0, <3>1, RunnerKept DEF Records, IInv
  <2>4. ASSUME NEW d \in Cancellers PROVE CancelRecord(d)'
    <3>1. CASE d = c
      BY <1>1, <3>1
    <3>2. CASE d # c
      <4>1. Ending(d) => Same(canceller[d].run)
        BY <1>1, <2>0, <3>2, OwnedRuns
      <4> QED BY <1>0, <3>2, <4>1, CancelKept DEF Records
    <3> QED BY <3>1, <3>2
  <2>5. ASSUME NEW q \in ToSet(drained') PROVE StopRecord(q)'
    <3>1. q \in ToSet(drained) /\ q \in Runs /\ Same(q)
      BY <1>0, <1>1, <2>0, OwnedRuns
    <3> QED BY <1>0, <3>1, StopKept DEF Records, stopVars
  <2> QED BY <2>1, <2>2, <2>3, <2>4, <2>5 DEF Records
<1>2. ASSUME NEW r \in Runs, CancelFind(c, r) PROVE Records'
  <2>1. UNCHANGED <<rows, lost, final>> /\ canceller[c].pc = "idle" /\ ~Ending(c)
    BY <1>2 DEF CancelFind, storeVars, Ending
  <2>2. \A q \in Runs : Same(q)
    BY <2>1 DEF Same
  <2>3. DoneRecord(r)' /\ Accounted(r)
    BY <2>2, DoneKept DEF Records
  <2>4. CASE /\ EraseQueued(r) /\ active' = active \ {r}
             /\ canceller' = [canceller EXCEPT ![c].pc = "finish", ![c].run = r]
    <3>1. canceller'[c].pc = "finish" /\ canceller'[c].run = r /\ Ending(c)'
      BY <2>4 DEF IInv, ThreadsOK, CancelState, Ending
    <3>2. r \in ToSet(queue) /\ ToSet(queue') \subseteq ToSet(queue)
      <4>1. PICK i \in DOMAIN queue : queue[i] = r /\ queue' = RemoveAt(queue, i)
        BY <2>4 DEF EraseQueued
      <4>2. i \in 1..Len(queue)
        BY OwnedRuns, <4>1
      <4> QED BY <4>1, <4>2, OwnedRuns, RemoveAtElements DEF Ownership, QueueOwns
    <3>3. Open(r)'
      BY <2>2, <3>2, SameRecords DEF Records
    <3>4. CancelRecord(c)' /\ Accounted(r)'
      BY <3>1, <3>3 DEF CancelRecord, Accounted, Open, Done
    <3> QED BY <1>1, <2>1, <2>2, <2>3, <2>4, <3>2, <3>4
  <2>5. CASE /\ UNCHANGED <<queue, active>>
             /\ \/ canceller' = [canceller EXCEPT ![c] =
                                   [pc |-> "returned", run |-> r, outcome |-> "Cancelling"]]
                \/ canceller' = [canceller EXCEPT ![c].pc = "lookup", ![c].run = r]
    <3>0. canceller'[c].pc \in {"returned", "lookup"}
      BY <2>5 DEF IInv, ThreadsOK, CancelState
    <3>1. CancelRecord(c)' /\ Accounted(r)'
      <4>1. \A d \in Cancellers : Ending(d) => Ending(d)' /\ canceller'[d].run = canceller[d].run
        BY <1>0, <2>1 DEF Ending
      <4> QED BY <1>0, <2>1, <2>3, <2>5, <3>0, <4>1 DEF CancelRecord, Accounted, Done
    <3> QED BY <1>1, <2>1, <2>2, <2>3, <2>5, <3>1
  <2> QED BY <1>2, <2>4, <2>5 DEF CancelFind
<1>3. ASSUME CancelLookup(c) PROVE Records'
  <2>1. UNCHANGED <<rows, lost, final, queue, active>> /\ ~Ending(c) /\ canceller'[c].pc = "returned"
    BY <1>3 DEF CancelLookup, storeVars, trackerVars, queueVars, Ending, IInv, ThreadsOK, CancelState
  <2>2. \A q \in Runs : Same(q)
    BY <2>1 DEF Same
  <2>3. CancelRecord(c)'
    BY <2>1 DEF CancelRecord
  <2>4. \A d \in Cancellers : Ending(d) => Ending(d)' /\ canceller'[d].run = canceller[d].run
    BY <1>0, <2>1 DEF Ending
  <2>5. CASE Runs = {}
    BY <1>0, <2>1, <2>3, <2>5, OwnedRuns, RunnerKept, CancelKept DEF Records, IInv
  <2>6. ASSUME NEW r \in Runs PROVE Records'
    <3>1. Accounted(r) /\ DoneRecord(r)'
      BY <2>2, DoneKept DEF Records
    <3>2. Accounted(r)'
      BY <1>0, <2>1, <2>4, <3>1 DEF Accounted, Done
    <3> QED BY <1>1, <2>1, <2>2, <2>3, <3>1, <3>2
  <2> QED BY <2>5, <2>6
<1>4. ASSUME NEW r, r = canceller[c].run, CancelFinish(c) PROVE Records'
  <2>1. Ending(c) /\ r \in Runs /\ UNCHANGED <<queue, active>> /\ submitter[r] = "ok"
    BY <1>4, OwnedRuns, CancelsRun DEF CancelFinish, Ending, queueVars
  <2>2. CancelRecord(c) /\ Cancelled \in Verdicts
    BY DEF Records, Verdicts
  <2>3. CASE /\ canceller[c].pc = "finish" /\ LastWrite(r, Cancelled)
             /\ CancelTo(c, "complete") /\ UNCHANGED final
    <3>1. Closing(r, Cancelled)' /\ \A q \in Runs \ {r} : Same(q)
      BY <1>4, <2>1, <2>2, <2>3, WriteRecords DEF CancelRecord
    <3>2. canceller'[c].pc = "complete" /\ canceller'[c].run = r /\ Ending(c)'
      BY <1>4, <2>3 DEF IInv, ThreadsOK, CancelState, Ending
    <3>3. CancelRecord(c)' /\ DoneRecord(r)' /\ Accounted(r)'
      BY <3>1, <3>2 DEF CancelRecord, DoneRecord, Accounted, Closing, Stored, Done
    <3> QED BY <1>1, <1>4, <2>1, <3>1, <3>3
  <2>4. CASE /\ canceller[c].pc = "complete" /\ Complete(r, Cancelled) /\ UNCHANGED storeVars
             /\ canceller'[c].pc = "returned"
    <3>1. Done(r)' /\ Stored(r, final[r])' /\ \A q \in Runs \ {r} : Same(q)
      BY <1>4, <2>1, <2>2, <2>4, CompleteRecords DEF CancelRecord
    <3>2. CancelRecord(c)' /\ DoneRecord(r)' /\ Accounted(r)'
      BY <2>4, <3>1 DEF CancelRecord, DoneRecord, Accounted
    <3> QED BY <1>1, <1>4, <2>1, <3>1, <3>2
  <2> QED BY <1>4, <2>3, <2>4 DEF CancelFinish, IInv, ThreadsOK, CancelState
<1> QED BY <1>2, <1>3, <1>4 DEF CancelStep

LEMMA StopStepRecords ==
  ASSUME IInv, Ownership, Records, StopSignal \/ StopStep
  PROVE  Records'
<1>0. /\ UNCHANGED <<submitter, canceller>>
      /\ \A w \in Runners : runner'[w] # runner[w] => runner[w].run = NoRun /\ runner'[w].pc = "ready"
  BY DEF StopSignal, StopStep, StopBegin, StopFinish, StopRunners, StopJoin, WakeAll, IInv,
         ThreadsOK, RunnerState, RunnerHasRun
<1>1. ASSUME NEW r, \A q \in Runs \ {r} : Same(q), r \in ToSet(drained) \/ r \notin Runs,
             \A q \in Runs \ {r} : q \in active \/ q \in ToSet(drained) => q \in active' \/ q \in ToSet(drained'),
             r \in Runs => DoneRecord(r)' /\ Accounted(r)',
             ToSet(queue') \subseteq ToSet(queue), \A q \in ToSet(drained') : StopRecord(q)'
      PROVE  Records'
  <2>0. r \in Runs => /\ r \notin ToSet(queue) /\ submitter[r] = "ok"
                      /\ \A v \in Runners : runner[v].run # r
                      /\ \A d \in Cancellers : Ending(d) => canceller[d].run # r
    BY <1>1, StopsRun
  <2>1. ASSUME NEW q \in Runs PROVE SubmitRecord(q)' /\ DoneRecord(q)' /\ Accounted(q)'
    <3>0. SubmitRecord(q) /\ DoneRecord(q) /\ Accounted(q)
      BY DEF Records
    <3>1. CASE q # r
      <4>1. Same(q)
        BY <1>1, <3>1
      <4>2. Accounted(q)'
        <5>1. \A d \in Cancellers : Ending(d)' <=> Ending(d)
          BY <1>0 DEF Ending
        <5> QED BY <1>0, <1>1, <3>0, <3>1, <4>1, <5>1, SameRecords DEF Accounted
      <4> QED BY <1>0, <3>0, <4>1, <4>2, SubmitKept, DoneKept
    <3>2. CASE q = r
      BY <1>0, <1>1, <2>0, <3>2 DEF SubmitRecord
    <3> QED BY <3>1, <3>2
  <2>2. ASSUME NEW q \in ToSet(queue') PROVE Open(q)'
    <3>1. Open(q) /\ q \in Runs /\ Same(q)
      BY <1>1, <2>0, OwnedRuns DEF Records
    <3> QED BY <3>1, SameRecords
  <2>3. ASSUME NEW v \in Runners PROVE RunnerRecord(v)'
    <3>1. runner[v].run # NoRun => Same(runner[v].run)
      BY <1>1, <2>0, OwnedRuns
    <3>2. CASE runner'[v] = runner[v]
      BY <3>1, <3>2, RunnerKept DEF Records, IInv
    <3>3. CASE runner'[v].pc = "ready"
      BY <3>3 DEF RunnerRecord
    <3> QED BY <1>0, <3>2, <3>3
  <2>4. ASSUME NEW d \in Cancellers PROVE CancelRecord(d)'
    <3>1. Ending(d) => Same(canceller[d].run)
      BY <1>1, <2>0, OwnedRuns
    <3> QED BY <1>0, <3>1, CancelKept DEF Records
  <2> QED BY <1>1, <2>1, <2>2, <2>3, <2>4 DEF Records
<1>2. CASE StopBegin
  <2>1. /\ UNCHANGED <<rows, lost, final>> /\ stopper' = "drain" /\ drained' = queue /\ queue' = <<>>
        /\ active' = active \ ToSet(queue) /\ ToSet(queue') = {}
    BY <1>2, EmptyElements DEF StopBegin, storeVars, ActiveAfterStop
  <2>2. \A q \in Runs : Same(q)
    BY <2>1 DEF Same
  <2>3. ASSUME NEW q \in ToSet(drained') PROVE StopRecord(q)'
    <3>1. Open(q)'
      BY <2>1, <2>2, <2>3, OwnedRuns, SameRecords DEF Records
    <3> QED BY <2>1, <3>1 DEF StopRecord
  <2>4. drained = <<>> /\ ToSet(drained) = {}
    BY <1>2, EmptyElements DEF StopBegin, Ownership, StopOwns
  <2> QED BY <1>1, <2>1, <2>2, <2>3, <2>4, NoRunAssumption
<1>3. CASE StopSignal \/ StopRunners \/ StopJoin
  <2>1. /\ UNCHANGED <<rows, lost, final, queue, active, drained>>
        /\ stopper # "drain_complete" /\ stopper' # "drain_complete"
    BY <1>3 DEF StopSignal, StopRunners, StopJoin, storeVars, trackerVars, queueVars
  <2>2. \A q \in Runs : Same(q)
    BY <2>1 DEF Same
  <2>3. ASSUME NEW q \in ToSet(drained') PROVE StopRecord(q)'
    BY <2>1, <2>2, OwnedRuns, SameRecords DEF Records, StopRecord
  <2> QED BY <1>1, <2>1, <2>2, <2>3, NoRunAssumption
<1>4. ASSUME NEW r, r = Head(drained), StopFinish PROVE Records'
  <2>1. /\ r \in ToSet(drained) /\ r \in Runs /\ UNCHANGED <<queue, active>> /\ drained # <<>>
        /\ ToSet(Tail(drained)) = ToSet(drained) \ {r} /\ IsInjective(Tail(drained))
    BY <1>4, OwnedRuns, TailElements DEF StopFinish, queueVars, Ownership, StopOwns
  <2>2. StopRecord(r) /\ Cancelled \in Verdicts
    BY <2>1 DEF Records, Verdicts
  <2>3. CASE /\ stopper = "drain" /\ LastWrite(r, Cancelled) /\ stopper' = "drain_complete"
             /\ UNCHANGED <<drained, final>>
    <3>1. Closing(r, Cancelled)' /\ \A q \in Runs \ {r} : Same(q)
      BY <2>1, <2>2, <2>3, WriteRecords DEF StopRecord
    <3>2. ASSUME NEW q \in ToSet(drained') PROVE StopRecord(q)'
      <4>1. CASE q = r
        BY <1>4, <2>3, <3>1, <4>1 DEF StopRecord
      <4>2. CASE q # r
        <5>1. Open(q)'
          BY <2>3, <3>1, <4>2, OwnedRuns, SameRecords DEF Records, StopRecord
        <5> QED BY <1>4, <2>3, <4>2, <5>1 DEF StopRecord
      <4> QED BY <4>1, <4>2
    <3>3. DoneRecord(r)' /\ Accounted(r)'
      BY <2>1, <2>3, <3>1 DEF DoneRecord, Accounted, Closing, Stored, Done
    <3> QED BY <1>1, <2>1, <2>3, <3>1, <3>2, <3>3
  <2>4. CASE /\ stopper = "drain_complete" /\ Complete(r, Cancelled) /\ stopper' = "drain"
             /\ drained' = Tail(drained) /\ UNCHANGED storeVars
    <3>1. Done(r)' /\ Stored(r, final[r])' /\ \A q \in Runs \ {r} : Same(q)
      BY <1>4, <2>1, <2>2, <2>4, CompleteRecords DEF StopRecord
    <3>2. ASSUME NEW q \in ToSet(drained') PROVE StopRecord(q)'
      <4>1. q # r /\ q \in ToSet(drained) /\ q \in Runs
        BY <2>1, <2>4, OwnedRuns
      <4>2. Open(q)'
        BY <1>4, <3>1, <4>1, SameRecords DEF Records, StopRecord
      <4> QED BY <2>4, <4>2 DEF StopRecord
    <3>3. DoneRecord(r)' /\ Accounted(r)'
      BY <3>1 DEF DoneRecord, Accounted
    <3> QED BY <1>1, <2>1, <2>4, <3>1, <3>2, <3>3
  <2> QED BY <1>4, <2>3, <2>4 DEF StopFinish
<1> QED BY <1>2, <1>3, <1>4 DEF StopStep

LEMMA NextRecords == IInv /\ Ownership /\ Records /\ [Next]_vars => Records'
<1> SUFFICES ASSUME IInv, Ownership, Records, [Next]_vars PROVE Records'
  OBVIOUS
<1>1. ASSUME UNCHANGED <<queueVars, trackerVars, storeVars, submitter, runner, canceller, stopVars>>
      PROVE  Records'
  BY <1>1 DEF Records, SubmitRecord, DoneRecord, RunnerRecord, CancelRecord, StopRecord, Accounted, Ending,
              Fresh, Open, Stored, Closing, Done, queueVars, trackerVars, storeVars, stopVars
<1>2. ASSUME NEW x \in Waiters, (\E r \in Runs : WaitFind(x, r)) \/ WaitStep(x) \/ WaitTimeout(x)
      PROVE  Records'
  BY <1>1, <1>2 DEF WaitFind, WaitStep, WaitRead, WaitReturn, WaitTimeout
<1>3. CASE UNCHANGED vars
  BY <1>1, <1>3 DEF vars
<1> QED
  BY <1>2, <1>3, SubmitStepRecords, RunnerStepRecords, CancelStepRecords, StopStepRecords
     DEF Next, Terminated

-----------------------------------------------------------------------------
(* What has ended stays as it ended: a tracker is completed once, and a    *)
(* final status in the store is never overwritten.                         *)
LEMMA EndsStay ==
  ASSUME IInv, Records, [Next]_vars, NEW q \in Runs
  PROVE  /\ Done(q) => final'[q] = final[q]
         /\ rows[q] \in Verdicts => rows'[q] = rows[q]
<1>0. /\ rows \in [Runs -> RowStatus] /\ final \in [Runs -> Verdicts \cup {NoRow}]
      /\ Verdicts \cap Live = {} /\ NoRow \notin Verdicts
  BY DEF IInv, StoreOK, Verdicts, Live, NoRow, Success, Failed, Cancelled, Queued, Running
<1>1. ASSUME NEW r, NEW v, Write(r, v) \/ NoWrite(r) \/ LastWrite(r, v)
      PROVE  rows[q] \in Verdicts => rows'[q] = rows[q]
  BY <1>0, <1>1 DEF Write, NoWrite, LastWrite, StoreFault, UpdateRun, UpdateRunReports
<1>2. ASSUME NEW r \in Runs, NEW v, ~Done(r), Complete(r, v) PROVE Done(q) => final'[q] = final[q]
  BY <1>0, <1>2 DEF Complete, Done
<1>3. ASSUME NEW r \in Runs, SubmitAdmit(r) \/ SubmitStep(r)
      PROVE  /\ Done(q) => final'[q] = final[q]
             /\ rows[q] \in Verdicts => rows'[q] = rows[q]
  <2>1. CASE SubmitAdmit(r) \/ SubmitEnqueue(r)
    BY <2>1 DEF SubmitAdmit, SubmitEnqueue, storeVars, trackerVars
  <2>2. CASE SubmitInsert(r)
    <3>1. rows[r] = NoRow
      BY <2>2 DEF SubmitInsert, Records, SubmitRecord, Fresh
    <3> QED BY <1>0, <2>2, <3>1 DEF SubmitInsert, InsertRun, StoreFault, trackerVars
  <2>3. CASE SubmitFinish(r)
    <3>1. submitter[r] = "complete" => ~Done(r)
      BY DEF Records, SubmitRecord, Closing
    <3> QED BY <1>1, <1>2, <2>3, <3>1 DEF SubmitFinish, storeVars
  <2> QED BY <1>3, <2>1, <2>2, <2>3 DEF SubmitStep
<1>4. ASSUME NEW w \in Runners, RunnerStep(w)
      PROVE  /\ Done(q) => final'[q] = final[q]
             /\ rows[q] \in Verdicts => rows'[q] = rows[q]
  <2>1. CASE MarkRunning(w) \/ PersistFinal(w) \/ PersistFallback(w)
    BY <1>1, <2>1 DEF MarkRunning, PersistFinal, PersistFallback, trackerVars
  <2>2. CASE RunnerComplete(w)
    <3>1. runner[w].run \in Runs /\ ~Done(runner[w].run)
      BY <2>2 DEF RunnerComplete, Records, RunnerRecord, Closing, IInv, ThreadsOK, RunnerState, RunnerHasRun
    <3> QED BY <1>2, <2>2, <3>1 DEF RunnerComplete, storeVars
  <2>3. CASE \/ RunnerTake(w) \/ RunnerSleep(w) \/ EngineReturns(w) \/ ExecuteThrows(w) \/ RunnerLeave(w)
    BY <2>3 DEF RunnerTake, RunnerSleep, EngineReturns, ExecuteThrows, RunnerLeave, storeVars, trackerVars
  <2> QED BY <1>4, <2>1, <2>2, <2>3 DEF RunnerStep
<1>5. ASSUME NEW c \in Cancellers, (\E r \in Runs : CancelFind(c, r)) \/ CancelStep(c)
      PROVE  /\ Done(q) => final'[q] = final[q]
             /\ rows[q] \in Verdicts => rows'[q] = rows[q]
  <2>1. CASE CancelFinish(c)
    <3>1. canceller[c].pc = "complete" => canceller[c].run \in Runs /\ ~Done(canceller[c].run)
      BY OwnedRuns DEF Records, CancelRecord, Closing, Ending
    <3> QED BY <1>1, <1>2, <2>1, <3>1 DEF CancelFinish, storeVars
  <2> QED BY <1>5, <2>1 DEF CancelFind, CancelStep, CancelLookup, storeVars, trackerVars
<1>6. ASSUME NEW x \in Waiters, (\E r \in Runs : WaitFind(x, r)) \/ WaitStep(x) \/ WaitTimeout(x)
      PROVE  UNCHANGED <<rows, final>>
  BY <1>6 DEF WaitFind, WaitStep, WaitRead, WaitReturn, WaitTimeout, storeVars, trackerVars
<1>7. CASE StopFinish
  <2>1. Head(drained) \in ToSet(drained) /\ Head(drained) \in Runs
    BY <1>7, OwnedRuns, HeadTailProperties DEF StopFinish, ToSet
  <2>2. stopper = "drain_complete" => ~Done(Head(drained))
    BY <2>1 DEF Records, StopRecord, Closing
  <2> QED BY <1>1, <1>2, <1>7, <2>1, <2>2 DEF StopFinish, storeVars
<1>8. CASE StopSignal \/ StopBegin \/ StopRunners \/ StopJoin \/ UNCHANGED vars
  BY <1>8 DEF StopSignal, StopBegin, StopRunners, StopJoin, vars, storeVars, trackerVars
<1> QED BY <1>3, <1>4, <1>5, <1>6, <1>7, <1>8 DEF Next, StopStep, Terminated

(* Answers.  What a waiter was told is the run's final status; it got it   *)
(* from the tracker or, the run having left active_, from the store.       *)
Answered(x) ==
  /\ waiter[x].pc # "returned" => waiter[x].answer = NoRow
  /\ waiter[x].answer # NoRow =>
       /\ waiter[x].run \in Runs /\ waiter[x].answer \in Verdicts
       /\ waiter[x].answer = IF Done(waiter[x].run) THEN final[waiter[x].run] ELSE rows[waiter[x].run]

Answers == \A x \in Waiters : Answered(x)

LEMMA NextAnswers == IInv /\ Records /\ Records' /\ Answers /\ [Next]_vars => Answers'
<1> SUFFICES ASSUME IInv, Records, Records', Answers, [Next]_vars, NEW x \in Waiters PROVE Answered(x)'
  BY DEF Answers
<1>0. /\ waiter \in [Waiters -> WaitState] /\ waiter[x].run \in Runs \cup {NoRun}
      /\ waiter[x].answer \in Verdicts \cup {NoRow}
      /\ NoRow \notin Verdicts /\ Verdicts \cap Live = {}
  BY DEF IInv, ThreadsOK, WaitState, Verdicts, Live, NoRow, Success, Failed, Cancelled, Queued, Running
<1>1. CASE waiter'[x] = waiter[x]
  <2>1. CASE waiter[x].answer = NoRow
    BY <1>1, <2>1 DEF Answered
  <2>2. CASE waiter[x].answer # NoRow
    <3>0. waiter[x].pc = "returned"
      BY <2>2 DEF Answers, Answered
    <3>1. PICK r \in Runs : /\ r = waiter[x].run /\ waiter[x].answer \in Verdicts
                            /\ waiter[x].answer = IF Done(r) THEN final[r] ELSE rows[r]
      BY <2>2 DEF Answers, Answered
    <3>2. Done(r) => final'[r] = final[r] /\ Done(r)'
      BY EndsStay DEF Done
    <3>3. ~Done(r) => rows'[r] = rows[r] /\ rows'[r] \in Verdicts
      BY <3>1, EndsStay
    <3>4. Done(r)' => IF r \in lost' THEN rows'[r] \in Live ELSE rows'[r] = final'[r]
      BY DEF Records, DoneRecord, Stored
    <3>5. waiter[x].answer = IF Done(r)' THEN final'[r] ELSE rows'[r]
      BY <1>0, <3>1, <3>2, <3>3, <3>4
    <3> QED BY <1>1, <3>0, <3>1, <3>5 DEF Answered, Done
  <2> QED BY <2>1, <2>2
<1>2. CASE waiter'[x] # waiter[x]
  <2>1. PICK r \in Runs : WaitFind(x, r) \/ WaitStep(x) \/ WaitTimeout(x)
    <3>1. ASSUME NEW y \in Waiters, (\E r \in Runs : WaitFind(y, r)) \/ WaitStep(y) \/ WaitTimeout(y)
          PROVE  y = x
      BY <1>0, <1>2, <3>1 DEF WaitFind, WaitStep, WaitRead, WaitReturn, WaitTimeout
    <3>2. Next
      BY <1>2 DEF vars
    <3>3. ASSUME UNCHANGED waiter PROVE FALSE
      BY <1>2, <3>3
    <3>4. \E y \in Waiters : (\E r \in Runs : WaitFind(y, r)) \/ WaitStep(y) \/ WaitTimeout(y)
      BY <3>2, <3>3 DEF Next, SubmitAdmit, SubmitStep, SubmitInsert, SubmitEnqueue, SubmitFinish, RunnerStep,
         RunnerTake, RunnerSleep, MarkRunning, EngineReturns, ExecuteThrows, PersistFinal, PersistFallback,
         RunnerComplete, RunnerLeave, CancelFind, CancelStep, CancelFinish, CancelLookup, StopSignal, StopStep,
         StopBegin, StopFinish, StopRunners, StopJoin, Terminated, vars
    <3>5. waiter[x].pc \in {"read", "blocked"} => waiter[x].run \in Runs
      BY <1>0 DEF IInv, ClientsHaveRun
    <3> QED BY <3>1, <3>4, <3>5 DEF WaitStep, WaitRead, WaitReturn, WaitTimeout
  <2>2. UNCHANGED <<rows, final>>
    BY <2>1 DEF WaitFind, WaitStep, WaitRead, WaitReturn, WaitTimeout, storeVars, trackerVars
  <2>3. CASE WaitFind(x, r) \/ WaitTimeout(x)
    <3>1. waiter[x].answer = NoRow
      BY <2>3 DEF Answers, Answered, WaitFind, WaitTimeout
    <3>2. waiter'[x].answer = NoRow
      BY <1>0, <2>3, <3>1 DEF WaitFind, WaitTimeout, WaitState
    <3> QED BY <3>2 DEF Answered
  <2>4. CASE WaitRead(x)
    <3>1. PICK q \in Runs : q = waiter[x].run
      BY <1>0, <2>4 DEF IInv, ClientsHaveRun, WaitRead
    <3>2. waiter'[x].run = q /\ waiter'[x].pc = "returned" /\ waiter'[x].answer = FinalRecord(rows[q])
      BY <1>0, <2>4, <3>1 DEF WaitRead, WaitState
    <3>3. rows[q] \in RowStatus /\ DoneRecord(q)
      BY DEF IInv, StoreOK, Records
    <3>4. FinalRecord(rows[q]) # NoRow =>
            rows[q] \in Verdicts /\ FinalRecord(rows[q]) = rows[q]
      BY <3>3 DEF FinalRecord, IsTerminal, RowStatus
    <3>5. rows[q] \in Verdicts => rows[q] = IF Done(q) THEN final[q] ELSE rows[q]
      BY <1>0, <3>3 DEF DoneRecord, Stored
    <3> QED BY <2>2, <3>2, <3>4, <3>5 DEF Answered, Done
  <2>5. CASE WaitReturn(x)
    <3>1. PICK q \in Runs : q = waiter[x].run
      BY <1>0, <2>5 DEF IInv, ClientsHaveRun, WaitReturn
    <3>2. /\ waiter'[x].run = q /\ waiter'[x].pc = "returned" /\ waiter'[x].answer = final[q]
          /\ final[q] # NoRow
      BY <1>0, <2>5, <3>1 DEF WaitReturn, WaitState, Done
    <3>3. final[q] \in Verdicts
      BY <3>2 DEF IInv, StoreOK
    <3> QED BY <2>2, <3>2, <3>3 DEF Answered, Done
  <2> QED BY <2>1, <2>3, <2>4, <2>5 DEF WaitStep
<1> QED BY <1>1, <1>2

LEMMA InitAnswers == Init => Answers
BY DEF Init, Answers, Answered

-----------------------------------------------------------------------------
(* The inductive invariant                                                 *)
QueueInv == IInv /\ Ownership /\ Records /\ Answers

LEMMA QueueInvariance == Spec => []QueueInv
<1>1. Init => QueueInv
  BY InitIInv, InitOwnership, InitRecords, InitAnswers DEF QueueInv
<1>2. QueueInv /\ [Next]_vars => QueueInv'
  BY NextIInv, NextOwnership, NextRecords, NextAnswers DEF QueueInv
<1> QED BY <1>1, <1>2, PTL DEF Spec

(* A set with one possible element.                                        *)
LEMMA AtMostOne ==
  ASSUME NEW S, NEW e, S \subseteq {e}
  PROVE  Cardinality(S) <= 1
<1>1. CASE S = {}
  <2>1. Cardinality(S) = 0 BY <1>1, FS_EmptySet
  <2> QED BY <2>1
<1>2. CASE S = {e}
  <2>1. Cardinality(S) = 1 BY <1>2, FS_Singleton
  <2> QED BY <2>1
<1> QED BY <1>1, <1>2

LEMMA AtOnePlace ==
  ASSUME IInv, Ownership, NEW r \in Runs
  PROVE  \E e : Owners(r) \subseteq {e}
<1> DEFINE InQueue == {j \in DOMAIN queue : queue[j] = r}
           AtRunners == {v \in Runners : runner[v].run = r}
           AtCancels == {d \in Cancellers : canceller[d].run = r /\ Ending(d)}
           InDrained == {j \in DOMAIN drained : drained[j] = r}
           Submitting == {submitter[r]} \cap {"insert", "enqueue", "drop", "finish", "complete"}
<1>0. Owners(r) = {<<"submit", r>> : s \in Submitting} \cup {<<"queue", i>> : i \in InQueue}
                  \cup {<<"runner", w>> : w \in AtRunners} \cup {<<"cancel", c>> : c \in AtCancels}
                  \cup {<<"stop", i>> : i \in InDrained}
  BY DEF Owners, Ending
<1>1. /\ InQueue = {} <=> r \notin ToSet(queue)
      /\ InDrained = {} <=> r \notin ToSet(drained)
      /\ AtRunners = {} <=> \A v \in Runners : runner[v].run # r
      /\ AtCancels = {} <=> \A d \in Cancellers : Ending(d) => canceller[d].run # r
      /\ submitter[r] = "ok" => Submitting = {}
  BY DEF ToSet
<1>2. /\ \A i, j \in InQueue : i = j
      /\ \A i, j \in InDrained : i = j
      /\ \A i, j \in AtRunners : i = j
      /\ \A i, j \in AtCancels : i = j
  BY NoRunAssumption DEF Ownership, QueueOwns, StopOwns, RunnersOwn, CancelsOwn, IsInjective
<1> HIDE DEF InQueue, AtRunners, AtCancels, InDrained, Submitting
<1>3. CASE submitter[r] # "ok"
  <2>1. InQueue = {} /\ AtRunners = {} /\ AtCancels = {} /\ InDrained = {}
    BY <1>1, <1>3, SubmitsRun
  <2> QED BY <1>0, <2>1
<1>4. ASSUME NEW i \in InQueue PROVE \E e : Owners(r) \subseteq {e}
  <2>1. r \in ToSet(queue)
    BY <1>1, <1>4
  <2>2. submitter[r] = "ok" /\ r \in active
    BY <2>1 DEF Ownership, QueueOwns
  <2>3. AtRunners = {} /\ AtCancels = {} /\ InDrained = {} /\ Submitting = {}
    BY <1>1, <2>1, <2>2, NoRunAssumption DEF Ownership, RunnersOwn, CancelsOwn, StopOwns
  <2>4. Owners(r) \subseteq {<<"queue", i>>}
    BY <1>0, <1>2, <2>3
  <2> QED BY <2>4
<1>5. ASSUME NEW w \in AtRunners PROVE \E e : Owners(r) \subseteq {e}
  <2>1. w \in Runners /\ runner[w].run = r /\ r # NoRun
    BY NoRunAssumption DEF AtRunners
  <2>2. InQueue = {} /\ AtCancels = {} /\ InDrained = {} /\ Submitting = {}
    BY <1>1, <2>1, RunnersRun
  <2>3. Owners(r) \subseteq {<<"runner", w>>}
    BY <1>0, <1>2, <2>2
  <2> QED BY <2>3
<1>6. ASSUME NEW c \in AtCancels PROVE \E e : Owners(r) \subseteq {e}
  <2>1. c \in Cancellers /\ canceller[c].run = r /\ Ending(c)
    BY DEF AtCancels
  <2>2. InQueue = {} /\ AtRunners = {} /\ InDrained = {} /\ Submitting = {}
    BY <1>1, <2>1, CancelsRun
  <2>3. Owners(r) \subseteq {<<"cancel", c>>}
    BY <1>0, <1>2, <2>2
  <2> QED BY <2>3
<1>7. ASSUME NEW i \in InDrained PROVE \E e : Owners(r) \subseteq {e}
  <2>1. r \in ToSet(drained)
    BY <1>1, <1>7
  <2>2. InQueue = {} /\ AtRunners = {} /\ AtCancels = {} /\ Submitting = {}
    BY <1>1, <2>1, StopsRun
  <2>3. Owners(r) \subseteq {<<"stop", i>>}
    BY <1>0, <1>2, <2>2
  <2> QED BY <2>3
<1>8. CASE submitter[r] = "ok" /\ InQueue = {} /\ AtRunners = {} /\ AtCancels = {} /\ InDrained = {}
  BY <1>0, <1>1, <1>8
<1> QED BY <1>3, <1>4, <1>5, <1>6, <1>7, <1>8

(* For any number of threads, a run has one owner at most, an accepted     *)
(* run has one until it is ended, and active_ holds exactly the runs that  *)
(* are queued or with a runner: no interleaving of submit(), the runners,  *)
(* cancel() and stop() executes a run twice, or loses one.                 *)
THEOREM RunsHaveOneOwner == Spec => []OneOwner
<1>1. QueueInv => OneOwner
  <2> SUFFICES ASSUME IInv, Ownership, Records, NEW r \in Runs
               PROVE  /\ Cardinality(Owners(r)) <= 1
                      /\ submitter[r] = "ok" /\ ~Done(r) => Owners(r) # {}
                      /\ r \in active <=> \E o \in Owners(r) : o[1] \in {"queue", "runner"}
    BY DEF QueueInv, OneOwner
  <2>1. Cardinality(Owners(r)) <= 1
    BY AtOnePlace, AtMostOne
  <2>2. /\ \A i \in DOMAIN queue : queue[i] = r => <<"queue", i>> \in Owners(r)
        /\ \A w \in Runners : runner[w].run = r => <<"runner", w>> \in Owners(r)
        /\ \A c \in Cancellers : Ending(c) /\ canceller[c].run = r => <<"cancel", c>> \in Owners(r)
        /\ \A i \in DOMAIN drained : drained[i] = r => <<"stop", i>> \in Owners(r)
    BY DEF Owners, Ending
  <2>3. \A o \in Owners(r) : o[1] \in {"queue", "runner"} =>
           r \in ToSet(queue) \/ \E w \in Runners : runner[w].run = r
    BY DEF Owners, ToSet
  <2>4. r \in active <=> r \in ToSet(queue) \/ \E w \in Runners : runner[w].run = r
    BY NoRunAssumption DEF Ownership, ActiveOwned, QueueOwns, RunnersOwn
  <2>5. r \in active => \E o \in Owners(r) : o[1] \in {"queue", "runner"}
    <3>1. CASE r \in ToSet(queue)
      <4>1. PICK i \in DOMAIN queue : queue[i] = r
        BY <3>1 DEF ToSet
      <4>2. <<"queue", i>> \in Owners(r)
        BY <2>2, <4>1
      <4> QED BY <4>2
    <3>2. ASSUME NEW w \in Runners, runner[w].run = r
          PROVE  \E o \in Owners(r) : o[1] \in {"queue", "runner"}
      <4>1. <<"runner", w>> \in Owners(r)
        BY <2>2, <3>2
      <4> QED BY <4>1
    <3> QED BY <2>4, <3>1, <3>2
  <2>6. submitter[r] = "ok" /\ ~Done(r) => Owners(r) # {}
    <3>1. CASE r \in active
      BY <2>5, <3>1
    <3>2. CASE r \in ToSet(drained)
      BY <2>2, <3>2 DEF ToSet
    <3>3. ASSUME NEW c \in Cancellers, Ending(c), canceller[c].run = r PROVE Owners(r) # {}
      BY <2>2, <3>3
    <3>4. Accounted(r)
      BY DEF Records
    <3> QED BY <3>1, <3>2, <3>3, <3>4 DEF Accounted
  <2> QED BY <2>1, <2>3, <2>4, <2>5, <2>6
<1> QED BY <1>1, QueueInvariance, PTL

(* What the waiters of a run are told and what the store keeps of it       *)
(* agree, whichever thread ended the run, unless its last write failed.    *)
THEOREM HistoryAgrees == Spec => []PublishedIsStored
<1>1. QueueInv => PublishedIsStored
  BY DEF QueueInv, Records, DoneRecord, Stored, PublishedIsStored
<1> QED BY <1>1, QueueInvariance, PTL

(* Every answer of wait() is the run's one final status, although the      *)
(* store and the tracker are read outside the critical section that chose  *)
(* between them.                                                           *)
THEOREM WaitersGetTheVerdict == Spec => []WaitAnswersFinal
<1>1. QueueInv => WaitAnswersFinal
  BY DEF QueueInv, Answers, Answered, WaitAnswersFinal
<1> QED BY <1>1, QueueInvariance, PTL

(* stop() returns to an empty queue with every accepted run ended, but     *)
(* for one a cancel() call is about to end.                                *)
THEOREM StopDrains == Spec => []StopLeavesNothing
<1>1. QueueInv => StopLeavesNothing
  <2> SUFFICES ASSUME IInv, Ownership, Records, stopper = "stopped"
               PROVE  /\ queue = <<>> /\ active = {} /\ running = 0
                      /\ \A r \in Runs : submitter[r] = "ok" =>
                           Done(r) \/ \E c \in Cancellers : <<"cancel", c>> \in Owners(r)
    BY DEF QueueInv, StopLeavesNothing
  <2>1. queue = <<>> /\ drained = <<>> /\ \A w \in Runners : runner[w].run = NoRun
    BY DEF Ownership, StopOwns, IInv, RunnerHasRun
  <2>2. active = {}
    <3>1. ToSet(queue) = {}
      BY <2>1, EmptyElements
    <3> QED BY <2>1, <3>1, OwnedRuns, NoRunAssumption DEF Ownership, ActiveOwned
  <2>3. running = 0
    <3>1. Busy = {}
      BY <2>1 DEF Busy
    <3> QED BY <3>1, FS_EmptySet DEF IInv, CountersCount
  <2>4. ASSUME NEW r \in Runs, submitter[r] = "ok", ~Done(r)
        PROVE  \E c \in Cancellers : <<"cancel", c>> \in Owners(r)
    <3>1. PICK c \in Cancellers : Ending(c) /\ canceller[c].run = r
      BY <2>1, <2>2, <2>4, EmptyElements DEF Records, Accounted
    <3> QED BY <3>1 DEF Owners, Ending
  <2> QED BY <2>1, <2>2, <2>3, <2>4
<1> QED BY <1>1, QueueInvariance, PTL
-----------------------------------------------------------------------------
(* Refinement of RunLifecycle, step by step.  A run's phase is read off    *)
(* its place, so a step moves at most the run its thread owns.             *)

LEMMA PhaseKept ==
  ASSUME NEW q, Done(q)' <=> Done(q), submitter'[q] = submitter[q],
         q \in ToSet(queue') <=> q \in ToSet(queue),
         (\E w \in Runners : runner'[w].run = q) <=> (\E w \in Runners : runner[w].run = q)
  PROVE  PhaseOf(q)' = PhaseOf(q)
BY DEF PhaseOf

(* One run changes its phase.                                              *)
LEMMA PhaseMoves ==
  ASSUME NEW r \in Runs, NEW from, NEW to, PhaseOf(r) = from, PhaseOf(r)' = to,
         \A q \in Runs \ {r} : PhaseOf(q)' = PhaseOf(q)
  PROVE  Lifecycle!Move(r, from, to)
BY DEF Lifecycle!Move

LEMMA PhasesStay ==
  ASSUME \A q \in Runs : PhaseOf(q)' = PhaseOf(q), UNCHANGED <<final, stopping>>
  PROVE  UNCHANGED Lifecycle!lifecycleVars
BY DEF Lifecycle!lifecycleVars

LEMMA SubmitRefines ==
  ASSUME QueueInv, NEW r \in Runs, SubmitAdmit(r) \/ SubmitStep(r)
  PROVE  Lifecycle!Next \/ UNCHANGED Lifecycle!lifecycleVars
<1> USE DEF SubmitTo
<1>0. /\ submitter[r] \in {"idle", "insert", "enqueue", "drop", "finish", "complete"}
      /\ submitter \in [Runs -> SubmitPcs] /\ UNCHANGED stopping
      /\ \A q \in Runs \ {r} : submitter'[q] = submitter[q]
      /\ \A w \in Runners : runner'[w].run = runner[w].run
  BY DEF SubmitAdmit, SubmitStep, SubmitInsert, SubmitEnqueue, SubmitFinish, NotifyOne, queueVars,
         QueueInv, IInv, ThreadsOK, RunnerState
<1>1. /\ ~Done(r) /\ r \notin ToSet(queue) /\ \A v \in Runners : runner[v].run # r
      /\ final \in [Runs -> Verdicts \cup {NoRow}]
  BY <1>0, SubmitsRun DEF QueueInv, Records, SubmitRecord, Fresh, Open, Closing, IInv, StoreOK
<1>2. \A q \in Runs \ {r} : q \in ToSet(queue') <=> q \in ToSet(queue)
  <2>1. ToSet(Append(queue, r)) = ToSet(queue) \cup {r}
    BY OwnedRuns, AppendElements DEF QueueInv
  <2> QED BY <2>1 DEF SubmitAdmit, SubmitStep, SubmitInsert, SubmitEnqueue, SubmitFinish, queueVars
<1>3. \A w \in Runners : runner'[w].run # r
  BY <1>0, <1>1
<1>4. ASSUME \A q \in Runs \ {r} : Done(q)' <=> Done(q)
      PROVE  \A q \in Runs \ {r} : PhaseOf(q)' = PhaseOf(q)
  BY <1>0, <1>2, <1>4, PhaseKept
<1>5. ASSUME UNCHANGED final PROVE ~Done(r)' /\ \A q \in Runs : Done(q)' <=> Done(q)
  BY <1>1, <1>5 DEF Done
<1>6. CASE SubmitAdmit(r)
  <2>1. UNCHANGED <<final, queue>> /\ submitter[r] = "idle"
    BY <1>6 DEF SubmitAdmit, trackerVars
  <2>2. PhaseOf(r) = "new" /\ \A q \in Runs \ {r} : PhaseOf(q)' = PhaseOf(q)
    BY <1>1, <1>4, <1>5, <2>1 DEF PhaseOf
  <2>3. CASE submitter' = [submitter EXCEPT ![r] = "insert"] /\ ~stopping
    <3>1. PhaseOf(r)' = "persisting"
      BY <1>0, <1>5, <2>1, <2>3 DEF PhaseOf
    <3>2. Lifecycle!Reserve(r)
      BY <1>0, <2>1, <2>2, <2>3, <3>1, PhaseMoves DEF Lifecycle!Reserve
    <3> QED BY <3>2 DEF Lifecycle!Next
  <2>4. CASE \E pc \in {"shutting_down", "queue_full"} : submitter' = [submitter EXCEPT ![r] = pc]
    <3>1. PhaseOf(r)' = "refused"
      BY <1>0, <1>5, <2>1, <2>4 DEF PhaseOf
    <3>2. Lifecycle!Refuse(r)
      BY <1>0, <2>1, <2>2, <3>1, PhaseMoves DEF Lifecycle!Refuse
    <3> QED BY <3>2 DEF Lifecycle!Next
  <2> QED BY <1>6, <2>3, <2>4 DEF SubmitAdmit
<1>7. CASE SubmitInsert(r)
  <2>1. /\ UNCHANGED <<final, queue>> /\ submitter[r] = "insert" /\ submitter'[r] \in {"enqueue", "drop"}
    BY <1>0, <1>7 DEF SubmitInsert, trackerVars, queueVars
  <2>2. PhaseOf(r)' = PhaseOf(r)
    BY <1>1, <1>5, <2>1 DEF PhaseOf
  <2> QED BY <1>0, <1>4, <1>5, <2>1, <2>2, PhasesStay
<1>8. CASE SubmitEnqueue(r)
  <2>1. UNCHANGED final /\ submitter[r] \in {"enqueue", "drop"}
    BY <1>8 DEF SubmitEnqueue, trackerVars
  <2>2. PhaseOf(r) = "persisting" /\ \A q \in Runs \ {r} : PhaseOf(q)' = PhaseOf(q)
    BY <1>1, <1>4, <1>5, <2>1 DEF PhaseOf
  <2>3. CASE ~stopping /\ submitter'[r] = "ok" /\ queue' = Append(queue, r)
    <3>1. r \in ToSet(queue')
      BY <2>3, OwnedRuns, AppendElements DEF QueueInv
    <3>2. PhaseOf(r)' = "waiting"
      BY <1>5, <2>1, <2>3, <3>1 DEF PhaseOf
    <3>3. Lifecycle!Accept(r)
      BY <1>0, <2>1, <2>2, <2>3, <3>2, PhaseMoves DEF Lifecycle!Accept
    <3> QED BY <3>3 DEF Lifecycle!Next
  <2>4. CASE stopping /\ submitter'[r] = "finish" /\ UNCHANGED queue
    <3>1. PhaseOf(r)' = "calledoff"
      BY <1>1, <1>3, <1>5, <2>1, <2>4 DEF PhaseOf
    <3>2. Lifecycle!CallOff(r)
      BY <1>0, <2>1, <2>2, <2>4, <3>1, PhaseMoves DEF Lifecycle!CallOff
    <3> QED BY <3>2 DEF Lifecycle!Next
  <2>5. CASE submitter'[r] = "store_error"
    <3>1. PhaseOf(r)' = "refused"
      BY <1>5, <2>1, <2>5 DEF PhaseOf
    <3>2. Lifecycle!Refuse(r)
      BY <1>0, <2>1, <2>2, <3>1, PhaseMoves DEF Lifecycle!Refuse
    <3> QED BY <3>2 DEF Lifecycle!Next
  <2> QED BY <1>0, <1>8, <2>3, <2>4, <2>5 DEF SubmitEnqueue, StillAccepting
<1>9. CASE SubmitFinish(r)
  <2>1. UNCHANGED queue /\ submitter[r] \in {"finish", "complete"} /\ PhaseOf(r) = "calledoff"
    BY <1>1, <1>9 DEF SubmitFinish, queueVars, PhaseOf
  <2>2. CASE submitter'[r] = "complete" /\ UNCHANGED final
    <3>1. PhaseOf(r)' = "calledoff"
      BY <1>1, <1>3, <1>5, <2>1, <2>2 DEF PhaseOf
    <3> QED BY <1>0, <1>4, <1>5, <2>1, <2>2, <3>1, PhasesStay
  <2>3. CASE final' = [final EXCEPT ![r] = Cancelled]
    <3>1. Done(r)' /\ \A q \in Runs \ {r} : Done(q)' <=> Done(q)
      BY <1>1, <2>3 DEF Done, Cancelled, NoRow
    <3>2. PhaseOf(r)' = "ended"
      BY <3>1 DEF PhaseOf
    <3>3. Lifecycle!End(r)
      BY <1>0, <1>4, <2>1, <2>3, <3>1, <3>2, PhaseMoves DEF Lifecycle!End, Lifecycle!Cancelled, Cancelled
    <3> QED BY <3>3 DEF Lifecycle!Next
  <2> QED BY <1>0, <1>9, <2>2, <2>3 DEF SubmitFinish, Complete
<1> QED BY <1>6, <1>7, <1>8, <1>9 DEF SubmitStep

(* The end of a run, whoever brings it about.                              *)
LEMMA EndRefines ==
  ASSUME QueueInv, NEW r \in Runs, NEW v \in Verdicts, ~Done(r), Complete(r, v),
         PhaseOf(r) \in {"calledoff", "executing"}, PhaseOf(r) = "calledoff" => v = Cancelled,
         UNCHANGED <<stopping, submitter, queue>>, \A w \in Runners : runner'[w].run = runner[w].run
  PROVE  Lifecycle!Next
<1>1. final \in [Runs -> Verdicts \cup {NoRow}] /\ NoRow \notin Verdicts
  BY DEF QueueInv, IInv, StoreOK, Verdicts, NoRow, Success, Failed, Cancelled
<1>2. final' = [final EXCEPT ![r] = v] /\ Done(r)' /\ \A q \in Runs \ {r} : Done(q)' <=> Done(q)
  BY <1>1 DEF Complete, Done
<1>3. PhaseOf(r)' = "ended" /\ \A q \in Runs \ {r} : PhaseOf(q)' = PhaseOf(q)
  BY <1>2, PhaseKept DEF PhaseOf
<1>4. v \in Lifecycle!Verdicts /\ Cancelled = Lifecycle!Cancelled
  BY DEF Verdicts, Lifecycle!Verdicts, Success, Failed, Cancelled, Lifecycle!Success, Lifecycle!Failed,
         Lifecycle!Cancelled
<1>5. Lifecycle!End(r)
  BY <1>2, <1>3, <1>4, PhaseMoves DEF Lifecycle!End
<1> QED BY <1>5 DEF Lifecycle!Next

(* Steps that neither move a run nor end one.                              *)
LEMMA StutterRefines ==
  ASSUME UNCHANGED <<final, stopping, submitter>>, ToSet(queue') = ToSet(queue),
         \A w \in Runners : runner'[w].run = runner[w].run
  PROVE  UNCHANGED Lifecycle!lifecycleVars
<1>1. \A q \in Runs : PhaseOf(q)' = PhaseOf(q)
  BY PhaseKept DEF Done
<1> QED BY <1>1, PhasesStay

LEMMA RunnerRefines ==
  ASSUME QueueInv, NEW w \in Runners, RunnerStep(w)
  PROVE  Lifecycle!Next \/ UNCHANGED Lifecycle!lifecycleVars
<1> USE DEF RunnerTo
<1>0. UNCHANGED <<submitter, stopping>> /\ \A v \in Runners \ {w} : runner'[v] = runner[v]
  BY DEF RunnerStep, RunnerTake, RunnerSleep, MarkRunning, EngineReturns, ExecuteThrows, PersistFinal,
         PersistFallback, RunnerComplete, RunnerLeave, queueVars, QueueInv, IInv, ThreadsOK
<1>1. ASSUME NEW r, r = Head(queue), RunnerTake(w) PROVE Lifecycle!Next
  <2>1. /\ r \in ToSet(queue) /\ r \in Runs /\ ToSet(queue') = ToSet(queue) \ {r} /\ UNCHANGED final
        /\ queue # <<>>
    BY <1>1, OwnedRuns, TailElements DEF RunnerTake, QueueInv, Ownership, QueueOwns, trackerVars
  <2>2. ~Done(r) /\ submitter[r] = "ok" /\ ~stopping
    BY <2>1 DEF QueueInv, Records, Open, Ownership, QueueOwns, StopOwns
  <2>3. runner'[w].run = r /\ runner[w].run = NoRun
    BY <1>1 DEF RunnerTake, QueueInv, IInv, ThreadsOK, RunnerHasRun
  <2>4. PhaseOf(r) = "waiting"
    BY <2>1, <2>2 DEF PhaseOf
  <2>5. PhaseOf(r)' = "executing"
    BY <1>0, <2>1, <2>2, <2>3 DEF PhaseOf, Done
  <2>6. ASSUME NEW q \in Runs \ {r} PROVE PhaseOf(q)' = PhaseOf(q)
    <3>1. (\E v \in Runners : runner'[v].run = q) <=> (\E v \in Runners : runner[v].run = q)
      BY <1>0, <2>3, NoRunAssumption
    <3> QED BY <1>0, <2>1, <3>1, PhaseKept DEF Done
  <2>7. Lifecycle!Start(r)
    BY <1>0, <2>1, <2>2, <2>4, <2>5, <2>6, PhaseMoves DEF Lifecycle!Start
  <2> QED BY <2>1, <2>7 DEF Lifecycle!Next
<1>2. CASE RunnerLeave(w)
  <2>1. PICK r \in Runs : r = runner[w].run
    BY <1>2 DEF RunnerLeave, QueueInv, IInv, ThreadsOK, RunnerState, RunnerHasRun
  <2>2. UNCHANGED <<queue, final>> /\ runner'[w].run = NoRun /\ Done(r)
    BY <1>2, <2>1 DEF RunnerLeave, trackerVars, QueueInv, Records, RunnerRecord, IInv, ThreadsOK
  <2>3. ASSUME NEW q \in Runs \ {r} PROVE PhaseOf(q)' = PhaseOf(q)
    <3>1. (\E v \in Runners : runner'[v].run = q) <=> (\E v \in Runners : runner[v].run = q)
      BY <1>0, <2>1, <2>2, NoRunAssumption
    <3> QED BY <1>0, <2>2, <3>1, PhaseKept DEF Done
  <2>4. PhaseOf(r)' = PhaseOf(r)
    BY <2>2 DEF PhaseOf, Done
  <2> QED BY <1>0, <2>2, <2>3, <2>4, PhasesStay
<1>3. CASE RunnerComplete(w)
  <2>1. PICK r \in Runs : r = runner[w].run /\ r # NoRun
    BY <1>3, NoRunAssumption DEF RunnerComplete, QueueInv, IInv, ThreadsOK, RunnerState, RunnerHasRun
  <2>2. PICK v \in Verdicts : v = runner[w].verdict /\ Closing(r, v)
    BY <1>3, <2>1 DEF RunnerComplete, QueueInv, Records, RunnerRecord
  <2>3. submitter[r] = "ok" /\ r \notin ToSet(queue) /\ ~Done(r)
    BY <2>1, <2>2, RunnersRun DEF QueueInv, Closing
  <2>4. PhaseOf(r) = "executing"
    BY <2>1, <2>3 DEF PhaseOf
  <2>5. UNCHANGED queue /\ Complete(r, v) /\ \A u \in Runners : runner'[u].run = runner[u].run
    BY <1>3, <2>1, <2>2 DEF RunnerComplete, queueVars, QueueInv, IInv, ThreadsOK, RunnerState
  <2> QED BY <1>0, <2>3, <2>4, <2>5, EndRefines
<1>4. CASE \/ RunnerSleep(w) \/ MarkRunning(w) \/ EngineReturns(w) \/ ExecuteThrows(w)
           \/ PersistFinal(w) \/ PersistFallback(w)
  <2>1. UNCHANGED <<queue, final>> /\ \A u \in Runners : runner'[u].run = runner[u].run
    BY <1>4 DEF RunnerSleep, MarkRunning, EngineReturns, ExecuteThrows, PersistFinal, PersistFallback,
                queueVars, trackerVars, QueueInv, IInv, ThreadsOK, RunnerState
  <2> QED BY <1>0, <2>1, StutterRefines
<1> QED BY <1>1, <1>2, <1>3, <1>4 DEF RunnerStep

LEMMA CancelRefines ==
  ASSUME QueueInv, NEW c \in Cancellers, (\E r \in Runs : CancelFind(c, r)) \/ CancelStep(c)
  PROVE  Lifecycle!Next \/ UNCHANGED Lifecycle!lifecycleVars
<1> USE DEF CancelTo
<1>0. UNCHANGED <<submitter, stopping, runner>>
  BY DEF CancelFind, CancelStep, CancelFinish, CancelLookup, queueVars
<1>1. ASSUME NEW r \in Runs, EraseQueued(r), UNCHANGED final PROVE Lifecycle!Next
  <2>1. r \in ToSet(queue) /\ ToSet(queue') = ToSet(queue) \ {r}
    <3>1. PICK i \in DOMAIN queue : queue[i] = r /\ queue' = RemoveAt(queue, i)
      BY <1>1 DEF EraseQueued
    <3>2. i \in 1..Len(queue)
      BY OwnedRuns, <3>1 DEF QueueInv
    <3> QED BY <3>1, <3>2, OwnedRuns, RemoveAtElements DEF QueueInv, Ownership, QueueOwns
  <2>2. ~Done(r) /\ submitter[r] = "ok" /\ \A v \in Runners : runner[v].run # r
    BY <2>1, NoRunAssumption DEF QueueInv, Records, Open, Ownership, QueueOwns, RunnersOwn
  <2>3. PhaseOf(r) = "waiting"
    BY <2>1, <2>2 DEF PhaseOf
  <2>4. PhaseOf(r)' = "calledoff"
    BY <1>0, <1>1, <2>1, <2>2 DEF PhaseOf, Done
  <2>5. \A q \in Runs \ {r} : PhaseOf(q)' = PhaseOf(q)
    BY <1>0, <1>1, <2>1, PhaseKept DEF Done
  <2>6. Lifecycle!CallOff(r)
    BY <1>0, <1>1, <2>3, <2>4, <2>5, PhaseMoves DEF Lifecycle!CallOff
  <2> QED BY <2>6 DEF Lifecycle!Next
<1>2. ASSUME NEW r \in Runs, CancelFind(c, r) PROVE Lifecycle!Next \/ UNCHANGED Lifecycle!lifecycleVars
  <2>1. UNCHANGED final /\ (EraseQueued(r) \/ UNCHANGED queue)
    BY <1>2 DEF CancelFind
  <2> QED BY <1>0, <1>1, <2>1, StutterRefines
<1>3. CASE CancelLookup(c)
  BY <1>0, <1>3, StutterRefines DEF CancelLookup, queueVars, trackerVars
<1>4. CASE CancelFinish(c)
  <2>0. UNCHANGED queue
    BY <1>4 DEF CancelFinish, queueVars
  <2>1. CASE UNCHANGED final
    BY <1>0, <2>0, <2>1, StutterRefines
  <2>2. CASE canceller[c].pc = "complete" /\ Complete(canceller[c].run, Cancelled)
    <3>1. PICK r \in Runs : r = canceller[c].run
      BY <2>2, OwnedRuns DEF QueueInv, Ending
    <3>2. /\ ~Done(r) /\ submitter[r] = "ok" /\ r \notin ToSet(queue)
          /\ \A v \in Runners : runner[v].run # r
      BY <2>2, <3>1, CancelsRun DEF QueueInv, Ending, Records, CancelRecord, Closing
    <3>3. PhaseOf(r) = "calledoff" /\ Cancelled \in Verdicts
      BY <3>2 DEF PhaseOf, Verdicts
    <3> QED BY <1>0, <2>0, <2>2, <3>1, <3>2, <3>3, EndRefines
  <2> QED BY <1>4, <2>1, <2>2 DEF CancelFinish
<1> QED BY <1>2, <1>3, <1>4 DEF CancelStep

LEMMA StopRefines ==
  ASSUME QueueInv, StopSignal \/ StopStep
  PROVE  Lifecycle!Next \/ UNCHANGED Lifecycle!lifecycleVars
<1>0. UNCHANGED submitter /\ \A w \in Runners : runner'[w].run = runner[w].run
  BY DEF StopSignal, StopStep, StopBegin, StopFinish, StopRunners, StopJoin, WakeAll, QueueInv, IInv,
         ThreadsOK, RunnerState
<1>1. CASE StopBegin
  <2>1. /\ UNCHANGED final /\ stopping' = TRUE /\ ToSet(queue') = {} /\ ~stopping
    BY <1>1, EmptyElements DEF StopBegin, QueueInv, Ownership, StopOwns
  <2>2. ASSUME NEW q \in Runs
        PROVE  PhaseOf(q)' = IF PhaseOf(q) = "waiting" THEN "calledoff" ELSE PhaseOf(q)
    <3>1. Done(q)' <=> Done(q)
      BY <2>1 DEF Done
    <3>2. (\E v \in Runners : runner'[v].run = q) <=> (\E v \in Runners : runner[v].run = q)
      BY <1>0
    <3>3. CASE q \in ToSet(queue)
      <4>1. ~Done(q) /\ submitter[q] = "ok" /\ \A v \in Runners : runner[v].run # q
        BY <3>3, NoRunAssumption DEF QueueInv, Records, Open, Ownership, QueueOwns, RunnersOwn
      <4> QED BY <1>0, <2>1, <3>1, <3>2, <3>3, <4>1 DEF PhaseOf
    <3>4. CASE q \notin ToSet(queue)
      <4>1. PhaseOf(q) # "waiting"
        BY <3>4 DEF PhaseOf
      <4> QED BY <1>0, <2>1, <3>1, <3>2, <3>4, <4>1, PhaseKept
    <3> QED BY <3>3, <3>4
  <2>3. Lifecycle!Close
    BY <2>1, <2>2 DEF Lifecycle!Close
  <2> QED BY <2>3 DEF Lifecycle!Next
<1>2. CASE StopSignal \/ StopRunners \/ StopJoin
  BY <1>0, <1>2, StutterRefines DEF StopSignal, StopRunners, StopJoin, queueVars, trackerVars
<1>3. CASE StopFinish
  <2>0. UNCHANGED <<queue, stopping>>
    BY <1>3 DEF StopFinish, queueVars
  <2>1. CASE UNCHANGED final
    BY <1>0, <2>0, <2>1, StutterRefines
  <2>2. CASE stopper = "drain_complete" /\ Complete(Head(drained), Cancelled)
    <3>1. PICK r \in Runs : r = Head(drained) /\ r \in ToSet(drained)
      BY <1>3, OwnedRuns, TailElements DEF StopFinish, QueueInv, Ownership, StopOwns
    <3>2. /\ ~Done(r) /\ submitter[r] = "ok" /\ r \notin ToSet(queue)
          /\ \A v \in Runners : runner[v].run # r
      BY <2>2, <3>1, StopsRun DEF QueueInv, Records, StopRecord, Closing
    <3>3. PhaseOf(r) = "calledoff" /\ Cancelled \in Verdicts
      BY <3>2 DEF PhaseOf, Verdicts
    <3> QED BY <1>0, <2>0, <2>2, <3>1, <3>2, <3>3, EndRefines
  <2> QED BY <1>3, <2>1, <2>2 DEF StopFinish
<1> QED BY <1>1, <1>2, <1>3 DEF StopStep

LEMMA NextRefines == QueueInv /\ [Next]_vars => [Lifecycle!Next]_Lifecycle!lifecycleVars
<1> SUFFICES ASSUME QueueInv, [Next]_vars
             PROVE  Lifecycle!Next \/ UNCHANGED Lifecycle!lifecycleVars
  OBVIOUS
<1>1. ASSUME UNCHANGED <<queueVars, trackerVars, submitter, runner>>
      PROVE  UNCHANGED Lifecycle!lifecycleVars
  BY <1>1, StutterRefines DEF queueVars, trackerVars
<1>2. ASSUME NEW x \in Waiters, (\E r \in Runs : WaitFind(x, r)) \/ WaitStep(x) \/ WaitTimeout(x)
      PROVE  UNCHANGED Lifecycle!lifecycleVars
  BY <1>1, <1>2 DEF WaitFind, WaitStep, WaitRead, WaitReturn, WaitTimeout
<1>3. CASE UNCHANGED vars
  BY <1>1, <1>3 DEF vars
<1> QED
  BY <1>2, <1>3, SubmitRefines, RunnerRefines, CancelRefines, StopRefines DEF Next, Terminated

(* The run queue implements the lifecycle of a run: every run is refused,  *)
(* or admitted and ended once with one verdict; it starts once at most and *)
(* not after it was called off; nothing is admitted or started once stop() *)
(* has begun.                                                              *)
THEOREM Refinement == Spec => ImplementsLifecycle
<1>1. Init => Lifecycle!Init
  BY DEF Init, Lifecycle!Init, PhaseOf, Done, NoRow, Lifecycle!NoRow
<1> QED BY <1>1, NextRefines, QueueInvariance, PTL DEF Spec, ImplementsLifecycle, Lifecycle!Spec
=============================================================================
