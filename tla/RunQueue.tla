------------------------------ MODULE RunQueue ------------------------------
(***************************************************************************)
(* The run queue (jobs/RunQueue.{hpp,cpp}) with the part of JobService     *)
(* that executes a run (jobs/JobService.hpp): bounded admission, a FIFO,   *)
(* a fixed pool of runner threads, cancellation, waiting and shutdown.     *)
(*                                                                         *)
(* Threads: one submitting thread per run, the runners, threads that call  *)
(* cancel(), threads that call wait(), and the main thread that stops the  *)
(* queue.  One action is one critical section of RunQueue::mutex_ (or of a *)
(* tracker), or one call of the store, which is never made under mutex_.   *)
(* Everything a thread keeps between two such sections is in its pc.       *)
(***************************************************************************)
EXTENDS RunStatus, Integers, Sequences, FiniteSets, SequencesExt

CONSTANTS
  Runs,         \* run ids (generate_id): each submit() call uses one
  Runners,      \* the runner threads; |Runners| is options_.max_concurrent
  Cancellers,   \* threads that each make one cancel() call
  Waiters,      \* threads that each make one wait() call
  MaxQueued,    \* options_.max_queued
  MaxFaults,    \* bound: store writes that fail
  NoRun         \* a runner or client without a run

ASSUME RunnersAssumption == IsFiniteSet(Runners) /\ Runners # {}
ASSUME BoundsAssumption  == MaxQueued \in Nat /\ MaxFaults \in Nat
ASSUME NoRunAssumption   == NoRun \notin Runs

MaxConcurrent == Cardinality(Runners)

VARIABLES
  queue,        \* queue_: ids in FIFO order
  active,       \* keys of active_
  running,      \* running_
  reserved,     \* reserved_
  stopping,     \* stopping_
  stopRequested,\* runs whose Tracker::stop was requested
  final,        \* Tracker::final's status; NoRow while Tracker::done is false
  rows,         \* the runs table: status by id
  lost,         \* history: runs whose final status could not be written
  faults,       \* failed store writes so far
  shutdown,     \* JobService::shutdown_ has been requested
  runnersStop,  \* the runners' stop tokens have been requested
  submitter,    \* pc of the thread inside submit(), by run
  runner,       \* [pc, run, verdict] of each runner
  canceller,    \* [pc, run, outcome] of each cancel() call
  waiter,       \* [pc, run, answer] of each wait() call
  stopper,      \* pc of the thread inside stop()
  drained       \* stop()'s local `cancelled`: queued runs still to be finished

queueVars   == <<queue, active, running, reserved, stopping>>
trackerVars == <<stopRequested, final>>
storeVars   == <<rows, lost, faults>>
signalVars  == <<shutdown, runnersStop>>
stopVars    == <<stopper, drained>>
vars == <<queueVars, trackerVars, storeVars, signalVars,
          submitter, runner, canceller, waiter, stopVars>>

SubmitPcs == {"idle", "insert", "enqueue", "drop", "finish", "complete",
              "ok", "queue_full", "shutting_down", "store_error"}
RunnerPcs == {"ready", "asleep", "mark", "engine", "persist", "fallback",
              "complete", "leave", "exited"}
CancelPcs == {"idle", "finish", "complete", "lookup", "returned"}
Outcomes  == {"none", "NotFound", "AlreadyFinished", "Cancelled", "Cancelling",
              "NotCancellable"}
WaitPcs   == {"idle", "read", "blocked", "returned"}
StopPcs   == {"idle", "signalled", "drain", "drain_complete", "join", "stopped"}

Done(r) == final[r] # NoRow

Init ==
  /\ queue = <<>> /\ active = {} /\ running = 0 /\ reserved = 0 /\ stopping = FALSE
  /\ stopRequested = {} /\ final = [r \in Runs |-> NoRow]
  /\ rows = [r \in Runs |-> NoRow] /\ lost = {} /\ faults = 0
  /\ shutdown = FALSE /\ runnersStop = FALSE
  /\ submitter = [r \in Runs |-> "idle"]
  /\ runner = [w \in Runners |-> [pc |-> "ready", run |-> NoRun, verdict |-> NoRow]]
  /\ canceller = [c \in Cancellers |-> [pc |-> "idle", run |-> NoRun, outcome |-> "none"]]
  /\ waiter = [x \in Waiters |-> [pc |-> "idle", run |-> NoRun, answer |-> NoRow]]
  /\ stopper = "idle" /\ drained = <<>>

-----------------------------------------------------------------------------
(* The store and the trackers                                              *)

(* A store call that may fail: SQLite returns an error and nothing changes.*)
StoreFault ==
  /\ faults < MaxFaults
  /\ faults' = faults + 1
  /\ UNCHANGED rows

(* update_run succeeded / returned false for run r.                        *)
Write(r, status) ==
  /\ UpdateRunReports(rows, r)
  /\ rows' = UpdateRun(rows, r, status)
  /\ UNCHANGED faults

NoWrite(r) ==
  \/ StoreFault
  \/ ~UpdateRunReports(rows, r) /\ UNCHANGED <<rows, faults>>

(* The last attempt to write a final status: whether it worked is only     *)
(* remembered in the history variable.                                     *)
LastWrite(r, status) ==
  \/ Write(r, status) /\ UNCHANGED lost
  \/ NoWrite(r) /\ lost' = lost \cup {r}

(* complete(): the waiters' record is published.                           *)
Complete(r, status) == final' = [final EXCEPT ![r] = status]

SubmitTo(r, pc) == submitter' = [submitter EXCEPT ![r] = pc]
CancelTo(c, pc) == canceller' = [canceller EXCEPT ![c].pc = pc]

-----------------------------------------------------------------------------
(* submit()                                                                *)

IdleRunners == MaxConcurrent - running
AtCapacity_IgnoresReserved == Len(queue) >= MaxQueued + IdleRunners
AtCapacity == Len(queue) + reserved >= MaxQueued + IdleRunners

ReserveSlot_Forgotten == UNCHANGED reserved
ReserveSlot == reserved' = reserved + 1

(* First critical section: refuse, or hold a slot while the run is         *)
(* persisted.                                                              *)
SubmitAdmit(r) ==
  /\ submitter[r] = "idle"
  /\ \/ /\ stopping
        /\ SubmitTo(r, "shutting_down") /\ UNCHANGED reserved
     \/ /\ ~stopping /\ AtCapacity
        /\ SubmitTo(r, "queue_full") /\ UNCHANGED reserved
     \/ /\ ~stopping /\ ~AtCapacity
        /\ SubmitTo(r, "insert") /\ ReserveSlot
  /\ UNCHANGED <<queue, active, running, stopping, trackerVars, storeVars,
                 signalVars, runner, canceller, waiter, stopVars>>

SubmitInsert(r) ==
  /\ submitter[r] = "insert"
  /\ \/ /\ rows' = InsertRun(rows, r, Queued) /\ UNCHANGED faults
        /\ SubmitTo(r, "enqueue")
     \/ StoreFault /\ SubmitTo(r, "drop")
  /\ UNCHANGED <<queueVars, trackerVars, lost, signalVars, runner, canceller,
                 waiter, stopVars>>

NotifyOne_Forgotten == UNCHANGED runner

(* work_cv_.notify_one(): one sleeping runner, if there is one, becomes    *)
(* ready to look at the queue again.                                       *)
NotifyOne ==
  LET asleep == {w \in Runners : runner[w].pc = "asleep"}
  IN  \/ asleep = {} /\ UNCHANGED runner
      \/ \E w \in asleep : runner' = [runner EXCEPT ![w].pc = "ready"]

StillAccepting_Unchecked == TRUE
StillAccepting == ~stopping

(* Second critical section: the slot becomes a queue entry unless the      *)
(* insert failed or stop() ran in between.                                 *)
SubmitEnqueue(r) ==
  /\ submitter[r] \in {"enqueue", "drop"}
  /\ reserved' = reserved - 1
  /\ \/ /\ submitter[r] = "enqueue" /\ StillAccepting
        /\ active' = active \cup {r}
        /\ queue' = Append(queue, r)
        /\ NotifyOne
        /\ SubmitTo(r, "ok")
     \/ /\ submitter[r] = "enqueue" /\ ~StillAccepting
        /\ SubmitTo(r, "finish")
        /\ UNCHANGED <<active, queue, runner>>
     \/ /\ submitter[r] = "drop"
        /\ SubmitTo(r, "store_error")
        /\ UNCHANGED <<active, queue, runner>>
  /\ UNCHANGED <<running, stopping, trackerVars, storeVars, signalVars,
                 canceller, waiter, stopVars>>

(* finish_cancelled() on behalf of submit(): the store, then the tracker.  *)
SubmitFinish(r) ==
  /\ \/ /\ submitter[r] = "finish"
        /\ LastWrite(r, Cancelled)
        /\ SubmitTo(r, "complete") /\ UNCHANGED final
     \/ /\ submitter[r] = "complete"
        /\ Complete(r, Cancelled)
        /\ SubmitTo(r, "shutting_down") /\ UNCHANGED storeVars
  /\ UNCHANGED <<queueVars, stopRequested, signalVars, runner, canceller,
                 waiter, stopVars>>

-----------------------------------------------------------------------------
(* runner() and JobService::execute()                                      *)

RunnerTo(w, pc) == runner' = [runner EXCEPT ![w].pc = pc]

(* The critical section of the runner loop: take the head, or sleep, or    *)
(* return when the stop token is requested and nothing is queued.          *)
RunnerTake(w) ==
  /\ runner[w].pc = "ready"
  /\ queue # <<>>
  /\ runner' = [runner EXCEPT ![w] = [pc |-> "mark", run |-> Head(queue), verdict |-> NoRow]]
  /\ queue' = Tail(queue)
  /\ running' = running + 1
  /\ UNCHANGED <<active, reserved, stopping, trackerVars, storeVars, signalVars,
                 submitter, canceller, waiter, stopVars>>

RunnerSleep(w) ==
  /\ runner[w].pc = "ready"
  /\ queue = <<>>
  /\ RunnerTo(w, IF runnersStop THEN "exited" ELSE "asleep")
  /\ UNCHANGED <<queueVars, trackerVars, storeVars, signalVars, submitter,
                 canceller, waiter, stopVars>>

(* status = running; the result of this write is ignored.                  *)
MarkRunning(w) ==
  /\ runner[w].pc = "mark"
  /\ Write(runner[w].run, Running) \/ NoWrite(runner[w].run)
  /\ RunnerTo(w, "engine")
  /\ UNCHANGED <<queueVars, trackerVars, lost, signalVars, submitter, canceller,
                 waiter, stopVars>>

(* A run that did not succeed after a stop was requested is cancelled.     *)
VerdictOf(r, succeeded) ==
  IF succeeded THEN Success
  ELSE IF r \in stopRequested \/ shutdown THEN Cancelled ELSE Failed

(* The engine returns, or throws (which counts as not succeeded).          *)
EngineReturns(w) ==
  /\ runner[w].pc = "engine"
  /\ \E succeeded \in BOOLEAN :
       runner' = [runner EXCEPT ![w].pc = "persist",
                                ![w].verdict = VerdictOf(runner[w].run, succeeded)]
  /\ UNCHANGED <<queueVars, trackerVars, storeVars, signalVars, submitter,
                 canceller, waiter, stopVars>>

(* execute() itself throws (out of memory while it records an error): the  *)
(* runner's catch-all makes the run failed and writes it once.             *)
ExecuteThrows(w) ==
  /\ runner[w].pc = "engine"
  /\ runner' = [runner EXCEPT ![w].pc = "fallback", ![w].verdict = Failed]
  /\ UNCHANGED <<queueVars, trackerVars, storeVars, signalVars, submitter,
                 canceller, waiter, stopVars>>

(* The final update_run; when it fails, once more without the result.      *)
PersistFinal_NoRetry(w) ==
  /\ runner[w].pc = "persist"
  /\ Write(runner[w].run, runner[w].verdict) \/ NoWrite(runner[w].run)
  /\ RunnerTo(w, "complete")
  /\ UNCHANGED <<queueVars, trackerVars, lost, signalVars, submitter, canceller,
                 waiter, stopVars>>

PersistFinal(w) ==
  /\ runner[w].pc = "persist"
  /\ \/ Write(runner[w].run, runner[w].verdict) /\ RunnerTo(w, "complete")
     \/ NoWrite(runner[w].run) /\ RunnerTo(w, "fallback")
  /\ UNCHANGED <<queueVars, trackerVars, lost, signalVars, submitter, canceller,
                 waiter, stopVars>>

PersistFallback(w) ==
  /\ runner[w].pc = "fallback"
  /\ LastWrite(runner[w].run, runner[w].verdict)
  /\ RunnerTo(w, "complete")
  /\ UNCHANGED <<queueVars, trackerVars, signalVars, submitter, canceller,
                 waiter, stopVars>>

(* complete() before the run leaves active_, so a waiter finds one or the  *)
(* other.                                                                  *)
RunnerComplete(w) ==
  /\ runner[w].pc = "complete"
  /\ Complete(runner[w].run, runner[w].verdict)
  /\ RunnerTo(w, "leave")
  /\ UNCHANGED <<queueVars, stopRequested, storeVars, signalVars, submitter,
                 canceller, waiter, stopVars>>

RunnerLeave(w) ==
  /\ runner[w].pc = "leave"
  /\ running' = running - 1
  /\ active' = active \ {runner[w].run}
  /\ runner' = [runner EXCEPT ![w] = [pc |-> "ready", run |-> NoRun, verdict |-> NoRow]]
  /\ UNCHANGED <<queue, reserved, stopping, trackerVars, storeVars, signalVars,
                 submitter, canceller, waiter, stopVars>>

-----------------------------------------------------------------------------
(* cancel()                                                                *)

EraseQueued_Kept(r) == r \in ToSet(queue) /\ UNCHANGED queue
EraseQueued(r) == \E i \in DOMAIN queue : queue[i] = r /\ queue' = RemoveAt(queue, i)

(* The critical section: a queued run is taken out of the queue, a running *)
(* one is asked to stop, anything else is looked up in the store.          *)
CancelFind(c, r) ==
  /\ canceller[c].pc = "idle"
  /\ \/ /\ EraseQueued(r)
        /\ active' = active \ {r}
        /\ canceller' = [canceller EXCEPT ![c].pc = "finish", ![c].run = r]
        /\ UNCHANGED stopRequested
     \/ /\ r \notin ToSet(queue) /\ r \in active
        /\ stopRequested' = stopRequested \cup {r}
        /\ canceller' = [canceller EXCEPT ![c] =
                           [pc |-> "returned", run |-> r, outcome |-> "Cancelling"]]
        /\ UNCHANGED <<queue, active>>
     \/ /\ r \notin ToSet(queue) /\ r \notin active
        /\ canceller' = [canceller EXCEPT ![c].pc = "lookup", ![c].run = r]
        /\ UNCHANGED <<queue, active, stopRequested>>
  /\ UNCHANGED <<running, reserved, stopping, final, storeVars, signalVars,
                 submitter, runner, waiter, stopVars>>

CancelFinish_NoComplete(c) ==
  /\ \/ /\ canceller[c].pc = "finish"
        /\ LastWrite(canceller[c].run, Cancelled)
        /\ CancelTo(c, "complete") /\ UNCHANGED final
     \/ /\ canceller[c].pc = "complete"
        /\ canceller' = [canceller EXCEPT ![c].pc = "returned", ![c].outcome = "Cancelled"]
        /\ UNCHANGED <<final, storeVars>>
  /\ UNCHANGED <<queueVars, stopRequested, signalVars, submitter, runner, waiter,
                 stopVars>>

(* finish_cancelled() on behalf of cancel().                               *)
CancelFinish(c) ==
  /\ \/ /\ canceller[c].pc = "finish"
        /\ LastWrite(canceller[c].run, Cancelled)
        /\ CancelTo(c, "complete") /\ UNCHANGED final
     \/ /\ canceller[c].pc = "complete"
        /\ Complete(canceller[c].run, Cancelled)
        /\ canceller' = [canceller EXCEPT ![c].pc = "returned", ![c].outcome = "Cancelled"]
        /\ UNCHANGED storeVars
  /\ UNCHANGED <<queueVars, stopRequested, signalVars, submitter, runner, waiter,
                 stopVars>>

LookupOutcome(status) ==
  IF status = NoRow THEN "NotFound"
  ELSE IF IsTerminal(status) THEN "AlreadyFinished" ELSE "NotCancellable"

CancelLookup(c) ==
  /\ canceller[c].pc = "lookup"
  /\ canceller' = [canceller EXCEPT ![c].pc = "returned",
                                    ![c].outcome = LookupOutcome(rows[canceller[c].run])]
  /\ UNCHANGED <<queueVars, trackerVars, storeVars, signalVars, submitter, runner,
                 waiter, stopVars>>

-----------------------------------------------------------------------------
(* wait(): the one caller, WorkflowRoute, waits for a run it submitted.    *)

WaitFind(x, r) ==
  /\ waiter[x].pc = "idle"
  /\ submitter[r] = "ok"
  /\ waiter' = [waiter EXCEPT ![x].pc = IF r \in active THEN "blocked" ELSE "read",
                              ![x].run = r]
  /\ UNCHANGED <<queueVars, trackerVars, storeVars, signalVars, submitter, runner,
                 canceller, stopVars>>

FinalRecord_Unfiltered(status) == status
FinalRecord(status) == IF IsTerminal(status) THEN status ELSE NoRow

(* Not active: the stored record, if it is final.                          *)
WaitRead(x) ==
  /\ waiter[x].pc = "read"
  /\ waiter' = [waiter EXCEPT ![x].pc = "returned",
                              ![x].answer = FinalRecord(rows[waiter[x].run])]
  /\ UNCHANGED <<queueVars, trackerVars, storeVars, signalVars, submitter, runner,
                 canceller, stopVars>>

WaitReturn(x) ==
  /\ waiter[x].pc = "blocked"
  /\ Done(waiter[x].run)
  /\ waiter' = [waiter EXCEPT ![x].pc = "returned", ![x].answer = final[waiter[x].run]]
  /\ UNCHANGED <<queueVars, trackerVars, storeVars, signalVars, submitter, runner,
                 canceller, stopVars>>

(* max_wait passes first.                                                  *)
WaitTimeout(x) ==
  /\ waiter[x].pc = "blocked"
  /\ ~Done(waiter[x].run)
  /\ waiter' = [waiter EXCEPT ![x].pc = "returned"]
  /\ UNCHANGED <<queueVars, trackerVars, storeVars, signalVars, submitter, runner,
                 canceller, stopVars>>

-----------------------------------------------------------------------------
(* stop(), called by the main thread after run_cancel.request_stop().      *)

StopSignal ==
  /\ stopper = "idle"
  /\ stopper' = "signalled"
  /\ shutdown' = TRUE
  /\ UNCHANGED <<queueVars, trackerVars, storeVars, runnersStop, submitter, runner,
                 canceller, waiter, drained>>

ActiveAfterStop == active \ ToSet(queue)

(* The critical section of stop(): close, take the queue, ask the running  *)
(* runs to stop.                                                           *)
StopBegin ==
  /\ stopper = "signalled"
  /\ stopper' = "drain"
  /\ stopping' = TRUE
  /\ drained' = queue
  /\ queue' = <<>>
  /\ active' = ActiveAfterStop
  /\ stopRequested' = stopRequested \cup active'
  /\ UNCHANGED <<running, reserved, final, storeVars, signalVars, submitter, runner,
                 canceller, waiter>>

(* finish_cancelled() of each drained run, one after the other.            *)
StopFinish ==
  /\ drained # <<>>
  /\ \/ /\ stopper = "drain"
        /\ LastWrite(Head(drained), Cancelled)
        /\ stopper' = "drain_complete" /\ UNCHANGED <<drained, final>>
     \/ /\ stopper = "drain_complete"
        /\ Complete(Head(drained), Cancelled)
        /\ drained' = Tail(drained)
        /\ stopper' = "drain" /\ UNCHANGED storeVars
  /\ UNCHANGED <<queueVars, stopRequested, signalVars, submitter, runner, canceller,
                 waiter>>

WakeAll_Forgotten == UNCHANGED runner
WakeAll ==
  runner' = [w \in Runners |-> IF runner[w].pc = "asleep"
                               THEN [runner[w] EXCEPT !.pc = "ready"] ELSE runner[w]]

(* request_stop() on every runner wakes the sleeping ones.                 *)
StopRunners ==
  /\ stopper = "drain" /\ drained = <<>>
  /\ stopper' = "join"
  /\ runnersStop' = TRUE
  /\ WakeAll
  /\ UNCHANGED <<queueVars, trackerVars, storeVars, shutdown, submitter, canceller,
                 waiter, drained>>

AllJoined_Unchecked == TRUE
AllJoined == \A w \in Runners : runner[w].pc = "exited"

StopJoin ==
  /\ stopper = "join"
  /\ AllJoined
  /\ stopper' = "stopped"
  /\ UNCHANGED <<queueVars, trackerVars, storeVars, signalVars, submitter, runner,
                 canceller, waiter, drained>>

-----------------------------------------------------------------------------
SubmitStep(r) == SubmitInsert(r) \/ SubmitEnqueue(r) \/ SubmitFinish(r)
RunnerStep(w) == \/ RunnerTake(w) \/ RunnerSleep(w) \/ MarkRunning(w)
                 \/ EngineReturns(w) \/ ExecuteThrows(w) \/ PersistFinal(w)
                 \/ PersistFallback(w) \/ RunnerComplete(w) \/ RunnerLeave(w)
CancelStep(c) == CancelFinish(c) \/ CancelLookup(c)
WaitStep(x)   == WaitRead(x) \/ WaitReturn(x)
StopStep      == StopBegin \/ StopFinish \/ StopRunners \/ StopJoin

(* The process is gone once stop() has returned and no client call is      *)
(* left: the only state in which nothing more happens.                     *)
Terminated ==
  /\ stopper = "stopped"
  /\ \A r \in Runs : submitter[r] \in {"ok", "queue_full", "shutting_down", "store_error"}
  /\ \A c \in Cancellers : canceller[c].pc = "returned"
  /\ \A x \in Waiters : waiter[x].pc \in {"idle", "returned"}
  /\ UNCHANGED vars

Next ==
  \/ \E r \in Runs : SubmitAdmit(r) \/ SubmitStep(r)
  \/ \E w \in Runners : RunnerStep(w)
  \/ \E c \in Cancellers : (\E r \in Runs : CancelFind(c, r)) \/ CancelStep(c)
  \/ \E x \in Waiters : (\E r \in Runs : WaitFind(x, r)) \/ WaitStep(x) \/ WaitTimeout(x)
  \/ StopSignal \/ StopStep
  \/ Terminated

Spec == Init /\ [][Next]_vars

(* A thread inside a call keeps running; clients need not call anything,   *)
(* and the server need not be shut down.  That a runner in the engine      *)
(* returns rests on commands that end (their time limits, or cooperative   *)
(* cancellation).                                                          *)
Fairness ==
  /\ \A r \in Runs : WF_vars(SubmitStep(r))
  /\ \A w \in Runners : WF_vars(RunnerStep(w))
  /\ \A c \in Cancellers : WF_vars(CancelStep(c))
  /\ \A x \in Waiters : WF_vars(WaitStep(x))
  /\ WF_vars(StopStep)

FairSpec == Spec /\ Fairness

-----------------------------------------------------------------------------
(* Properties                                                              *)

RunnerState == [pc : RunnerPcs, run : Runs \cup {NoRun}, verdict : Verdicts \cup {NoRow}]
CancelState == [pc : CancelPcs, run : Runs \cup {NoRun}, outcome : Outcomes]
WaitState   == [pc : WaitPcs, run : Runs \cup {NoRun}, answer : Verdicts \cup {NoRow}]

(* Every variable has its type; in particular the counters never go below  *)
(* zero (they are size_t in the code).                                     *)
TypeOK ==
  /\ queue \in Seq(Runs) /\ active \subseteq Runs
  /\ running \in Nat /\ reserved \in Nat /\ stopping \in BOOLEAN
  /\ stopRequested \subseteq Runs
  /\ final \in [Runs -> Verdicts \cup {NoRow}]
  /\ rows \in [Runs -> RowStatus] /\ lost \subseteq Runs /\ faults \in 0..MaxFaults
  /\ shutdown \in BOOLEAN /\ runnersStop \in BOOLEAN
  /\ submitter \in [Runs -> SubmitPcs]
  /\ runner \in [Runners -> RunnerState]
  /\ canceller \in [Cancellers -> CancelState]
  /\ waiter \in [Waiters -> WaitState]
  /\ stopper \in StopPcs /\ drained \in Seq(Runs)

(* Backpressure: runs waiting, being persisted or executing never exceed   *)
(* the waiting slots plus the runners, and running_ never exceeds the      *)
(* runners (else max_concurrent - running_ would wrap around), whatever    *)
(* the threads in submit() do between their two critical sections.         *)
CapacityRespected ==
  /\ running <= MaxConcurrent
  /\ Len(queue) + reserved + running <= MaxQueued + MaxConcurrent

(* Who is responsible for bringing run r to its end: the thread inside     *)
(* submit(), a queue slot, a runner, a thread inside cancel(), or stop().  *)
Owners(r) ==
  {<<"submit", r>> : s \in {submitter[r]} \cap {"insert", "enqueue", "drop", "finish", "complete"}}
  \cup {<<"queue", i>> : i \in {j \in DOMAIN queue : queue[j] = r}}
  \cup {<<"runner", w>> : w \in {v \in Runners : runner[v].run = r}}
  \cup {<<"cancel", c>> : c \in {d \in Cancellers : /\ canceller[d].run = r
                                                    /\ canceller[d].pc \in {"finish", "complete"}}}
  \cup {<<"stop", i>> : i \in {j \in DOMAIN drained : drained[j] = r}}

(* A run has at most one owner, so it is executed once at most and never   *)
(* both executed and cancelled; and a run submit() accepted has one until  *)
(* its tracker is completed, so it is never forgotten.  cancel() and       *)
(* wait() find it in active_ exactly while it is queued or a runner has it *)
(* ("queued + running", RunQueue.hpp).                                     *)
OneOwner ==
  \A r \in Runs :
    /\ Cardinality(Owners(r)) <= 1
    /\ submitter[r] = "ok" /\ ~Done(r) => Owners(r) # {}
    /\ r \in active <=> \E o \in Owners(r) : o[1] \in {"queue", "runner"}

(* What waiters are told is what the history shows: once a tracker is      *)
(* completed, the stored row has the same final status, unless the store   *)
(* refused the last write.                                                 *)
PublishedIsStored ==
  \A r \in Runs : Done(r) /\ r \notin lost => rows[r] = final[r]

(* A record handed to a waiter is the run's one final record, whether it   *)
(* came from the tracker or, the run having left active_, from the store.  *)
WaitAnswersFinal ==
  \A x \in Waiters : waiter[x].answer # NoRow =>
    LET r == waiter[x].run
    IN  waiter[x].answer = IF Done(r) THEN final[r] ELSE rows[r]

(* Once stop() has returned nothing of the queue is left running: no       *)
(* queued, active or executing run, and every accepted run has ended, but  *)
(* for one that a cancel() still in progress is about to end.              *)
StopLeavesNothing ==
  stopper = "stopped" =>
    /\ queue = <<>> /\ active = {} /\ running = 0
    /\ \A r \in Runs : submitter[r] = "ok" =>
         Done(r) \/ \E c \in Cancellers : <<"cancel", c>> \in Owners(r)

(* The abstract phase of a run, read off its owner.                        *)
PhaseOf(r) ==
  IF Done(r) THEN "ended"
  ELSE IF submitter[r] = "idle" THEN "new"
  ELSE IF submitter[r] \in {"queue_full", "shutting_down", "store_error"} THEN "refused"
  ELSE IF submitter[r] \in {"insert", "enqueue", "drop"} THEN "persisting"
  ELSE IF r \in ToSet(queue) THEN "waiting"
  ELSE IF \E w \in Runners : runner[w].run = r THEN "executing"
  ELSE "calledoff"

Lifecycle == INSTANCE RunLifecycle WITH
  phase <- [r \in Runs |-> PhaseOf(r)], verdict <- final, closed <- stopping

(* The queue keeps the promises of RunLifecycle: every step is one of its  *)
(* steps or changes nothing it can see.                                    *)
ImplementsLifecycle == Lifecycle!Spec

(* Every accepted run is brought to an end: no lost wake-up of a runner,   *)
(* no entry stranded by a cancel or by shutdown.                           *)
AcceptedRunsEnd == \A r \in Runs : (submitter[r] = "ok") ~> Done(r)

(* stop() returns: the runners it joins all leave their loop.              *)
StopReturns == (stopper = "signalled") ~> (stopper = "stopped")

(* A waiter never sleeps past the end of its run.                          *)
WaitersWake == \A x \in Waiters : (waiter[x].pc = "blocked") ~> (waiter[x].pc = "returned")

(* The comment at NotCancellable: "Live but not a top-level run (a nested  *)
(* run_job)".  Every run of this module is a top-level run.  Refuted: see  *)
(* the README.                                                             *)
TopLevelRunsAreCancellable ==
  \A c \in Cancellers : canceller[c].outcome # "NotCancellable"
=============================================================================
