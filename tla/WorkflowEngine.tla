--------------------------- MODULE WorkflowEngine ---------------------------
(***************************************************************************)
(* One execution of a workflow: WorkflowEngine::execute and roll_back      *)
(* (workflow/WorkflowEngine.cpp).                                          *)
(*                                                                         *)
(* Threads: the calling thread, which walks the steps in order and runs    *)
(* the sequential ones itself, and one task per `parallel: true` step.     *)
(* results_mutex makes the resolution of a step's placeholders and the     *)
(* storing of its result one action each.  Commands, their validation and  *)
(* their circuit breaker are outside: they answer in any way they can.     *)
(* Output values are abstracted to the step they come from.                *)
(***************************************************************************)
EXTENDS Integers, Sequences, SequencesExt

CONSTANTS
  NSteps,     \* bound on definition.steps.size()
  Names,      \* step names
  NoName,     \* a step without a name
  Workflows   \* the definitions to execute

Steps == 1..NSteps

(* A WorkflowDefinition: which steps are `parallel`, the steps' names, and *)
(* the positions and names their parameters refer to.                      *)
Strategies == {"None", "Reverse", "BestEffort"}
Definitions ==
  [parallel : SUBSET Steps, name : [Steps -> Names \cup {NoName}],
   positions : [Steps -> SUBSET Steps], names : [Steps -> SUBSET Names],
   rollback : Strategies]

ASSUME StepsAssumption     == NSteps \in Nat
ASSUME NoNameAssumption    == NoName \notin Names
ASSUME WorkflowsAssumption == Workflows \subseteq Definitions

VARIABLES
  def,              \* definition
  main,             \* pc of the calling thread
  cursor,           \* i of the loop over the steps
  step,             \* pc of run_step(i), by step
  failure,          \* step_results[i].failure once stored; NoResult before
  bound,            \* history: the results step i's placeholders were read from
  completionOrder,  \* completion_order
  runStop,          \* run_stop was requested
  engineStop,       \* options_.cancel was requested (server shutdown)
  late,             \* the run's deadline has passed
  rollback,         \* step_results[i].rollback
  halted,           \* roll_back's `halted`
  shuttingDown,     \* roll_back's parameter
  left              \* length of the part of completion_order still to be undone

stopVars     == <<runStop, engineStop, late>>
rollbackVars == <<rollback, halted, shuttingDown, left>>
vars == <<def, main, cursor, step, failure, bound, completionOrder, stopVars, rollbackVars>>

MainPcs  == {"loop", "join", "decide", "undo", "unwind", "returned", "thrown"}
StepPcs  == {"idle", "begun", "admitted", "executing", "over"}
NoResult == "none"

(* StepFailure                                                             *)
Failures == {"None", "Validation", "NotFound", "Command", "Timeout", "Cancelled", "CircuitOpen"}
Undone   == {"none", "RolledBack", "Failed", "NotSupported", "Skipped"}

Stored(i)    == failure[i] # NoResult
Succeeded(i) == failure[i] = "None"

Init ==
  /\ def \in Workflows
  /\ main = "loop" /\ cursor = 1
  /\ step = [i \in Steps |-> "idle"] /\ failure = [i \in Steps |-> NoResult]
  /\ bound = [i \in Steps |-> {}] /\ completionOrder = <<>>
  /\ runStop = FALSE /\ engineStop = FALSE /\ late = FALSE
  /\ rollback = [i \in Steps |-> "none"]
  /\ halted = FALSE /\ shuttingDown = FALSE /\ left = 0

-----------------------------------------------------------------------------
(* step_dependencies() and PlaceholderResolver                             *)

NamedBefore(i, n) == {j \in Steps : j < i /\ def.name[j] = n}
Latest(S) == {j \in S : \A k \in S : k <= j}

(* The steps step i waits for: earlier positions it refers to, and for     *)
(* each name the latest earlier step that has it.                          *)
Deps_AnyPosition(i) ==
  def.positions[i] \cup UNION {Latest(NamedBefore(i, n)) : n \in def.names[i]}

Deps(i) ==
  {p \in def.positions[i] : p < i} \cup UNION {Latest(NamedBefore(i, n)) : n \in def.names[i]}

(* resolve_string() reads step_results: a position as it is, a name from   *)
(* the last step whose stored result carries it (a result has its name     *)
(* from the moment it is stored).                                          *)
StoredWithName(n) == {j \in Steps : Stored(j) /\ def.name[j] = n}

NameSources(i) == UNION {Latest(StoredWithName(n)) : n \in def.names[i]}

Sources(i) == def.positions[i] \cup NameSources(i)

-----------------------------------------------------------------------------
(* run_step(i)                                                             *)

StepTo(i, pc) == step' = [step EXCEPT ![i] = pc]

(* in_flight[dep].wait() for every dependency that was launched.           *)
InFlight(i) == i \in def.parallel /\ step[i] # "idle"
DepsFinished_NotWaited(i) == TRUE
DepsFinished(i) == \A d \in Deps(i) : InFlight(d) => step[d] = "over"

StoreResult_AlwaysListed(i, kind) ==
  /\ failure' = [failure EXCEPT ![i] = kind]
  /\ completionOrder' = Append(completionOrder, i)

(* The end of run_step: the result is stored under results_mutex, and a    *)
(* success is appended to completion_order.                                *)
StoreResult(i, kind) ==
  /\ failure' = [failure EXCEPT ![i] = kind]
  /\ completionOrder' = IF kind = "None" THEN Append(completionOrder, i) ELSE completionOrder

AdmitStep(i) ==
  /\ step[i] = "begun" /\ DepsFinished(i)
  /\ ~runStop /\ ~late
  /\ StepTo(i, "admitted")
  /\ UNCHANGED <<def, main, cursor, failure, bound, completionOrder, stopVars, rollbackVars>>

(* Never started: cancelled, past the run's deadline, or the circuit of    *)
(* its command is open.                                                    *)
RefuseStep(i) ==
  /\ step[i] = "begun" /\ DepsFinished(i)
  /\ \/ runStop /\ StoreResult(i, "Cancelled")
     \/ ~runStop /\ late /\ StoreResult(i, "Timeout")
     \/ ~runStop /\ ~late /\ StoreResult(i, "CircuitOpen")
  /\ StepTo(i, "over")
  /\ UNCHANGED <<def, main, cursor, bound, stopVars, rollbackVars>>

ResolveParams(i) ==
  /\ step[i] = "admitted"
  /\ StepTo(i, "executing")
  /\ bound' = [bound EXCEPT ![i] = Sources(i)]
  /\ UNCHANGED <<def, main, cursor, failure, completionOrder, stopVars, rollbackVars>>

(* ICommand::validate on the resolved parameters: a required one that is   *)
(* missing or one of another type refuses them, else nothing fails yet.    *)
Validate == {"Validation", "None"}

(* SyncStepExecutor::execute_step: if the parameters are accepted, the     *)
(* command throws, reports success: false in its output, or succeeds.      *)
ExecuteStep == UNION {IF v = "None" THEN {"Command", "None"} ELSE {v} : v \in Validate}

(* execute_single_step: the command may have been unregistered meanwhile.  *)
ExecuteSingleStep == {"NotFound"} \cup ExecuteStep

(* What run_step makes of the executor's answer: after the deadline (the   *)
(* run's, or the step's own limit) nothing is trusted, and a failure after *)
(* a stop request counts as cancelled.                                     *)
Classify(kind, timedOut) ==
  IF timedOut THEN "Timeout"
  ELSE IF kind # "None" /\ runStop THEN "Cancelled" ELSE kind

CommandReturns(i) ==
  /\ step[i] = "executing"
  /\ \E kind \in ExecuteSingleStep, timedOut \in BOOLEAN :
       /\ late => timedOut
       /\ StoreResult(i, Classify(kind, timedOut))
  /\ StepTo(i, "over")
  /\ UNCHANGED <<def, main, cursor, bound, stopVars, rollbackVars>>

-----------------------------------------------------------------------------
(* execute(): the loop over the steps                                      *)

(* A sequential step runs on the calling thread, a parallel one is         *)
(* launched and the loop goes on.                                          *)
BeginStep ==
  /\ main = "loop" /\ cursor <= NSteps /\ step[cursor] = "idle"
  /\ StepTo(cursor, "begun")
  /\ cursor' = IF cursor \in def.parallel THEN cursor + 1 ELSE cursor
  /\ UNCHANGED <<def, main, failure, bound, completionOrder, stopVars, rollbackVars>>

(* std::async cannot start a thread: the exception leaves execute() after  *)
(* wait_all().                                                             *)
LaunchFails ==
  /\ main = "loop" /\ cursor <= NSteps /\ step[cursor] = "idle"
  /\ cursor \in def.parallel
  /\ main' = "unwind"
  /\ UNCHANGED <<def, cursor, step, failure, bound, completionOrder, stopVars, rollbackVars>>

AfterStep_SkipsOne ==
  /\ main = "loop" /\ cursor <= NSteps /\ step[cursor] = "over" /\ Succeeded(cursor)
  /\ cursor' = cursor + 2
  /\ UNCHANGED <<def, main, step, failure, bound, completionOrder, stopVars, rollbackVars>>

(* After a sequential step: the next one, or none if it failed.            *)
AfterStep ==
  /\ main = "loop" /\ cursor <= NSteps /\ step[cursor] = "over"
  /\ \/ Succeeded(cursor) /\ cursor' = cursor + 1 /\ UNCHANGED main
     \/ ~Succeeded(cursor) /\ main' = "join" /\ UNCHANGED cursor
  /\ UNCHANGED <<def, step, failure, bound, completionOrder, stopVars, rollbackVars>>

LoopEnds ==
  /\ main = "loop" /\ cursor > NSteps
  /\ main' = "join"
  /\ UNCHANGED <<def, cursor, step, failure, bound, completionOrder, stopVars, rollbackVars>>

(* wait_all()                                                              *)
AllFinished_Unchecked == TRUE
AllFinished == \A i \in Steps : InFlight(i) => step[i] = "over"

WaitAll ==
  /\ AllFinished
  /\ \/ main = "join" /\ main' = "decide"
     \/ main = "unwind" /\ main' = "thrown"
  /\ UNCHANGED <<def, cursor, step, failure, bound, completionOrder, stopVars, rollbackVars>>

AllSucceeded == \A i \in Steps : Succeeded(i)

(* The result, and whether to roll back.                                   *)
Decide ==
  /\ main = "decide"
  /\ \/ /\ ~AllSucceeded /\ def.rollback # "None" /\ completionOrder # <<>>
        /\ main' = "undo"
        /\ shuttingDown' = engineStop /\ left' = Len(completionOrder)
     \/ /\ AllSucceeded \/ def.rollback = "None" \/ completionOrder = <<>>
        /\ main' = "returned" /\ UNCHANGED <<shuttingDown, left>>
  /\ UNCHANGED <<def, cursor, step, failure, bound, completionOrder, stopVars, rollback, halted>>

(* roll_back(): one completed step, the latest first.  A command may be    *)
(* gone or its rollback may throw (Failed), or not support rollback.       *)
RollbackOutcomes ==
  IF shuttingDown \/ halted THEN {"Skipped"} ELSE {"RolledBack", "Failed", "NotSupported"}

NextToUndo_Forward == completionOrder[Len(completionOrder) - left + 1]
NextToUndo == completionOrder[left]

RollBackStep ==
  /\ main = "undo" /\ left > 0
  /\ \E outcome \in RollbackOutcomes :
       /\ rollback' = [rollback EXCEPT ![NextToUndo] = outcome]
       /\ halted' = IF outcome = "Failed" THEN def.rollback = "Reverse" ELSE halted
  /\ left' = left - 1
  /\ UNCHANGED <<def, main, cursor, step, failure, bound, completionOrder, stopVars, shuttingDown>>

RollBackEnds ==
  /\ main = "undo" /\ left = 0
  /\ main' = "returned"
  /\ UNCHANGED <<def, cursor, step, failure, bound, completionOrder, stopVars, rollbackVars>>

-----------------------------------------------------------------------------
(* The environment: a user cancels the run, the server shuts down (its     *)
(* token cancels the run too), the run's deadline passes.                  *)

Over == main \in {"returned", "thrown"}

UserCancels ==
  /\ ~Over /\ ~runStop
  /\ runStop' = TRUE
  /\ UNCHANGED <<def, main, cursor, step, failure, bound, completionOrder, engineStop, late,
                 rollbackVars>>

ServerStops ==
  /\ ~Over /\ ~engineStop
  /\ engineStop' = TRUE /\ runStop' = TRUE
  /\ UNCHANGED <<def, main, cursor, step, failure, bound, completionOrder, late, rollbackVars>>

DeadlinePasses ==
  /\ ~Over /\ ~late
  /\ late' = TRUE
  /\ UNCHANGED <<def, main, cursor, step, failure, bound, completionOrder, runStop, engineStop,
                 rollbackVars>>

RunStep(i) == AdmitStep(i) \/ RefuseStep(i) \/ ResolveParams(i) \/ CommandReturns(i)
MainStep == BeginStep \/ AfterStep \/ LoopEnds \/ WaitAll \/ Decide \/ RollBackStep \/ RollBackEnds
Terminated == Over /\ UNCHANGED vars

Next ==
  \/ \E i \in Steps : RunStep(i)
  \/ MainStep \/ LaunchFails
  \/ UserCancels \/ ServerStops \/ DeadlinePasses
  \/ Terminated

Spec == Init /\ [][Next]_vars

(* Threads keep running, and commands return: they have a time limit or    *)
(* end by themselves.                                                      *)
Fairness == WF_vars(MainStep) /\ \A i \in Steps : WF_vars(RunStep(i))

FairSpec == Spec /\ Fairness

-----------------------------------------------------------------------------
(* Properties                                                              *)

Started(i) == step[i] \in {"admitted", "executing"} \/ bound[i] # {}

(* Every variable has its type.                                            *)
TypeOK ==
  /\ def \in Workflows
  /\ main \in MainPcs /\ cursor \in 1..(NSteps + 1)
  /\ step \in [Steps -> StepPcs]
  /\ failure \in [Steps -> Failures \cup {NoResult}]
  /\ bound \in [Steps -> SUBSET Steps]
  /\ completionOrder \in Seq(Steps)
  /\ runStop \in BOOLEAN /\ engineStop \in BOOLEAN /\ late \in BOOLEAN
  /\ rollback \in [Steps -> Undone]
  /\ halted \in BOOLEAN /\ shuttingDown \in BOOLEAN
  /\ left \in 0..Len(completionOrder)

(* "a reference to a still-running parallel step never sees a blank        *)
(* result" (comment at run_step): when a step's placeholders are resolved, *)
(* the result of every step it depends on has been stored.                 *)
DependenciesSettled ==
  \A i \in Steps : Started(i) => \A d \in Deps(i) : Stored(d)

(* A step begins only after every earlier sequential step has succeeded.   *)
SequentialFailureStops ==
  \A i, j \in Steps : j < i /\ j \notin def.parallel /\ step[i] # "idle" => Succeeded(j)

(* completion_order lists the successful steps, once each, and a step      *)
(* never before one it depends on.                                         *)
CompletionOrderSound ==
  /\ ToSet(completionOrder) = {i \in Steps : Succeeded(i)}
  /\ \A p, q \in DOMAIN completionOrder :
       /\ completionOrder[p] = completionOrder[q] => p = q
       /\ completionOrder[p] \in Deps(completionOrder[q]) => p < q

(* A step is undone only after every completed step that used its output   *)
(* has been dealt with.                                                    *)
DependentsUndoneFirst ==
  \A i, d \in Steps :
    d \in Deps(i) /\ Succeeded(i) /\ rollback[d] # "none" => rollback[i] # "none"

(* With `reverse`, rollback stops at the first failure: no command's       *)
(* rollback() is called after one failed.                                  *)
ReverseStopsAtFailure ==
  \A p, q \in DOMAIN completionOrder :
    /\ p < q /\ def.rollback = "Reverse"
    /\ rollback[completionOrder[q]] = "Failed"
    => rollback[completionOrder[p]] \in {"none", "Skipped"}

(* When execute() returns or throws, no task it launched is still running: *)
(* they use variables of its frame.                                        *)
NoTaskOutlivesRun == Over => \A i \in Steps : step[i] \in {"idle", "over"}

(* A run that fails with a rollback strategy returns with an outcome for   *)
(* exactly the steps that completed, and a run that succeeds undoes        *)
(* nothing.                                                                *)
RollbackCoversCompleted ==
  main = "returned" =>
    \A i \in Steps : rollback[i] # "none" <=>
                       Succeeded(i) /\ ~AllSucceeded /\ def.rollback # "None"

(* A failed run is undone completely, dependents first, and with `reverse` *)
(* no further than the first rollback that fails.                          *)
RollbackSound == DependentsUndoneFirst /\ ReverseStopsAtFailure /\ RollbackCoversCompleted

(* execute() ends: waiting for dependencies cannot be circular.            *)
Terminates == <>Over

(* The comment in resolve_string on names: "the MOST RECENT step with this *)
(* name wins when names are duplicated (consistent with the dependency     *)
(* analysis, which also binds a name to its latest step)".                 *)
NamesBindToDependencies ==
  \A i \in Steps : \A j \in bound[i] :
    (\E n \in def.names[i] : def.name[j] = n /\ NamedBefore(i, n) # {}) /\ j \notin def.positions[i]
      => j \in Deps(i)
=============================================================================
