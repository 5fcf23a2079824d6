------------------------ MODULE WorkflowEngineProofs ------------------------
(***************************************************************************)
(* Proofs about WorkflowEngine, for workflows of any length, any set of    *)
(* parallel steps and any references between them.                         *)
(*                                                                         *)
(* What makes the properties inductive is the order in which the calling   *)
(* thread begins the steps: everything before the cursor has begun, the    *)
(* sequential part of it has succeeded, and nothing after the cursor has.  *)
(* Dependencies lie before the step, so they have begun, and a sequential  *)
(* one has ended, by the time the step waits for them.                     *)
(***************************************************************************)
EXTENDS WorkflowEngine, SequenceTheorems, TLAPS

FlagsOK ==
  /\ runStop \in BOOLEAN /\ engineStop \in BOOLEAN /\ late \in BOOLEAN
  /\ halted \in BOOLEAN /\ shuttingDown \in BOOLEAN

StateOK ==
  /\ def \in Workflows
  /\ main \in MainPcs /\ cursor \in 1..(NSteps + 1)
  /\ step \in [Steps -> StepPcs]
  /\ failure \in [Steps -> Failures \cup {NoResult}]
  /\ bound \in [Steps -> SUBSET Steps]
  /\ completionOrder \in Seq(Steps)
  /\ rollback \in [Steps -> Undone]
  /\ left \in 0..Len(completionOrder)

(* The calling thread begins the steps in order.                           *)
BegunInOrder ==
  \A i \in Steps :
    /\ step[i] # "idle" => i < cursor \/ (i = cursor /\ i \notin def.parallel)
    /\ i < cursor => step[i] # "idle" /\ (i \notin def.parallel => Succeeded(i))

(* A result is stored when the step is over; placeholders are resolved     *)
(* before that.                                                            *)
ResultsWhenOver ==
  \A i \in Steps :
    /\ step[i] = "over" <=> Stored(i)
    /\ bound[i] # {} => step[i] \in {"executing", "over"}

(* Once the loop is left no sequential step is inside run_step, and once   *)
(* wait_all() has returned no step at all.                                 *)
Quiet(i) == step[i] \in {"idle", "over"}
QuietAfterLoop ==
  /\ main # "loop" => \A i \in Steps : i \notin def.parallel => Quiet(i)
  /\ main \in {"decide", "undo", "returned", "thrown"} => \A i \in Steps : Quiet(i)

(* Steps that started, or even succeeded, had their dependencies' results. *)
SucceededSettled == \A i \in Steps : Succeeded(i) => \A d \in Deps(i) : Stored(d)

(* How far roll_back() is: the steps from the end of completion_order down *)
(* to position left have an outcome, the others have none.                 *)
SomeUndone == \E i \in Steps : rollback[i] # "none"
UndoneDownToLeft ==
  /\ \A i \in Steps : rollback[i] # "none" =>
       \E q \in DOMAIN completionOrder : q > left /\ completionOrder[q] = i
  /\ main = "undo" \/ SomeUndone =>
       \A q \in DOMAIN completionOrder : q > left => rollback[completionOrder[q]] # "none"
RollbackPhase ==
  /\ main \notin {"undo", "returned"} => ~SomeUndone
  /\ main = "undo" => ~AllSucceeded /\ def.rollback # "None"
HaltedAfterFailure ==
  \A q \in DOMAIN completionOrder :
    q > left /\ def.rollback = "Reverse" /\ rollback[completionOrder[q]] = "Failed" => halted

IRollback ==
  /\ UndoneDownToLeft /\ RollbackPhase /\ HaltedAfterFailure
  /\ ReverseStopsAtFailure /\ RollbackCoversCompleted

IInv ==
  /\ FlagsOK /\ StateOK
  /\ BegunInOrder /\ ResultsWhenOver /\ QuietAfterLoop
  /\ DependenciesSettled /\ SucceededSettled /\ CompletionOrderSound

-----------------------------------------------------------------------------
(* Dependencies are earlier steps: waiting for them cannot be circular.    *)
LEMMA DepsAreEarlier ==
  ASSUME NEW i \in Steps, NEW d \in Deps(i), StateOK
  PROVE  d \in Steps /\ d < i
<1>1. def \in Definitions
  BY WorkflowsAssumption DEF StateOK
<1>2. CASE d \in {p \in def.positions[i] : p < i}
  BY <1>1, <1>2 DEF Definitions
<1>3. CASE \E n \in def.names[i] : d \in Latest(NamedBefore(i, n))
  BY <1>3 DEF Latest, NamedBefore
<1> QED BY <1>2, <1>3 DEF Deps

LEMMA InitIInv == Init => IInv
<1> SUFFICES ASSUME Init PROVE IInv
  OBVIOUS
<1>1. FlagsOK
  BY Zenon DEF Init, FlagsOK
<1>2. StateOK
  BY StepsAssumption DEF Init, StateOK, MainPcs, StepPcs, Undone
<1>3. BegunInOrder /\ ResultsWhenOver /\ QuietAfterLoop
  BY StepsAssumption
     DEF Init, BegunInOrder, ResultsWhenOver, QuietAfterLoop, Quiet, Stored, Steps
<1>4. DependenciesSettled /\ SucceededSettled
  BY DEF Init, DependenciesSettled, Started, SucceededSettled, Succeeded, NoResult
<1>5. CompletionOrderSound
  <2>1. ToSet(completionOrder) = {}
    BY DEF Init, ToSet
  <2>2. \A i \in Steps : ~Succeeded(i)
    BY DEF Init, Succeeded, NoResult
  <2>3. DOMAIN completionOrder = {}
    BY DEF Init
  <2> QED BY <2>1, <2>2, <2>3 DEF CompletionOrderSound
<1> QED BY <1>1, <1>2, <1>3, <1>4, <1>5 DEF IInv

-----------------------------------------------------------------------------
(* What the actions do to the steps, said once.                            *)

(* A step moves from one pc inside run_step to a later one.                *)
LEMMA RunStepEffect ==
  ASSUME IInv, NEW i \in Steps, RunStep(i)
  PROVE  /\ UNCHANGED <<def, main, cursor, stopVars, rollbackVars>>
         /\ step[i] \in {"begun", "admitted", "executing"}
         /\ \E pc \in {"admitted", "executing", "over"} : step' = [step EXCEPT ![i] = pc]
BY DEF RunStep, AdmitStep, RefuseStep, ResolveParams, CommandReturns, StepTo

(* Nothing inside run_step when the calling thread has joined its tasks.   *)
LEMMA RunStepOnlyBefore ==
  ASSUME IInv, NEW i \in Steps, RunStep(i)
  PROVE  main \in {"loop", "join", "unwind"} /\ left' = left
<1>1. ~Quiet(i)
  BY RunStepEffect DEF Quiet
<1> QED BY <1>1, RunStepEffect DEF IInv, QuietAfterLoop, StateOK, MainPcs, rollbackVars

(* The result of a step is stored once, when it ends.                      *)
LEMMA StoringStep ==
  ASSUME IInv, NEW i \in Steps, NEW kind \in Failures, StoreResult(i, kind), step[i] # "over"
  PROVE  /\ failure' \in [Steps -> Failures \cup {NoResult}]
         /\ completionOrder' \in Seq(Steps)
         /\ Len(completionOrder') >= Len(completionOrder)
         /\ ~Stored(i) /\ Stored(i)'
         /\ \A j \in Steps : j # i => failure'[j] = failure[j]
<1>1. ~Stored(i)
  BY DEF IInv, ResultsWhenOver
<1>2. failure'[i] = kind /\ kind # NoResult
  BY DEF StoreResult, IInv, StateOK, Failures, NoResult
<1>3. completionOrder' \in Seq(Steps) /\ Len(completionOrder') >= Len(completionOrder)
  BY AppendProperties DEF StoreResult, IInv, StateOK
<1> QED BY <1>1, <1>2, <1>3 DEF StoreResult, IInv, StateOK, Stored

LEMMA ClassifyOK ==
  ASSUME NEW kind \in ExecuteSingleStep, NEW t \in BOOLEAN
  PROVE  Classify(kind, t) \in Failures
BY DEF ExecuteSingleStep, ExecuteStep, Validate, Classify, Failures

LEMMA DepsStay ==
  ASSUME UNCHANGED def
  PROVE  \A i \in Steps : Deps(i)' = Deps(i)
BY DEF Deps, NamedBefore, Latest

(* The definition never changes and a stored result stays stored.          *)
LEMMA SettledStays ==
  ASSUME IInv, UNCHANGED def,
         \A j \in Steps : Stored(j) => failure'[j] = failure[j],
         NEW i \in Steps, \A d \in Deps(i) : Stored(d)
  PROVE  \A d \in Deps(i)' : Stored(d)'
BY DepsStay, DepsAreEarlier DEF IInv, Stored

-----------------------------------------------------------------------------
(* run_step(i)                                                             *)

LEMMA RunStepStateOK ==
  ASSUME IInv, NEW i \in Steps, RunStep(i)
  PROVE  StateOK'
<1>1. step' \in [Steps -> StepPcs]
  BY RunStepEffect DEF IInv, StateOK, StepPcs
<1>2. /\ failure' \in [Steps -> Failures \cup {NoResult}]
      /\ completionOrder' \in Seq(Steps) /\ Len(completionOrder') >= Len(completionOrder)
  <2>1. CASE AdmitStep(i) \/ ResolveParams(i)
    BY <2>1 DEF AdmitStep, ResolveParams, IInv, StateOK
  <2>2. CASE RefuseStep(i)
    BY <2>2, StoringStep DEF RefuseStep, Failures
  <2>3. CASE CommandReturns(i)
    BY <2>3, StoringStep, ClassifyOK DEF CommandReturns
  <2> QED BY <2>1, <2>2, <2>3 DEF RunStep
<1>3. bound' \in [Steps -> SUBSET Steps]
  <2>1. Sources(i) \subseteq Steps
    <3>1. def \in Definitions
      BY WorkflowsAssumption DEF IInv, StateOK
    <3> QED BY <3>1 DEF Definitions, Sources, NameSources, Latest, StoredWithName
  <2> QED BY <2>1 DEF RunStep, AdmitStep, RefuseStep, ResolveParams, CommandReturns, IInv, StateOK
<1>4. left' \in 0..Len(completionOrder')
  BY <1>2, RunStepOnlyBefore DEF IInv, StateOK
<1> QED
  BY <1>1, <1>2, <1>3, <1>4, RunStepEffect DEF IInv, StateOK, rollbackVars

LEMMA RunStepOrder ==
  ASSUME IInv, NEW i \in Steps, RunStep(i)
  PROVE  BegunInOrder' /\ ResultsWhenOver' /\ QuietAfterLoop'
<1>1. \A j \in Steps : j # i => step'[j] = step[j] /\ failure'[j] = failure[j] /\ bound'[j] = bound[j]
  BY DEF RunStep, AdmitStep, RefuseStep, ResolveParams, CommandReturns, StepTo, StoreResult,
         IInv, StateOK
<1>2. ~Stored(i) /\ step[i] # "idle" /\ step'[i] # "idle"
  BY RunStepEffect DEF IInv, StateOK, ResultsWhenOver
<1>3. BegunInOrder'
  <2>1. i < cursor => i \in def.parallel
    BY <1>2 DEF IInv, BegunInOrder, Succeeded, Stored, NoResult
  <2> QED BY <1>1, <1>2, <2>1, RunStepEffect DEF IInv, BegunInOrder, Succeeded
<1>4. ResultsWhenOver'
  <2>1. step'[i] = "over" <=> Stored(i)'
    <3>1. CASE AdmitStep(i) \/ ResolveParams(i)
      BY <1>2, <3>1 DEF AdmitStep, ResolveParams, StepTo, Stored, IInv, StateOK
    <3>2. CASE RefuseStep(i)
      BY <3>2, StoringStep DEF RefuseStep, StepTo, Failures, IInv, StateOK
    <3>3. CASE CommandReturns(i)
      BY <3>3, StoringStep, ClassifyOK DEF CommandReturns, StepTo, IInv, StateOK
    <3> QED BY <3>1, <3>2, <3>3 DEF RunStep
  <2>2. bound'[i] # {} => step'[i] \in {"executing", "over"}
    BY DEF RunStep, AdmitStep, RefuseStep, ResolveParams, CommandReturns, StepTo, IInv, StateOK,
           ResultsWhenOver
  <2> QED BY <1>1, <2>1, <2>2 DEF IInv, ResultsWhenOver, Stored
<1>5. QuietAfterLoop'
  <2>1. main' = main /\ def' = def /\ main \in {"loop", "join", "unwind"}
    BY RunStepEffect, RunStepOnlyBefore
  <2>2. main # "loop" => i \in def.parallel
    BY RunStepEffect DEF IInv, QuietAfterLoop, Quiet
  <2> QED BY <1>1, <2>1, <2>2 DEF IInv, QuietAfterLoop, Quiet
<1> QED BY <1>3, <1>4, <1>5

(* The heart of DependenciesSettled: when the waits of run_step(i) are     *)
(* over, so are the steps waited for.                                      *)
LEMMA WaitedMeansStored ==
  ASSUME IInv, NEW i \in Steps, step[i] # "idle", DepsFinished(i)
  PROVE  \A d \in Deps(i) : Stored(d)
<1> SUFFICES ASSUME NEW d \in Deps(i) PROVE Stored(d)
  OBVIOUS
<1>1. d \in Steps /\ d < i
  BY DepsAreEarlier DEF IInv
<1>2. d < cursor
  BY <1>1 DEF IInv, BegunInOrder, StateOK, Steps
<1>3. CASE d \in def.parallel
  BY <1>1, <1>2, <1>3 DEF IInv, BegunInOrder, ResultsWhenOver, DepsFinished, InFlight
<1>4. CASE d \notin def.parallel
  BY <1>1, <1>2, <1>4 DEF IInv, BegunInOrder, Succeeded, Stored, NoResult
<1> QED BY <1>3, <1>4

LEMMA RunStepSettled ==
  ASSUME IInv, NEW i \in Steps, RunStep(i)
  PROVE  DependenciesSettled' /\ SucceededSettled'
<1>1. \A j \in Steps : j # i => step'[j] = step[j] /\ failure'[j] = failure[j] /\ bound'[j] = bound[j]
  BY DEF RunStep, AdmitStep, RefuseStep, ResolveParams, CommandReturns, StepTo, StoreResult,
         IInv, StateOK
<1>2. ~Stored(i)
  BY RunStepEffect DEF IInv, StateOK, ResultsWhenOver
<1>3. \A j \in Steps : Stored(j) => failure'[j] = failure[j]
  BY <1>1, <1>2
<1>4. UNCHANGED def
  BY RunStepEffect
<1>5. ASSUME NEW j \in Steps, Started(j)' PROVE \A d \in Deps(j)' : Stored(d)'
  <2>1. CASE Started(j)
    BY <2>1, <1>3, <1>4, SettledStays DEF IInv, DependenciesSettled
  <2>2. CASE ~Started(j)
    <3>1. j = i
      BY <1>1, <1>5, <2>2 DEF Started
    <3>2. AdmitStep(i)
      BY <1>5, <2>2, <3>1 DEF RunStep, RefuseStep, ResolveParams, CommandReturns, StepTo, Started,
                              IInv, StateOK
    <3>3. \A d \in Deps(i) : Stored(d)
      BY <3>2, WaitedMeansStored DEF AdmitStep
    <3> QED BY <3>1, <3>3, <1>3, <1>4, SettledStays
  <2> QED BY <2>1, <2>2
<1>6. ASSUME NEW j \in Steps, Succeeded(j)' PROVE \A d \in Deps(j)' : Stored(d)'
  <2>1. CASE Succeeded(j)
    BY <2>1, <1>3, <1>4, SettledStays DEF IInv, SucceededSettled
  <2>2. CASE ~Succeeded(j)
    <3>1. j = i
      BY <1>1, <1>6, <2>2 DEF Succeeded
    <3>2. step[i] = "executing"
      BY <1>6, <2>2, <3>1 DEF RunStep, AdmitStep, RefuseStep, ResolveParams, CommandReturns,
                              StoreResult, Succeeded, IInv, StateOK
    <3>3. \A d \in Deps(i) : Stored(d)
      BY <3>2 DEF IInv, DependenciesSettled, Started
    <3> QED BY <3>1, <3>3, <1>3, <1>4, SettledStays
  <2> QED BY <2>1, <2>2
<1> QED BY <1>5, <1>6 DEF DependenciesSettled, SucceededSettled

(* Only a success is appended, at its end, and nothing already in          *)
(* completion_order depended on it.                                        *)
LEMMA RunStepCompletion ==
  ASSUME IInv, NEW i \in Steps, RunStep(i)
  PROVE  CompletionOrderSound'
<1> DEFINE order == completionOrder
<1>1. UNCHANGED def
  BY RunStepEffect
<1>2. ~Stored(i)
  BY RunStepEffect DEF IInv, StateOK, ResultsWhenOver
<1>3. \A j \in Steps : j # i => failure'[j] = failure[j]
  BY DEF RunStep, AdmitStep, RefuseStep, ResolveParams, CommandReturns, StoreResult, IInv, StateOK
<1>4. CASE UNCHANGED order /\ failure'[i] # "None"
  <2>1. \A j \in Steps : Succeeded(j)' <=> Succeeded(j)
    BY <1>2, <1>3, <1>4 DEF Succeeded, Stored, NoResult
  <2>2. \A p \in DOMAIN order : order[p] \in Steps
    BY DEF IInv, StateOK
  <2>3. \A j \in Steps : Deps(j)' = Deps(j)
    BY <1>1, DepsStay
  <2> QED BY <1>4, <2>1, <2>2, <2>3 DEF IInv, CompletionOrderSound, ToSet
<1>5. CASE order' = Append(order, i) /\ failure'[i] = "None"
  <2>1. /\ order \in Seq(Steps) /\ Len(order') = Len(order) + 1
        /\ order'[Len(order) + 1] = i /\ \A p \in 1..Len(order) : order'[p] = order[p]
        /\ DOMAIN order' = 1..(Len(order) + 1) /\ DOMAIN order = 1..Len(order) /\ Len(order) \in Nat
    BY <1>5, AppendProperties, LenProperties DEF IInv, StateOK
  <2>2. \A p \in 1..Len(order) : order[p] \in Steps /\ Succeeded(order[p]) /\ order[p] # i
    BY <2>1, <1>2 DEF IInv, StateOK, CompletionOrderSound, ToSet, Succeeded, Stored, NoResult
  <2>3. \A j \in Steps : Succeeded(j)' <=> Succeeded(j) \/ j = i
    BY <1>3, <1>5 DEF Succeeded
  <2>4. ToSet(order)' = ToSet(order) \cup {i}
    BY <2>1 DEF ToSet
  <2>5. ToSet(order)' = {j \in Steps : Succeeded(j)}'
    BY <2>3, <2>4 DEF IInv, CompletionOrderSound
  <2>6. \A p, q \in DOMAIN order' : order'[p] = order'[q] => p = q
    BY <2>1, <2>2 DEF IInv, CompletionOrderSound
  <2>7. ASSUME NEW p \in DOMAIN order', NEW q \in DOMAIN order', (order[p] \in Deps(order[q]))'
        PROVE  p < q
    <3>1. order'[p] \in Deps(order'[q])
      BY <2>7, <1>1 DEF Deps, NamedBefore, Latest
    <3>2. CASE p <= Len(order) /\ q <= Len(order)
      BY <2>1, <3>1, <3>2 DEF IInv, CompletionOrderSound
    <3>3. CASE p = Len(order) + 1 /\ q <= Len(order)
      <4>1. i \in Deps(order[q]) /\ Succeeded(order[q])
        BY <2>1, <2>2, <3>1, <3>3
      <4>2. Stored(i)
        BY <4>1, <2>1, <2>2, <3>3 DEF IInv, SucceededSettled
      <4> QED BY <4>2, <1>2
    <3>4. CASE p = Len(order) + 1 /\ q = Len(order) + 1
      <4>1. i \in Deps(i)
        BY <2>1, <3>1, <3>4
      <4> QED BY <4>1, DepsAreEarlier DEF IInv, Steps
    <3>5. CASE p <= Len(order) /\ q = Len(order) + 1
      BY <2>1, <3>5
    <3> QED BY <2>1, <3>2, <3>3, <3>4, <3>5
  <2> QED BY <2>5, <2>6, <2>7 DEF CompletionOrderSound
<1>6. \/ UNCHANGED order /\ failure'[i] # "None"
      \/ order' = Append(order, i) /\ failure'[i] = "None"
  BY <1>2 DEF RunStep, AdmitStep, RefuseStep, ResolveParams, CommandReturns, StoreResult,
              IInv, StateOK, Stored, NoResult
<1> QED BY <1>4, <1>5, <1>6

-----------------------------------------------------------------------------
(* The calling thread and the environment                                  *)

OtherStep == MainStep \/ LaunchFails \/ UserCancels \/ ServerStops \/ DeadlinePasses \/ Terminated

(* None of them touches a result.                                          *)
LEMMA OtherStepKeeps ==
  ASSUME OtherStep
  PROVE  UNCHANGED <<def, failure, bound, completionOrder>>
BY DEF OtherStep, MainStep, BeginStep, AfterStep, LoopEnds, WaitAll, Decide, RollBackStep,
       RollBackEnds, LaunchFails, UserCancels, ServerStops, DeadlinePasses, Terminated, vars

(* Apart from BeginStep none of them touches a step.                       *)
LEMMA OnlyBeginStepBegins ==
  ASSUME OtherStep
  PROVE  BeginStep \/ UNCHANGED step
BY DEF OtherStep, MainStep, AfterStep, LoopEnds, WaitAll, Decide, RollBackStep,
       RollBackEnds, LaunchFails, UserCancels, ServerStops, DeadlinePasses, Terminated, vars

LEMMA OtherStepStateOK ==
  ASSUME IInv, OtherStep
  PROVE  StateOK'
<1> USE DEF IInv, StateOK
<1>0. Len(completionOrder) \in Nat
  BY LenProperties
<1>1. step' \in [Steps -> StepPcs]
  BY OnlyBeginStepBegins DEF BeginStep, StepTo, StepPcs
<1>2. main' \in MainPcs
  BY DEF OtherStep, MainStep, BeginStep, AfterStep, LoopEnds, WaitAll, Decide, RollBackStep,
         RollBackEnds, LaunchFails, UserCancels, ServerStops, DeadlinePasses, Terminated, vars, MainPcs
<1>3. cursor' \in 1..(NSteps + 1)
  BY StepsAssumption
     DEF OtherStep, MainStep, BeginStep, AfterStep, LoopEnds, WaitAll, Decide, RollBackStep,
         RollBackEnds, LaunchFails, UserCancels, ServerStops, DeadlinePasses, Terminated, vars
<1>4. rollback' \in [Steps -> Undone] /\ left' \in 0..Len(completionOrder)
  <2>1. CASE RollBackStep
    <3>1. PICK outcome \in RollbackOutcomes :
            rollback' = [rollback EXCEPT ![NextToUndo] = outcome]
      BY <2>1 DEF RollBackStep
    <3>2. outcome \in Undone
      BY DEF RollbackOutcomes, Undone
    <3>3. rollback' \in [Steps -> Undone]
      BY <3>1, <3>2
    <3>4. left' \in 0..Len(completionOrder)
      BY <2>1, <1>0 DEF RollBackStep
    <3> QED BY <3>3, <3>4
  <2>2. CASE Decide
    BY <2>2, <1>0 DEF Decide
  <2>3. CASE UNCHANGED <<rollback, left>>
    BY <2>3
  <2> QED
    BY <2>1, <2>2, <2>3
       DEF OtherStep, MainStep, BeginStep, AfterStep, LoopEnds, WaitAll, RollBackEnds, LaunchFails,
           UserCancels, ServerStops, DeadlinePasses, Terminated, vars, rollbackVars
<1> QED BY <1>1, <1>2, <1>3, <1>4, OtherStepKeeps

LEMMA OtherStepOrder ==
  ASSUME IInv, OtherStep
  PROVE  BegunInOrder' /\ ResultsWhenOver' /\ QuietAfterLoop'
<1> USE DEF IInv, StateOK, Steps, Quiet
<1>0. UNCHANGED <<def, failure, bound>>
  BY OtherStepKeeps
<1>1. CASE BeginStep
  <2>1. /\ cursor \in Steps /\ step[cursor] = "idle" /\ step' = [step EXCEPT ![cursor] = "begun"]
        /\ main = "loop" /\ main' = "loop"
        /\ cursor' = IF cursor \in def.parallel THEN cursor + 1 ELSE cursor
    BY <1>1 DEF BeginStep, StepTo
  <2>2. ~Stored(cursor) /\ bound[cursor] = {}
    BY <2>1 DEF ResultsWhenOver
  <2>3. ResultsWhenOver'
    BY <1>0, <2>1, <2>2 DEF ResultsWhenOver, Stored
  <2>4. BegunInOrder'
    BY <1>0, <2>1 DEF BegunInOrder, Succeeded
  <2> QED BY <2>1, <2>3, <2>4 DEF QuietAfterLoop
<1>2. CASE ~BeginStep
  <2>0. UNCHANGED step
    BY <1>2, OnlyBeginStepBegins
  <2>1. ResultsWhenOver'
    BY <1>0, <2>0 DEF ResultsWhenOver, Stored
  <2>2. BegunInOrder'
    <3>1. CASE AfterStep
      BY <1>0, <2>0, <3>1 DEF AfterStep, BegunInOrder, Succeeded
    <3>2. CASE UNCHANGED cursor
      BY <1>0, <2>0, <3>2 DEF BegunInOrder, Succeeded
    <3> QED
      BY <1>2, <3>1, <3>2
         DEF OtherStep, MainStep, LoopEnds, WaitAll, Decide, RollBackStep, RollBackEnds,
             LaunchFails, UserCancels, ServerStops, DeadlinePasses, Terminated, vars
  <2>3. QuietAfterLoop'
    <3>1. CASE LaunchFails \/ LoopEnds \/ AfterStep
      <4>1. \A i \in Steps : i < cursor /\ i \notin def.parallel => step[i] = "over"
        BY DEF BegunInOrder, ResultsWhenOver, Succeeded, Stored, NoResult
      <4>2. \A i \in Steps : i > cursor => step[i] = "idle"
        BY DEF BegunInOrder
      <4>3. main = "loop" /\ main' \in {"loop", "join", "unwind"}
        BY <3>1 DEF LaunchFails, LoopEnds, AfterStep
      <4>4. main' # "loop" => cursor > NSteps \/ step[cursor] \in {"idle", "over"}
        BY <3>1 DEF LaunchFails, LoopEnds, AfterStep
      <4>5. ASSUME NEW i \in Steps, main' # "loop", i \notin def.parallel PROVE Quiet(i)
        <5>1. CASE i < cursor
          BY <4>1, <4>5, <5>1
        <5>2. CASE i = cursor
          BY <4>4, <4>5, <5>2, StepsAssumption
        <5>3. CASE i > cursor
          BY <4>2, <5>3
        <5> QED BY <5>1, <5>2, <5>3
      <4> QED BY <1>0, <2>0, <4>3, <4>5 DEF QuietAfterLoop
    <3>2. CASE WaitAll
      <4>1. \A i \in Steps : Quiet(i)
        BY <3>2 DEF WaitAll, AllFinished, InFlight, QuietAfterLoop
      <4> QED BY <1>0, <2>0, <4>1 DEF QuietAfterLoop
    <3>3. CASE Decide \/ RollBackStep \/ RollBackEnds
      BY <1>0, <2>0, <3>3 DEF Decide, RollBackStep, RollBackEnds, QuietAfterLoop
    <3>4. CASE UserCancels \/ ServerStops \/ DeadlinePasses \/ Terminated
      BY <1>0, <2>0, <3>4
         DEF UserCancels, ServerStops, DeadlinePasses, Terminated, vars, QuietAfterLoop
    <3> QED BY <1>2, <3>1, <3>2, <3>3, <3>4 DEF OtherStep, MainStep
  <2> QED BY <2>1, <2>2, <2>3
<1> QED BY <1>1, <1>2

LEMMA OtherStepSettled ==
  ASSUME IInv, OtherStep
  PROVE  DependenciesSettled' /\ SucceededSettled' /\ CompletionOrderSound'
<1>0. UNCHANGED <<def, failure, bound, completionOrder>>
  BY OtherStepKeeps
<1>1. \A i \in Steps : Deps(i)' = Deps(i)
  BY <1>0, DepsStay
<1>2. \A i \in Steps : Started(i)' => Started(i)
  BY <1>0, OnlyBeginStepBegins DEF BeginStep, StepTo, Started, IInv, StateOK
<1>3. DependenciesSettled' /\ SucceededSettled'
  BY <1>0, <1>1, <1>2 DEF IInv, DependenciesSettled, SucceededSettled, Stored, Succeeded
<1>4. \A p \in DOMAIN completionOrder : completionOrder[p] \in Steps
  BY DEF IInv, StateOK
<1>5. CompletionOrderSound'
  BY <1>0, <1>1, <1>4 DEF IInv, CompletionOrderSound, Succeeded, ToSet
<1> QED BY <1>3, <1>5

LEMMA FlagsNext ==
  ASSUME FlagsOK, Next
  PROVE  FlagsOK'
<1>1. ASSUME NEW i \in Steps, RunStep(i) PROVE FlagsOK'
  BY <1>1 DEF RunStep, AdmitStep, RefuseStep, ResolveParams, CommandReturns, FlagsOK, stopVars,
              rollbackVars
<1>2. CASE BeginStep \/ LaunchFails \/ AfterStep \/ LoopEnds \/ WaitAll \/ RollBackEnds \/ Terminated
  BY <1>2 DEF BeginStep, LaunchFails, AfterStep, LoopEnds, WaitAll, RollBackEnds, Terminated, vars,
              FlagsOK, stopVars, rollbackVars
<1>3. CASE Decide
  BY <1>3, Zenon DEF Decide, FlagsOK, stopVars
<1>4. CASE RollBackStep
  <2>1. UNCHANGED <<runStop, engineStop, late, shuttingDown>>
    BY <1>4 DEF RollBackStep, stopVars
  <2>2. halted' \in BOOLEAN
    BY <1>4, Zenon DEF RollBackStep, FlagsOK
  <2> QED BY <2>1, <2>2 DEF FlagsOK
<1>5. CASE UserCancels \/ ServerStops \/ DeadlinePasses
  BY <1>5, Zenon DEF UserCancels, ServerStops, DeadlinePasses, FlagsOK, rollbackVars
<1> QED BY <1>1, <1>2, <1>3, <1>4, <1>5 DEF Next, MainStep

LEMMA NextIInv == IInv /\ [Next]_vars => IInv'
<1> SUFFICES ASSUME IInv, [Next]_vars PROVE IInv'
  OBVIOUS
<1>1. ASSUME NEW i \in Steps, RunStep(i) PROVE IInv'
  <2>1. FlagsOK' BY <1>1, FlagsNext DEF IInv, Next
  <2>2. StateOK' BY <1>1, RunStepStateOK
  <2>3. BegunInOrder' /\ ResultsWhenOver' /\ QuietAfterLoop' BY <1>1, RunStepOrder
  <2>4. DependenciesSettled' /\ SucceededSettled' BY <1>1, RunStepSettled
  <2>5. CompletionOrderSound' BY <1>1, RunStepCompletion
  <2> QED BY <2>1, <2>2, <2>3, <2>4, <2>5 DEF IInv
<1>2. CASE OtherStep
  <2>1. FlagsOK' BY <1>2, FlagsNext DEF IInv, Next, OtherStep
  <2>2. StateOK' BY <1>2, OtherStepStateOK
  <2>3. BegunInOrder' /\ ResultsWhenOver' /\ QuietAfterLoop' BY <1>2, OtherStepOrder
  <2>4. DependenciesSettled' /\ SucceededSettled' /\ CompletionOrderSound'
    BY <1>2, OtherStepSettled
  <2> QED BY <2>1, <2>2, <2>3, <2>4 DEF IInv
<1>3. CASE UNCHANGED vars
  <2>1. FlagsOK' /\ StateOK'
    BY <1>3 DEF IInv, FlagsOK, StateOK, vars, stopVars, rollbackVars
  <2>3. BegunInOrder' /\ ResultsWhenOver' /\ QuietAfterLoop'
    BY <1>3 DEF IInv, BegunInOrder, ResultsWhenOver, QuietAfterLoop, Quiet, Stored, Succeeded, vars
  <2>4. DependenciesSettled' /\ SucceededSettled' /\ CompletionOrderSound'
    BY <1>3 DEF IInv, DependenciesSettled, SucceededSettled, CompletionOrderSound, Started, Stored,
                Succeeded, Deps, NamedBefore, Latest, ToSet, vars
  <2> QED BY <2>1, <2>3, <2>4 DEF IInv
<1> QED BY <1>1, <1>2, <1>3 DEF Next, OtherStep

-----------------------------------------------------------------------------
(* Rollback                                                                *)

LEMMA InitRollback == Init => IRollback
<1> SUFFICES ASSUME Init PROVE IRollback
  OBVIOUS
<1>1. ~SomeUndone /\ DOMAIN completionOrder = {} /\ main = "loop"
  BY DEF Init, SomeUndone
<1> QED
  BY <1>1 DEF IRollback, UndoneDownToLeft, RollbackPhase, HaltedAfterFailure,
              ReverseStopsAtFailure, RollbackCoversCompleted, SomeUndone

(* After a step that leaves nothing undone and rollback not under way,     *)
(* IRollback says nothing.                                                 *)
LEMMA NothingUndone ==
  ASSUME StateOK', ~SomeUndone', main' \notin {"undo", "returned"}
  PROVE  IRollback'
<1>1. \A q \in DOMAIN completionOrder' : completionOrder'[q] \in Steps
  BY DEF StateOK
<1> QED
  BY <1>1 DEF IRollback, UndoneDownToLeft, RollbackPhase, HaltedAfterFailure,
              ReverseStopsAtFailure, RollbackCoversCompleted, SomeUndone

LEMMA RollBackStepKeeps ==
  ASSUME IInv, IRollback, RollBackStep
  PROVE  IRollback'
<1> DEFINE order == completionOrder
<1>1. /\ main = "undo" /\ main' = "undo" /\ left \in 1..Len(order) /\ left' = left - 1
      /\ UNCHANGED <<def, completionOrder, failure>> /\ DOMAIN order = 1..Len(order)
      /\ Len(order) \in Nat
  BY LenProperties DEF RollBackStep, IInv, StateOK
<1>2. PICK outcome \in RollbackOutcomes :
        /\ rollback' = [rollback EXCEPT ![order[left]] = outcome]
        /\ halted' = IF outcome = "Failed" THEN def.rollback = "Reverse" ELSE halted
  BY DEF RollBackStep, NextToUndo
<1>3. outcome # "none" /\ (halted => outcome = "Skipped")
  BY DEF RollbackOutcomes
<1>4. /\ \A q \in 1..Len(order) : order[q] \in Steps
      /\ \A p, q \in 1..Len(order) : order[p] = order[q] => p = q
  BY <1>1 DEF IInv, StateOK, CompletionOrderSound
<1>5. /\ rollback'[order[left]] = outcome
      /\ \A i \in Steps : i # order[left] => rollback'[i] = rollback[i]
  BY <1>1, <1>2, <1>4 DEF IInv, StateOK
<1>6. \A q \in 1..Len(order) : q < left => rollback[order[q]] = "none"
  BY <1>1, <1>4 DEF IRollback, UndoneDownToLeft
<1>7. UndoneDownToLeft'
  <2>1. ASSUME NEW i \in Steps, rollback'[i] # "none"
        PROVE  \E q \in 1..Len(order) : q > left' /\ order[q] = i
    BY <1>1, <1>5, <2>1 DEF IRollback, UndoneDownToLeft
  <2>2. ASSUME NEW q \in 1..Len(order), q > left' PROVE rollback'[order[q]] # "none"
    BY <1>1, <1>3, <1>4, <1>5, <2>2 DEF IRollback, UndoneDownToLeft
  <2> QED BY <1>1, <2>1, <2>2 DEF UndoneDownToLeft
<1>8. RollbackPhase' /\ RollbackCoversCompleted'
  BY <1>1 DEF IRollback, RollbackPhase, RollbackCoversCompleted, AllSucceeded, Succeeded
<1>9. HaltedAfterFailure'
  <2> SUFFICES ASSUME NEW q \in 1..Len(order), q > left', def.rollback = "Reverse",
                      rollback'[order[q]] = "Failed"
               PROVE  halted'
    BY <1>1 DEF HaltedAfterFailure
  <2>1. CASE q = left
    BY <1>2, <1>5, <2>1
  <2>2. CASE q > left
    <3>1. halted
      BY <1>1, <1>4, <1>5, <2>2 DEF IRollback, HaltedAfterFailure
    <3> QED BY <1>2, <1>3, <3>1
  <2> QED BY <1>1, <2>1, <2>2
<1>10. ReverseStopsAtFailure'
  <2> SUFFICES ASSUME NEW p \in 1..Len(order), NEW q \in 1..Len(order), p < q,
                      def.rollback = "Reverse", rollback'[order[q]] = "Failed"
               PROVE  rollback'[order[p]] \in {"none", "Skipped"}
    BY <1>1 DEF ReverseStopsAtFailure
  <2>1. CASE p < left
    BY <1>1, <1>4, <1>5, <1>6, <2>1
  <2>2. CASE p = left
    <3>1. halted
      BY <1>1, <1>4, <1>5, <2>2 DEF IRollback, HaltedAfterFailure
    <3> QED BY <1>3, <1>5, <2>2, <3>1
  <2>3. CASE p > left
    BY <1>1, <1>4, <1>5, <2>3 DEF IRollback, ReverseStopsAtFailure
  <2> QED BY <1>1, <2>1, <2>2, <2>3
<1> QED BY <1>7, <1>8, <1>9, <1>10 DEF IRollback

LEMMA NextRollback == IInv /\ IInv' /\ IRollback /\ [Next]_vars => IRollback'
<1> SUFFICES ASSUME IInv, IInv', IRollback, [Next]_vars PROVE IRollback'
  OBVIOUS
<1>a. ASSUME UNCHANGED <<def, main, failure, completionOrder, rollback, halted, left>> PROVE IRollback'
  BY <1>a DEF IRollback, UndoneDownToLeft, SomeUndone, RollbackPhase, HaltedAfterFailure,
              ReverseStopsAtFailure, RollbackCoversCompleted, AllSucceeded, Succeeded
<1>b. ASSUME main \notin {"undo", "returned"}, main' \notin {"undo", "returned"}, UNCHANGED rollback
      PROVE  IRollback'
  <2>1. ~SomeUndone'
    BY <1>b DEF IRollback, RollbackPhase, SomeUndone
  <2>2. StateOK'
    BY DEF IInv
  <2> QED BY <1>b, <2>1, <2>2, NothingUndone
<1>1. ASSUME NEW i \in Steps, RunStep(i) PROVE IRollback'
  BY <1>1, <1>b, RunStepOnlyBefore, RunStepEffect DEF rollbackVars
<1>2. CASE BeginStep \/ LaunchFails \/ AfterStep \/ LoopEnds \/ WaitAll
  BY <1>2, <1>b DEF BeginStep, LaunchFails, AfterStep, LoopEnds, WaitAll, rollbackVars
<1>3. CASE Decide
  <2>0. /\ ~SomeUndone /\ UNCHANGED <<def, failure, completionOrder, rollback, halted>>
        /\ \A q \in DOMAIN completionOrder : completionOrder[q] \in Steps
        /\ DOMAIN completionOrder = 1..Len(completionOrder)
    BY <1>3, LenProperties DEF Decide, IRollback, RollbackPhase, IInv, StateOK
  <2>1. CASE main' = "undo"
    <3>1. left' = Len(completionOrder) /\ ~AllSucceeded /\ def.rollback # "None"
      BY <1>3, <2>1 DEF Decide
    <3> QED
      BY <2>0, <2>1, <3>1
         DEF IRollback, UndoneDownToLeft, RollbackPhase, HaltedAfterFailure, ReverseStopsAtFailure,
             RollbackCoversCompleted, SomeUndone, AllSucceeded, Succeeded
  <2>2. CASE main' = "returned"
    <3>1. AllSucceeded \/ def.rollback = "None" \/ completionOrder = <<>>
      BY <1>3, <2>2 DEF Decide
    <3>2. completionOrder = <<>> => \A i \in Steps : ~Succeeded(i)
      BY DEF IInv, CompletionOrderSound, ToSet
    <3> QED
      BY <2>0, <2>2, <3>1, <3>2
         DEF IRollback, UndoneDownToLeft, RollbackPhase, HaltedAfterFailure, ReverseStopsAtFailure,
             RollbackCoversCompleted, SomeUndone, AllSucceeded, Succeeded
  <2> QED BY <1>3, <2>1, <2>2 DEF Decide
<1>4. CASE RollBackStep
  BY <1>4, RollBackStepKeeps
<1>5. CASE RollBackEnds
  <2>0. /\ main = "undo" /\ main' = "returned" /\ left = 0
        /\ UNCHANGED <<def, failure, completionOrder, rollback, halted, left>>
    BY <1>5 DEF RollBackEnds, rollbackVars
  <2>1. \A i \in Steps : rollback[i] # "none" <=> Succeeded(i)
    <3>1. ToSet(completionOrder) = {i \in Steps : Succeeded(i)}
      BY DEF IInv, CompletionOrderSound
    <3>2. \A q \in DOMAIN completionOrder : q > 0
      BY LenProperties DEF IInv, StateOK
    <3> QED BY <2>0, <3>1, <3>2 DEF ToSet, IRollback, UndoneDownToLeft
  <2>2. RollbackCoversCompleted'
    BY <2>0, <2>1 DEF IRollback, RollbackPhase, RollbackCoversCompleted, AllSucceeded, Succeeded
  <2> QED
    BY <2>0, <2>2 DEF IRollback, UndoneDownToLeft, RollbackPhase, HaltedAfterFailure,
                      ReverseStopsAtFailure, SomeUndone
<1>6. CASE UserCancels \/ ServerStops \/ DeadlinePasses \/ Terminated \/ UNCHANGED vars
  BY <1>6, <1>a DEF UserCancels, ServerStops, DeadlinePasses, Terminated, vars, rollbackVars
<1> QED BY <1>1, <1>2, <1>3, <1>4, <1>5, <1>6 DEF Next, MainStep

LEMMA Invariance == Spec => [](IInv /\ IRollback)
<1>1. Init => IInv /\ IRollback
  BY InitIInv, InitRollback
<1>2. IInv /\ IRollback /\ [Next]_vars => IInv' /\ IRollback'
  BY NextIInv, NextRollback
<1> QED BY <1>1, <1>2, PTL DEF Spec

-----------------------------------------------------------------------------
(* Every variable of an execution keeps its type.                          *)
THEOREM TypeCorrect == Spec => []TypeOK
<1>1. IInv => TypeOK BY DEF IInv, FlagsOK, StateOK, TypeOK
<1> QED BY <1>1, Invariance, PTL

(* In every workflow a step reads only stored results of the steps it      *)
(* depends on, whatever runs in parallel.                                  *)
THEOREM NeverReadsBlank == Spec => []DependenciesSettled
<1>1. IInv => DependenciesSettled BY DEF IInv
<1> QED BY <1>1, Invariance, PTL

(* No step begins after a sequential step that failed.                     *)
THEOREM SequentialStops == Spec => []SequentialFailureStops
<1>1. IInv => SequentialFailureStops
  BY StepsAssumption DEF IInv, StateOK, BegunInOrder, SequentialFailureStops, Steps
<1> QED BY <1>1, Invariance, PTL

(* completion_order, which rollback follows, lists the successful steps    *)
(* once each, dependencies first.                                          *)
THEOREM CompletionOrderCorrect == Spec => []CompletionOrderSound
<1>1. IInv => CompletionOrderSound BY DEF IInv
<1> QED BY <1>1, Invariance, PTL

(* No task is left running when execute() gives up its frame, by return or *)
(* by exception.                                                           *)
THEOREM TasksJoined == Spec => []NoTaskOutlivesRun
<1>1. IInv => NoTaskOutlivesRun
  BY DEF IInv, QuietAfterLoop, Quiet, NoTaskOutlivesRun, Over
<1> QED BY <1>1, Invariance, PTL

(* Rollback undoes dependents before what they depend on.                  *)
THEOREM DependentsFirst == Spec => []DependentsUndoneFirst
<1>1. IInv /\ IRollback => DependentsUndoneFirst
  <2> SUFFICES ASSUME IInv, IRollback, NEW i \in Steps, NEW d \in Steps,
                      d \in Deps(i), Succeeded(i), rollback[d] # "none"
               PROVE  rollback[i] # "none"
    BY DEF DependentsUndoneFirst
  <2>1. PICK p \in DOMAIN completionOrder : p > left /\ completionOrder[p] = d
    BY DEF IRollback, UndoneDownToLeft
  <2>2. PICK q \in DOMAIN completionOrder : completionOrder[q] = i
    BY DEF IInv, CompletionOrderSound, ToSet
  <2>3. p < q
    BY <2>1, <2>2 DEF IInv, CompletionOrderSound
  <2>4. q > left
    BY <2>1, <2>2, <2>3, LenProperties DEF IInv, StateOK
  <2> QED BY <2>2, <2>4 DEF IRollback, UndoneDownToLeft, SomeUndone
<1> QED BY <1>1, Invariance, PTL

(* With `reverse` no command's rollback is called after one has failed.    *)
THEOREM ReverseHalts == Spec => []ReverseStopsAtFailure
<1>1. IRollback => ReverseStopsAtFailure BY DEF IRollback
<1> QED BY <1>1, Invariance, PTL

(* A failed run that asks for rollback returns with an outcome for exactly *)
(* its completed steps.                                                    *)
THEOREM RollbackComplete == Spec => []RollbackCoversCompleted
<1>1. IRollback => RollbackCoversCompleted BY DEF IRollback
<1> QED BY <1>1, Invariance, PTL

(* Rollback of a failed run is complete, ordered, and halts as configured. *)
THEOREM RollbackCorrect == Spec => []RollbackSound
<1>1. DependentsUndoneFirst /\ ReverseStopsAtFailure /\ RollbackCoversCompleted => RollbackSound
  BY DEF RollbackSound
<1> QED BY <1>1, DependentsFirst, ReverseHalts, RollbackComplete, PTL
=============================================================================
