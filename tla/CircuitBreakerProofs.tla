------------------------ MODULE CircuitBreakerProofs ------------------------
(***************************************************************************)
(* Proofs about CircuitBreaker, for any number of steps and any positive   *)
(* thresholds.                                                             *)
(*                                                                         *)
(* The inductive invariant ties the history to the breaker's counters: in  *)
(* the closed state the failures recorded since the circuit closed are at  *)
(* most failure_count_, which is below the threshold unless there were     *)
(* none yet; in the half-open state half_open_successes_ counts exactly    *)
(* the successes of this period.                                           *)
(***************************************************************************)
EXTENDS CircuitBreaker, TLAPS

CountersMeanHistory ==
  /\ state = "Closed" =>
       /\ closedStreak <= failureCount
       /\ closedStreak > 0 => failureCount < FailureThreshold
  /\ state = "HalfOpen" => probeWins = halfOpenSuccesses

(* The two halves of TypeOK: each prover sees the one it can handle.       *)
FlagsOK == probeInFlight \in BOOLEAN /\ elapsed \in BOOLEAN /\ calm \in BOOLEAN

CountersOK ==
  /\ state \in States
  /\ failureCount \in 0..MaxFailures
  /\ halfOpenSuccesses \in 0..(SuccessThreshold - 1)
  /\ step \in [Steps -> Holdings]
  /\ failStreak \in Nat /\ closedStreak \in Nat /\ probeWins \in Nat

LEMMA TypeSplit == TypeOK <=> FlagsOK /\ CountersOK
BY DEF TypeOK, FlagsOK, CountersOK

LEMMA TypeSplitNext == TypeOK' <=> FlagsOK' /\ CountersOK'
BY DEF TypeOK, FlagsOK, CountersOK

IInv == TypeOK /\ ProbeSlotHeld /\ CountersMeanHistory

LEMMA InitIInv == Init => IInv
<1> SUFFICES ASSUME Init PROVE IInv
  OBVIOUS
<1>1. FlagsOK
  BY Zenon DEF Init, FlagsOK
<1>2. CountersOK
  BY ThresholdsAssumption DEF Init, CountersOK, States, Holdings
<1>3. ProbeSlotHeld /\ CountersMeanHistory
  BY DEF Init, ProbeSlotHeld, CountersMeanHistory
<1> QED BY <1>1, <1>2, <1>3, TypeSplit DEF IInv

(* The breaker's own operations, apart from what the step does with them.  *)
LEMMA RecordSuccessIInv ==
  ASSUME IInv, step' \in [Steps -> Holdings], calm' \in BOOLEAN, RecordSuccess
  PROVE  IInv'
<1>1. TypeOK'
  <2>1. FlagsOK'
    BY Zenon DEF IInv, TypeOK, FlagsOK, RecordSuccess, StayIn, TransitionTo
  <2>2. CountersOK'
    BY ThresholdsAssumption
       DEF IInv, TypeOK, CountersOK, RecordSuccess, StayIn, TransitionTo, ClosesCircuit, States
  <2> QED BY <2>1, <2>2, TypeSplitNext
<1>2. ProbeSlotHeld'
  BY DEF RecordSuccess, ProbeSlotHeld
<1>3. CountersMeanHistory'
  BY ThresholdsAssumption
     DEF IInv, TypeOK, CountersMeanHistory, RecordSuccess, StayIn, TransitionTo,
         ClosesCircuit, States
<1> QED BY <1>1, <1>2, <1>3 DEF IInv

LEMMA RecordFailureIInv ==
  ASSUME IInv, step' \in [Steps -> Holdings], calm' \in BOOLEAN, RecordFailure
  PROVE  IInv'
<1>1. TypeOK'
  <2>1. FlagsOK'
    BY Zenon DEF IInv, TypeOK, FlagsOK, RecordFailure, StayIn, TransitionTo
  <2>2. CountersOK'
    BY ThresholdsAssumption
       DEF IInv, TypeOK, CountersOK, RecordFailure, StayIn, TransitionTo, States
  <2> QED BY <2>1, <2>2, TypeSplitNext
<1>2. ProbeSlotHeld'
  BY DEF RecordFailure, ProbeSlotHeld
<1>3. CountersMeanHistory'
  BY ThresholdsAssumption
     DEF IInv, TypeOK, CountersMeanHistory, RecordFailure, StayIn, TransitionTo,
         OpensCircuit, States
<1> QED BY <1>1, <1>2, <1>3 DEF IInv

LEMMA AbandonIInv ==
  ASSUME IInv, step' \in [Steps -> Holdings], calm' \in BOOLEAN, Abandon
  PROVE  IInv'
BY DEF IInv, TypeOK, ProbeSlotHeld, CountersMeanHistory, Abandon, historyVars

LEMMA AllowRequestIInv ==
  ASSUME IInv, NEW s \in Steps, AllowRequest(s)
  PROVE  IInv'
<1>1. step' \in [Steps -> Holdings]
  BY DEF IInv, TypeOK, AllowRequest, Holdings
<1>2. TypeOK'
  <2>1. FlagsOK'
    BY Zenon DEF IInv, TypeOK, FlagsOK, AllowRequest, StayIn, TransitionTo
  <2>2. CountersOK'
    BY <1>1, ThresholdsAssumption
       DEF IInv, TypeOK, CountersOK, AllowRequest, StayIn, TransitionTo, States
  <2> QED BY <2>1, <2>2, TypeSplitNext
<1>3. ProbeSlotHeld'
  <2>1. CASE state = "Closed"
    BY <2>1 DEF IInv, ProbeSlotHeld, AllowRequest, StayIn
  <2>2. CASE state # "Closed"
    <3>1. step'[s] = "probe" /\ state' = "HalfOpen"
      BY <2>2 DEF IInv, TypeOK, AllowRequest, StayIn, TransitionTo
    <3> QED BY <3>1 DEF ProbeSlotHeld
  <2> QED BY <2>1, <2>2
<1>4. CountersMeanHistory'
  BY ThresholdsAssumption
     DEF IInv, TypeOK, CountersMeanHistory, AllowRequest, StayIn, TransitionTo, States
<1> QED BY <1>2, <1>3, <1>4 DEF IInv

LEMMA NextIInv == IInv /\ [Next]_vars => IInv'
<1> SUFFICES ASSUME IInv, [Next]_vars PROVE IInv'
  OBVIOUS
<1>1. ASSUME NEW s \in Steps, AllowRequest(s) PROVE IInv'
  BY <1>1, AllowRequestIInv
<1>2. ASSUME NEW s \in Steps, Conclude(s) PROVE step' \in [Steps -> Holdings] /\ calm' \in BOOLEAN
  BY <1>2 DEF IInv, TypeOK, Conclude, Holdings
<1>3. ASSUME NEW s \in Steps, StepSucceeds(s) PROVE IInv'
  BY <1>2, <1>3, RecordSuccessIInv DEF StepSucceeds
<1>4. ASSUME NEW s \in Steps, StepFails(s) PROVE IInv'
  BY <1>2, <1>4, RecordFailureIInv DEF StepFails
<1>5. ASSUME NEW s \in Steps, StepAbandons(s) PROVE IInv'
  BY <1>2, <1>5, AbandonIInv DEF StepAbandons
<1>6. ASSUME NEW s \in Steps, CancelledBeforeStart(s) PROVE IInv'
  BY <1>6, AbandonIInv DEF CancelledBeforeStart, IInv, TypeOK
<1>7. ASSUME NEW s \in Steps, TimedOutBeforeStart(s) PROVE IInv'
  BY <1>7, RecordFailureIInv DEF TimedOutBeforeStart, IInv, TypeOK
<1>8. CASE TimeoutElapses
  BY <1>8 DEF IInv, TypeOK, ProbeSlotHeld, CountersMeanHistory, TimeoutElapses, historyVars
<1>9. CASE Reset
  <2>1. FlagsOK'
    BY <1>9, Zenon DEF IInv, TypeOK, FlagsOK, Reset
  <2>2. CountersOK'
    BY <1>9, ThresholdsAssumption DEF IInv, TypeOK, CountersOK, Reset, States
  <2>3. ProbeSlotHeld' /\ CountersMeanHistory'
    BY <1>9, ThresholdsAssumption DEF ProbeSlotHeld, CountersMeanHistory, Reset
  <2> QED BY <2>1, <2>2, <2>3, TypeSplitNext DEF IInv
<1>10. CASE BecomesCalm
  BY <1>10 DEF IInv, TypeOK, ProbeSlotHeld, CountersMeanHistory, BecomesCalm,
               breakerVars, historyVars
<1>11. CASE UNCHANGED vars
  BY <1>11 DEF IInv, TypeOK, ProbeSlotHeld, CountersMeanHistory, vars, breakerVars, historyVars
<1> QED
  BY <1>1, <1>3, <1>4, <1>5, <1>6, <1>7, <1>8, <1>9, <1>10, <1>11 DEF Next

LEMMA Invariance == Spec => []IInv
BY InitIInv, NextIInv, PTL DEF Spec

(* The types of the breaker's variables, for every number of steps: in     *)
(* particular half_open_successes_ never reaches success_threshold.        *)
THEOREM TypeCorrect == Spec => []TypeOK
<1>1. IInv => TypeOK BY DEF IInv
<1> QED BY <1>1, Invariance, PTL

(* However many steps share the breaker, a probe slot that is taken has a  *)
(* step that will give it back.                                            *)
THEOREM ProbeSlotNeverLost == Spec => []ProbeSlotHeld
<1>1. IInv => ProbeSlotHeld BY DEF IInv
<1> QED BY <1>1, Invariance, PTL

(* A closed circuit has seen fewer than failure_threshold failures in a    *)
(* row since it closed.                                                    *)
THEOREM TripsInTime == Spec => []ClosedTripsInTime
<1>1. IInv => ClosedTripsInTime
  BY ThresholdsAssumption DEF IInv, TypeOK, CountersMeanHistory, ClosedTripsInTime
<1> QED BY <1>1, Invariance, PTL

(* A half-open circuit closes on success_threshold successes of its own    *)
(* half-open period, or on an administrator's reset.                       *)
THEOREM ClosesOnlyOnSuccesses == Spec => ClosesOnEnoughSuccesses
<1> DEFINE Closes == state = "HalfOpen" /\ state' = "Closed" =>
                       Reset \/ probeWins' >= SuccessThreshold
<1>1. IInv /\ [Next]_vars => [Closes]_vars
  <2> SUFFICES ASSUME IInv, Next, state = "HalfOpen", state' = "Closed"
               PROVE  Reset \/ probeWins' >= SuccessThreshold
    BY DEF vars, breakerVars
  <2>1. ASSUME RecordSuccess PROVE probeWins' >= SuccessThreshold
    BY <2>1, ThresholdsAssumption
       DEF IInv, TypeOK, CountersMeanHistory, RecordSuccess, ClosesCircuit
  <2>2. ~RecordFailure
    BY DEF RecordFailure, TransitionTo, StayIn
  <2>3. ~Abandon
    BY DEF Abandon
  <2>4. \A s \in Steps : ~AllowRequest(s)
    BY DEF AllowRequest, TransitionTo, StayIn
  <2>5. ~TimeoutElapses /\ ~BecomesCalm
    BY DEF TimeoutElapses, BecomesCalm, breakerVars
  <2> QED
    BY <2>1, <2>2, <2>3, <2>4, <2>5
       DEF Next, StepSucceeds, StepFails, StepAbandons, CancelledBeforeStart,
           TimedOutBeforeStart
<1> QED BY <1>1, Invariance, PTL DEF Spec, ClosesOnEnoughSuccesses
=============================================================================
