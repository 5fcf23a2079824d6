--------------------------- MODULE CircuitBreaker ---------------------------
(***************************************************************************)
(* One circuit breaker (core/CircuitBreaker.hpp) and the workflow steps    *)
(* that use it (run_step in workflow/WorkflowEngine.cpp).  The breaker of  *)
(* a command is shared by all runs, so steps of different runs are inside  *)
(* it at the same time; each of its methods holds its mutex throughout and *)
(* is one action.                                                          *)
(*                                                                         *)
(* The clock is abstracted to the one comparison the code makes: whether   *)
(* reset_timeout has passed since the last change of state.  Counters that *)
(* are only reported (total, success and rejected calls) are left out.     *)
(***************************************************************************)
EXTENDS Integers, FiniteSets

CONSTANTS
  Steps,             \* threads executing steps of the breaker's command
  FailureThreshold,  \* config_.failure_threshold
  SuccessThreshold,  \* config_.success_threshold
  MaxFailures        \* bound on failure_count_

ASSUME ThresholdsAssumption ==
  /\ FailureThreshold \in Nat \ {0}
  /\ SuccessThreshold \in Nat \ {0}
  /\ MaxFailures \in Nat

VARIABLES
  state,              \* state_
  failureCount,       \* failure_count_
  halfOpenSuccesses,  \* half_open_successes_
  probeInFlight,      \* probe_in_flight_
  elapsed,            \* reset_timeout has passed since state_changed_time_
  step,               \* what each step holds: nothing, or an admission
  calm,               \* from now on no step fails, times out or is cancelled
  failStreak,         \* history: failures recorded in a row
  closedStreak,       \* history: those of them recorded since the circuit closed
  probeWins           \* history: successes recorded since the circuit half-opened

breakerVars == <<state, failureCount, halfOpenSuccesses, probeInFlight, elapsed>>
historyVars == <<failStreak, closedStreak, probeWins>>
vars == <<breakerVars, step, calm, historyVars>>

States   == {"Closed", "Open", "HalfOpen"}
Holdings == {"none", "request", "probe"}

Init ==
  /\ state = "Closed" /\ failureCount = 0 /\ halfOpenSuccesses = 0
  /\ probeInFlight = FALSE /\ elapsed = FALSE
  /\ step = [s \in Steps |-> "none"]
  /\ calm = FALSE
  /\ failStreak = 0 /\ closedStreak = 0 /\ probeWins = 0

-----------------------------------------------------------------------------
(* transition_to(): a change of state restarts the clock and the count of  *)
(* successful probes, and nothing else: failure_count_ is kept.            *)
TransitionTo_KeepsProbeCount(new) ==
  /\ state' = new
  /\ elapsed' = IF new = state THEN elapsed ELSE FALSE
  /\ UNCHANGED halfOpenSuccesses

TransitionTo(new) ==
  /\ state' = new
  /\ IF new = state THEN UNCHANGED <<elapsed, halfOpenSuccesses>>
     ELSE elapsed' = FALSE /\ halfOpenSuccesses' = 0

StayIn == UNCHANGED <<state, elapsed, halfOpenSuccesses>>

TimeoutElapses ==
  /\ state = "Open" /\ ~elapsed
  /\ elapsed' = TRUE
  /\ UNCHANGED <<state, failureCount, halfOpenSuccesses, probeInFlight, step, calm,
                 historyVars>>

(* allow_request() returning true: closed, or the probe of an open circuit *)
(* whose timeout has passed, or of a half-open one with no probe in        *)
(* flight.  A rejected request changes nothing that is modelled.           *)
AllowRequest(s) ==
  /\ step[s] = "none"
  /\ \/ /\ state = "Closed"
        /\ step' = [step EXCEPT ![s] = "request"]
        /\ StayIn /\ UNCHANGED <<probeInFlight, probeWins>>
     \/ /\ state = "Open" /\ elapsed
        /\ step' = [step EXCEPT ![s] = "probe"]
        /\ TransitionTo("HalfOpen") /\ probeInFlight' = TRUE
        /\ probeWins' = 0
     \/ /\ state = "HalfOpen" /\ ~probeInFlight
        /\ step' = [step EXCEPT ![s] = "probe"]
        /\ StayIn /\ probeInFlight' = TRUE
        /\ UNCHANGED probeWins
  /\ UNCHANGED <<failureCount, calm, failStreak, closedStreak>>

ClosesCircuit_OneMore == halfOpenSuccesses + 1 > SuccessThreshold
ClosesCircuit == halfOpenSuccesses + 1 >= SuccessThreshold

(* record_success()                                                        *)
RecordSuccess ==
  /\ probeInFlight' = FALSE
  /\ \/ /\ state = "Closed" /\ failureCount' = 0 /\ StayIn
     \/ /\ state = "HalfOpen" /\ ClosesCircuit
        /\ TransitionTo("Closed") /\ UNCHANGED failureCount
     \/ /\ state = "HalfOpen" /\ ~ClosesCircuit
        /\ halfOpenSuccesses' = halfOpenSuccesses + 1
        /\ UNCHANGED <<state, elapsed, failureCount>>
     \/ /\ state = "Open" /\ StayIn /\ UNCHANGED failureCount
  /\ failStreak' = 0 /\ closedStreak' = 0
  /\ probeWins' = IF state = "HalfOpen" THEN probeWins + 1 ELSE probeWins

OpensCircuit_OneMore == failureCount + 1 > FailureThreshold
OpensCircuit == failureCount + 1 >= FailureThreshold

(* record_failure()                                                        *)
RecordFailure ==
  /\ failureCount < MaxFailures
  /\ probeInFlight' = FALSE
  /\ failureCount' = failureCount + 1
  /\ \/ state = "Closed" /\ OpensCircuit /\ TransitionTo("Open")
     \/ state = "Closed" /\ ~OpensCircuit /\ StayIn
     \/ state = "HalfOpen" /\ TransitionTo("Open")
     \/ state = "Open" /\ StayIn
  /\ failStreak' = failStreak + 1
  /\ closedStreak' = IF state = "Closed" THEN closedStreak + 1 ELSE closedStreak
  /\ UNCHANGED probeWins

(* abandon()                                                               *)
Abandon_KeepsProbe == UNCHANGED <<breakerVars, historyVars>>
Abandon ==
  /\ probeInFlight' = FALSE
  /\ UNCHANGED <<state, failureCount, halfOpenSuccesses, elapsed, historyVars>>

(* reset(), from the admin API.                                            *)
Reset ==
  /\ ~calm
  /\ state' = "Closed"
  /\ elapsed' = IF state = "Closed" THEN elapsed ELSE FALSE
  /\ failureCount' = 0 /\ halfOpenSuccesses' = 0 /\ probeInFlight' = FALSE
  /\ failStreak' = 0 /\ closedStreak' = 0
  /\ UNCHANGED <<step, calm, probeWins>>

-----------------------------------------------------------------------------
(* run_step(): the step's outcome concludes its admission.                 *)

Conclude(s) == step[s] # "none" /\ step' = [step EXCEPT ![s] = "none"] /\ UNCHANGED calm

(* StepFailure::None                                                       *)
StepSucceeds(s) == Conclude(s) /\ RecordSuccess

(* StepFailure::Command or Timeout                                         *)
StepFails(s) == ~calm /\ Conclude(s) /\ RecordFailure

(* StepFailure::Cancelled, Validation or NotFound                          *)
StepAbandons(s) == ~calm /\ Conclude(s) /\ Abandon

(* A step whose run was cancelled before it started, or whose run deadline *)
(* had already passed, never calls allow_request(): its breaker pointer is *)
(* still set (it is cleared only when the circuit refused), so abandon()   *)
(* and record_failure() are called all the same.                           *)
CancelledBeforeStart(s) == ~calm /\ step[s] = "none" /\ Abandon /\ UNCHANGED <<step, calm>>
TimedOutBeforeStart(s)  == ~calm /\ step[s] = "none" /\ RecordFailure /\ UNCHANGED <<step, calm>>

(* The command recovers and nobody interferes any more.                    *)
BecomesCalm == ~calm /\ calm' = TRUE /\ UNCHANGED <<breakerVars, step, historyVars>>

Next ==
  \/ \E s \in Steps :
       \/ AllowRequest(s)
       \/ StepSucceeds(s) \/ StepFails(s) \/ StepAbandons(s)
       \/ CancelledBeforeStart(s) \/ TimedOutBeforeStart(s)
  \/ TimeoutElapses \/ Reset \/ BecomesCalm

Spec == Init /\ [][Next]_vars

(* Time passes, steps that were admitted end, the command keeps being used.*)
Fairness ==
  /\ WF_vars(TimeoutElapses)
  /\ \A s \in Steps : WF_vars(AllowRequest(s)) /\ WF_vars(StepSucceeds(s))

FairSpec == Spec /\ Fairness

-----------------------------------------------------------------------------
(* Properties                                                              *)

(* Every variable has its type.  half_open_successes_ stays below its      *)
(* threshold: the success that reaches it closes the circuit.              *)
TypeOK ==
  /\ state \in States
  /\ failureCount \in 0..MaxFailures
  /\ halfOpenSuccesses \in 0..(SuccessThreshold - 1)
  /\ probeInFlight \in BOOLEAN /\ elapsed \in BOOLEAN /\ calm \in BOOLEAN
  /\ step \in [Steps -> Holdings]
  /\ failStreak \in Nat /\ closedStreak \in Nat /\ probeWins \in Nat

(* probe_in_flight_ is set only while the circuit is half-open and a step  *)
(* holding a probe is still to conclude.  A flag nobody will clear makes   *)
(* allow_request() refuse every request of the command for ever.           *)
ProbeSlotHeld ==
  probeInFlight => state = "HalfOpen" /\ \E s \in Steps : step[s] = "probe"

(* The circuit is never still closed when failure_threshold failures have  *)
(* been recorded in a row since it closed, however concurrent steps        *)
(* interleave and whatever earlier periods left in failure_count_.         *)
ClosedTripsInTime == state = "Closed" => closedStreak < FailureThreshold

(* Unless an administrator resets it, a half-open circuit closes only when *)
(* success_threshold successes, of whatever steps, were recorded in this   *)
(* very half-open period: none carries over from a period that a failure   *)
(* ended.  That they need not be successes of probes is ClosesOnProbe.     *)
ClosesOnEnoughSuccesses ==
  [][state = "HalfOpen" /\ state' = "Closed" =>
       Reset \/ probeWins' >= SuccessThreshold]_vars

(* Once the command stops failing and nobody interferes, the circuit       *)
(* closes for good: no probe slot is lost, no rejection is permanent.      *)
Recovers == calm ~> [](state = "Closed")

(* The class comment of CircuitBreaker, HALF-OPEN: "exactly one probe      *)
(* request at a time is admitted, the rest are rejected until it is        *)
(* recorded".  Refuted: see the README.                                    *)
AtMostOneProbe == Cardinality({s \in Steps : step[s] = "probe"}) <= 1

(* README: after a single probe "`success_threshold` successful probes     *)
(* close it again".  So the step whose success closes a half-open circuit  *)
(* held a probe, unless it is reset.  Refuted: see the README.             *)
ClosesOnProbe ==
  [][state = "HalfOpen" /\ state' = "Closed" =>
       Reset \/ \E s \in Steps : step[s] = "probe" /\ step'[s] = "none"]_vars

(* CircuitBreakerConfig::failure_threshold: "Consecutive failures before   *)
(* opening".  Refuted: see the README.                                     *)
OpensOnlyAfterConsecutiveFailures ==
  [][state = "Closed" /\ state' = "Open" => failStreak' >= FailureThreshold]_vars
=============================================================================
