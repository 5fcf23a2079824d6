---------------------------- MODULE RunLifecycle ----------------------------
(***************************************************************************)
(* What the run queue promises about one run, without threads, locks,      *)
(* trackers or a queue:                                                    *)
(*   - a run is either refused, or admitted and then ended exactly once;   *)
(*   - it executes at most once, and a run that was called off before it   *)
(*     started never executes;                                             *)
(*   - its verdict is fixed when it ends and never changes;                *)
(*   - once shutdown has begun no run is admitted and none starts.         *)
(***************************************************************************)
EXTENDS RunStatus

CONSTANT Runs

VARIABLES
  phase,    \* where each run stands
  verdict,  \* the final status handed to whoever asks; NoRow until it ends
  closed    \* TRUE once shutdown has begun

lifecycleVars == <<phase, verdict, closed>>

Phases == {"new", "refused", "persisting", "waiting", "calledoff", "executing", "ended"}

Init ==
  /\ phase = [r \in Runs |-> "new"]
  /\ verdict = [r \in Runs |-> NoRow]
  /\ closed = FALSE

Move(r, from, to) ==
  /\ phase[r] = from
  /\ phase' = [phase EXCEPT ![r] = to]

Refuse(r) ==
  /\ \/ Move(r, "new", "refused")
     \/ Move(r, "persisting", "refused")
  /\ UNCHANGED <<verdict, closed>>

Reserve(r) ==
  /\ ~closed
  /\ Move(r, "new", "persisting")
  /\ UNCHANGED <<verdict, closed>>

Accept(r) ==
  /\ ~closed
  /\ Move(r, "persisting", "waiting")
  /\ UNCHANGED <<verdict, closed>>

Start(r) ==
  /\ ~closed
  /\ Move(r, "waiting", "executing")
  /\ UNCHANGED <<verdict, closed>>

CallOff(r) ==
  /\ \/ Move(r, "waiting", "calledoff")
     \/ closed /\ Move(r, "persisting", "calledoff")
  /\ UNCHANGED <<verdict, closed>>

(* Shutdown calls off every waiting run in one step.                       *)
Close ==
  /\ ~closed
  /\ closed' = TRUE
  /\ phase' = [r \in Runs |-> IF phase[r] = "waiting" THEN "calledoff" ELSE phase[r]]
  /\ UNCHANGED verdict

End(r) ==
  /\ \/ Move(r, "calledoff", "ended") /\ verdict' = [verdict EXCEPT ![r] = Cancelled]
     \/ /\ Move(r, "executing", "ended")
        /\ \E v \in Verdicts : verdict' = [verdict EXCEPT ![r] = v]
  /\ UNCHANGED closed

Next ==
  \/ \E r \in Runs : \/ Refuse(r) \/ Reserve(r) \/ Accept(r)
                     \/ Start(r) \/ CallOff(r) \/ End(r)
  \/ Close

Spec == Init /\ [][Next]_lifecycleVars
=============================================================================
