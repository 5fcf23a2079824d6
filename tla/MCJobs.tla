------------------------------- MODULE MCJobs -------------------------------
(* Three jobs that run each other, two processes, two minutes.           *)
EXTENDS Jobs, TLC
CONSTANTS j1, j2, j3, cli, a1

SomeJobs == {j1, j2, j3}
OneAdmin == {a1}

Every == <<Star>>
Slash(n) == <<[Star EXCEPT !.slash = <<n>>]>>

(* On Fridays and on the 13th, in even minutes.                            *)
EvenMinutes ==
  [minute |-> Slash(2), hour |-> <<At(0)>>, mday |-> <<At(13)>>, month |-> Every, wday |-> <<At(5)>>]

(* On every day of the month, though it is not written `*', or on Sundays; *)
(* in minutes 1 and 2.                                                     *)
TwoMinutes ==
  [minute |-> <<At(1), [At(1) EXCEPT !.to = 2]>>, hour |-> Every, mday |-> Slash(1), month |-> Every,
   wday |-> <<At(7)>>]

(* Refused: a step of 0.                                                   *)
BadStep == [EvenMinutes EXCEPT !.minute = Slash(0)]

Crons == {EvenMinutes, TwoMinutes, BadStep}

(* Friday the 20th, one minute after midnight, and the minute after it.    *)
Times ==
  <<[minute |-> 1, hour |-> 0, mday |-> 20, month |-> 11, wday |-> 5],
    [minute |-> 2, hour |-> 0, mday |-> 20, month |-> 11, wday |-> 5]>>

(* j1 runs j2 by its name, j2 runs j3 by its id, j3 itself; the file j1.    *)
Links == (j1 :> <<"n2">>) @@ (j2 :> <<j3>>) @@ (j3 :> <<j3>>) @@ (cli :> <<j1>>)

Job1 == [name |-> "n1", enabled |-> TRUE, cron |-> EvenMinutes]
Job2 == [name |-> "n2", enabled |-> TRUE, cron |-> BadStep]
Job3 == [name |-> "n3", enabled |-> TRUE, cron |-> NoCron]

(* The third job still has to be created.                                  *)
Saved == {(j1 :> Job1) @@ (j2 :> Job2) @@ (j3 :> Unborn)}

(* Job j1 is scheduled anew, or j3 created.                                *)
SomeBodies == {[job |-> j1] @@ [Job1 EXCEPT !.cron = TwoMinutes], [job |-> j3] @@ Job3}
=============================================================================
