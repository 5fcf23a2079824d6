------------------------------ MODULE Commands ------------------------------
(***************************************************************************)
(* The blocking commands, as parallel steps of one run: shell_exec over    *)
(* commands/Process.hpp; http_request and the two downloaders over         *)
(* commands/HttpClient.hpp; create_pg_db.                                  *)
(*                                                                         *)
(* Each step has an ExecutionControl (core/ExecutionControl.hpp): the      *)
(* run's stop token and the step's deadline.  The code reads it between    *)
(* polls, and cannot while the other side keeps a poll busy: drain() reads *)
(* the pipe until it is empty, and run_op() looks at the control only when *)
(* its operation is not done after a poll.  busy[s] says that the other    *)
(* side may still do so; the downloaders share the working directory.      *)
(***************************************************************************)
EXTENDS Naturals, FiniteSets

CONSTANTS
  Step,          \* steps that execute concurrently
  Plans,         \* the commands of the steps, as functions from Step
  Version,       \* versions a download can ask for
  Want,          \* Want[s]: the version step s asks for, if it is a download
  IfNotExists,   \* the create_pg_db steps with if_not_exists
  MaxRedirects   \* Request::max_redirects

Downloads == {"python", "pwsh"}
Fetches   == Downloads \cup {"http"}
Kind      == Fetches \cup {"shell", "pg"}
Member    == {"leader", "child"}   \* a process group: the shell, one it started

ASSUME PlansAssumption    == /\ Plans \subseteq [Step -> Kind] /\ Want \in [Step -> Version]
                             /\ IfNotExists \subseteq Step
ASSUME RedirectAssumption == MaxRedirects \in Nat

VARIABLES
  kind,         \* the command of each step
  pc,           \* where its thread is
  verdict,      \* what the command returns
  stop,         \* stop_ of every control: the run is cancelled
  expired,      \* the step's deadline has passed
  busy,         \* the child writes, or the peer answers, within every poll
  alive,        \* members of the process group that run
  deaf,         \* members that survive SIGTERM
  status,       \* wait status of the leader
  hop,          \* redirects followed
  archive, dir, \* downloaded file and extracted versions, per downloader
  db,           \* the database exists
  (* history *)
  shared,       \* downloads that overlapped another of the same kind
  unclean       \* downloads that did not get their directory empty

vars == <<kind, pc, verdict, stop, expired, busy, alive, deaf, status,
          hop, archive, dir, shared, unclean, db>>
control == <<kind, stop, expired, busy>>
shell   == <<alive, deaf, status>>
files   == <<archive, dir, shared, unclean>>

Stages   == {"resolve", "connect", "handshake", "write", "read"}
Verdicts == {"none", "ok", "failed", "exists", "cancelled", "timed_out"}

TypeOK ==
  /\ kind \in Plans
  /\ pc \in [Step -> Stages \cup {"start", "drain", "poll", "grace", "collect",
                                  "save", "fresh", "extract", "find", "create", "done"}]
  /\ verdict \in [Step -> Verdicts]
  /\ stop \in BOOLEAN /\ expired \in [Step -> BOOLEAN] /\ busy \in [Step -> BOOLEAN]
  /\ alive \in [Step -> SUBSET Member] /\ deaf \in [Step -> SUBSET Member]
  /\ status \in [Step -> {"none", "running", "zero", "nonzero", "signalled", "reaped"}]
  /\ hop \in [Step -> 0..MaxRedirects]
  /\ archive \in [Downloads -> SUBSET Version] /\ dir \in [Downloads -> SUBSET Version]
  /\ db \in BOOLEAN /\ shared \subseteq Step /\ unclean \subseteq Step

(* The directories may hold what an earlier run left.                      *)
Init ==
  /\ kind \in Plans
  /\ pc = [s \in Step |-> "start"] /\ verdict = [s \in Step |-> "none"]
  /\ stop = FALSE
  /\ expired = [s \in Step |-> FALSE] /\ busy = [s \in Step |-> TRUE]
  /\ alive = [s \in Step |-> {}] /\ deaf = [s \in Step |-> {}]
  /\ status = [s \in Step |-> "none"] /\ hop = [s \in Step |-> 0]
  /\ archive = [d \in Downloads |-> {}]
  /\ \E old \in SUBSET Version : dir = [d \in Downloads |-> old]
  /\ db \in BOOLEAN /\ shared = {} /\ unclean = {}

Goto(s, l)   == pc' = [pc EXCEPT ![s] = l] /\ UNCHANGED verdict
Return(s, v) == pc' = [pc EXCEPT ![s] = "done"] /\ verdict' = [verdict EXCEPT ![s] = v]

ShouldStop(s) == stop \/ expired[s]
StopVerdict(s) == IF stop THEN "cancelled" ELSE "timed_out"

-----------------------------------------------------------------------------
(* The surroundings: cancellation, the clock, a side that falls silent.    *)

RequestStop ==
  /\ ~stop
  /\ stop' = TRUE
  /\ UNCHANGED <<kind, expired, busy, pc, verdict, alive, deaf, status, hop, files, db>>

DeadlinePasses(s) ==
  /\ ~expired[s]
  /\ expired' = [expired EXCEPT ![s] = TRUE]
  /\ UNCHANGED <<kind, stop, busy, pc, verdict, alive, deaf, status, hop, files, db>>

FallsSilent(s) ==
  /\ busy[s] /\ kind[s] # "pg"
  /\ busy' = [busy EXCEPT ![s] = FALSE]
  /\ UNCHANGED <<kind, stop, expired, pc, verdict, alive, deaf, status, hop, files, db>>

(* Parameters are checked before anything else, and what throws is a       *)
(* failed step.                                                            *)
BadParameters(s) ==
  /\ pc[s] = "start" /\ kind[s] \notin Downloads
  /\ Return(s, "failed")
  /\ UNCHANGED <<control, shell, hop, files, db>>

-----------------------------------------------------------------------------
(* run_shell()                                                             *)

SpawnFails(s) ==
  /\ pc[s] = "start" /\ kind[s] = "shell"
  /\ Return(s, "failed")
  /\ UNCHANGED <<control, shell, hop, files, db>>

Spawn(s) ==
  /\ pc[s] = "start" /\ kind[s] = "shell"
  /\ alive' = [alive EXCEPT ![s] = {"leader"}]
  /\ status' = [status EXCEPT ![s] = "running"]
  /\ \E d \in SUBSET Member : deaf' = [deaf EXCEPT ![s] = d]
  /\ Goto(s, "drain")
  /\ UNCHANGED <<control, hop, files, db>>

(* The processes: one forks, one ends.                                     *)
Fork(s) ==
  /\ alive[s] # {} /\ "child" \notin alive[s]
  /\ alive' = [alive EXCEPT ![s] = @ \cup {"child"}]
  /\ UNCHANGED <<control, pc, verdict, deaf, status, hop, files, db>>

Exit(s, p) ==
  /\ p \in alive[s]
  /\ alive' = [alive EXCEPT ![s] = @ \ {p}]
  /\ IF p = "leader" THEN \E c \in {"zero", "nonzero"} : status' = [status EXCEPT ![s] = c]
                     ELSE UNCHANGED status
  /\ UNCHANGED <<control, pc, verdict, deaf, hop, files, db>>

(* poll() or sleep, then drain(): it returns at the end of the file, or    *)
(* when it finds the pipe empty.                                           *)
Quiet(s) == ~busy[s] \/ alive[s] = {}

Drain(s) ==
  /\ pc[s] = "drain"
  /\ Goto(s, "poll")
  /\ UNCHANGED <<control, shell, hop, files, db>>

Waitable(s) == status[s] \in {"zero", "nonzero", "signalled"}

ExitVerdict(s) == IF status[s] = "zero" THEN {"ok"} ELSE {"ok", "failed"}

(* waitpid() found the leader: what it left in the group goes on.  Without *)
(* check_exit any exit code is a success.                                  *)
Reap(s) ==
  /\ pc[s] = "poll" /\ Waitable(s)
  /\ \E v \in ExitVerdict(s) : verdict' = [verdict EXCEPT ![s] = v]
  /\ status' = [status EXCEPT ![s] = "reaped"]
  /\ pc' = [pc EXCEPT ![s] = "collect"]
  /\ UNCHANGED <<control, alive, deaf, hop, files, db>>

PollAgain(s) ==
  /\ pc[s] = "poll" /\ ~Waitable(s) /\ ~ShouldStop(s)
  /\ Goto(s, "drain")
  /\ UNCHANGED <<control, shell, hop, files, db>>

(* SIGTERM to the group.                                                   *)
Terminate(s) ==
  /\ pc[s] = "poll" /\ ~Waitable(s) /\ ShouldStop(s)
  /\ alive' = [alive EXCEPT ![s] = @ \cap deaf[s]]
  /\ status' = [status EXCEPT ![s] = IF "leader" \in deaf[s] THEN @ ELSE "signalled"]
  /\ verdict' = [verdict EXCEPT ![s] = StopVerdict(s)]
  /\ pc' = [pc EXCEPT ![s] = "grace"]
  /\ UNCHANGED <<control, deaf, hop, files, db>>

(* The leader ended within the grace period, or has not when it is over    *)
(* and SIGKILL ends it; the group gets SIGKILL either way.                 *)
EndGrace_KeepsStragglers(s) ==
  /\ pc[s] = "grace"
  /\ alive' = [alive EXCEPT ![s] = IF Waitable(s) THEN @ ELSE {}]
  /\ status' = [status EXCEPT ![s] = "reaped"]
  /\ Goto(s, "collect")
  /\ UNCHANGED <<control, deaf, hop, files, db>>
EndGrace_NoKill(s) ==
  /\ pc[s] = "grace" /\ Waitable(s)
  /\ alive' = [alive EXCEPT ![s] = {}]
  /\ status' = [status EXCEPT ![s] = "reaped"]
  /\ Goto(s, "collect")
  /\ UNCHANGED <<control, deaf, hop, files, db>>
EndGrace(s) ==
  /\ pc[s] = "grace"
  /\ alive' = [alive EXCEPT ![s] = {}]
  /\ status' = [status EXCEPT ![s] = "reaped"]
  /\ Goto(s, "collect")
  /\ UNCHANGED <<control, deaf, hop, files, db>>

(* The last drain(), with a pipe that a straggler may hold open.           *)
Collect(s) ==
  /\ pc[s] = "collect"
  /\ Goto(s, "done")
  /\ UNCHANGED <<control, shell, hop, files, db>>

-----------------------------------------------------------------------------
(* perform(): perform_once() per hop, run_op() per operation.              *)

Active(s)   == pc[s] \notin {"start", "done"}
Overlaps(s) == {t \in Step \ {s} : kind[t] = kind[s] /\ kind[s] \in Downloads /\ Active(t)}

Fetch(s) ==
  /\ pc[s] = "start" /\ kind[s] \in Fetches
  /\ Goto(s, "resolve")
  /\ shared' = IF Overlaps(s) = {} THEN shared ELSE shared \cup Overlaps(s) \cup {s}
  /\ UNCHANGED <<control, shell, hop, archive, dir, unclean, db>>

(* The stages that may follow one that completed: TLS or not, more chunks. *)
After(stage) ==
  CASE stage = "resolve"   -> {"connect"}
    [] stage = "connect"   -> {"handshake", "write"}
    [] stage = "handshake" -> {"write"}
    [] OTHER               -> {"read"}

OpCompletes(s) ==
  /\ pc[s] \in Stages /\ busy[s]
  /\ \E l \in After(pc[s]) : Goto(s, l)
  /\ UNCHANGED <<control, shell, hop, files, db>>

(* The operation ends with an error of its own.                            *)
OpFails(s) ==
  /\ pc[s] \in Stages /\ busy[s]
  /\ Return(s, "failed")
  /\ UNCHANGED <<control, shell, hop, files, db>>

(* A poll ended with the operation pending: cancelled, past the deadline,  *)
(* or past Request::timeout.                                               *)
OpAborts(s) ==
  /\ pc[s] \in Stages
  /\ Return(s, IF ShouldStop(s) THEN StopVerdict(s) ELSE "failed")
  /\ UNCHANGED <<control, shell, hop, files, db>>

(* The last chunk: a redirect with a usable Location, if hops are left.    *)
Redirect(s) ==
  /\ pc[s] = "read" /\ busy[s] /\ hop[s] < MaxRedirects
  /\ hop' = [hop EXCEPT ![s] = @ + 1]
  /\ Goto(s, "resolve")
  /\ UNCHANGED <<control, shell, files, db>>

(* ... or the response: success is a 2xx status.                           *)
Respond(s) ==
  /\ pc[s] = "read" /\ busy[s]
  /\ \/ Return(s, "failed")
     \/ IF kind[s] = "http" THEN Return(s, "ok") ELSE Goto(s, "save")
  /\ UNCHANGED <<control, shell, hop, files, db>>

-----------------------------------------------------------------------------
(* The downloaders, once they have the body.  They no longer look at the   *)
(* control: tar and chmod run through system().                            *)

(* The archive is truncated and written; it may not open.                  *)
Save(s) ==
  /\ pc[s] = "save"
  /\ archive' = [archive EXCEPT ![kind[s]] = {Want[s]}]
  /\ Goto(s, "fresh")
  /\ UNCHANGED <<control, shell, hop, dir, shared, unclean, db>>

(* download_python removes the directory first, and goes on if something   *)
(* is left of it; download_pwsh does not.                                  *)
Fresh_KeepsOld(s) ==
  /\ pc[s] = "fresh"
  /\ Goto(s, "extract")
  /\ UNCHANGED <<control, shell, hop, files, db>>
Fresh(s) ==
  /\ pc[s] = "fresh"
  /\ IF kind[s] = "python"
     THEN \E left \in SUBSET dir["python"] :
            /\ dir' = [dir EXCEPT !["python"] = left]
            /\ unclean' = IF left = {} THEN unclean ELSE unclean \cup {s}
     ELSE UNCHANGED <<dir, unclean>>
  /\ Goto(s, "extract")
  /\ UNCHANGED <<control, shell, hop, archive, shared, db>>

(* tar may fail after it wrote something.                                  *)
Extract(s) ==
  /\ pc[s] = "extract"
  /\ dir' = [dir EXCEPT ![kind[s]] = @ \cup archive[kind[s]]]
  /\ Goto(s, "find") \/ Return(s, "failed")
  /\ UNCHANGED <<control, shell, hop, archive, shared, unclean, db>>

(* Any binary with the right name is the one returned.                     *)
Find(s) ==
  /\ pc[s] = "find"
  /\ Return(s, IF dir[kind[s]] = {} THEN "failed" ELSE "ok")
  /\ UNCHANGED <<control, shell, hop, files, db>>

(* The file does not open, the directory is not made, tar or chmod fails.  *)
DownloadFails(s) ==
  /\ pc[s] \in {"save", "fresh", "extract", "find"}
  /\ Return(s, "failed")
  /\ UNCHANGED <<control, shell, hop, files, db>>

-----------------------------------------------------------------------------
(* create_pg_db: it takes the default execute_with_control, which ignores  *)
(* the control; the check and CREATE DATABASE are two transactions.        *)

(* With if_not_exists a database that the check finds is a success.        *)
PgCheck(s) ==
  /\ pc[s] = "start" /\ kind[s] = "pg"
  /\ IF db THEN Return(s, IF s \in IfNotExists THEN "ok" ELSE "exists") ELSE Goto(s, "create")
  /\ UNCHANGED <<control, shell, hop, files, db>>

PgCreate(s) ==
  /\ pc[s] = "create"
  /\ db' = TRUE
  /\ Return(s, IF db THEN "exists" ELSE "ok")
  /\ UNCHANGED <<control, shell, hop, files>>

PgFails(s) ==
  /\ pc[s] \in {"start", "create"} /\ kind[s] = "pg"
  /\ Return(s, "failed")
  /\ UNCHANGED <<control, shell, hop, files, db>>

-----------------------------------------------------------------------------
ShellThread(s) ==
  \/ Spawn(s) \/ SpawnFails(s) \/ Reap(s) \/ PollAgain(s) \/ Terminate(s) \/ EndGrace(s)
Reads(s) == Drain(s) \/ Collect(s)
HttpThread(s) == Fetch(s) \/ OpCompletes(s) \/ OpFails(s) \/ OpAborts(s) \/ Redirect(s) \/ Respond(s)
DownloadThread(s) == Save(s) \/ Fresh(s) \/ Extract(s) \/ Find(s) \/ DownloadFails(s)
PgThread(s) == PgCheck(s) \/ PgCreate(s) \/ PgFails(s)

(* Every step has returned, and the processes it left have ended.          *)
Ended ==
  /\ \A s \in Step : pc[s] = "done" /\ alive[s] = {}
  /\ UNCHANGED vars

Next ==
  \/ RequestStop
  \/ \E s \in Step :
       \/ DeadlinePasses(s) \/ FallsSilent(s) \/ BadParameters(s)
       \/ Fork(s) \/ (\E p \in Member : Exit(s, p))
       \/ ShellThread(s) \/ Reads(s)
       \/ HttpThread(s) \/ DownloadThread(s) \/ PgThread(s)
  \/ Ended

Spec == Init /\ [][Next]_vars

(* A thread with something to do goes on, and time passes in the grace     *)
(* period and in a pending operation.  A read of the pipe is sure to       *)
(* return only if nobody refills it, and no process is sure to end.        *)
FairSpec ==
  /\ Spec
  /\ \A s \in Step : /\ WF_vars(ShellThread(s))
                     /\ WF_vars(Quiet(s) /\ Reads(s))
                     /\ WF_vars(HttpThread(s))
                     /\ WF_vars(DownloadThread(s))

-----------------------------------------------------------------------------
(* A shell step that was stopped leaves no process of its group, however   *)
(* they take SIGTERM and whatever they fork in the grace period, and no    *)
(* shell step that returned leaves its leader unreaped.                    *)
NoProcessOutlivesStop ==
  \A s \in Step : pc[s] = "done" =>
    /\ verdict[s] \in {"cancelled", "timed_out"} => alive[s] = {}
    /\ status[s] \in {"none", "reaped"} /\ "leader" \notin alive[s]

(* A download that succeeds without having overlapped another of its kind  *)
(* leaves the version asked for in its directory; for download_python it   *)
(* is the only one there, whatever earlier downloads, finished, failed or  *)
(* stopped halfway, left behind, unless the directory could not be emptied. *)
Succeeds(s) == kind[s] \in Downloads /\ verdict[s] # "ok" /\ verdict'[s] = "ok"

DownloadIsTheOneAskedFor ==
  [][\A s \in Step : (Succeeds(s) /\ s \notin shared) =>
       IF kind[s] = "python" /\ s \notin unclean THEN dir["python"] = {Want[s]}
                                                 ELSE Want[s] \in dir[kind[s]]]_vars

(* "Fresh extraction directory each run so we don't mix versions"          *)
(* (PythonDownloader.cpp): a download_python that emptied the directory    *)
(* reports the version asked for.                                          *)
VersionsDoNotMix ==
  [][\A s \in Step : (Succeeds(s) /\ kind[s] = "python" /\ s \notin unclean) =>
       dir["python"] = {Want[s]}]_vars

(* "If true, do not error if database exists" (PostgresCreator's           *)
(* manifest.json): with if_not_exists no step fails because it exists.     *)
ExistingIsNoError == \A s \in Step : verdict[s] = "exists" => s \notin IfNotExists

(* A shell or network step that is to stop returns once the other side is  *)
(* silent, even if every process of the group ignores SIGTERM.             *)
StopEndsStep ==
  \A s \in Step : (ShouldStop(s) /\ ~busy[s] /\ kind[s] # "pg") ~> (pc[s] = "done")
=============================================================================
