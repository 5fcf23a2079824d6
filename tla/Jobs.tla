-------------------------------- MODULE Jobs --------------------------------
(***************************************************************************)
(* Saved jobs: the database that several processes share                   *)
(* (jobs/SqliteJobStore.cpp), the scheduler that fires jobs by cron        *)
(* (jobs/JobScheduler.cpp), the admin operations on jobs                   *)
(* (agent/routes/JobRoute.hpp), nested runs (jobs/RunJobCommand.hpp,       *)
(* jobs/JobService.hpp), and a server that crashes and recovers the        *)
(* history when it starts again (main.cpp).                                *)
(*                                                                         *)
(* A process is one incarnation: a server, of which the port admits one at *)
(* a time, or a command-line process that executes a workflow file and     *)
(* stores only the jobs it runs with run_job.  Each has its own owner id.  *)
(* The run queue is its promise only, and has one runner: RunQueue models  *)
(* the queue.  A run's id grows with queued_at and rowid.                  *)
(***************************************************************************)
EXTENDS RunStatus, CronExpr, Sequences, FiniteSets, FiniteSetsExt

CONSTANTS
  Job,         \* job ids (generate_id)
  Name,        \* job names
  Cron,        \* cron expressions (schedule_cron)
  NoCron,      \* no schedule
  Calls,       \* Calls[j]: the jobs its definition runs with run_job, in order
  CliFile,     \* the workflow a command-line process executes; a key of Calls
  TimeOf,      \* TimeOf[m]: the m-th minute as broken-down UTC time
  InitialJobs, \* job tables to start from
  Admin,       \* HTTP workers that serve job requests
  Bodies,      \* [job, name, enabled, cron]: what admins POST or PUT
  MaxDepth,    \* RunJobCommand::kMaxDepth
  MaxKeep,     \* max_runs_, the finished runs kept
  MaxQueued,   \* queued runs the queue admits
  MaxRuns, MaxProcs, MaxEdits,  \* bounds: runs, processes, admin requests
  NoJob

ASSUME JobBounds == MaxDepth \in Nat /\ MaxKeep \in Nat \ {0} /\ MaxQueued \in Nat
                    /\ MaxRuns \in Nat /\ MaxProcs \in Nat /\ MaxEdits \in Nat
ASSUME JobTimes  == 1 \in DOMAIN TimeOf /\ DOMAIN TimeOf \subseteq Nat \ {0}
ASSUME JobNames  == CliFile \notin Job /\ NoJob \notin Job \cup {CliFile} /\ NoCron \notin Cron

Proc   == 1..MaxProcs
RunId  == 1..MaxRuns
Minute == DOMAIN TimeOf

Interrupted == "interrupted"
Skipped     == "skipped"

VARIABLES
  (* the database *)
  jobs,       \* jobs[j]: [name, enabled, cron], Unborn, or Gone
  status,     \* of each run; NoRow if it has no row
  owner,      \* the process that inserted it
  jobOf,      \* its job
  firedAt,    \* the minute the scheduler fired it for; 0 if triggered otherwise
  firedFor,   \* and the expression it read for the job
  nextRun,    \* the next run id
  (* processes *)
  proc,       \* "unborn", "started", "serving", "cli", "dead"
  lastFired,  \* last_fired_ of each scheduler
  due,        \* jobs still to look at in this evaluate()
  read,       \* their expressions, as it read them
  key,        \* its minute
  inserts,    \* inserts_since_prune_
  exec,       \* frames of the run a process executes, the nested ones on top
  edit,       \* admin requests between their check and their write
  (* environment and history *)
  minute, edits,
  goneBefore  \* processes dead when runs were last marked interrupted

rowVars  == <<status, owner, jobOf, firedAt, firedFor, nextRun>>
procVars == <<proc, lastFired, due, read, key, inserts, exec>>
envVars  == <<minute, edits, goneBefore>>
vars == <<jobs, rowVars, procVars, edit, envVars>>

Unborn == [name |-> NoJob, enabled |-> FALSE, cron |-> NoCron]
Gone   == [name |-> NoJob, enabled |-> TRUE, cron |-> NoCron]
Nothing == [j \in Job |-> NoCron]
Exists(j)   == jobs[j].name # NoJob
NoEdit == [body |-> NoJob, op |-> "none"]

Init ==
  /\ jobs \in InitialJobs
  /\ status = [r \in RunId |-> NoRow] /\ owner = [r \in RunId |-> 0]
  /\ jobOf = [r \in RunId |-> NoJob] /\ firedAt = [r \in RunId |-> 0]
  /\ firedFor = [r \in RunId |-> NoCron] /\ nextRun = 1
  /\ proc = [i \in Proc |-> "unborn"]
  /\ lastFired = [i \in Proc |-> [j \in Job |-> 0]]
  /\ due = [i \in Proc |-> {}] /\ read = [i \in Proc |-> Nothing] /\ key = [i \in Proc |-> 0]
  /\ inserts = [i \in Proc |-> 0] /\ exec = [i \in Proc |-> <<>>]
  /\ edit = [a \in Admin |-> NoEdit]
  /\ minute = 1 /\ edits = 0 /\ goneBefore = {}

Up(i) == proc[i] \in {"started", "serving"}

(***************************************************************************)
(* The store.                                                              *)
(***************************************************************************)
Finished(rows) == {r \in RunId : IsTerminal(rows[r])}

(* prune_runs: the finished rows beyond the newest `keep' are deleted.     *)
Prune(rows, keep) ==
  [r \in RunId |->
     IF r \in Finished(rows) /\ Cardinality({s \in Finished(rows) : s > r}) >= keep
     THEN NoRow ELSE rows[r]]

(* Every tenth of the limit, at least each and at most 100 inserts.        *)
PrunePeriod ==
  LET tenth == MaxKeep \div 10 IN IF tenth < 1 THEN 1 ELSE IF tenth > 100 THEN 100 ELSE tenth

(* inserts_since_prune_ after one more insert; 0 when that one prunes.     *)
AfterInsert(n) == IF n + 1 >= PrunePeriod THEN 0 ELSE n + 1

(* insert_run by process i, pruning included.  It fails once MaxRuns rows  *)
(* were inserted: the bound is a disk that is full.                        *)
StoreFull == nextRun > MaxRuns

Insert(i, j, st, at) ==
  LET added == InsertRun(status, nextRun, st)
  IN  /\ ~StoreFull
      /\ nextRun' = nextRun + 1
      /\ inserts' = [inserts EXCEPT ![i] = AfterInsert(@)]
      /\ status' = IF inserts'[i] = 0 THEN Prune(added, MaxKeep) ELSE added
      /\ owner' = [r \in RunId |-> IF status'[r] = NoRow THEN 0 ELSE IF r = nextRun THEN i ELSE owner[r]]
      /\ jobOf' = [r \in RunId |-> IF status'[r] = NoRow THEN NoJob ELSE IF r = nextRun THEN j ELSE jobOf[r]]
      /\ firedAt' = [r \in RunId |-> IF status'[r] = NoRow THEN 0 ELSE IF r = nextRun THEN at ELSE firedAt[r]]
      /\ firedFor' = [r \in RunId |-> IF firedAt'[r] = 0 THEN NoCron ELSE IF r = nextRun THEN read[i][j] ELSE firedFor[r]]

(* mark_interrupted_runs: live rows of every other owner.                  *)
MarkInterrupted_OnlyRunning(i) ==
  [r \in RunId |-> IF status[r] = Running /\ owner[r] # i THEN Interrupted ELSE status[r]]

MarkInterrupted(i) ==
  [r \in RunId |-> IF status[r] \in Live /\ owner[r] # i THEN Interrupted ELSE status[r]]

(* update_run; a sub-job whose row could not be inserted has none.         *)
StoreRun_Always(rows, r, st) == IF r = 0 THEN rows ELSE [rows EXCEPT ![r] = st]

StoreRun(rows, r, st) == IF r = 0 THEN rows ELSE UpdateRun(rows, r, st)

(***************************************************************************)
(* Processes.                                                              *)
(***************************************************************************)
NextProc(i) == proc[i] = "unborn" /\ \A k \in Proc : k < i => proc[k] # "unborn"

(* The server binds its port and serves; only then does it look at the     *)
(* runs a previous server left, and start its scheduler.                   *)
StartServer(i) ==
  /\ NextProc(i) /\ \A k \in Proc : ~Up(k)
  /\ proc' = [proc EXCEPT ![i] = "started"]
  /\ UNCHANGED <<jobs, rowVars, lastFired, due, read, key, inserts, exec, edit, envVars>>

(* If the statement fails the rows stay, and the server goes on all the    *)
(* same: mark_interrupted_runs returns 0, as if there were none.           *)
Recover(i) ==
  /\ proc[i] = "started"
  /\ proc' = [proc EXCEPT ![i] = "serving"]
  /\ \/ status' = MarkInterrupted(i) /\ goneBefore' = {k \in Proc : proc[k] = "dead"}
     \/ UNCHANGED <<status, goneBefore>>
  /\ UNCHANGED <<jobs, owner, jobOf, firedAt, firedFor, nextRun, lastFired, due, read, key,
                 inserts, exec, edit, minute, edits>>

StartCli(i) ==
  /\ NextProc(i)
  /\ proc' = [proc EXCEPT ![i] = "cli"]
  /\ exec' = [exec EXCEPT ![i] = <<[job |-> CliFile, run |-> 0, next |-> 1, failed |-> FALSE]>>]
  /\ UNCHANGED <<jobs, rowVars, lastFired, due, read, key, inserts, edit, envVars>>

Forget(i) ==
  /\ proc' = [proc EXCEPT ![i] = "dead"]
  /\ exec' = [exec EXCEPT ![i] = <<>>]
  /\ lastFired' = [lastFired EXCEPT ![i] = [j \in Job |-> 0]]
  /\ due' = [due EXCEPT ![i] = {}] /\ read' = [read EXCEPT ![i] = Nothing]
  /\ key' = [key EXCEPT ![i] = 0]
  /\ inserts' = [inserts EXCEPT ![i] = 0]
  /\ edit' = IF proc[i] = "cli" THEN edit ELSE [a \in Admin |-> NoEdit]

(* The process dies.                                                       *)
Crash(i) ==
  /\ Up(i) \/ proc[i] = "cli"
  /\ Forget(i)
  /\ UNCHANGED <<jobs, rowVars, envVars>>

(* A server is told to stop: the scheduler is joined and the run queue     *)
(* leaves nothing (RunQueue!StopLeavesNothing).                            *)
Shutdown(i) ==
  /\ Up(i) /\ due[i] = {} /\ \A a \in Admin : edit[a] = NoEdit
  /\ status' = [r \in RunId |-> IF owner[r] = i THEN UpdateRun(status, r, Cancelled)[r]
                                ELSE status[r]]
  /\ Forget(i)
  /\ UNCHANGED <<jobs, owner, jobOf, firedAt, firedFor, nextRun, envVars>>

(***************************************************************************)
(* The scheduler.                                                          *)
(***************************************************************************)
Clock ==
  /\ minute + 1 \in Minute
  /\ minute' = minute + 1
  /\ UNCHANGED <<jobs, rowVars, procVars, edit, edits, goneBefore>>

IsDue(j, m) ==
  /\ Exists(j) /\ jobs[j].enabled /\ jobs[j].cron # NoCron
  /\ Parses(jobs[j].cron) /\ Matches(jobs[j].cron, TimeOf[m])

(* evaluate() reads the clock and the list of jobs ...                     *)
Tick(i) ==
  /\ proc[i] = "serving" /\ due[i] = {}
  /\ {j \in Job : IsDue(j, minute)} # {}
  /\ due' = [due EXCEPT ![i] = {j \in Job : IsDue(j, minute)}]
  /\ read' = [read EXCEPT ![i] = [j \in Job |-> IF IsDue(j, minute) THEN jobs[j].cron ELSE NoCron]]
  /\ key' = [key EXCEPT ![i] = minute]
  /\ UNCHANGED <<jobs, rowVars, proc, lastFired, inserts, exec, edit, envVars>>

QueuedBy(i) == {r \in RunId : status[r] = Queued /\ owner[r] = i}

(* ... and goes through it: a job is fired once a minute, and a run the    *)
(* queue refuses is recorded as skipped.  (Store errors leave no row.)     *)
Fire_Again(i, j) ==
  /\ j \in due[i]
  /\ due' = [due EXCEPT ![i] = @ \ {j}]
  /\ read' = [read EXCEPT ![i][j] = NoCron]
  /\ key' = IF due[i] = {j} THEN [key EXCEPT ![i] = 0] ELSE key
  /\ lastFired' = [lastFired EXCEPT ![i][j] = key[i]]
  /\ Insert(i, j, IF Cardinality(QueuedBy(i)) < MaxQueued THEN Queued ELSE Skipped, key[i])
  /\ UNCHANGED <<jobs, proc, exec, edit, envVars>>

Fire(i, j) ==
  /\ j \in due[i]
  /\ due' = [due EXCEPT ![i] = @ \ {j}]
  /\ read' = [read EXCEPT ![i][j] = NoCron]
  /\ key' = IF due[i] = {j} THEN [key EXCEPT ![i] = 0] ELSE key
  /\ lastFired' = [lastFired EXCEPT ![i][j] = key[i]]
  /\ \/ /\ lastFired[i][j] # key[i]
        /\ Insert(i, j, IF Cardinality(QueuedBy(i)) < MaxQueued THEN Queued ELSE Skipped, key[i])
     \/ /\ lastFired[i][j] = key[i] \/ StoreFull
        /\ UNCHANGED <<rowVars, inserts>>
  /\ UNCHANGED <<jobs, proc, exec, edit, envVars>>

(***************************************************************************)
(* JobRoute.                                                               *)
(***************************************************************************)
Serving == \E i \in Proc : Up(i)
Taken(name, j) == \E k \in Job \ {j} : jobs[k].name = name

(* POST and PUT look for the name and, for PUT, the job ...                *)
CheckJob(a, body) ==
  /\ Serving /\ edit[a] = NoEdit /\ edits < MaxEdits
  /\ jobs[body.job] # Gone /\ ~Taken(body.name, body.job)
  /\ edits' = edits + 1
  /\ edit' = [edit EXCEPT ![a] =
       [body |-> body, op |-> IF Exists(body.job) THEN "update" ELSE "create"]]
  /\ UNCHANGED <<jobs, rowVars, procVars, minute, goneBefore>>

(* ... and then write, which the UNIQUE constraint or a DELETE in between  *)
(* makes fail.  (An id is never used again.)                               *)
WriteJob(a) ==
  LET b == edit[a].body IN
  /\ edit[a] # NoEdit
  /\ jobs' = IF /\ (edit[a].op = "update") = Exists(b.job)
               /\ jobs[b.job] # Gone /\ ~Taken(b.name, b.job)
             THEN [jobs EXCEPT ![b.job] = [name |-> b.name, enabled |-> b.enabled, cron |-> b.cron]]
             ELSE jobs
  /\ edit' = [edit EXCEPT ![a] = NoEdit]
  /\ UNCHANGED <<rowVars, procVars, envVars>>

DeleteJob(j) ==
  /\ Serving /\ Exists(j) /\ edits < MaxEdits
  /\ edits' = edits + 1
  /\ jobs' = [jobs EXCEPT ![j] = Gone]
  /\ UNCHANGED <<rowVars, procVars, edit, minute, goneBefore>>

(* POST /api/jobs/{id}/run                                                 *)
RunNow(i, j) ==
  /\ Up(i) /\ Exists(j) /\ Cardinality(QueuedBy(i)) < MaxQueued
  /\ Insert(i, j, Queued, 0)
  /\ UNCHANGED <<jobs, proc, lastFired, due, read, key, exec, edit, envVars>>

(***************************************************************************)
(* Execution: JobService::execute on the runner, and run_job inside it.    *)
(***************************************************************************)
Top(i) == exec[i][Len(exec[i])]

StartRun(i) ==
  /\ Up(i) /\ exec[i] = <<>> /\ QueuedBy(i) # {}
  /\ LET r == Min(QueuedBy(i)) IN
       /\ status' = UpdateRun(status, r, Running)
       /\ exec' = [exec EXCEPT ![i] = <<[job |-> jobOf[r], run |-> r, next |-> 1, failed |-> FALSE]>>]
  /\ UNCHANGED <<jobs, owner, jobOf, firedAt, firedFor, nextRun, proc, lastFired, due, read,
                 key, inserts, edit, envVars>>

(* The job_stack of the thread: the nested jobs, not the top-level one.    *)
JobStack(i) == [n \in 1..(Len(exec[i]) - 1) |-> exec[i][n + 1].job]

(* A reference is looked up as an id and then as a name.                   *)
Resolve(ref) == IF ref \in Job THEN IF Exists(ref) THEN {ref} ELSE {}
                ELSE {j \in Job : jobs[j].name = ref}

Admitted_AnyJob(i, j) == Len(JobStack(i)) < MaxDepth

Admitted(i, j) ==
  /\ Len(JobStack(i)) < MaxDepth
  /\ \A n \in DOMAIN JobStack(i) : JobStack(i)[n] # j

Pending(i) == exec[i] # <<>> /\ ~Top(i).failed /\ Top(i).next <= Len(Calls[Top(i).job])

(* run_job: the sub-job's row is inserted as running and it executes here. *)
(* If the insert fails it executes without a row.                          *)
CallJob(i) ==
  /\ Pending(i)
  /\ \E j \in Resolve(Calls[Top(i).job][Top(i).next]) :
       /\ Admitted(i, j)
       /\ \/ /\ Insert(i, j, Running, 0)
             /\ exec' = [exec EXCEPT ![i] =
                  Append(@, [job |-> j, run |-> nextRun, next |-> 1, failed |-> FALSE])]
          \/ /\ StoreFull
             /\ exec' = [exec EXCEPT ![i] =
                  Append(@, [job |-> j, run |-> 0, next |-> 1, failed |-> FALSE])]
             /\ UNCHANGED <<rowVars, inserts>>
  /\ UNCHANGED <<jobs, proc, lastFired, due, read, key, edit, envVars>>

(* No such job, a cycle, or too deep: the step fails.                      *)
CallRefused(i) ==
  /\ Pending(i)
  /\ \A j \in Resolve(Calls[Top(i).job][Top(i).next]) : ~Admitted(i, j)
  /\ exec' = [exec EXCEPT ![i][Len(exec[i])].failed = TRUE]
  /\ UNCHANGED <<jobs, rowVars, proc, lastFired, due, read, key, inserts, edit, envVars>>

(* run_job returns: the parent's step is done, and it failed unless the    *)
(* sub-job succeeded.                                                      *)
Returned(frames, verdict) ==
  LET n == Len(frames)
  IN  [frames EXCEPT ![n].failed = @ \/ verdict # Success, ![n].next = @ + 1]

(* The workflow of the top frame ends and its status is stored; a sub-job  *)
(* that did not succeed fails its parent's step.  (Failed stands for       *)
(* cancelled too: the store and the parent treat the two alike.)           *)
EndRun(i, verdict) ==
  LET n == Len(exec[i])
      f == Top(i)
  IN  /\ n > 0
      /\ verdict = Success => ~f.failed /\ f.next > Len(Calls[f.job])
      /\ status' = StoreRun(status, f.run, verdict)
      /\ exec' = [exec EXCEPT ![i] =
           IF n = 1 THEN <<>> ELSE Returned(SubSeq(exec[i], 1, n - 1), verdict)]
      /\ proc' = IF n = 1 /\ proc[i] = "cli" THEN [proc EXCEPT ![i] = "dead"] ELSE proc
      /\ UNCHANGED <<jobs, owner, jobOf, firedAt, firedFor, nextRun, lastFired, due, read, key,
                     inserts, edit, envVars>>

Next ==
  \/ Clock
  \/ \E i \in Proc :
       \/ StartServer(i) \/ Recover(i) \/ StartCli(i) \/ Crash(i) \/ Shutdown(i)
       \/ Tick(i) \/ (\E j \in Job : Fire(i, j) \/ RunNow(i, j))
       \/ StartRun(i) \/ CallJob(i) \/ CallRefused(i)
       \/ \E verdict \in {Success, Failed} : EndRun(i, verdict)
  \/ \E a \in Admin :
       \/ \E body \in Bodies : CheckJob(a, body)
       \/ WriteJob(a)
  \/ \E j \in Job : DeleteJob(j)

Spec == Init /\ [][Next]_vars
-----------------------------------------------------------------------------
Statuses == RowStatus \cup {Interrupted, Skipped}

TypeOK ==
  /\ jobs \in [Job -> [name : Name, enabled : BOOLEAN, cron : Cron \cup {NoCron}] \cup {Unborn, Gone}]
  /\ status \in [RunId -> Statuses]
  /\ owner \in [RunId -> 0..MaxProcs]
  /\ jobOf \in [RunId -> Job \cup {NoJob}]
  /\ firedAt \in [RunId -> Minute \cup {0}]
  /\ firedFor \in [RunId -> Cron \cup {NoCron}]
  /\ nextRun \in 1..(MaxRuns + 1)
  /\ proc \in [Proc -> {"unborn", "started", "serving", "cli", "dead"}]
  /\ lastFired \in [Proc -> [Job -> Minute \cup {0}]]
  /\ due \in [Proc -> SUBSET Job]
  /\ read \in [Proc -> [Job -> Cron \cup {NoCron}]]
  /\ key \in [Proc -> Minute \cup {0}]
  /\ inserts \in [Proc -> 0..(PrunePeriod - 1)]
  /\ \A i \in Proc : exec[i] \in Seq([job : Job \cup {CliFile}, run : RunId \cup {0},
                                      next : Nat \ {0}, failed : BOOLEAN])
  /\ minute \in Minute /\ edits \in 0..MaxEdits
  /\ goneBefore \subseteq Proc

(* A finished run never changes, whoever still executes it: a late write   *)
(* of a process whose run was marked interrupted is refused.  Retention    *)
(* deletes no live run, and a finished one only when MaxKeep newer ones    *)
(* are kept.                                                               *)
FinishedIsFinal ==
  [][\A r \in RunId :
       /\ status[r] \in Live => status'[r] # NoRow
       /\ IsTerminal(status[r]) =>
            \/ status'[r] = status[r]
            \/ /\ status'[r] = NoRow
               /\ Cardinality({s \in Finished(status') : s > r}) >= MaxKeep]_vars

(* Once a server has marked the history (a statement that fails marks      *)
(* nothing), no run is left queued or running by a process that was dead   *)
(* by then: each will still end.                                           *)
LiveRunsHaveOwner == \A r \in RunId : status[r] \in Live => owner[r] \notin goneBefore

(* A minute a field names: one its part reaches from where it starts, by   *)
(* whole steps.                                                            *)
Names(field, lo, v) ==
  \E k \in DOMAIN field :
    /\ field[k].star \/ v \in field[k].from..field[k].to
    /\ (v - From(field[k], lo)) % Step(field[k]) = 0

(* A scheduler fires a job at most once for a minute, whatever the rate of *)
(* its ticks, the state of the queue and the edits of the job in between;  *)
(* and only for a minute that the expression it read for the job names:    *)
(* its day of the month or of the week if neither field is `*', else both. *)
ScheduleKept ==
  \A r \in RunId : (status[r] # NoRow /\ firedAt[r] # 0) =>
    LET e == firedFor[r]
        t == TimeOf[firedAt[r]]
        mday == Names(e.mday, 1, t.mday)
        wday == Names(e.wday, 0, t.wday) \/ (t.wday = 0 /\ Names(e.wday, 0, 7))
    IN  /\ \A s \in RunId \ {r} :
             status[s] # NoRow /\ owner[s] = owner[r] /\ jobOf[s] = jobOf[r]
               => firedAt[s] # firedAt[r]
        /\ Names(e.minute, 0, t.minute) /\ Names(e.hour, 0, t.hour) /\ Names(e.month, 1, t.month)
        /\ IF e.mday = <<Star>> \/ e.wday = <<Star>> THEN mday /\ wday ELSE mday \/ wday

(* The jobs run_job nests in each other differ, and they are no deeper     *)
(* than MaxDepth: so nesting ends.  While a sub-job executes, the rows of  *)
(* all its parents are this process's and not yet ended by it.             *)
NestingSound ==
  \A i \in Proc :
    /\ Len(JobStack(i)) <= MaxDepth
    /\ \A m, n \in DOMAIN JobStack(i) : m # n => JobStack(i)[m] # JobStack(i)[n]
    /\ \A n \in DOMAIN exec[i] : exec[i][n].run # 0 =>
         \/ status[exec[i][n].run] = NoRow
         \/ /\ owner[exec[i][n].run] = i
            /\ status[exec[i][n].run] \in {Running, Interrupted}

(* "a thread-local call stack rejects self-reference and cycles"           *)
(* (docs/dashboard-phase2.md): no job runs inside itself.  The stack holds *)
(* the nested jobs only, so the job a run was started for is not on it.    *)
NoJobInsideItself ==
  \A i \in Proc : \A m, n \in DOMAIN exec[i] : m # n => exec[i][m].job # exec[i][n].job

(* "startup recovery never touches runs another live process is executing" *)
(* (SqliteJobStore.hpp): an interrupted run belongs to a dead process.     *)
RecoverySparesLive ==
  \A r \in RunId : status[r] = Interrupted => proc[owner[r]] = "dead"
=============================================================================
