----------------------------- MODULE HttpServer -----------------------------
(***************************************************************************)
(* The HTTP server (agent/HttpServer.{hpp,cpp}) with the handlers that     *)
(* reach the run queue: one I/O thread owns every connection, a pool of    *)
(* workers runs the blocking handlers and posts each response back, and    *)
(* main starts and stops it all (main.cpp).                                *)
(*                                                                         *)
(* A connection carries one request (keep_alive(false)) and names the run  *)
(* its request may submit.  The run queue is its promise only: a run is    *)
(* admitted or refused, starts, and ends; RunQueue shows the queue keeps   *)
(* it.  The wait of POST /workflow is modelled step by step: the waiter    *)
(* slot is taken by fetch_add and given back when the count was too high.  *)
(***************************************************************************)
EXTENDS Routes, Settings, FiniteSets

CONSTANTS
  Conns,      \* number of connections
  Requests,   \* Requests[c]: the requests a client may send on connection c
  Configs,    \* settings to start from
  Candidates, \* Candidates[k]: values of key k the settings are checked with
  JobRun,     \* a run the scheduler has already queued, visible to admins only
  NoRequest

ASSUME ConnsAssumption    == Conns \in Nat
ASSUME JobRunAssumption   == JobRun \notin 1..Conns
ASSUME RequestsAssumption ==
  \A c \in 1..Conns : \A q \in Requests[c] :
    q # NoRequest /\ q.path \in Seq(STRING) /\ q.run \in 1..Conns \cup {JobRun}
(* What get_int returns.                                                   *)
ASSUME ConfigsAssumption == \A s \in Configs : Numeric(s)
ASSUME CandidatesAssumption ==
  \A k \in NumberKeys \cap DOMAIN Candidates : \A v \in Candidates[k] : v \subseteq Int

(* Connections are numbered as they arrive; a run is named by the          *)
(* connection that submits it.                                             *)
Conn == 1..Conns
Runs == Conn \cup {JobRun}

(* What the server is started with: its own settings and the live runs the *)
(* queue admits.                                                           *)
Options(s) ==
  LET server == ServerConfig(s)
      admin  == AdminConfig(s)
      queue  == QueueOptions(s)
  IN  [port |-> server.port, threads |-> server.threads, pool |-> WorkerPool(s),
       token |-> server.token, loopback |-> server.loopback, maxWait |-> server.maxWait,
       adminEnabled |-> admin.adminEnabled, authRequired |-> admin.authRequired,
       password |-> admin.password,
       capacity |-> queue.maxConcurrent + queue.maxQueued, uploads |-> UploadsEnabled(s)]

VARIABLES
  config,   \* the options this server was started with
  main,     \* pc of the main thread
  ioStop,   \* stop()'s handler on the I/O thread: "none", "posted", "done"
  sess,     \* state of each connection
  req,      \* its request
  todo,     \* what handle_request decided to do with it
  tasks,    \* handlers posted to the worker pool, in order
  waiters,  \* WorkflowRoute::waiters_
  staging,  \* PluginUploadRoute::staging_
  run,      \* state of each run in the queue
  answer    \* the status code on its way to the client; 0 if none

serverVars == <<config, main, ioStop>>
vars == <<serverVars, sess, req, todo, tasks, waiters, staging, run, answer>>

SessStates == {"idle", "arriving", "reading", "dispatched", "handling", "counting",
               "full", "waiting", "staging", "posted", "closed"}
RunStates  == {"none", "live", "cancelling", "ended"}
MainStates == {"starting", "serving", "draining", "joining", "grace", "stopped", "failed"}

Init ==
  /\ \E s \in Configs : config = Options(s)
  /\ main = "starting"
  /\ ioStop = "none"
  /\ sess = [c \in Conn |-> "idle"]
  /\ req = [c \in Conn |-> NoRequest]
  /\ todo = [c \in Conn |-> Do("none")]
  /\ tasks = <<>>
  /\ waiters = 0
  /\ staging = FALSE
  /\ run = [r \in Runs |-> IF r = JobRun THEN "live" ELSE "none"]
  /\ answer = [c \in Conn |-> 0]

Stopping == ioStop = "done"
IoRuns   == main \in {"serving", "draining", "joining", "grace"}
InWorker == {c \in Conn : sess[c] \in {"handling", "counting", "full", "waiting", "staging"}}
LiveRuns == {r \in Runs : run[r] \in {"live", "cancelling"}}

(***************************************************************************)
(* The I/O thread.                                                         *)
(***************************************************************************)
Enter(c, from, to) ==
  /\ IoRuns
  /\ sess[c] = from
  /\ sess' = [sess EXCEPT ![c] = to]

(* A connection completes the pending async_accept, of which there is one; *)
(* its callback may still run after stop() has closed the acceptor.        *)
Arrive(c) ==
  /\ ~Stopping
  /\ \A d \in Conn : sess[d] # "arriving" /\ (d < c => sess[d] # "idle")
  /\ Enter(c, "idle", "arriving")
  /\ UNCHANGED <<serverVars, req, todo, tasks, waiters, staging, run, answer>>

Accept(c) ==
  /\ Enter(c, "arriving", "reading")
  /\ UNCHANGED <<serverVars, req, todo, tasks, waiters, staging, run, answer>>

(* on_read: a whole request arrived.  While stopping it is dropped.        *)
OnRead(c) ==
  /\ \E q \in Requests[c] : req' = [req EXCEPT ![c] = q]
  /\ IF Stopping
     THEN Enter(c, "reading", "closed") /\ UNCHANGED tasks
     ELSE Enter(c, "reading", "dispatched") /\ tasks' = Append(tasks, c)
  /\ UNCHANGED <<serverVars, todo, waiters, staging, run, answer>>

(* on_read with an error: the client left, read_timeout, body_limit.       *)
ReadFails(c) ==
  /\ Enter(c, "reading", "closed")
  /\ UNCHANGED <<serverVars, req, todo, tasks, waiters, staging, run, answer>>

(* write: the response is sent, or the write fails or times out; either    *)
(* way the connection is closed.                                           *)
Write(c) ==
  /\ Enter(c, "posted", "closed")
  /\ answer' = [answer EXCEPT ![c] = 0]
  /\ UNCHANGED <<serverVars, req, todo, tasks, waiters, staging, run>>

(* The handler stop() posted: no new connections, and the ones that have   *)
(* not sent their request are closed.                                      *)
StopAccepting ==
  /\ ioStop = "posted"
  /\ ioStop' = "done"
  /\ sess' = [c \in Conn |-> IF sess[c] = "reading" THEN "closed" ELSE sess[c]]
  /\ UNCHANGED <<config, main, req, todo, tasks, waiters, staging, run, answer>>

(***************************************************************************)
(* The workers.  After join() the pool runs nothing more.  A worker that   *)
(* takes a request runs the middlewares and finds the handler at once:     *)
(* that depends on nothing but the request and the options.                *)
(***************************************************************************)
PoolRuns == main \in {"serving", "draining", "joining"}

TakeTask ==
  /\ PoolRuns
  /\ tasks # <<>>
  /\ Cardinality(InWorker) < config.pool
  /\ sess' = [sess EXCEPT ![Head(tasks)] = "handling"]
  /\ todo' = [todo EXCEPT ![Head(tasks)] = Decide(config, req[Head(tasks)])]
  /\ tasks' = Tail(tasks)
  /\ UNCHANGED <<serverVars, req, waiters, staging, run, answer>>

(* The handler returns: its response is posted to the I/O thread.          *)
Respond(c, code) ==
  /\ sess' = [sess EXCEPT ![c] = "posted"]
  /\ answer' = [answer EXCEPT ![c] = code]

(* invoke() turns an exception into 500; a waiter's slot and the upload    *)
(* flag are released by destructors.                                       *)
HandlerThrows(c) ==
  /\ sess[c] \in {"handling", "waiting", "staging"}
  /\ Respond(c, 500)
  /\ waiters' = IF sess[c] = "waiting" THEN waiters - 1 ELSE waiters
  /\ staging' = (staging /\ sess[c] # "staging")
  /\ UNCHANGED <<serverVars, req, todo, tasks, run>>

(* API clients see only ad-hoc runs.                                       *)
Visible_AnyRun(r) == run[r] # "none"

Visible(r) == r # JobRun /\ run[r] # "none"

(* Everything that touches no run: replies of the middlewares and tables,  *)
(* polls, cancels of a run the client may not see, and the operations of   *)
(* other components, where 200 stands for whatever those components answer *)
(* (a run that an admin starts from a job is Jobs!RunNow).                 *)
HandleReadOnly(c) ==
  /\ sess[c] = "handling"
  /\ LET d == todo[c]
         r == req[c].run
     IN  /\ d.op \notin {"submit", "cancel", "stage"}
         /\ d.op = "cancelVisible" => ~Visible(r)
         /\ Respond(c, IF d.op = "reply" THEN d.code
                       ELSE IF d.op \in {"get", "cancelVisible"} /\ ~Visible(r) THEN 404 ELSE 200)
  /\ UNCHANGED <<serverVars, req, todo, tasks, waiters, staging, run>>

(* RunQueue::cancel ends a run that is still queued at once and tells one  *)
(* that has started to stop; one that is between two owners it refuses.    *)
CancelOutcomes(r) ==
  CASE run[r] = "none"       -> {[outcome |-> "NotFound", state |-> "none"]}
    [] run[r] = "ended"      -> {[outcome |-> "AlreadyFinished", state |-> "ended"]}
    [] run[r] = "live"       -> {[outcome |-> "Cancelled", state |-> "ended"],
                                 [outcome |-> "Cancelling", state |-> "cancelling"],
                                 [outcome |-> "NotCancellable", state |-> "live"]}
    [] run[r] = "cancelling" -> {[outcome |-> "Cancelling", state |-> "cancelling"],
                                 [outcome |-> "NotCancellable", state |-> "cancelling"]}

HandleCancel(c) ==
  LET op == todo[c].op
      r  == req[c].run
  IN  /\ sess[c] = "handling"
      /\ \/ op = "cancel"
         \/ op = "cancelVisible" /\ Visible(r)
      /\ \E o \in CancelOutcomes(r) :
           /\ Respond(c, CancelCode(o.outcome))
           /\ run' = [run EXCEPT ![r] = o.state]
      /\ UNCHANGED <<serverVars, req, todo, tasks, waiters, staging>>

(* POST /api/plugins/_uploads: staging_.exchange(true), then the body is   *)
(* decoded and PluginInstaller::stage called while the flag is held.       *)
StageBegin(c) ==
  /\ sess[c] = "handling"
  /\ todo[c].op = "stage"
  /\ IF config.uploads /\ ~staging
     THEN sess' = [sess EXCEPT ![c] = "staging"] /\ staging' = TRUE /\ UNCHANGED answer
     ELSE /\ Respond(c, UploadErrorCode(IF config.uploads THEN "Conflict" ELSE "Disabled"))
          /\ UNCHANGED staging
  /\ UNCHANGED <<serverVars, req, todo, tasks, waiters, run>>

(* Every return releases the flag: a body that is no upload, one that the  *)
(* installer refuses, an install or a full disk in the way, or 201.        *)
StageCodes(body) ==
  CASE body = "ok"       -> {201, UploadErrorCode("Conflict"), UploadErrorCode("Internal")}
    [] body = "toolarge" -> {UploadErrorCode("TooLarge")}
    [] body = "unsigned" -> {UploadErrorCode("BadSignature")}
    [] OTHER             -> {UploadErrorCode("Invalid")}

StageEnd(c) ==
  /\ sess[c] = "staging"
  /\ staging' = FALSE
  /\ \E code \in StageCodes(req[c].body) : Respond(c, code)
  /\ UNCHANGED <<serverVars, req, todo, tasks, waiters, run>>

(* POST /workflow, up to RunQueue::submit and the reading of Prefer.       *)
SubmitRefused(c, error) ==
  /\ sess[c] = "handling"
  /\ todo[c].op = "submit"
  /\ CASE error = "ShuttingDown" -> main # "serving"
       [] error = "QueueFull"    -> main = "serving" /\ Cardinality(LiveRuns) >= config.capacity
       [] error = "StoreError"   -> main = "serving" /\ Cardinality(LiveRuns) < config.capacity
  /\ Respond(c, SubmitErrorCode(error))
  /\ UNCHANGED <<serverVars, req, todo, tasks, waiters, staging, run>>

SubmitAccepted(c) ==
  /\ sess[c] = "handling"
  /\ todo[c].op = "submit"
  /\ main = "serving" /\ Cardinality(LiveRuns) < config.capacity
  /\ run' = [run EXCEPT ![c] = "live"]
  /\ IF PreferredWait(req[c])
     THEN sess' = [sess EXCEPT ![c] = "counting"] /\ UNCHANGED answer
     ELSE Respond(c, 202)
  /\ UNCHANGED <<serverVars, req, todo, tasks, waiters, staging>>

(* At least one worker stays free for polls, cancels and admin; a single   *)
(* worker never waits.                                                     *)
MaxWaiters_AllWorkers == config.threads

MaxWaiters == IF config.threads > 1 THEN config.threads - 1 ELSE 0

(* waiters_.fetch_add(1) >= max_waiters                                    *)
CountWaiter(c) ==
  /\ sess[c] = "counting"
  /\ waiters' = waiters + 1
  /\ sess' = [sess EXCEPT ![c] = IF waiters >= MaxWaiters THEN "full" ELSE "waiting"]
  /\ UNCHANGED <<serverVars, req, todo, tasks, staging, run, answer>>

(* fetch_sub(1) and 202.                                                   *)
LeaveFull_KeepsCount(c) ==
  /\ sess[c] = "full"
  /\ Respond(c, 202)
  /\ UNCHANGED <<serverVars, req, todo, tasks, waiters, staging, run>>

LeaveFull(c) ==
  /\ sess[c] = "full"
  /\ waiters' = waiters - 1
  /\ Respond(c, 202)
  /\ UNCHANGED <<serverVars, req, todo, tasks, staging, run>>

(* RunQueue::wait returns the final record, or nothing when the wait is up.*)
WaitFinished(c) ==
  /\ sess[c] = "waiting"
  /\ run[c] = "ended"
  /\ waiters' = waiters - 1
  /\ Respond(c, 200)
  /\ UNCHANGED <<serverVars, req, todo, tasks, staging, run>>

WaitTimeout_Ok(c) ==
  /\ sess[c] = "waiting"
  /\ run[c] # "ended"
  /\ waiters' = waiters - 1
  /\ Respond(c, 200)
  /\ UNCHANGED <<serverVars, req, todo, tasks, staging, run>>

WaitTimeout(c) ==
  /\ sess[c] = "waiting"
  /\ run[c] # "ended"
  /\ waiters' = waiters - 1
  /\ Respond(c, 202)
  /\ UNCHANGED <<serverVars, req, todo, tasks, staging, run>>

(***************************************************************************)
(* The run queue, as its clients see it.                                   *)
(***************************************************************************)
(* A run may take for ever; one that was told to stop ends.                *)
EndRun(r) ==
  /\ run[r] = "live"
  /\ run' = [run EXCEPT ![r] = "ended"]
  /\ UNCHANGED <<serverVars, sess, req, todo, tasks, waiters, staging, answer>>

EndCancelled(r) ==
  /\ run[r] = "cancelling"
  /\ run' = [run EXCEPT ![r] = "ended"]
  /\ UNCHANGED <<serverVars, sess, req, todo, tasks, waiters, staging, answer>>

(***************************************************************************)
(* The main thread.                                                        *)
(***************************************************************************)

(* CommandAgent::start: bind and run the I/O thread, or give up.           *)
Start(ok) ==
  /\ main = "starting"
  /\ main' = IF ok THEN "serving" ELSE "failed"
  /\ UNCHANGED <<config, ioStop, sess, req, todo, tasks, waiters, staging, run, answer>>

(* run_cancel.request_stop() and RunQueue::stop(): every run is told to    *)
(* stop, and the runners are joined before the server is stopped.          *)
Shutdown_RunsGoOn ==
  /\ main = "serving"
  /\ main' = "draining"
  /\ UNCHANGED <<config, ioStop, sess, req, todo, tasks, waiters, staging, run, answer>>

Shutdown ==
  /\ main = "serving"
  /\ main' = "draining"
  /\ run' = [r \in Runs |-> IF run[r] = "live" THEN "cancelling" ELSE run[r]]
  /\ UNCHANGED <<config, ioStop, sess, req, todo, tasks, waiters, staging, answer>>

StopServer ==
  /\ main = "draining"
  /\ LiveRuns = {}
  /\ main' = "joining"
  /\ ioStop' = "posted"
  /\ UNCHANGED <<config, sess, req, todo, tasks, waiters, staging, run, answer>>

(* workers.join(): every posted handler has returned.                      *)
JoinWorkers ==
  /\ main = "joining"
  /\ tasks = <<>> /\ InWorker = {}
  /\ main' = "grace"
  /\ UNCHANGED <<config, ioStop, sess, req, todo, tasks, waiters, staging, run, answer>>

(* Either ioc.run() has returned for want of work or the grace period is   *)
(* over; ioc.stop(), join, and impl_.reset() closes what is left.          *)
Release ==
  /\ main = "grace"
  /\ main' = "stopped"
  /\ sess' = [c \in Conn |-> IF sess[c] = "idle" THEN "idle" ELSE "closed"]
  /\ tasks' = <<>>
  /\ answer' = [c \in Conn |-> 0]
  /\ UNCHANGED <<config, ioStop, req, todo, waiters, staging, run>>

(* The process has ended.                                                  *)
Ended == main \in {"stopped", "failed"} /\ UNCHANGED vars

WorkerStep(c) ==
  \/ HandleReadOnly(c) \/ HandleCancel(c)
  \/ \E error \in {"ShuttingDown", "QueueFull", "StoreError"} : SubmitRefused(c, error)
  \/ SubmitAccepted(c) \/ CountWaiter(c) \/ LeaveFull(c) \/ WaitFinished(c)
  \/ StageBegin(c) \/ StageEnd(c)

IoStep(c) == Accept(c) \/ Write(c) \/ ReadFails(c)

MainStep == StopServer \/ JoinWorkers \/ Release

Next ==
  \/ \E c \in Conn :
       \/ Arrive(c) \/ OnRead(c) \/ IoStep(c) \/ WorkerStep(c)
       \/ HandlerThrows(c) \/ WaitTimeout(c)
  \/ TakeTask \/ StopAccepting
  \/ \E r \in Runs : EndRun(r) \/ EndCancelled(r)
  \/ \E ok \in BOOLEAN : Start(ok)
  \/ Shutdown \/ MainStep
  \/ Ended

Spec == Init /\ [][Next]_vars

(***************************************************************************)
(* Every thread keeps running: the I/O loop (with its timeouts), each      *)
(* worker, the main thread, and a run that was told to stop.  Nothing is   *)
(* assumed of clients, of the other runs, or of waits timing out.          *)
(***************************************************************************)
FairSpec ==
  /\ Spec
  /\ WF_vars(TakeTask) /\ WF_vars(StopAccepting) /\ WF_vars(MainStep)
  /\ \A c \in Conn : WF_vars(IoStep(c)) /\ WF_vars(WorkerStep(c))
  /\ \A r \in Runs : WF_vars(EndCancelled(r))
-----------------------------------------------------------------------------
(***************************************************************************)
(* Properties.                                                             *)
(***************************************************************************)
TypeOK ==
  /\ config \in {Options(s) : s \in Configs}
  /\ main \in MainStates
  /\ ioStop \in {"none", "posted", "done"}
  /\ sess \in [Conn -> SessStates]
  /\ \A c \in Conn : req[c] \in Requests[c] \cup {NoRequest}
  /\ todo \in [Conn -> [op : STRING, code : Nat]]
  /\ tasks \in Seq(Conn)
  /\ waiters \in 0..config.threads
  /\ staging \in BOOLEAN
  /\ run \in [Runs -> RunStates]
  /\ answer \in [Conn -> Nat]

Waiting == {c \in Conn : sess[c] = "waiting"}

(* Clients that wait for their run never occupy every HTTP worker, however *)
(* their fetch_add and fetch_sub interleave, as long as the number of      *)
(* workers fits an unsigned int; and no slot is lost: the count is exactly *)
(* the requests between the two (WorkflowRoute::submit).                   *)
(* At most one upload is held in memory, and the flag is held by that one  *)
(* only (PluginUploadRoute::stage).                                        *)
LimitsHeld ==
  /\ config.threads < UIntValues /\ Waiting # {} => Cardinality(Waiting) < config.pool
  /\ waiters = Cardinality({c \in Conn : sess[c] \in {"full", "waiting"}})
  /\ Cardinality({c \in Conn : sess[c] = "staging"}) = IF staging THEN 1 ELSE 0

(* Who may do what, as the configuration says it: a client of /workflow    *)
(* holds the API token or the admin password, or there is no token and the *)
(* server listens on the loopback only; a client of /api/ holds the admin  *)
(* password whenever one is required.                                      *)
Authorized(q) ==
  LET admin == config.adminEnabled /\ config.authRequired /\ config.password /\ q.auth = "basic"
  IN  IF q.path[1] = "workflow"
      THEN \/ config.token /\ (q.auth = "bearer" \/ admin)
           \/ ~config.token /\ config.loopback
      ELSE config.adminEnabled /\ (config.authRequired => admin)

(* A run exists only for an authorized submission, and a job's run is told *)
(* to stop, while the server runs, only for an authorized client of the    *)
(* admin API: an API client cannot reach runs that are not ad-hoc.  Code   *)
(* is uploaded only by an admin who logged in.                             *)
OnlyAllowedEffects ==
  /\ \A c \in Conn : sess[c] = "staging" => Authorized(req[c]) /\ config.authRequired
  /\ \A c \in Conn : run[c] # "none" => Authorized(req[c])
  /\ (run[JobRun] = "cancelling" /\ main = "serving") =>
       \E c \in Conn : /\ req[c] # NoRequest /\ req[c].path[1] = "api"
                      /\ req[c].run = JobRun /\ Authorized(req[c])

(* What a client is told is true of the runs when it is told: 200 to a     *)
(* submission means the run has ended, 202 that there is one, a refusal    *)
(* that there is none; 200 to a cancel means that the run has ended, 202   *)
(* that it was told to stop.                                               *)
AnswersTrue ==
  \A c \in Conn : answer[c] # 0 =>
    LET d == todo[c]
        r == IF d.op \in {"cancel", "cancelVisible"} THEN req[c].run ELSE c
    IN  d.op \in {"submit", "cancel", "cancelVisible"} =>
          /\ answer[c] = 200 => run[r] = "ended"
          /\ answer[c] = 202 => run[r] # "none" /\ (r # c => run[r] # "live")
          /\ (r = c /\ answer[c] \in {429, 503}) => run[r] = "none"

(* Contents of the file, or variables, that set one key, or two.           *)
Only(k, v)       == [x \in {k} |-> v]
Both(k, v, l, w) == [x \in {k, l} |-> IF x = k THEN v ELSE w]

(* Settings from the file and from the environment, one value off in each  *)
(* or two in one of them: every component gets what it relies on; what the *)
(* validator accepts is used as written, but for workers an unsigned int   *)
(* cannot count; uploads are on only with all their conditions; and no     *)
(* file means the same as an empty one.                                    *)
SettingsSound ==
  main = "starting" =>
    /\ Options([Unset EXCEPT !.file = {}]) = Options(Unset)
    /\ \A k, l \in DOMAIN Candidates : \A v \in Candidates[k], w \in Candidates[l] :
         \A s \in {[file |-> {Only(k, v)}, env |-> Only(l, w)],
                  [file |-> {}, env |-> Both(k, v, l, w)]} :
           Usable(s) /\ UploadsGuarded(s) /\ (Accepts(s) => UsedAsWritten(s))

(* What the repository says of settings, and the code does not do.         *)

(* CommandAgent.cpp:82-83: "Leave at least one HTTP worker free for status *)
(* polls and admin (with a single worker, nobody may wait)".  The limit of *)
(* waiters is computed from the number the pool is not made with.          *)
WorkerStaysFree == Waiting # {} => Cardinality(Waiting) < config.pool

(* docs/dashboard-phase3.md:28-29: the scheduler's period "must be < 60 so *)
(* no minute is missed".  Neither the validator nor the scheduler looks.   *)
TicksEveryMinute ==
  LET tick == "jobs.scheduler_tick_seconds" IN
  main = "starting" =>
    \A v \in Candidates[tick] :
      LET s == [Unset EXCEPT !.file = {Only(tick, v)}]
      IN  Accepts(s) => SchedulerTick(s) < 60

(* docs/dashboard-phase3.md:80-82: a key with an underscore "cannot be set *)
(* through ORCHA_* env vars".  navigate_to_key also tries the dotted form. *)
UnderscoreKeys ==
  {"server.worker_threads", "server.api_token", "server.max_wait_ms", "workflow.default_timeout_ms",
   "workflow.max_concurrent_runs", "workflow.max_queued_runs", "jobs.max_runs",
   "jobs.scheduler_tick_seconds", "admin.auth_required", "plugins.upload.max_bytes"}
UnderscoreKeysAreInTheFile ==
  main = "starting" =>
    \A k \in UnderscoreKeys \cap DOMAIN Candidates : \A v \in Candidates[k] :
      Lookup([Unset EXCEPT !.env = Only(k, v)], k) = Lookup(Unset, k)

(* A request that does not wait is answered even if every run lasts for    *)
(* ever and no wait times out: a status poll or a cancel always finds a    *)
(* worker.  (Or the connection is closed because the server has stopped.)  *)
PollsAndCancelsServed ==
  \A c \in Conn :
    (sess[c] = "dispatched" /\ ~PreferredWait(req[c])) ~> sess[c] \in {"posted", "closed"}

(* stop() returns: the runs were cancelled first, so no waiter can keep a  *)
(* worker from being joined.                                               *)
StopReturns == (main = "draining") ~> (main = "stopped")
=============================================================================
