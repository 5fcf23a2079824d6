# A TLA+ model of orcha

Orcha is a workflow server. Clients send workflows (sequences of commands, some
of them parallel) over HTTP; runs wait in a bounded queue, are executed by a
small pool of threads, can be cancelled, and end with a status in a SQLite
history. Stored workflows (jobs) run on a cron schedule, by hand, or from other
workflows. Commands come from plugins (shared libraries), which an administrator
can upload, install, disable and enable while the server runs. Paths below are
relative to `src/src/orcha/`.

This directory holds the specifications of these parts, the TLC instances that
check them, and the TLAPS proofs of the properties that hold for every size.

## 1. Inventory

| Component | State | Operations | What is hard | What makes it correct |
|---|---|---|---|---|
| Run queue (`jobs/RunQueue.*`) | `queue_`, `active_`, `running_`, `reserved_`, `stopping_`, a tracker per run | `submit`, `runner`, `cancel`, `wait`, `stop` | the mutex is released around every store call, so each operation is several critical sections | bounded admission; each run has one owner; final statuses agree; nothing is stranded |
| Job service (`jobs/JobService.hpp`) | the run's record, the shutdown token | `execute`, `run_job` | the last write can fail after the work is done | the run is never left non-terminal while a retry would help |
| Job and run store (`jobs/SqliteJobStore.*`) | the `runs` and `jobs` tables | insert, update, recovery at start, pruning; create, update, delete of jobs | writes by several threads, by a second process, after a restart | a final status is never overwritten; no live row without a live owner |
| Scheduler (`jobs/JobScheduler.*`, `jobs/CronExpr.hpp`) | `last_fired_` | tick | jobs edited between reading and firing, restarts | one run per due minute |
| Nested runs (`jobs/RunJobCommand.hpp`, `workflow/ExecutionContext.hpp`) | job stack | `run_job` | recursion inside a runner slot | nesting ends |
| Workflow engine (`workflow/WorkflowEngine.cpp`) | `step_results`, `finished`, `completion_order`, stop tokens, deadline | `execute`, `roll_back` | parallel steps waiting for each other, cancellation and deadlines racing results, thread creation failing | dependencies settled before use, rollback complete and in order, no task outlives the call |
| Circuit breaker (`core/CircuitBreaker.hpp`) | `state_`, counters, `probe_in_flight_`, a clock | `allow_request`, `record_success`, `record_failure`, `abandon`, `reset` | shared by steps of all runs; late answers arrive in another state | trips in time, never stuck half-open, closes on evidence |
| Commands (`commands/`) | a process group, a connection, files in the working directory | `shell_exec`, `http_request`, `download_python`, `download_pwsh`, `create_pg_db` | children that ignore signals or outlive their shell, silent peers, leftovers of earlier runs | a stopped step ends and leaves nothing running |
| HTTP server and agent (`agent/HttpServer.*`, `agent/CommandAgent.*`) | connections, tasks of the worker pool | accept, read, handle, write, `start`, `stop` | callbacks on an I/O thread, blocking handlers on workers, shutdown joining both | polls and cancels are served, `stop()` returns |
| Routes, authentication (`agent/routes/`, `agent/AuthMiddleware.hpp`) | waiter slots, the upload flag | one handler per API | two APIs over the same runs, with different credentials | a client changes only what it may; answers are true |
| Configuration (`config/`) | file, environment | lookup, `from_config`, validation | signed numbers cast to unsigned, fail-closed conditions | every component gets what it relies on |
| Plugin manager and registry (`core/PluginManager.*`, `core/CommandRegistry.*`) | loaded plugins, commands, libraries | load, unload, reload, watch | check-then-act around `dlopen`, unloading under a running step | what is loaded is what is listed; code in use stays mapped |
| Dependency resolver (`core/DependencyResolver.hpp`) | none | `resolve` | cycles, missing plugins | dependencies first |
| Plugin installer (`core/PluginInstaller.*`) | staging directories, journal, backups, install directories | `stage`, `discard`, `install` and its rollback, `recover_interrupted` | the process dies, or a file operation fails, between any two steps | the last committed version can always be put back; a crasher is not loaded again |
| Denylist, plugin admin (`core/PluginDenylist.hpp`, `agent/routes/PluginAdminRoute.hpp`) | names in memory and on disk | enable, disable, reload | restarts, a crash while saving | a disabled plugin stays off |

Interactions. A route handler calls `RunQueue::submit`, then possibly `wait`;
another request calls `cancel`. A runner calls `JobService::execute`, which calls
the engine; the engine asks the breaker of each step's command for admission,
holds the command (and so its library) while it runs it, and gives it a stop
token and a deadline. The scheduler submits to the same queue; `run_job` executes
inside its parent's slot and writes rows of its own. A server and a process in
command line mode share the database. The installer, the admin route and the
start-up code share one lifecycle mutex, the disk and the denylist. At shutdown
`main.cpp` stops the scheduler, requests the shutdown token, stops the queue, and
then the agent.

## 2. Modules

| Module | Models | One action is |
|---|---|---|
| `RunStatus` | the statuses and the store statements that change them | (operators only) |
| `RunLifecycle` | abstract: what the queue promises about a run | one visible event of a run |
| `RunQueue` | `RunQueue.*` and `JobService::execute` | one critical section of `mutex_` or of a tracker, or one store call |
| `CronExpr` | parsing and matching of cron fields | (operators only) |
| `Jobs` | store, scheduler, job API, `run_job`, processes that share the database | one store statement, one job fired, one nested call |
| `CircuitBreaker` | `CircuitBreaker.hpp` and the engine's calls of it | one method call (each holds the breaker's mutex throughout) |
| `WorkflowEngine` | `execute` and `roll_back` | one step of the calling thread, or one section of a step's task |
| `Commands` | the built-in commands, `Process.hpp`, `HttpClient.hpp` | one system call or asynchronous operation, or one event of a child or a peer |
| `Settings` | reading, options of each component, validation | (operators only) |
| `Routes` | authentication, routing, status codes | (operators only) |
| `HttpServer` | `HttpServer.*`, `CommandAgent.*`, the blocking handlers; extends `Routes` and `Settings` | one callback of the I/O thread, one section of a handler |
| `DependencyResolver` | `resolve` and the search for a cycle | one turn of a loop |
| `PluginManager` | plugin manager, registry, denylist, admin actions, watcher; extends `DependencyResolver` | one critical section, or one write of a file |
| `PluginInstaller` | installer, recovery, admin route, start-up | one change of the disk or of the loaded plugin |
| `MC*` | small instances for TLC | |
| `*Proofs` | theorems and proofs | |

Variables carry the names of the members they stand for; `PROJECT.json` maps
every definition to its lines. Definitions named `X_Something` directly before
`X` are plausible bugs in `X`, kept to show that the properties notice them; no
specification uses them.

### RunQueue

A thread's program counter holds what it keeps between two critical sections:
`submit()` is *admit* (check capacity, reserve), *insert* (store), *enqueue* (or
*finish*, when the queue stopped meanwhile). A runner is *take*, *mark running*,
*engine*, *persist*, *fallback*, *complete*, *leave*. `cancel()` takes a queued
run out and finishes it, signals a running one, or looks the run up in the
store. The engine is one step that may end with any verdict, except that a
requested stop turns anything but a success into `cancelled`, as
`JobService::execute` does. A store call may fail (`MaxFaults` of them).
`lost` records the runs whose last write failed twice: what is stored then
cannot agree with what waiters were told, and `PublishedIsStored` is stated
for all others. Condition variables: a sleeping runner is `asleep`; it is
woken by the notification that the code sends, and by nothing else (a spurious
wake-up could only hide a lost notification).

### Jobs and CronExpr

Rows of the `runs` table have a status, an owner, a job and the minute they were
fired for. A process is a server (which recovers the history once it owns the
port, then serves) or a command line process; each has a stack of executing
workflows (`exec`), whose frames are the job, its row and the next `run_job` to
call. The top-level frame of the command line is a file without a row. A tick of
the scheduler reads the jobs, then fires the due ones one by one, while an
administrator edits them: checking a name and writing the job are two steps, as
in `JobRoute`. `lastFired` is memory and is lost with the process. `insert_run`
prunes every `PrunePeriod`-th time. Top-level runs of one process are executed
one at a time here; `RunQueue` has their interleaving. An edit may change a job's
expression; a tick fires for the one it read (`read`), which `firedFor` records in the
run. The statement of the recovery may fail, after which the server goes on.
`firedAt`, `firedFor` and `goneBefore` (the processes that were dead when a server last
marked the history) are for the properties. Bounds: `MaxRuns` rows, `MaxProcs`
processes, `MaxEdits` edits; a full table is an `insert_run` that fails. A cron field is
a sequence of parts, each a star, a value or a range, with or without a step, so that
`*` and `*/1` are different fields, as they are for the rule of the two day fields; the
model computes the bit set the code computes, and `ScheduleKept` compares it with what
the fields say, steps included.

### CircuitBreaker

The clock is one bit, "reset_timeout has passed since the last change of
state". A step holds no admission, a request or a probe. Two behaviours of the
engine matter: a step that was cancelled, or timed out, before it asked for
admission still calls `abandon` or `record_failure`, and steps admitted in one
state conclude in another. `failStreak`, `closedStreak` and `probeWins` are
history variables for the properties.

### WorkflowEngine

A workflow says which steps are parallel, what they are called, and which
positions and names their parameters refer to. A result is abstracted to the
step it comes from, so `bound[i]` is the set of results that step `i`'s
placeholders were read from. The command of a step is not found, refuses its
parameters, fails or succeeds, before or after a cancellation, a deadline or the
shutdown. `std::async` may fail to start a task; the exception then leaves
`execute()` after all tasks were joined.

### Commands

A shell step owns a process group: the shell (`leader`) and a process it started
(`child`). Either may ignore SIGTERM (`deaf`), and the child may outlive the shell or be
forked at any time before SIGKILL. `busy` says that the other side (the pipe, or the
peer) still produces something; it may fall silent at any time. `run_shell` is *drain*,
*poll*, and once it has to stop *grace* and *collect*. An HTTP request goes through
resolve, connect, handshake, write and read, each an operation that completes, fails, or
is aborted, and is repeated for a redirect up to `MaxRedirects`. The downloads fetch,
save, clear their folder (or not), extract and look for what they extracted; `dir` is
what the working directory holds for each of them. Clearing the folder may leave
something of it, `tar` may fail after it wrote something, and neither is noticed by the
next step. `shared` and `unclean` are history: downloads that overlapped another of
their kind, and downloads that did not get their folder empty. `create_pg_db` checks and
then creates, with `if_not_exists` or without. Process ids are not reused, and no child
leaves its group with `setsid`.

### Settings, Routes, HttpServer

The settings of a server are the keys of a file and the variables of its environment.
`Options` is what a server is started with; it is computed by `Settings` from the
settings of the instance, so that clamping, defaults and the conditions for uploads are
part of every behaviour. Numbers are what `get_int` returns; where the code casts one to
`unsigned int` (the size of the worker pool), it is taken modulo `UIntValues`, 2^32, for
which the instance takes 8. `Routes` decides what happens with a request: a reply, or
one of the operations that other modules model. In `HttpServer` the I/O thread owns the
connections; a worker takes a task, and what `handle_request` decides (`todo`) is fixed
at that moment, since it depends on the request and the options only. A submission that
wants to wait counts itself, leaves if there are too many waiters, and else waits until
the run ends or, at any moment, the wait times out (so `max_wait` itself does not
appear). The run queue is its promise: a run is admitted if there is capacity, starts,
ends; `CancelOutcomes` are those of `RunQueue`, `NotCancellable` for a live run
included. An upload is staged under the `staging_` flag. Shutdown tells the runs to
stop, stops the queue, and then stops the server in the order of `HttpServer::stop`.

### DependencyResolver and PluginManager

`resolve` builds the graph, takes a plugin without open dependencies in each turn, and
searches depth first for a cycle when some are left; missing dependencies are ignored
because the server never asks for strict mode. Duplicate names do not reach it:
`PluginSources::scan` has removed them. `PluginManager` loads the order at start, under
the denylist; then administrators reload, disable and enable. Each of these is the
sequence of its critical sections, in which the lifecycle mutex is held. A library
provides one command, and two libraries may provide a command of the same name. A
user is a step of a run that holds a command: its library stays open until the last
holder lets go. Listing the new command and charging it to the plugin are two critical
sections, as in the code. The denylist exists in memory and in a file; saving truncates,
then writes, and a file that cannot be opened, a crash in between, or a write that fails
half-way sets `torn`: nobody is told. `off` is the administrators' last word.

### PluginInstaller

One plugin, several uploaded versions, each with two files (library and
manifest; the provenance file is moved like the manifest). Everything runs under
the lifecycle mutex, so there is a single program counter, and `Crash` is
enabled in every state, recovery included. `current` is the version whose
install was committed last (its journal was removed), `off` the
administrator's last word. The journal may be cut off, by a crash or a failed write, and
recovery then cannot read it. The denylist is `names` in memory and `denied` in the
file; between the truncation and the write of a save (`cut`) the process may die, and a
save may fail without anyone noticing. `unsaved` marks the histories in which an entry
was added and is not in the file. `tainted` marks histories in which a removal failed
where the code only logs or ignores it, or an install began over a leftover
`previous/` directory; the invariants on the disk are stated for all others,
and section 6 says what happens in the latter case. A crash is the death of the
process: what was written stays written (power loss, and the effect of
`fsync`, are not modelled). A second process is kept out by the file lock.


## 3. Runs

| Run | Specification | Bounds | Shows |
|---|---|---|---|
| `run_queue` | `Spec` | 3 runs, 2 runners, 1 cancel, 2 failed writes, no waiting slot | capacity, single ownership, agreement of memory and store, a clean shutdown; refinement of `RunLifecycle` |
| `run_queue_live` | `FairSpec` | 2 runs, 2 runners, 1 cancel, 1 waiter, no waiting slot | accepted runs end, `stop()` returns, waiters wake with the final record, also of a run cancelled while it is queued |
| `circuit_breaker` | `FairSpec` | 3 steps, both thresholds 2, at most 5 failures | the probe slot, tripping, closing, recovery |
| `workflow_engine` | `FairSpec` | 3 steps; 5 reference patterns x 8 choices of parallel steps x 3 strategies | ordering, rollback, joining of tasks, termination |
| `workflow_engine_names` | violated | 3 parallel steps | finding 1 |
| `plugin_installer` | `Spec` | 3 uploads, 2 staged at a time, 2 failed file operations, 2 crashes | recoverability, exactly the committed version installed and loaded, a crasher is not loaded again unless a save of the denylist was lost |
| `plugin_installer_put_back` | violated | 2 uploads, 1 crash, no failures | finding 2 |
| `plugin_manager` | `Spec` | 3 plugins (two with a command of the same name), every dependency relation, 2 administrators, 1 user, 1 crash, 1 library or denylist file that fails | dependency order, commands have their owner, libraries in use stay mapped, a disabled plugin stays off |
| `jobs` | `Spec` | 3 jobs that run each other, 2 levels of nesting, 2 processes, 3 rows, 2 minutes, 3 expressions, 1 edit, 1 finished run kept | recovery, retention, scheduling, nesting |
| `jobs_recovery` | violated | the same | finding 3 |
| `http_server` | `FairSpec` | 3 connections with 9 kinds of request, 3 configurations (one of which ends up with a single worker), 1 run of a job | waiter slots and upload flag, who may do what, true answers, service while clients wait, shutdown; settings around every bound |
| `commands` | `FairSpec` | 2 steps, every kind of command and every pair that shares something, 2 versions, 1 redirect | nothing survives a stop, a stop ends a step, the right download |

What the newer properties say, beyond their names:

- `ResolveCorrect` compares the resolver with a reference definition: an order exists
  exactly if the relation has no cycle, and then every plugin comes once and after
  its dependencies.
- `CommandsAttributed`: while nobody is inside an operation, a plugin is loaded exactly
  if its command is registered from its library, and it is credited with that command
  and no other.
- `MappedWhileUsed`: a library is open exactly as long as its command is registered
  or a step holds it. It relates unloading to steps of runs that began before it.
- `ClosesOnEnoughSuccesses` counts the successes recorded in the half-open period,
  whichever step they come from: that they need not be those of a probe is finding 7.
- `CrasherNotReloaded` holds unless a save of the denylist was lost (`unsaved`). Then the
  crasher is loaded again if recovery cannot remove its directory.
- `LiveRunsHaveOwner`, `FinishedIsFinal`: after a recovery whose statement was executed,
  no live row belongs to a process that was dead by then; a finished row never changes,
  even when the process that executes it comes back late, and is deleted only when
  enough newer ones are kept.
- `ScheduleKept`: for one process, one firing per job and minute, and only in minutes
  that the expression its tick read names, by whole steps from where a range starts
  (either day field, if neither is the text `*`).
- `NestingSound` speaks of the nested jobs: they differ, and the depth is bounded. That the
  job of the top-level run can be one of them is finding 13.
- `OnlyAllowedEffects` states from the configuration, not from the middlewares, who may
  cause a run, the cancellation of a job's run, or an upload.
- `AnswersTrue` relates each status code to the run when the client is told.
- `PollsAndCancelsServed` holds although no wait ever needs to time out and no run
  needs to end: that is what the waiter limit is for. With one worker no submission
  waits.
- `SettingsSound`: with any two settings at or beyond their bounds, in the file or the
  environment, pools, thresholds, limits and periods are usable; what the validator
  accepts is used unchanged, worker counts as far as an unsigned int holds them (finding
  10 is about the others); uploads are on only with authentication, a correct key list
  and separate directories.
- `DownloadIsTheOneAskedFor`: when a download succeeds that overlapped no other of its
  kind, the version asked for is in its folder, and nothing else for a Python whose folder
  could be emptied, whatever earlier downloads left. Overlapping ones are finding 14.
- `NoProcessOutlivesStop`, `StopEndsStep`: even if every process of the group ignores
  SIGTERM and forks during the grace period.

Why the bounds suffice for the interesting cases:

- *run queue*: with two runners and `MaxQueued = 0` the third submit meets a full
  queue, waits behind two others, or is overtaken by the shutdown; two failed
  writes are what it takes to lose a final status. Runs and runners are
  interchangeable (symmetry), except in the liveness run, which uses none. There, two
  runs let one be queued behind the other, which the client waits for and cancels;
  it has no failing writes (no step of a thread waits for a store call to succeed).
  343 thousand states.
- *breaker*: three steps let one be admitted before the circuit opened, one probe
  and one other conclude in any order; the failure count can pass its
  threshold.
- *engine*: three steps are enough for a chain, a join, a name used twice with a
  user after each, and references to later or own positions.
- *installer*: a third version and a second crash are needed for a crash in the
  recovery of a crash, and for a leftover of one install to meet another. With
  every upload used or discarded nothing more can be installed; the server may
  then idle for ever.
- *plugin manager*: three plugins give every shape of a cycle (including one that only
  hangs on to it), two administrators every overlap the lifecycle mutex prevents,
  one crash a restart on the saved file. 1.24 million states.
- *jobs*: two processes are a server and its successor, or a server and a command line
  process at once; three rows let a nested run, its parent and a scheduled run exist
  together and make pruning and the full table happen. The three jobs form a chain that
  reaches `MaxDepth` (j1 runs j2, j2 runs j3) and a cycle (j3 runs itself). Of the
  expressions, one has a step that leaves out the first minute, one names every day of the
  month without being `*`, and one does not parse; an edit puts the second in place of the
  first. 1.09 million states. This run
  disables the deadlock check, because it may use up its rows, processes and minutes;
  the program has no such limits.
- *HTTP server*: two workers and three connections: one waiter, one that is refused a
  slot or an upload, and one poll, cancel or unauthorized request. 177 thousand states.
- *commands*: two steps share only the working directory, the database server and the
  stop. 839 thousand states.

Every other run checks for deadlock: a model that could stop where the program does
not would be reported.

## 4. Fairness

- `RunQueue`: weak fairness for each thread that is inside a call, and for each
  runner. The code's locks are held briefly and never across a store call or an
  execution; a command ends, because the engine gives it a stop token and a
  deadline. Nothing is assumed about clients: they need not submit, cancel or
  wait, and `wait()`'s timeout is not fair, so a waiter that wakes was woken.
- `CircuitBreaker`: time passes, admitted steps end, the command goes on being
  used. `Recovers` is stated from the moment (`calm`) after which no step fails,
  times out or is cancelled; that moment need not come.
- `WorkflowEngine`: the calling thread and every started task go on. Cancellation,
  the deadline and the shutdown are free to happen or not.
- `HttpServer`: the I/O thread, each worker that has something to do, the main thread
  once it is stopping, and the end of runs that were told to stop (`RunQueue` and
  `Commands` are about that). Clients need not send anything, runs that were not
  cancelled need not end, and a wait need not time out.
- `Commands`: a thread that can go on does; the grace period and a pending operation's
  timer pass; `tar` ends. Not fair: that processes exit, that a pipe falls silent (the
  premise of `StopEndsStep`), and everything about PostgreSQL, whose calls ignore
  cancellation.
- `PluginInstaller`, `PluginManager`, `Jobs`: safety only.

## 5. Proofs

Every invariant and every action property that a passing run checks is also a theorem,
for arbitrary constants; so is the refinement of `RunLifecycle`. Liveness is
not (see the end of this section).

The assumptions, each next to the constant it is about and evaluated by TLC in every
run: bounds are natural numbers; the runner set is finite and not empty; thresholds are
positive; values like "no run" or "no plugin" are not runs or plugins; workflows are
well-formed definitions; the plugins found are finitely many and declare dependencies
that are sets of plugins; the clock starts at the first of its minutes; a request names
a run and a path; a setting that is asked for as a number is one (`get_int` finds
nothing else); an unsigned int has at least one value; `if_not_exists` is a parameter of
steps.

Each invariant is a conjunction of named parts and was model-checked on the
module's run before it was proved. The proof that a step preserves a part goes
through the actions that can disturb it; a lemma says that the others leave it
alone.

**`RunQueueProofs`** - `TypeCorrect`, `Backpressure`, `RunsHaveOneOwner`,
`HistoryAgrees`, `WaitersGetTheVerdict`, `StopDrains`, `Refinement`.
Four layers. `IInv`: capacity is not inductive, since nothing in it keeps
`running_` and `reserved_` from going below zero; each is therefore tied to the
set of threads that will lower it. `Ownership`: a run is with `submit()`,
queued, with one runner, with one `cancel()`, in `stop()`'s list, or done, and
in one of these places only. `Records`: what the store and the tracker hold for
a run at each place; only the owner changes it, and a store call that failed
leaves the record where the owner's next step expects it. `Answers`: what a
waiter was told is the verdict. The refinement follows step by step: with
`Records`, each critical section is one event of `RunLifecycle` or none.

**`CircuitBreakerProofs`** - `TypeCorrect`, `ProbeSlotNeverLost`, `TripsInTime`,
`ClosesOnlyOnSuccesses`. The strengthening (`CountersMeanHistory`) ties the counters to the
history: the closed circuit's failure count is at least the streak of failures
since it closed, and the half-open count is at most the successes of this
period.

**`WorkflowEngineProofs`** - `TypeCorrect`, `NeverReadsBlank`, `SequentialStops`,
`CompletionOrderCorrect`, `TasksJoined`, `DependentsFirst`, `ReverseHalts`,
`RollbackComplete`, and `RollbackCorrect`, which combines the last three. Two layers:
the first says that steps begin in the order of the definition, that a result is stored
exactly when a step is over, and that an admitted step's dependencies are stored, hence
that `completion_order` lists successful steps once, dependencies first. The second,
over that, describes a rollback in progress: the part of `completion_order` beyond
`left` has outcomes, the rest none.

**`CommandsProofs`** - `NothingSurvivesStop`, `RightDownload`. `NoProcessOutlivesStop`
speaks of steps that have returned; the invariant says what leads there: which wait
statuses go with which place of the thread (`StatusFits`), and that a group with a
running leader has not been waited for, one never spawned is empty, and one that was
stopped is empty from the SIGKILL on (`GroupFits`): with no member left, none can fork.
`DownloadInv` says what archive and folder hold at each place of a download that no
other of its kind overlaps: steps of other kinds write other entries of the directory,
and one of the same kind that begins meanwhile is on record in `shared`, so one that is
not has had archive and folder to itself since it began. Whether the folder was emptied
is a case of its own (`unclean`).

**`PluginManagerProofs`** - `CommandsAreAttributed`, `LibrariesStayMapped`,
`DisabledPluginsStayOff`, `PluginsAreOrdered`. The first three are about plugins
nobody works on, so `ManagerInv` says what happens meanwhile: one operation at a time
(main's while it starts, then the lifecycle mutex holder's), tables that agree but for
the plugin which that thread is about to erase or to track, and a list of commands
that is still what the registry held when the thread took it, for no other thread can
have registered one since. While no denylist file was torn, a name that is off is in
memory, and on disk except between the two halves of a save; an operation past its
check of the denylist is not about such a plugin. `PluginsAreOrdered` is the resolver's
correctness (`ResolverInv`): a plugin's count is the number of its dependencies that are
not ordered yet, and it is ordered or ready exactly if there is none. If all are
ordered, a set of plugins that need each other would contain one ordered first, and its
dependency before it; if some are left over, they are such a set. In the search, open
plugins are on the path, the path is a chain, and so a first element with a dependency
at or before itself exists.

**`PluginInstallerProofs`** - `CommittedVersionSurvives`, `InstalledIsCommitted`,
`CrasherStaysOff`, `TypeCorrect`. A crash is possible in every state, so the invariant
describes the disk at each step. In every history: the journal is that of the running
task, directories exist as long as they are needed, the denylist's file follows the one in
memory except inside a save, and, unless a save was lost, a version that killed the
server is gone or cannot be loaded: its name is in the file from before it was loaded
until its directory is gone. In untainted histories: without a journal the disk
is `Settled`, and with one it is `Replacing` the committed version, each file of which is
at home or set aside where the journal leads recovery to it.

**`JobsProofs`** - `RecoveryIsComplete`, `ScheduleIsKept`, `NestingIsSound`,
`FinishedRunsAreFinal`. Ids are given out in order, so an insert replaces no row; only
a live process executes or fires; what a scheduler fired is at or before its
`last_fired_`, which grows as long as it lives; the runs of a process's frames differ,
and each row is its own or was deleted. Pruning is described once (`PruneKeeps`): of
the rows it deletes, the newest already has `MaxKeep` newer finished ones, all of which
stay. That the bit sets match what the fields say (`ScheduleKept`) rests on facts
about `CronExpr`'s operators (a part's bits are the values at whole steps from its start,
and Sunday is 0 and 7), and on a run's `firedFor` being what its scheduler read when the
expression matched.

**`HttpServerProofs`** - `LimitsAreHeld`, `EffectsAreAllowed`, `ClientsAreToldTheTruth`,
`SettingsAreSound`, `AnySettingsAreSound`. `ServerInv` follows a request: a task is
queued once and for a connection no worker has (`TasksOK`); what a worker does was
decided for the request it holds (`RequestsOK`); the waiters' count and the upload flag
belong to exactly the handlers between taking and releasing them (`SlotsOK`); a run's
submitter was authorized and is on record (`RunsOK`); an answer stays true of its run
(`AnswersOK`). The key to `OnlyAllowedEffects` is `DecidedIsAuthorized`, a fact about the
operators of `Routes` for every request and every setting. `SettingsSound` is about the
settings a server may be started with; `AnySettingsAreSound` states its core for
any settings, without candidates: a clamp changes nothing the validator let pass, a cast
nothing that fits, and the defaults are in range.

Only model-checked:

- liveness and termination (`AcceptedRunsEnd`, the two `StopReturns`, `WaitersWake`,
  `Recovers`, `Terminates`, `PollsAndCancelsServed`, `StopEndsStep`): fairness and ENABLED
  are out of the provers' reach;
- that the resolver and its search come to an end, for the same reason;
- the violations of section 6, which are counterexamples.

## 6. Findings

The first three are runs that TLC refutes, with the text they contradict in
`PROJECT.json`.

1. `workflow_engine_names`: a name used by two parallel steps is bound to the earlier
   one when the engine decides what to wait for, and to the later one when the value
   is read, if that one finished first.
2. `plugin_installer_put_back`: if the process dies between removing the old version's
   directory and removing the journal, recovery deletes the new version and cannot
   rename the old one back: neither is installed, and later installs are refused.
3. `jobs_recovery`: a server that starts while a command line process executes a nested
   run marks that run as interrupted, and its outcome is then refused by `update_run`.

### More refuted statements

Each of these statements of the repository is a definition of the module named, which
TLC refutes with the configuration named
(`tlc -config MCRunQueueCancel.cfg MCRunQueue`, and so on).

4. `RunQueue!TopLevelRunsAreCancellable` (`MCRunQueueCancel.cfg`). `jobs/RunQueue.hpp:55` says of
   `NotCancellable` "Live but not a top-level run (a nested run_job)". `cancel()` answers it
   for a top-level run while that is being submitted, and while another `cancel()` or
   `stop()` has taken it out of the queue but not yet stored its status
   (`jobs/RunQueue.cpp:189`).
5. `CircuitBreaker!AtMostOneProbe` (`MCCircuitBreakerProbes.cfg`). `core/CircuitBreaker.hpp:86`:
   "exactly one probe request at a time is admitted". Any recorded or abandoned step
   frees the slot (`:147`), also one admitted earlier or never admitted.
6. `CircuitBreaker!OpensOnlyAfterConsecutiveFailures` (`MCCircuitBreakerTrips.cfg`).
   `core/CircuitBreaker.hpp:36`: "Consecutive failures before opening". After a recovery
   `failure_count_` is still at its threshold (`transition_to`, `:311`, does not clear it),
   so one failure opens the circuit again.
7. `CircuitBreaker!ClosesOnProbe` (`MCCircuitBreakerCloses.cfg`). The repository's README,
   lines 198-199: "a single probe is allowed, and `success_threshold` successful probes close
   it again". `core/CircuitBreaker.hpp:159` counts every success recorded in half-open: those
   of steps admitted before the circuit opened close it, although the probe has not
   answered, or there was none.
8. `PluginInstaller!DisabledStaysUnloaded` (`MCPluginInstallerDisabled.cfg`).
   `core/PluginDenylist.hpp:4`: a disabled plugin "stays unloaded across restarts". If the
   process dies between clearing the denylist (`core/PluginInstaller.cpp:719`) and removing
   the journal (`:731`), the install of a disabled plugin is undone, its Disable is not
   (`:806` only ever removes the entry), and it is loaded.
9. `PluginInstaller!FailedRecoveryStaysDisabled` (`MCPluginInstallerFailed.cfg`).
   `core/PluginInstaller.cpp:772`, of a recovery that failed: "The plugin itself is on the
   denylist, so it is not loaded"; the log message says so too. The entry is removed before
   steps that can still fail (`:806-815`), and added after the journal is written: the
   journal can be left, or not parse, with no entry, and the plugin is loaded.
10. `HttpServer!WorkerStaysFree` (`MCHttpServerPool.cfg`). `agent/CommandAgent.cpp:82`: "Leave at
    least one HTTP worker free". The limit of waiting submissions comes from the `size_t`
    (`:84`), the pool from its cast to `unsigned int` (`:159`): with 2^32 threads, of which
    the validator only warns, there is one worker, and a waiting submission takes it.
11. `HttpServer!TicksEveryMinute` (`MCHttpServerTick.cfg`). `docs/dashboard-phase3.md:28`: the
    period "must be < 60 so no minute is missed". The validator does not look at it, and
    `jobs/JobScheduler.cpp:25` replaces only those below 1.
12. `HttpServer!UnderscoreKeysAreInTheFile` (`MCHttpServerKeys.cfg`).
    `docs/dashboard-phase3.md:80-82`: a key with underscores "cannot be set through `ORCHA_*` env
    vars". `navigate_to_key` (`config/YamlConfiguration.cpp:72-80`) also tries the form in which
    variables are stored, so it can.
13. `Jobs!NoJobInsideItself` (`MCJobsNesting.cfg`). `docs/dashboard-phase2.md:109`: the call stack
    "rejects self-reference and cycles". The job of a top-level run is not on the stack that
    the guard searches (`jobs/RunJobCommand.hpp:79`), so it is executed once more inside
    itself.
14. `Commands!VersionsDoNotMix` (`MCCommandsMix.cfg`). `PythonDownloader.cpp:118`: "Fresh extraction
    directory each run so we don't mix versions." Two downloads at once share the folder,
    and an old folder that cannot be removed (the error is ignored, `:120`) is extracted
    over: versions mix, and one may be reported as the other.
15. `Commands!ExistingIsNoError` (`MCCommandsExists.cfg`). `PostgresCreator/manifest.json:56`: "If
    true, do not error if database exists". Check and creation are two transactions
    (`PostgresCreator.cpp:106-138`): if another step creates the database in between, the
    command fails.
16. `DependencyResolver!ReportIsCycle` (`MCPluginManagerCycle.cfg`). `core/DependencyResolver.hpp:213`:
    "Find a cycle in the dependency graph". The report goes on to the end of the search's
    path (`:265`), whose last plugin need not depend on the first one reported.

Seen while modelling, and not stated as a property:

- `commands/HttpClient.hpp:12` and `commands/Process.hpp:5` promise that a stop request
  or a deadline ends the operation. `drain` reads until the pipe is empty and `run_op`
  looks at the limits only while an operation is pending, so an endless stream delays
  them; `StopEndsStep` has the premise `~busy` for that reason.
- `config/ConfigValidator.hpp:2` is called "Configuration validation at startup", but
  only the tests call it: the second configuration of `MCHttpServer` is one it rejects,
  and the server starts with clamped values.
- After a crash between the commit point and the removal of the upload's directory,
  `previous/` keeps files of an older version; installing that upload again, with a
  crash before the new backup is made, renames them over the current version (two
  crashes and three installs; `tainted` excludes it from the invariants).
- When a task cannot be started, `execute()` throws without rolling back the steps that
  completed.
- A crash or a failing write inside `FilePluginDenylist::save` loses entries, of every
  plugin that is disabled, and nobody is told (`torn`, `unsaved`).
- `mark_interrupted_runs` returns 0 when its statement fails, as when there was nothing to
  mark: runs of a dead process stay queued or running until the next start.

## 7. Not modelled

- Plugin packages (hashes, Ed25519, library formats) and the YAML to JSON conversion:
  functions of bytes without state; where they matter, a model lets the input be
  refused. Logging, the service locator and `Result`: no protocol.
- The dashboard and the Swagger page are embedded text (more than a fifth of the
  source); `Routes` has their place in the routing.
- Bodies of replies, statistics, listings, `Retry-After`: only reported.
- Schema migration and the encoding of rows; a database that cannot be opened (the
  in-memory fallback).
- The Windows variant of `run_shell`, TLS, libpq, the contents of archives.
- The watcher of plugin files starts and stops in `PluginManager`; what it sees it only
  logs.
- `std::filesystem::remove_all` of a staging directory is taken to succeed where the code
  ignores its result, unless the property is about it (`tainted`). That of the Python
  folder may fail.
- Durations beyond the range of the clock, and a cron step so large that `v += step`
  overflows an `int` (`CronExpr.hpp:111`).

## 8. Plan

Done: the modules of section 2, and a theorem for every safety property a run checks.

1. A composition of `RunQueue` with the waiting submissions of `HttpServer`, in place of
   the queue's promise, and the refinement of that promise.
2. `PluginPackage`, as far as its checks decide which installs are refused.
