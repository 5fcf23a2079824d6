--------------------------- MODULE CommandsProofs ---------------------------
(***************************************************************************)
(* Proofs about Commands, for any number of steps, whatever their children *)
(* and peers do.                                                           *)
(*                                                                         *)
(* NoProcessOutlivesStop speaks of steps that are done.  Its strengthening *)
(* IInv says what holds on the way there: which places of a thread go with *)
(* which wait status, that a leader that runs has not been waited for, and *)
(* that nothing is alive where nothing was spawned, or after SIGKILL.      *)
(*                                                                         *)
(* DownloadIsTheOneAskedFor speaks of the step that returns.  DownloadInv  *)
(* says what the archive and the directory hold at each place before, for  *)
(* a download that shares them with none under way: two that are under way *)
(* at once both overlapped, and a step that is not writes no files.        *)
(***************************************************************************)
EXTENDS Commands, TLAPS

ShellPcs == {"drain", "poll", "grace", "collect"}
Stopped  == {"cancelled", "timed_out"}

Pcs == {"start", "drain", "poll", "grace", "collect", "resolve", "connect", "handshake",
        "write", "read", "save", "fresh", "extract", "find", "create", "done"}
Statuses == {"none", "running", "zero", "nonzero", "signalled", "reaped"}

Functions ==
  /\ pc \in [Step -> Pcs] /\ verdict \in [Step -> Verdicts] /\ status \in [Step -> Statuses]
  /\ alive \in [Step -> SUBSET Member] /\ deaf \in [Step -> SUBSET Member]

StatusFits(s) ==
  /\ pc[s] \notin ShellPcs \cup {"done"} => status[s] = "none"
  /\ pc[s] \in {"drain", "poll", "grace"} => status[s] \notin {"none", "reaped"}
  /\ pc[s] = "collect" => status[s] = "reaped"
  /\ pc[s] = "done" => status[s] \in {"none", "reaped"}

GroupFits(s) ==
  /\ status[s] = "none" => alive[s] = {}
  /\ "leader" \in alive[s] => status[s] = "running"
  /\ pc[s] \in {"collect", "done"} /\ verdict[s] \in Stopped => alive[s] = {}

IInv == Functions /\ \A s \in Step : StatusFits(s) /\ GroupFits(s)
-----------------------------------------------------------------------------
(* Nothing runs before the first step.                                     *)
LEMMA InitIInv == Init => IInv
BY DEF Init, IInv, Functions, StatusFits, GroupFits, ShellPcs, Stopped, Member, Pcs, Statuses, Verdicts

(* A step of one thread, or of its children, leaves the other steps alone: *)
(* the invariant follows from what it does to its own.                     *)
LEMMA OneStep ==
  ASSUME IInv, NEW s \in Step, Functions',
         StatusFits(s)', GroupFits(s)',
         \A t \in Step \ {s} : /\ pc'[t] = pc[t] /\ verdict'[t] = verdict[t]
                               /\ status'[t] = status[t] /\ alive'[t] = alive[t]
  PROVE  IInv'
BY DEF IInv, StatusFits, GroupFits

(* A thread that moves between places without a process of its own, or     *)
(* returns from one, leaves every group as it is.                          *)
LEMMA MoveOutside ==
  ASSUME IInv, NEW s \in Step, NEW l \in Pcs, UNCHANGED shell,
         pc[s] \notin ShellPcs \cup {"done"}, l \notin ShellPcs, Goto(s, l)
  PROVE  IInv'
<1>1. Functions' /\ StatusFits(s)' /\ GroupFits(s)'
  BY DEF IInv, Functions, StatusFits, GroupFits, Goto, ShellPcs, shell
<1> QED
  BY <1>1, OneStep DEF Goto, shell, IInv, Functions

LEMMA ReturnOutside ==
  ASSUME IInv, NEW s \in Step, NEW v \in Verdicts, UNCHANGED shell,
         pc[s] \notin ShellPcs \cup {"done"}, Return(s, v)
  PROVE  IInv'
<1>1. Functions' /\ StatusFits(s)' /\ GroupFits(s)'
  BY DEF IInv, Functions, StatusFits, GroupFits, Return, ShellPcs, Pcs, shell
<1> QED
  BY <1>1, OneStep DEF Return, shell, IInv, Functions

(* run_shell() keeps the invariant: spawning, polling, reaping, the grace  *)
(* period and its end.                                                     *)
LEMMA ShellKeeps ==
  ASSUME IInv, NEW s \in Step, ShellThread(s) \/ Reads(s)
  PROVE  IInv'
<1> USE DEF ShellPcs, Pcs, Statuses, Verdicts
<1>1. CASE Spawn(s)
  <2>1. Functions' /\ StatusFits(s)' /\ GroupFits(s)'
    BY <1>1 DEF Spawn, Goto, IInv, Functions, StatusFits, GroupFits, Member
  <2> QED
    BY <1>1, <2>1, OneStep DEF Spawn, Goto, IInv, Functions
<1>2. CASE SpawnFails(s)
  BY <1>2, ReturnOutside DEF SpawnFails
<1>3. CASE Reap(s)
  <2>1. Functions' /\ StatusFits(s)' /\ GroupFits(s)'
    BY <1>3 DEF Reap, ExitVerdict, Waitable, IInv, Functions, StatusFits, GroupFits, Stopped
  <2> QED
    BY <1>3, <2>1, OneStep DEF Reap, IInv, Functions
<1>4. CASE PollAgain(s) \/ Drain(s)
  <2>1. Functions' /\ StatusFits(s)' /\ GroupFits(s)'
    BY <1>4 DEF PollAgain, Drain, Goto, shell, IInv, Functions, StatusFits, GroupFits
  <2> QED
    BY <1>4, <2>1, OneStep DEF PollAgain, Drain, Goto, shell, IInv, Functions
<1>5. CASE Terminate(s)
  <2>1. status[s] \in Statuses /\ StopVerdict(s) \in Verdicts
    BY DEF IInv, Functions, StopVerdict, Verdicts
  <2>2. Functions' /\ StatusFits(s)'
    BY <1>5, <2>1 DEF Terminate, IInv, Functions, StatusFits, Member
  <2>3. GroupFits(s)'
    BY <1>5, <2>1 DEF Terminate, IInv, Functions, StatusFits, GroupFits, Member
  <2> QED
    BY <1>5, <2>2, <2>3, OneStep DEF Terminate, IInv, Functions
<1>6. CASE EndGrace(s)
  <2>1. Functions' /\ StatusFits(s)' /\ GroupFits(s)'
    BY <1>6 DEF EndGrace, Goto, IInv, Functions, StatusFits, GroupFits
  <2> QED
    BY <1>6, <2>1, OneStep DEF EndGrace, Goto, IInv, Functions
<1>7. CASE Collect(s)
  <2>1. Functions' /\ StatusFits(s)' /\ GroupFits(s)'
    BY <1>7 DEF Collect, Goto, shell, IInv, Functions, StatusFits, GroupFits
  <2> QED
    BY <1>7, <2>1, OneStep DEF Collect, Goto, shell, IInv, Functions
<1> QED
  BY <1>1, <1>2, <1>3, <1>4, <1>5, <1>6, <1>7 DEF ShellThread, Reads

(* The processes of a group fork and exit as they like.                    *)
LEMMA ProcessesKeep ==
  ASSUME IInv, NEW s \in Step, Fork(s) \/ \E p \in Member : Exit(s, p)
  PROVE  IInv'
<1> USE DEF Statuses
<1>1. CASE Fork(s)
  <2>1. Functions' /\ StatusFits(s)' /\ GroupFits(s)'
    BY <1>1 DEF Fork, IInv, Functions, StatusFits, GroupFits, Member
  <2> QED
    BY <1>1, <2>1, OneStep DEF Fork, IInv, Functions
<1>2. ASSUME NEW p \in Member, Exit(s, p) PROVE IInv'
  <2>1. Functions' /\ StatusFits(s)' /\ GroupFits(s)'
    BY <1>2 DEF Exit, IInv, Functions, StatusFits, GroupFits, Member
  <2> QED
    BY <1>2, <2>1, OneStep DEF Exit, IInv, Functions
<1> QED
  BY <1>1, <1>2

(* Requests, downloads and the database step have no process.              *)
LEMMA OthersKeep ==
  ASSUME IInv, NEW s \in Step,
         HttpThread(s) \/ DownloadThread(s) \/ PgThread(s) \/ BadParameters(s)
  PROVE  IInv'
<1> USE DEF Pcs, Verdicts
<1>1. CASE BadParameters(s) \/ OpFails(s) \/ DownloadFails(s) \/ PgFails(s)
  BY <1>1, ReturnOutside DEF BadParameters, OpFails, DownloadFails, PgFails, Stages, ShellPcs
<1>2. CASE Fetch(s) \/ Redirect(s) \/ Save(s) \/ Fresh(s)
  BY <1>2, MoveOutside DEF Fetch, Redirect, Save, Fresh, ShellPcs
<1>9. CASE Extract(s)
  BY <1>9, MoveOutside, ReturnOutside DEF Extract, ShellPcs
<1>3. CASE OpCompletes(s)
  <2>1. PICK l \in After(pc[s]) : Goto(s, l)
    BY <1>3 DEF OpCompletes
  <2>2. l \in {"connect", "handshake", "write", "read"}
    BY <1>3, <2>1 DEF OpCompletes, After, Stages
  <2> QED
    BY <1>3, <2>1, <2>2, MoveOutside DEF OpCompletes, Stages, ShellPcs
<1>4. CASE OpAborts(s)
  <2>1. (IF ShouldStop(s) THEN StopVerdict(s) ELSE "failed") \in Verdicts
    BY DEF StopVerdict, Verdicts
  <2> QED
    BY <1>4, <2>1, ReturnOutside DEF OpAborts, Stages, ShellPcs
<1>5. CASE Respond(s)
  BY <1>5, ReturnOutside, MoveOutside DEF Respond, ShellPcs
<1>6. CASE Find(s)
  BY <1>6, ReturnOutside DEF Find, ShellPcs
<1>7. CASE PgCheck(s)
  BY <1>7, ReturnOutside, MoveOutside DEF PgCheck, ShellPcs
<1>8. CASE PgCreate(s)
  BY <1>8, ReturnOutside DEF PgCreate, ShellPcs
<1> QED
  BY <1>1, <1>2, <1>3, <1>4, <1>5, <1>6, <1>7, <1>8, <1>9 DEF HttpThread, DownloadThread, PgThread

(* Every step of the commands, their children and peers keeps IInv.        *)
LEMMA NextIInv == IInv /\ [Next]_vars => IInv'
<1> SUFFICES ASSUME IInv, [Next]_vars PROVE IInv'
  OBVIOUS
<1>1. ASSUME UNCHANGED <<pc, verdict, alive, deaf, status>> PROVE IInv'
  BY <1>1 DEF IInv, Functions, StatusFits, GroupFits
<1>2. CASE UNCHANGED vars \/ Ended \/ RequestStop \/ \E s \in Step : DeadlinePasses(s) \/ FallsSilent(s)
  BY <1>1, <1>2 DEF vars, Ended, RequestStop, DeadlinePasses, FallsSilent
<1>3. ASSUME NEW s \in Step,
             \/ BadParameters(s) \/ Fork(s) \/ (\E p \in Member : Exit(s, p))
             \/ ShellThread(s) \/ Reads(s) \/ HttpThread(s) \/ DownloadThread(s) \/ PgThread(s)
      PROVE  IInv'
  BY <1>3, ShellKeeps, ProcessesKeep, OthersKeep
<1> QED
  BY <1>2, <1>3 DEF Next

(* run_shell(): a shell step that was cancelled or timed out leaves no     *)
(* process of its group, and no step that returned leaves a leader that    *)
(* was not waited for.                                                     *)
THEOREM NothingSurvivesStop == Spec => []NoProcessOutlivesStop
<1>1. IInv => NoProcessOutlivesStop
  BY DEF IInv, StatusFits, GroupFits, NoProcessOutlivesStop, Stopped
<1> QED
  BY <1>1, InitIInv, NextIInv, PTL DEF Spec

-----------------------------------------------------------------------------
(* Downloads                                                               *)

Saving == {"save", "fresh", "extract", "find"}

FilesOK ==
  /\ kind \in [Step -> Kind] /\ pc \in [Step -> Pcs] /\ verdict \in [Step -> Verdicts]
  /\ archive \in [Downloads -> SUBSET Version] /\ dir \in [Downloads -> SUBSET Version]

(* A thread is where its command can be.                                   *)
PlaceFits(s) ==
  /\ pc[s] \in ShellPcs => kind[s] = "shell"
  /\ pc[s] = "create" => kind[s] = "pg"
  /\ pc[s] \in Stages => kind[s] \in Fetches
  /\ pc[s] \in Saving => kind[s] \in Downloads
  /\ verdict[s] = "ok" /\ kind[s] \in Downloads => pc[s] = "done"

(* What the directory holds when a step that shared it with none looks.    *)
Extracted(s) == IF kind[s] = "python" /\ s \notin unclean THEN dir["python"] = {Want[s]}
                                                          ELSE Want[s] \in dir[kind[s]]

FilesFit(s) ==
  kind[s] \in Downloads /\ s \notin shared =>
    /\ pc[s] \in {"fresh", "extract"} => archive[kind[s]] = {Want[s]}
    /\ pc[s] = "extract" /\ kind[s] = "python" /\ s \notin unclean => dir["python"] = {}
    /\ pc[s] = "find" => Extracted(s)

(* Two downloads of a kind that are under way at once both overlapped.     *)
SharedFits ==
  \A s, t \in Step : (s # t /\ kind[s] = kind[t] /\ kind[s] \in Downloads /\ Active(s) /\ Active(t))
                       => s \in shared

DownloadInv == FilesOK /\ SharedFits /\ \A s \in Step : PlaceFits(s) /\ FilesFit(s)

(* Nothing is downloaded before the first step.                            *)
LEMMA InitDownloads == Init => DownloadInv
BY PlansAssumption DEF Init, DownloadInv, FilesOK, PlaceFits, FilesFit, SharedFits, Active, ShellPcs, Stages,
   Saving, Pcs, Verdicts, Downloads

(* A step of one thread: it touches the files of its own downloader only,  *)
(* and those only while it is under way.                                   *)
OwnStep(s) ==
  /\ kind' = kind /\ shared \subseteq shared'
  /\ \A t \in Step \ {s} : pc'[t] = pc[t] /\ verdict'[t] = verdict[t] /\ (t \in unclean' <=> t \in unclean)
  /\ \A k \in Downloads : (k = kind[s] /\ Active(s)) \/ (archive'[k] = archive[k] /\ dir'[k] = dir[k])
  /\ \A t \in Step \ {s} : (kind[t] = kind[s] /\ kind[s] \in Downloads /\ Active(s)' /\ Active(t))
                             => s \in shared' /\ t \in shared'

LEMMA OwnStepKeeps ==
  ASSUME DownloadInv, NEW s \in Step, OwnStep(s), FilesOK', PlaceFits(s)', FilesFit(s)'
  PROVE  DownloadInv'
<1>1. SharedFits'
  <2> SUFFICES ASSUME NEW t \in Step, NEW u \in Step, t # u, kind[t] = kind[u], kind[t] \in Downloads,
                      Active(t)', Active(u)'
               PROVE  t \in shared'
    BY DEF SharedFits, OwnStep
  <2>1. \A x \in Step \ {s} : Active(x)' => Active(x)
    BY DEF Active, OwnStep
  <2>2. CASE t = s \/ u = s
    BY <2>1, <2>2 DEF OwnStep
  <2>3. CASE t # s /\ u # s
    BY <2>1, <2>3 DEF OwnStep, DownloadInv, SharedFits
  <2> QED BY <2>2, <2>3
<1>2. ASSUME NEW t \in Step \ {s} PROVE PlaceFits(t)' /\ FilesFit(t)'
  <2>1. PlaceFits(t)'
    BY DEF DownloadInv, PlaceFits, OwnStep
  <2>2. FilesFit(t)'
    <3> SUFFICES ASSUME kind[t] \in Downloads, t \notin shared', pc[t] \in {"fresh", "extract", "find"}
                 PROVE  FilesFit(t)'
      BY DEF FilesFit, OwnStep
    <3>1. Active(t) /\ t \notin shared /\ FilesFit(t)
      BY DEF Active, OwnStep, DownloadInv
    <3>2. ~(kind[t] = kind[s] /\ Active(s))
      BY <3>1 DEF DownloadInv, SharedFits
    <3>3. archive'[kind[t]] = archive[kind[t]] /\ dir'[kind[t]] = dir[kind[t]]
      BY <3>2 DEF OwnStep
    <3> QED BY <3>1, <3>3 DEF FilesFit, Extracted, OwnStep, Downloads
  <2> QED BY <2>1, <2>2
<1> QED BY <1>1, <1>2 DEF DownloadInv

(* A thread that moves within its command, or returns from it, with the    *)
(* files as they are.                                                      *)
LEMMA ThreadMoves ==
  ASSUME DownloadInv, NEW s \in Step, UNCHANGED <<kind, archive, dir, shared, unclean>>,
         NEW l \in Pcs \ {"start", "fresh", "extract", "find"}, NEW v \in Verdicts,
         pc' = [pc EXCEPT ![s] = l], verdict' = [verdict EXCEPT ![s] = v],
         l \in ShellPcs => kind[s] = "shell", l = "create" => kind[s] = "pg",
         l \in Stages => kind[s] \in Fetches, l = "save" => kind[s] \in Downloads,
         v = "ok" => kind[s] \notin Downloads, kind[s] \in Downloads => Active(s)
  PROVE  DownloadInv'
<1>1. pc \in [Step -> Pcs] /\ verdict \in [Step -> Verdicts]
  BY DEF DownloadInv, FilesOK
<1>2. FilesOK'
  BY <1>1 DEF DownloadInv, FilesOK
<1>3. OwnStep(s)
  <2>1. \A t \in Step \ {s} : (kind[t] = kind[s] /\ kind[s] \in Downloads /\ Active(t))
                                => s \in shared /\ t \in shared
    BY DEF DownloadInv, SharedFits
  <2> QED BY <1>1, <2>1 DEF OwnStep
<1>4. PlaceFits(s)' /\ FilesFit(s)'
  BY <1>1 DEF PlaceFits, FilesFit, Saving
<1> QED BY <1>2, <1>3, <1>4, OwnStepKeeps

(* A download that begins notes the ones under way.                        *)
LEMMA FetchKeeps ==
  ASSUME DownloadInv, NEW s \in Step, Fetch(s)
  PROVE  DownloadInv'
<1>1. /\ pc' = [pc EXCEPT ![s] = "resolve"] /\ verdict' = verdict /\ kind' = kind /\ UNCHANGED <<archive, dir, unclean>>
      /\ kind[s] \in Fetches /\ pc \in [Step -> Pcs] /\ verdict \in [Step -> Verdicts]
      /\ PlaceFits(s) /\ pc[s] = "start"
      /\ shared' = IF Overlaps(s) = {} THEN shared ELSE shared \cup Overlaps(s) \cup {s}
  BY DEF Fetch, Goto, control, DownloadInv, FilesOK
<1>2. FilesOK' /\ PlaceFits(s)' /\ FilesFit(s)'
  BY <1>1 DEF DownloadInv, FilesOK, PlaceFits, FilesFit, Pcs, ShellPcs, Stages, Saving
<1>3. OwnStep(s)
  <2>1. ASSUME NEW t \in Step \ {s}, kind[t] = kind[s], kind[s] \in Downloads, Active(t)
        PROVE  s \in shared' /\ t \in shared'
    BY <1>1, <2>1 DEF Overlaps
  <2>2. shared \subseteq shared'
    BY <1>1
  <2> QED BY <1>1, <2>1, <2>2 DEF OwnStep
<1> QED BY <1>2, <1>3, OwnStepKeeps

(* The commands that are no downloads, and downloads up to the body.       *)
LEMMA CommandsKeepFiles ==
  ASSUME DownloadInv, NEW s \in Step,
         BadParameters(s) \/ ShellThread(s) \/ Reads(s) \/ HttpThread(s) \/ PgThread(s)
  PROVE  DownloadInv'
<1> USE DEF Pcs, Verdicts, ShellPcs, Stages, Fetches, Downloads, Active
<1>0. /\ PlaceFits(s) /\ verdict[s] \in Verdicts /\ pc[s] \in Pcs
      /\ verdict = [verdict EXCEPT ![s] = verdict[s]]
  BY DEF DownloadInv, FilesOK
<1>1. CASE BadParameters(s) \/ OpFails(s) \/ PgFails(s) \/ SpawnFails(s)
  BY <1>1, ThreadMoves DEF BadParameters, OpFails, PgFails, SpawnFails, Return, control, files
<1>2. CASE Spawn(s) \/ PollAgain(s) \/ Drain(s) \/ EndGrace(s) \/ Collect(s)
  BY <1>0, <1>2, ThreadMoves DEF Spawn, PollAgain, Drain, EndGrace, Collect, Goto, control, files, PlaceFits
<1>3. CASE Reap(s)
  BY <1>0, <1>3, ThreadMoves DEF Reap, ExitVerdict, control, files, PlaceFits
<1>4. CASE Terminate(s)
  BY <1>0, <1>4, ThreadMoves DEF Terminate, StopVerdict, control, files, PlaceFits
<1>5. CASE Redirect(s)
  BY <1>0, <1>5, ThreadMoves DEF Redirect, Goto, control, files, PlaceFits, Active
<1>11. CASE Fetch(s)
  BY <1>11, FetchKeeps
<1>6. CASE OpCompletes(s)
  <2>1. PICK l \in After(pc[s]) : Goto(s, l)
    BY <1>6 DEF OpCompletes
  <2>2. l \in {"connect", "handshake", "write", "read"}
    BY <1>6, <2>1 DEF OpCompletes, After
  <2> QED BY <1>0, <1>6, <2>1, <2>2, ThreadMoves DEF OpCompletes, Goto, control, files, PlaceFits
<1>7. CASE OpAborts(s)
  BY <1>0, <1>7, ThreadMoves DEF OpAborts, Return, StopVerdict, control, files, PlaceFits
<1>8. CASE Respond(s)
  BY <1>0, <1>8, ThreadMoves DEF Respond, Return, Goto, control, files, PlaceFits
<1>9. CASE PgCheck(s)
  BY <1>0, <1>9, ThreadMoves DEF PgCheck, Return, Goto, control, files, PlaceFits
<1>10. CASE PgCreate(s)
  BY <1>0, <1>10, ThreadMoves DEF PgCreate, Return, control, files, PlaceFits
<1> QED BY <1>1, <1>2, <1>3, <1>4, <1>5, <1>6, <1>7, <1>8, <1>9, <1>10, <1>11 DEF ShellThread, Reads, HttpThread, PgThread

(* The downloaders, from the body to the binary.                           *)
LEMMA DownloadKeeps ==
  ASSUME DownloadInv, NEW s \in Step, DownloadThread(s)
  PROVE  DownloadInv'
<1> USE DEF Saving, Downloads, Fetches
<1>0. /\ kind[s] \in Downloads /\ Want[s] \in Version /\ PlaceFits(s) /\ FilesFit(s)
      /\ kind[s] # "shell" /\ kind' = kind /\ shared' = shared /\ Active(s)
      /\ pc[s] \in Saving /\ pc \in [Step -> Pcs] /\ verdict \in [Step -> Verdicts] /\ verdict[s] # "ok"
      /\ archive \in [Downloads -> SUBSET Version] /\ dir \in [Downloads -> SUBSET Version]
  <2>1. pc[s] \in Saving /\ kind' = kind /\ shared' = shared
    BY DEF DownloadThread, Save, Fresh, Extract, Find, DownloadFails, control, files
  <2> QED BY <2>1, PlansAssumption DEF DownloadInv, FilesOK, PlaceFits, Active
(* The files it may write are its downloader's, and it is not marked.      *)
<1>1. ASSUME \A t \in Step \ {s} : pc'[t] = pc[t] /\ verdict'[t] = verdict[t] /\ (t \in unclean' <=> t \in unclean),
             \A k \in Downloads \ {kind[s]} : archive'[k] = archive[k] /\ dir'[k] = dir[k]
      PROVE  OwnStep(s)
  <2>1. \A t \in Step \ {s} : (kind[t] = kind[s] /\ kind[s] \in Downloads /\ Active(t))
                                => s \in shared /\ t \in shared
    BY <1>0 DEF DownloadInv, SharedFits
  <2> QED BY <1>0, <1>1, <2>1 DEF OwnStep
<1> USE <1>0 DEF Pcs, Verdicts, PlaceFits, ShellPcs, Stages
<1>2. CASE Save(s)
  <2>1. /\ pc' = [pc EXCEPT ![s] = "fresh"] /\ verdict' = verdict /\ unclean' = unclean
        /\ archive' = [archive EXCEPT ![kind[s]] = {Want[s]}] /\ dir' = dir
    BY <1>2 DEF Save, Goto, control
  <2>2. FilesOK' /\ OwnStep(s) /\ PlaceFits(s)'
    BY <1>1, <2>1 DEF FilesOK, DownloadInv
  <2>3. FilesFit(s)'
    BY <2>1 DEF FilesFit
  <2> QED BY <2>2, <2>3, OwnStepKeeps
<1>3. CASE Fresh(s)
  <2>1. /\ pc[s] = "fresh" /\ pc' = [pc EXCEPT ![s] = "extract"] /\ verdict' = verdict /\ archive' = archive
    BY <1>3 DEF Fresh, Goto, control
  <2>2. PICK left \in SUBSET Version :
          \/ /\ kind[s] = "python" /\ dir' = [dir EXCEPT !["python"] = left]
             /\ unclean' = IF left = {} THEN unclean ELSE unclean \cup {s}
          \/ kind[s] # "python" /\ dir' = dir /\ unclean' = unclean
    BY <1>3 DEF Fresh
  <2>3. FilesOK' /\ OwnStep(s) /\ PlaceFits(s)'
    BY <1>1, <2>1, <2>2 DEF FilesOK, DownloadInv
  <2>4. FilesFit(s)'
    BY <2>1, <2>2 DEF FilesFit
  <2> QED BY <2>3, <2>4, OwnStepKeeps
<1>4. CASE Extract(s)
  <2>1. PICK l \in {"find", "done"}, v \in {verdict[s], "failed"} :
          /\ pc' = [pc EXCEPT ![s] = l] /\ verdict' = [verdict EXCEPT ![s] = v]
    BY <1>4 DEF Extract, Goto, Return
  <2>2. /\ pc[s] = "extract" /\ archive' = archive /\ unclean' = unclean
        /\ dir' = [dir EXCEPT ![kind[s]] = @ \cup archive[kind[s]]]
    BY <1>4 DEF Extract
  <2>3. FilesOK' /\ OwnStep(s) /\ PlaceFits(s)'
    BY <1>1, <2>1, <2>2 DEF FilesOK, DownloadInv
  <2>4. FilesFit(s)'
    BY <2>1, <2>2 DEF FilesFit, Extracted
  <2> QED BY <2>3, <2>4, OwnStepKeeps
<1>5. CASE Find(s) \/ DownloadFails(s)
  <2>1. PICK v \in {"ok", "failed"} : /\ pc' = [pc EXCEPT ![s] = "done"] /\ verdict' = [verdict EXCEPT ![s] = v]
                                      /\ archive' = archive /\ dir' = dir /\ unclean' = unclean
    BY <1>5 DEF Find, DownloadFails, Return, files
  <2>2. FilesOK' /\ OwnStep(s) /\ PlaceFits(s)'
    BY <1>1, <2>1 DEF FilesOK, DownloadInv
  <2>3. FilesFit(s)'
    BY <2>1 DEF FilesFit
  <2> QED BY <2>2, <2>3, OwnStepKeeps
<1> QED BY <1>2, <1>3, <1>4, <1>5 DEF DownloadThread

(* Every step of the commands keeps DownloadInv.                           *)
LEMMA NextDownloads == DownloadInv /\ [Next]_vars => DownloadInv'
<1> SUFFICES ASSUME DownloadInv, [Next]_vars PROVE DownloadInv'
  OBVIOUS
<1>1. ASSUME UNCHANGED <<kind, pc, verdict, archive, dir, shared, unclean>> PROVE DownloadInv'
  BY <1>1 DEF DownloadInv, FilesOK, PlaceFits, FilesFit, SharedFits, Active, Extracted
<1>2. CASE UNCHANGED vars \/ Ended \/ RequestStop \/ \E s \in Step : DeadlinePasses(s) \/ FallsSilent(s)
  BY <1>1, <1>2 DEF vars, Ended, RequestStop, DeadlinePasses, FallsSilent, files
<1>3. ASSUME NEW s \in Step, Fork(s) \/ \E p \in Member : Exit(s, p) PROVE DownloadInv'
  BY <1>1, <1>3 DEF Fork, Exit, control, files
<1>4. ASSUME NEW s \in Step,
             \/ BadParameters(s) \/ ShellThread(s) \/ Reads(s) \/ HttpThread(s) \/ DownloadThread(s) \/ PgThread(s)
      PROVE  DownloadInv'
  BY <1>4, CommandsKeepFiles, DownloadKeeps
<1> QED BY <1>2, <1>3, <1>4 DEF Next

(* Only Find makes a download succeed: the other steps of its thread leave *)
(* its verdict or fail it, and other steps leave it alone.                 *)
LEMMA OnlyFindSucceeds ==
  ASSUME DownloadInv, Next, NEW s \in Step, Succeeds(s)
  PROVE  Find(s)
<1>1. verdict \in [Step -> Verdicts] /\ PlaceFits(s) /\ kind[s] \in Downloads
      /\ verdict[s] # "ok" /\ verdict'[s] = "ok"
  BY DEF DownloadInv, FilesOK, Succeeds
<1> USE DEF ShellPcs, Stages, Fetches, Downloads, PlaceFits
<1>2. ASSUME UNCHANGED verdict PROVE FALSE
  BY <1>1, <1>2
<1>3. ASSUME NEW t \in Step, NEW v, Return(t, v), v # "ok" PROVE FALSE
  BY <1>1, <1>3 DEF Return
<1>4. ASSUME NEW t \in Step, NEW v, verdict' = [verdict EXCEPT ![t] = v] PROVE t = s /\ v = "ok"
  BY <1>1, <1>4
<1>5. ~(RequestStop \/ Ended \/ \E t \in Step : \/ DeadlinePasses(t) \/ FallsSilent(t) \/ Fork(t)
                                                \/ \E p \in Member : Exit(t, p))
  BY <1>2 DEF RequestStop, Ended, DeadlinePasses, FallsSilent, Fork, Exit, vars
<1>6. ASSUME NEW t \in Step PROVE ~BadParameters(t) /\ ~ShellThread(t) /\ ~Reads(t)
  <2>1. ~(BadParameters(t) \/ SpawnFails(t))
    BY <1>3 DEF BadParameters, SpawnFails
  <2>2. ~(Spawn(t) \/ PollAgain(t) \/ EndGrace(t) \/ Drain(t) \/ Collect(t))
    BY <1>2 DEF Spawn, PollAgain, EndGrace, Drain, Collect, Goto
  <2>3. ~(Reap(t) \/ Terminate(t))
    BY <1>1, <1>4 DEF Reap, Terminate
  <2> QED BY <2>1, <2>2, <2>3 DEF ShellThread, Reads
<1>7. ASSUME NEW t \in Step PROVE ~HttpThread(t) /\ ~PgThread(t)
  <2>1. ~(OpFails(t) \/ PgFails(t))
    BY <1>3 DEF OpFails, PgFails
  <2>2. ~(Fetch(t) \/ OpCompletes(t) \/ Redirect(t))
    BY <1>2 DEF Fetch, OpCompletes, Redirect, Goto
  <2>3. ~OpAborts(t)
    BY <1>3 DEF OpAborts, StopVerdict
  <2>4. ~Respond(t)
    BY <1>1, <1>2, <1>3, <1>4 DEF Respond, Return, Goto
  <2>5. ~(PgCheck(t) \/ PgCreate(t))
    BY <1>1, <1>2, <1>4 DEF PgCheck, PgCreate, Return, Goto
  <2> QED BY <2>1, <2>2, <2>3, <2>4, <2>5 DEF HttpThread, PgThread
<1>8. ASSUME NEW t \in Step, DownloadThread(t) PROVE Find(s)
  <2>1. ~(Save(t) \/ Fresh(t) \/ Extract(t) \/ DownloadFails(t))
    BY <1>2, <1>3 DEF Save, Fresh, Extract, DownloadFails, Goto
  <2>2. Find(t)
    BY <1>8, <2>1 DEF DownloadThread
  <2>3. t = s
    BY <1>4, <2>2 DEF Find, Return
  <2> QED BY <2>2, <2>3
<1> QED BY <1>5, <1>6, <1>7, <1>8 DEF Next

(* download_python, download_pwsh: a download that succeeds without having *)
(* overlapped another of its kind has extracted the version asked for, and *)
(* a Python one that emptied its directory nothing else; whatever earlier  *)
(* downloads left behind, finished or not.                                 *)
THEOREM RightDownload == Spec => DownloadIsTheOneAskedFor
<1> DEFINE Right(s) ==
      (Succeeds(s) /\ s \notin shared) =>
        IF kind[s] = "python" /\ s \notin unclean THEN dir["python"] = {Want[s]} ELSE Want[s] \in dir[kind[s]]
<1>1. ASSUME DownloadInv, [Next]_vars, NEW s \in Step PROVE Right(s)
  <2> SUFFICES ASSUME Succeeds(s), s \notin shared PROVE Extracted(s)
    BY DEF Extracted
  <2>1. Next
    BY <1>1 DEF vars, Succeeds
  <2>2. Find(s)
    BY <1>1, <2>1, OnlyFindSucceeds
  <2> QED BY <1>1, <2>2 DEF Find, DownloadInv, FilesFit, Succeeds
<1>2. DownloadInv /\ [Next]_vars => [\A s \in Step : Right(s)]_vars
  BY <1>1
<1> QED
  BY <1>2, InitDownloads, NextDownloads, PTL DEF Spec, DownloadIsTheOneAskedFor
=============================================================================
