----------------------- MODULE PluginInstallerProofs -----------------------
(***************************************************************************)
(* Proofs for PluginInstaller.                                             *)
(*                                                                         *)
(* The process can die in every state, so the invariant describes what the *)
(* disk looks like at every step of an install, of its rollback and of a   *)
(* recovery, and what a journal found at the next start is worth.          *)
(*                                                                         *)
(* JournalOK, TaskOK, DenyOK and CrasherOK hold in every history: the      *)
(* journal says what the running task says, directories exist as long as   *)
(* they are needed, a listed name is in the file unless a save was lost,   *)
(* and a version that killed the server is off the disk, or listed, or its *)
(* entry was lost.  StepOK, DiskOK and LoadedOK hold in untainted ones:    *)
(* without a journal the disk is Settled, with one it is Replacing the     *)
(* committed version, each file of which is at home or set aside.          *)
(***************************************************************************)
EXTENDS PluginInstaller, TLAPS

Recovering == RecoverPcs \ {"recover"}
Working    == InstallPcs \cup UndoPcs \cup Recovering

Tasks ==
  [upload : Uploads \cup {Nil}, old : Versions, wasDenied : BOOLEAN, wasLoaded : BOOLEAN,
   journaled : BOOLEAN]

JournalType ==
  [upload : Uploads \cup {Nil}, old : Versions, wasDenied : BOOLEAN, whole : BOOLEAN]
DenyTypes ==
  denied \in BOOLEAN /\ names \in BOOLEAN /\ cut \in BOOLEAN /\ unsaved \in BOOLEAN

TypesOK ==
  /\ home \in [Uploads -> FileSets] /\ backup \in [Uploads -> FileSets] /\ dirs \subseteq Uploads
  /\ journal \in JournalType
  /\ pc \in Pcs /\ part \in 1..3
  /\ task \in Tasks
  /\ current \in Uploads \cup {Nil} /\ crasher \in Uploads \cup {Nil} /\ DenyTypes

(* The journal is the running install's, or that of the one to roll back.  *)
JournalOK ==
  /\ journal # NoJournal => journal.upload \in Uploads /\ journal.old # journal.upload
  /\ pc = "journal" => journal = NoJournal
  /\ pc \in (InstallPcs \ {"journal", "clean"}) \cup Recovering => journal = JournalOf(task)

(* The version to replace has a directory until it is tidied away, and     *)
(* what is loaded has one.                                                 *)
TaskOK ==
  /\ pc \in Working => task.upload \in Uploads /\ task.old # task.upload
  /\ pc \in (InstallPcs \ {"commit", "clean"}) \cup UndoPcs => (task.old \in Uploads => task.old \in dirs)
  /\ pc \in {"place", "load", "enable", "tidy", "commit", "clean"} => task.upload \in dirs
  /\ loaded \in dirs \cup {Bundled, Nil}
  /\ IF pc \in {"enable", "tidy", "commit", "clean"} THEN loaded = task.upload
     ELSE pc \notin {"idle", "stage"} => loaded = Nil

(* While its library is loaded, a plugin is on the denylist; what is on it *)
(* is in the file, but while that is being written and after a lost save.  *)
DenyOK ==
  /\ names /\ ~cut => denied \/ unsaved
  /\ cut => names /\ (pc \in {"deny", "disable"} \/ (pc = "undo_deny" /\ task.wasDenied))
  /\ pc \in {"aside", "prepare", "place", "load"} => names

(* The version that killed the server is off the disk, or cannot load: the *)
(* plugin is denied, in the file if the process is down, and the journal   *)
(* blocks every other install.                                             *)
CrasherOK ==
  crasher # Nil =>
    /\ journal.old # crasher
    /\ pc \in InstallPcs \cup UndoPcs => task.upload # crasher /\ task.old # crasher
    /\ \/ crasher \notin dirs
       \/ /\ journal.upload = crasher
          /\ pc \in {"down", "recover", "rec_dir", "start", "idle", "stage", "disable"}
          /\ unsaved \/ IF pc = "down" THEN denied ELSE names

(* The disk, when no install is under way ...                              *)
Settled == \A d \in Uploads : home[d] = IF d = current THEN Files(d) ELSE Empty

(* ... and while u replaces the committed version, or none.                *)
Replaces(old)  == IF current = Nil THEN old \in {Bundled, Nil} ELSE old = current
AtHome(u, p)   == home[current][p] = current /\ backup[u][p] = Nil
SetAside(u, p) == home[current][p] = Nil /\ backup[u][p] = current

Replacing(u, old) ==
  /\ u \in Uploads /\ u # current /\ Replaces(old)
  /\ \A d \in Uploads \ {u, current} : home[d] = Empty
  /\ \A p \in Parts : home[u][p] \in {u, Nil}
  /\ \A p \in Parts : IF current = Nil THEN backup[u][p] = Nil ELSE AtHome(u, p) \/ SetAside(u, p)

Kept(ps)  == current # Nil => \A p \in ps : AtHome(task.upload, p)
Moved(ps) == current # Nil => \A p \in ps : SetAside(task.upload, p)
Before == {p \in Parts : p < part}
After  == {p \in Parts : p >= part}

NewEmpty == home[task.upload] = Empty

(* What each place in install(), its rollback and recover_one() relies on. *)
StepOK ==
  /\ pc \in (InstallPcs \ {"clean"}) \cup UndoPcs \cup Recovering => Replacing(task.upload, task.old)
  /\ pc \in UndoPcs => journal \in {NoJournal, JournalOf(task), TornJournal(task)}
  /\ pc \in {"journal", "deny"} => NewEmpty /\ Kept(Parts)
  /\ pc = "aside" => NewEmpty /\ Moved(Before) /\ Kept(After)
  /\ pc = "prepare" => NewEmpty /\ Moved(Parts)
  /\ pc = "place" => Moved(Parts) /\ \A p \in Before : home[task.upload][p] = task.upload
  /\ pc \in {"load", "enable", "tidy", "commit"} => Moved(Parts) /\ home[task.upload] = Files(task.upload)
  /\ pc = "clean" => journal = NoJournal /\ current = task.upload
  /\ pc \in {"undo_files", "rec_files"} => NewEmpty /\ Kept(Before)
  /\ pc \in (UndoPcs \cup Recovering) \ {"undo_dir", "undo_files", "rec_dir", "rec_files"} => NewEmpty /\ Kept(Parts)

(* What a process that starts now would find.                              *)
DiskOK ==
  /\ \A d \in Uploads : home[d] # Empty => d \in dirs
  /\ IF journal = NoJournal THEN Settled ELSE Replacing(journal.upload, journal.old)

(* What is loaded, or was before the install, is on disk.                  *)
LoadedOK ==
  /\ pc \in {"idle", "stage"} /\ loaded # Nil => loaded \in OnDisk
  /\ pc \in InstallPcs \cup UndoPcs => /\ task.wasLoaded => task.old # Nil
                                       /\ task.old = Bundled => bundled

InstallerInv ==
  /\ TypesOK /\ JournalOK /\ TaskOK /\ DenyOK /\ CrasherOK
  /\ ~tainted => StepOK /\ DiskOK /\ LoadedOK
-----------------------------------------------------------------------------
(* Types                                                                   *)

LEMMA InitInstaller == Init => InstallerInv
<1> SUFFICES ASSUME Init PROVE InstallerInv
  OBVIOUS
<1> USE DEF Init
<1>1. Empty \in FileSets /\ NoTask \in Tasks /\ Nil \in Versions
  BY DEF Empty, FileSets, NoTask, Tasks, Versions
<1>2. NoJournal \in JournalType
  BY <1>1 DEF NoJournal, JournalType
<1>3. TypesOK
  <2>1. DenyTypes
    BY Zenon DEF DenyTypes
  <2> QED BY <1>1, <1>2, <2>1 DEF TypesOK, Pcs
<1>4. JournalOK /\ TaskOK /\ DenyOK /\ CrasherOK
  BY DEF JournalOK, TaskOK, DenyOK, CrasherOK, InstallPcs, UndoPcs, Recovering, RecoverPcs, Working
<1>5. StepOK
  BY DEF StepOK, InstallPcs, UndoPcs, Recovering, RecoverPcs
<1>6. DiskOK
  BY NamesAssumption DEF DiskOK, Settled
<1>7. LoadedOK
  BY DEF LoadedOK, InstallPcs, UndoPcs
<1> QED BY <1>3, <1>4, <1>5, <1>6, <1>7 DEF InstallerInv

LEMMA Values ==
  /\ Nil \in Versions /\ Nil \notin Uploads /\ Bundled \notin Uploads /\ Bundled # Nil
  /\ Empty \in FileSets /\ NoTask \in Tasks /\ NoTask.upload = Nil
  /\ NoJournal \in JournalType
  /\ NoJournal.upload = Nil /\ NoJournal.old = Nil
  /\ \A u \in Uploads : Files(u) \in FileSets /\ Files(u) # Empty
  /\ \A p \in Parts : Empty[p] = Nil /\ \A u \in Uploads : Files(u)[p] = u
BY NamesAssumption DEF Versions, Empty, Files, FileSets, NoTask, Tasks, NoJournal, JournalType, Parts

(* A function on the two parts is its values.                              *)
LEMMA ByParts ==
  ASSUME NEW f \in FileSets, NEW v \in Uploads \cup {Nil}, \A p \in Parts : f[p] = v
  PROVE  f = [p \in Parts |-> v]
BY DEF FileSets

LEMMA ExistingIsVersion ==
  ASSUME TypesOK, TaskOK, NEW old \in Existing
  PROVE  old \in dirs \cup {Bundled, Nil} /\ old \in Versions /\ (loaded # Nil => old = loaded)
         /\ (old \in {loaded} \cup OnDisk \cup {Nil})
BY DEF Existing, OnDisk, UploadedCopies, TypesOK, TaskOK, Versions

LEMMA JournalOfType ==
  ASSUME NEW t \in Tasks
  PROVE  /\ JournalOf(t) \in JournalType
         /\ JournalOf(t).upload = t.upload /\ JournalOf(t).old = t.old
BY DEF JournalOf, JournalType, Tasks

LEMMA TornJournalOfType ==
  ASSUME NEW t \in Tasks
  PROVE  /\ TornJournal(t) \in JournalType /\ ~TornJournal(t).whole
         /\ TornJournal(t).upload = t.upload /\ TornJournal(t).old = t.old
BY DEF TornJournal, JournalOf, JournalType, Tasks

LEMMA MoveTypes ==
  ASSUME NEW from \in [Uploads -> FileSets], NEW to \in [Uploads -> FileSets],
         NEW u \in Uploads, NEW v \in Uploads, NEW p \in Parts
  PROVE  /\ [from EXCEPT ![u][p] = Nil] \in [Uploads -> FileSets]
         /\ [to EXCEPT ![v][p] = from[u][p]] \in [Uploads -> FileSets]
<1>1. from[u] \in FileSets /\ to[v] \in FileSets /\ from[u][p] \in Uploads \cup {Nil}
  BY DEF FileSets
<1>2. [from[u] EXCEPT ![p] = Nil] \in FileSets /\ [to[v] EXCEPT ![p] = from[u][p]] \in FileSets
  BY <1>1 DEF FileSets
<1> QED BY <1>2

PathTypes == dirs \subseteq Uploads /\ home \in [Uploads -> FileSets] /\ backup \in [Uploads -> FileSets]

LEMMA PathTypesNext ==
  ASSUME InstallerInv, Next
  PROVE  PathTypes'
<1>0. PathTypes /\ part \in 1..3 /\ (pc \in Working => task.upload \in Uploads)
  BY DEF PathTypes, InstallerInv, TypesOK, TaskOK
<1> USE Values
<1>1. CASE UNCHANGED <<dirs, home, backup>>
  BY <1>0, <1>1 DEF PathTypes
<1>2. ASSUME pc \in Working, UNCHANGED <<dirs, home>>, backup' = [backup EXCEPT ![task.upload] = Empty] \/ UNCHANGED backup
      PROVE  PathTypes'
  BY <1>0, <1>2 DEF PathTypes
<1>3. CASE \E u \in Uploads : Discard(u)
  BY <1>0, <1>3 DEF PathTypes, Discard
<1>4. CASE MoveAside
  <2>1. CASE Moving /\ MoveFile(home, task.old, backup, task.upload)
    <3>1. task.upload \in Uploads /\ task.old \in Uploads /\ part \in Parts /\ UNCHANGED dirs
      BY <1>0, <1>4, <2>1 DEF MoveAside, Moving, Working, InstallPcs
    <3>2. /\ home' = [home EXCEPT ![task.old][part] = Nil]
          /\ backup' = [backup EXCEPT ![task.upload][part] = home[task.old][part]]
      BY <2>1 DEF MoveFile
    <3>3. home' \in [Uploads -> FileSets] /\ backup' \in [Uploads -> FileSets]
      BY <1>0, <3>1, <3>2, MoveTypes DEF PathTypes
    <3> QED BY <1>0, <3>1, <3>3 DEF PathTypes
  <2> QED BY <1>1, <1>4, <2>1 DEF MoveAside
<1>5. CASE Place
  <2>1. task.upload \in Uploads
    BY <1>0, <1>5 DEF Place, Working, InstallPcs
  <2>2. CASE part \in Parts /\ home' = [home EXCEPT ![task.upload][part] = task.upload]
    <3>1. [home[task.upload] EXCEPT ![part] = task.upload] \in FileSets
      BY <1>0, <2>1, <2>2 DEF PathTypes, FileSets
    <3> QED BY <1>0, <1>5, <2>2, <3>1 DEF Place, PathTypes
  <2> QED BY <1>1, <1>5, <2>2 DEF Place
<1>6. CASE Prepare \/ Tidy
  BY <1>0, <1>6 DEF Prepare, Tidy, PathTypes, Working, InstallPcs
<1>7. CASE Clean
  BY <1>0, <1>2, <1>7 DEF Clean, Working, InstallPcs
<1>8. CASE UndoBackup \/ RecoverBackup
  BY <1>0, <1>2, <1>8 DEF UndoBackup, RecoverBackup, Working, UndoPcs, Recovering, RecoverPcs
<1>9. CASE UndoDir \/ RecoverDir
  BY <1>0, <1>9 DEF UndoDir, RecoverDir, PathTypes
<1>10. CASE UndoFiles \/ RecoverFiles
  <2>1. CASE Moving /\ RestoreFile
    <3>1. task.upload \in Uploads /\ task.old \in Uploads /\ part \in Parts /\ UNCHANGED dirs
      BY <1>0, <1>10, <2>1 DEF UndoFiles, RecoverFiles, Moving, Working, UndoPcs, Recovering, RecoverPcs
    <3>2. /\ backup' = [backup EXCEPT ![task.upload][part] = Nil]
          /\ home' = [home EXCEPT ![task.old][part] = backup[task.upload][part]]
      BY <2>1 DEF RestoreFile, MoveFile
    <3>3. home' \in [Uploads -> FileSets] /\ backup' \in [Uploads -> FileSets]
      BY <1>0, <3>1, <3>2, MoveTypes DEF PathTypes
    <3> QED BY <1>0, <3>1, <3>3 DEF PathTypes
  <2> QED BY <1>1, <1>10, <2>1 DEF UndoFiles, RecoverFiles
<1>11. ASSUME NEW u \in Uploads, Stage(u) \/ InstallBegin(u) PROVE UNCHANGED <<dirs, home, backup>>
  BY <1>11 DEF Stage, InstallBegin, diskVars
<1>12. CASE \/ StageRename \/ WriteJournal \/ Deny \/ Load \/ Enable \/ Commit \/ UndoDeny \/ UndoJournal
            \/ Reload \/ Restart \/ RecoverBegin \/ RecoverDeny \/ RecoverMark \/ RecoverJournal \/ StartLoad
            \/ AdminDisable \/ DisableSaved \/ AdminEnable \/ AdminReload \/ Crash \/ Idle
  <2>1. UNCHANGED <<dirs, home, backup>>
    BY <1>12 DEF StageRename, WriteJournal, Deny, Load, Enable, Commit, UndoDeny, UndoJournal, Reload, Restart,
       RecoverBegin, RecoverDeny, RecoverMark, RecoverJournal, StartLoad, AdminDisable, DisableSaved, AdminEnable, AdminReload,
       Crash, Idle, diskVars, vars
  <2> QED BY <1>1, <2>1
<1> QED BY <1>1, <1>3, <1>4, <1>5, <1>6, <1>7, <1>8, <1>9, <1>10, <1>11, <1>12 DEF Next, InstallStep, UndoStep, RecoverStep

(* What install() is about to journal, and what it keeps of it.            *)
LEMMA WriteJournalStep ==
  ASSUME TypesOK, JournalOK, TaskOK, WriteJournal
  PROVE  /\ pc = "journal" /\ pc' \in {"deny", "undo_dir"} /\ part' = 1 /\ task' \in Tasks
         /\ task.upload \in Uploads /\ task.old # task.upload
         /\ task'.upload = task.upload /\ task'.old = task.old /\ task'.wasLoaded = task.wasLoaded
         /\ JournalOf(task') = JournalOf(task) /\ TornJournal(task') = TornJournal(task) /\ journal = NoJournal
         /\ journal' \in {NoJournal, JournalOf(task), TornJournal(task)} /\ (pc' = "deny" => journal' = JournalOf(task))
<1>0. pc = "journal" /\ task \in Tasks /\ journal = NoJournal
  BY DEF WriteJournal, TypesOK, JournalOK
<1>1. task.upload \in Uploads /\ task.old # task.upload
  BY <1>0 DEF TaskOK, Working, InstallPcs
<1>2. task' \in {task, [task EXCEPT !.journaled = TRUE]} /\ pc' \in {"deny", "undo_dir"} /\ part' = 1
  BY DEF WriteJournal, Goto
<1>3. /\ [task EXCEPT !.journaled = TRUE] \in Tasks
      /\ \A t \in {task, [task EXCEPT !.journaled = TRUE]} :
           t.upload = task.upload /\ t.old = task.old /\ t.wasDenied = task.wasDenied /\ t.wasLoaded = task.wasLoaded
  BY <1>0 DEF Tasks
<1>4. JournalOf(task') = JournalOf(task) /\ TornJournal(task') = TornJournal(task)
  BY <1>2, <1>3 DEF JournalOf, TornJournal
<1>5. journal' \in {NoJournal, JournalOf(task), TornJournal(task)} /\ (pc' = "deny" => journal' = JournalOf(task))
  BY <1>0 DEF WriteJournal, Goto
<1> QED BY <1>0, <1>1, <1>2, <1>3, <1>4, <1>5

(* The task of an install: some existing copy is replaced.                 *)
LEMMA InstallBeginStep ==
  ASSUME TypesOK, TaskOK, NEW u \in Uploads, InstallBegin(u)
  PROVE  /\ pc = "idle" /\ pc' = "journal" /\ part' = 1 /\ loaded' = Nil /\ u \notin dirs /\ journal = NoJournal
         /\ task' \in Tasks /\ task'.upload = u /\ task'.old \in Existing
         /\ task'.wasLoaded = (loaded # Nil) /\ task'.old # u
         /\ UNCHANGED <<upload, marked, dirs, home, backup, journal, denyVars, bundled, current>>
<1>1. PICK old \in Existing : task' = [upload |-> u, old |-> old, wasDenied |-> names,
                                      wasLoaded |-> loaded # Nil, journaled |-> FALSE]
  BY DEF InstallBegin
<1>2. old \in Versions /\ old \in dirs \cup {Bundled, Nil}
  BY ExistingIsVersion
<1>3. u \notin dirs /\ old # u
  BY <1>2, Values DEF InstallBegin
<1>4. names \in BOOLEAN /\ (loaded # Nil) \in BOOLEAN
  BY Zenon DEF TypesOK, DenyTypes
<1>5. task' \in Tasks /\ task'.upload = u /\ task'.old = old
  BY <1>1, <1>2, <1>4 DEF Tasks
<1>6. task'.wasLoaded = (loaded # Nil)
  BY <1>1
<1> QED BY <1>3, <1>5, <1>6 DEF InstallBegin, Goto, Unblocked, diskVars

-----------------------------------------------------------------------------
(* The denylist                                                            *)

(* A call of add() is over, and has gone on, or has emptied the file.      *)
LEMMA AddNameStep ==
  ASSUME NEW next, AddName(next)
  PROVE  /\ names'
         /\ \/ pc' = next /\ part' = 1 /\ ~cut'
            \/ UNCHANGED <<pc, part>> /\ cut'
         /\ ~cut' => denied' \/ unsaved' \/ (UNCHANGED <<denied, unsaved>> /\ names /\ ~cut)
<1>1. CASE names /\ ~cut /\ Goto(next) /\ UNCHANGED <<denied, cut, unsaved, faults>>
  BY <1>1, Zenon DEF AddName, Goto
<1>2. CASE denied' = FALSE /\ cut' = TRUE /\ UNCHANGED <<pc, part, unsaved, faults>>
  BY <1>2, Zenon DEF AddName
<1>3. CASE denied' = TRUE /\ cut' = FALSE /\ Goto(next)
  BY <1>3, Zenon DEF AddName, Goto
<1>4. CASE cut' = FALSE /\ unsaved' = TRUE /\ Goto(next)
  BY <1>4, Zenon DEF AddName, Goto
<1> QED BY <1>1, <1>2, <1>3, <1>4, Zenon DEF AddName

(* The callers of add() stay until it is over, and change nothing else.    *)
LEMMA SavingSteps ==
  /\ Deny =>
       /\ pc = "deny" /\ names'
       /\ (pc' = "aside" /\ part' = 1) \/ UNCHANGED <<pc, part>>
       /\ UNCHANGED <<diskVars, task, loaded, bundled, historyVars>>
  /\ UndoDeny =>
       /\ pc = "undo_deny"
       /\ (pc' = "undo_journal" /\ part' = 1) \/ UNCHANGED <<pc, part>>
       /\ UNCHANGED <<diskVars, task, loaded, bundled, historyVars>>
  /\ DisableSaved =>
       /\ pc = "disable" /\ names'
       /\ (pc' = "idle" /\ part' = 1) \/ UNCHANGED <<pc, part>>
       /\ UNCHANGED <<diskVars, task, loaded, bundled, current, crasher, tainted>>
<1>1. ASSUME Deny
      PROVE  pc = "deny" /\ AddName("aside") /\ UNCHANGED <<diskVars, task, loaded, bundled, historyVars>>
  BY <1>1, Zenon DEF Deny, DenyWhileLoading
<1>2. ASSUME UndoDeny
      PROVE  /\ pc = "undo_deny" /\ (AddName("undo_journal") \/ (pc' = "undo_journal" /\ part' = 1))
             /\ UNCHANGED <<diskVars, task, loaded, bundled, historyVars>>
  BY <1>2, Zenon DEF UndoDeny, Goto
<1>3. ASSUME DisableSaved
      PROVE  /\ pc = "disable" /\ AddName("idle")
             /\ UNCHANGED <<diskVars, task, loaded, bundled, current, crasher, tainted>>
  BY <1>3, Zenon DEF DisableSaved
<1>4. ASSUME NEW next, AddName(next) PROVE names' /\ ((pc' = next /\ part' = 1) \/ UNCHANGED <<pc, part>>)
  BY <1>4, AddNameStep, Zenon
<1> QED BY <1>1, <1>2, <1>3, <1>4, Zenon

LEMMA DropNameStep ==
  ASSUME DropName
  PROVE  ~names' /\ cut' = cut
BY Zenon DEF DropName

(* Everything else leaves the denylist alone.                              *)
LEMMA DenyVarsKept ==
  ASSUME Next
  PROVE  \/ Deny \/ UndoDeny \/ DisableSaved
         \/ Enable \/ RecoverDeny \/ AdminEnable \/ Restart \/ Crash
         \/ UNCHANGED denyVars
<1>1. ASSUME NEW u \in Uploads, Stage(u) \/ Discard(u) \/ InstallBegin(u) PROVE UNCHANGED denyVars
  BY <1>1 DEF Stage, Discard, InstallBegin
<1>2. CASE StageRename \/ WriteJournal \/ MoveAside \/ Prepare \/ Place \/ Load \/ Tidy \/ Commit \/ Clean
  BY <1>2 DEF StageRename, WriteJournal, MoveAside, Prepare, Place, Load, Tidy, Commit, Clean
<1>3. CASE UndoDir \/ UndoFiles \/ UndoJournal \/ UndoBackup \/ Reload
  BY <1>3 DEF UndoDir, UndoFiles, UndoJournal, UndoBackup, Reload
<1>4. CASE RecoverBegin \/ RecoverDir \/ RecoverFiles \/ RecoverBackup \/ RecoverMark \/ RecoverJournal
  BY <1>4 DEF RecoverBegin, RecoverDir, RecoverFiles, RecoverBackup, RecoverMark, RecoverJournal
<1>5. CASE StartLoad \/ AdminDisable \/ AdminReload \/ Idle
  BY <1>5 DEF StartLoad, AdminDisable, AdminReload, Idle, vars
<1> QED BY <1>1, <1>2, <1>3, <1>4, <1>5 DEF Next, InstallStep, UndoStep, RecoverStep

(* Where the denylist is being saved, nothing else happens but a crash.    *)
LEMMA SavingPcs ==
  ASSUME Next
  PROVE  /\ pc \in {"deny", "undo_deny", "disable"} => Deny \/ UndoDeny \/ DisableSaved \/ Crash
         /\ pc' \in {"aside", "prepare", "place", "load"} => pc \in {"deny", "aside", "prepare", "place", "load"}
<1> USE DEF Goto
<1>1. ASSUME NEW u \in Uploads, Stage(u) \/ Discard(u) \/ InstallBegin(u)
      PROVE  pc = "idle" /\ pc' \in {"idle", "stage", "journal"}
  BY <1>1 DEF Stage, Discard, InstallBegin, processVars
<1>2. CASE StageRename \/ WriteJournal \/ MoveAside \/ Prepare \/ Place \/ Load
  BY <1>2 DEF StageRename, WriteJournal, MoveAside, Prepare, Place, Load
<1>3. CASE Deny \/ UndoDeny \/ DisableSaved
  BY <1>3, SavingSteps
<1>4. CASE Enable \/ Tidy \/ Commit \/ Clean
  BY <1>4 DEF Enable, Tidy, Commit, Clean
<1>5. CASE UndoDir \/ UndoFiles \/ UndoJournal \/ UndoBackup \/ Reload
  BY <1>5 DEF UndoDir, UndoFiles, UndoJournal, UndoBackup, Reload
<1>6. CASE RecoverStep
  BY <1>6 DEF RecoverStep, RecoverBegin, RecoverDir, RecoverFiles, RecoverDeny, RecoverBackup, RecoverMark,
     RecoverJournal, RecoverGivesUp
<1>7. CASE Restart \/ StartLoad \/ AdminDisable \/ AdminEnable \/ AdminReload \/ Crash \/ Idle
  BY <1>7 DEF Restart, StartLoad, AdminDisable, AdminEnable, AdminReload, Crash, Idle, vars, processVars
<1> QED BY <1>1, <1>2, <1>3, <1>4, <1>5, <1>6, <1>7 DEF Next, InstallStep, UndoStep

LEMMA DenyTypesNext ==
  ASSUME DenyTypes, Next
  PROVE  DenyTypes'
<1>1. ASSUME NEW next, AddName(next) PROVE DenyTypes'
  BY <1>1, Zenon DEF AddName, DenyTypes
<1>2. ASSUME DropName PROVE DenyTypes'
  BY <1>2, Zenon DEF DropName, DenyTypes
<1>3. CASE UNCHANGED denyVars
  BY <1>3, Zenon DEF denyVars, DenyTypes
<1>4. CASE Deny \/ UndoDeny \/ DisableSaved \/ Enable \/ RecoverDeny \/ AdminEnable
  BY <1>1, <1>2, <1>3, <1>4, Zenon
     DEF Deny, DenyWhileLoading, UndoDeny, DisableSaved, Enable, RecoverDeny, AdminEnable
<1>5. CASE Restart
  BY <1>5, Zenon DEF Restart, DenyTypes
<1>6. CASE Crash
  BY <1>6, Zenon DEF Crash, DenyTypes
<1> QED BY <1>3, <1>4, <1>5, <1>6, DenyVarsKept

ProcTypes ==
  /\ journal \in JournalType
  /\ pc \in Pcs /\ part \in 1..3 /\ task \in Tasks
  /\ current \in Uploads \cup {Nil} /\ crasher \in Uploads \cup {Nil} /\ DenyTypes

LEMMA ProcTypesNext ==
  ASSUME InstallerInv, Next
  PROVE  ProcTypes'
<1>0. TypesOK /\ JournalOK /\ TaskOK /\ ProcTypes
  BY DEF InstallerInv, TypesOK, ProcTypes
<1>1. DenyTypes'
  BY <1>0, DenyTypesNext DEF TypesOK
<1> USE <1>0, <1>1, Values DEF Goto, Fault, Pcs, InstallPcs, UndoPcs, RecoverPcs
<1>2. ASSUME NEW u \in Uploads, Stage(u) PROVE ProcTypes'
  BY <1>2 DEF Stage, historyVars, Tasks, ProcTypes
<1>3. ASSUME NEW u \in Uploads, Discard(u) PROVE ProcTypes'
  BY <1>3 DEF Discard, processVars, historyVars, ProcTypes
<1>4. ASSUME NEW u \in Uploads, InstallBegin(u) PROVE ProcTypes'
  <2>1. crasher' \in Uploads \cup {Nil}
    BY <1>4 DEF InstallBegin, ProcTypes
  <2> QED BY <1>4, <2>1, InstallBeginStep DEF ProcTypes
<1>5. CASE StageRename \/ Idle
  BY <1>5 DEF StageRename, Idle, vars, diskVars, processVars, historyVars, ProcTypes
<1>6. CASE WriteJournal
  <2>1. JournalOf(task) \in JournalType
    BY JournalOfType DEF ProcTypes
  <2>2. TornJournal(task) \in JournalType
    BY TornJournalOfType DEF ProcTypes
  <2> QED BY <1>6, <2>1, <2>2, WriteJournalStep DEF WriteJournal, historyVars, ProcTypes
<1>7. CASE Deny \/ UndoDeny \/ RecoverDeny
  BY <1>7, SavingSteps DEF RecoverDeny, diskVars, historyVars, ProcTypes
<1>8. CASE MoveAside \/ Prepare \/ Place
  BY <1>8 DEF MoveAside, Prepare, Place, Moving, MoveFile, Parts, historyVars, ProcTypes
<1>9. CASE Load \/ Tidy \/ Clean
  BY <1>9 DEF Load, Tidy, Clean, diskVars, historyVars, ProcTypes, TaskOK, Working
<1>10. CASE Enable
  BY <1>10 DEF Enable, diskVars, historyVars, ProcTypes
<1>11. CASE Commit
  BY <1>11 DEF Commit, ProcTypes, TaskOK, Working
<1>12. CASE UndoDir \/ UndoFiles
  BY <1>12 DEF UndoDir, UndoFiles, Moving, RestoreFile, MoveFile, Parts, historyVars, ProcTypes
<1>13. CASE UndoJournal \/ UndoBackup \/ Reload
  BY <1>13 DEF UndoJournal, UndoBackup, Reload, diskVars, historyVars, ProcTypes
<1>14. CASE Restart \/ StartLoad \/ AdminReload
  BY <1>14 DEF Restart, StartLoad, AdminReload, diskVars, historyVars, ProcTypes
<1>15. CASE RecoverBegin
  <2>1. [upload |-> journal.upload, old |-> journal.old, wasDenied |-> journal.wasDenied,
         wasLoaded |-> FALSE, journaled |-> TRUE] \in Tasks
    BY DEF ProcTypes, Tasks, JournalType
  <2>2. task' \in Tasks
    BY <1>15, <2>1 DEF RecoverBegin, ProcTypes
  <2>3. pc' \in {"start", "rec_dir"} /\ part' = 1 /\ UNCHANGED <<journal, current, crasher>>
    BY <1>15 DEF RecoverBegin, historyVars
  <2> QED BY <2>2, <2>3 DEF ProcTypes
<1>16. CASE RecoverDir \/ RecoverFiles
  BY <1>16 DEF RecoverDir, RecoverFiles, RecoverGivesUp, Moving, RestoreFile, MoveFile, Parts, historyVars, ProcTypes
<1>17. CASE RecoverBackup \/ RecoverMark \/ RecoverJournal
  BY <1>17 DEF RecoverBackup, RecoverMark, RecoverJournal, RecoverGivesUp, historyVars, ProcTypes
<1>18. CASE AdminDisable \/ DisableSaved \/ AdminEnable
  BY <1>18, SavingSteps DEF AdminDisable, AdminEnable, diskVars, historyVars, ProcTypes
<1>19. CASE Crash
  BY <1>19, TornJournalOfType DEF Crash, ProcTypes, TaskOK, Working
<1> QED BY <1>2, <1>3, <1>4, <1>5, <1>6, <1>7, <1>8, <1>9, <1>10, <1>11, <1>12, <1>13, <1>14, <1>15, <1>16, <1>17,
           <1>18, <1>19 DEF Next, InstallStep, UndoStep, RecoverStep

-----------------------------------------------------------------------------
(* The journal, the task and the crasher                                   *)

LEMMA JournalNext ==
  ASSUME TypesOK, JournalOK, TaskOK, Next
  PROVE  JournalOK'
<1> USE Values DEF JournalOK, Goto, InstallPcs, UndoPcs, RecoverPcs, Recovering
<1>1. ASSUME NEW u \in Uploads, Stage(u) \/ Discard(u) PROVE JournalOK'
  BY <1>1 DEF Stage, Discard, processVars
<1>2. ASSUME NEW u \in Uploads, InstallBegin(u) PROVE JournalOK'
  BY <1>2, InstallBeginStep
<1>3. CASE WriteJournal
  <2>1. /\ JournalOf(task).upload = task.upload /\ JournalOf(task).old = task.old
        /\ TornJournal(task).upload = task.upload /\ TornJournal(task).old = task.old
    BY JournalOfType, TornJournalOfType DEF TypesOK
  <2> QED BY <1>3, <2>1, WriteJournalStep
<1>4. CASE Deny \/ MoveAside \/ Prepare \/ Place
  BY <1>4, SavingSteps DEF MoveAside, Prepare, Place, diskVars, historyVars
<1>5. CASE Load \/ Enable \/ Tidy \/ Commit \/ Clean
  BY <1>5 DEF Load, Enable, Tidy, Commit, Clean, diskVars
<1>6. CASE UndoDir \/ UndoFiles \/ UndoDeny \/ UndoJournal \/ UndoBackup \/ Reload
  BY <1>6, SavingSteps DEF UndoDir, UndoFiles, UndoJournal, UndoBackup, Reload, diskVars, historyVars
<1>7. CASE Restart \/ StageRename \/ StartLoad \/ AdminDisable \/ DisableSaved \/ AdminEnable \/ AdminReload \/ Idle
  BY <1>7, SavingSteps DEF Restart, StageRename, StartLoad, AdminDisable, AdminEnable, AdminReload,
     Idle, diskVars, processVars, vars, historyVars
<1>8. CASE RecoverBegin
  BY <1>8 DEF RecoverBegin, TypesOK, JournalType, JournalOf
<1>9. CASE RecoverDir \/ RecoverFiles \/ RecoverDeny \/ RecoverBackup \/ RecoverMark \/ RecoverJournal
  BY <1>9 DEF RecoverDir, RecoverFiles, RecoverDeny, RecoverBackup, RecoverMark, RecoverJournal, RecoverGivesUp,
     diskVars
<1>10. CASE Crash
  BY <1>10, TornJournalOfType DEF Crash, TypesOK, TaskOK, Working
<1> QED BY <1>1, <1>2, <1>3, <1>4, <1>5, <1>6, <1>7, <1>8, <1>9, <1>10 DEF Next, InstallStep, UndoStep, RecoverStep

LEMMA TaskNext ==
  ASSUME TypesOK, JournalOK, TaskOK, Next
  PROVE  TaskOK'
<1> USE Values DEF TaskOK, Goto, Working, InstallPcs, UndoPcs, RecoverPcs, Recovering
<1>1. ASSUME NEW u \in Uploads, Stage(u) \/ Discard(u) PROVE TaskOK'
  BY <1>1 DEF Stage, Discard, processVars
<1>2. ASSUME NEW u \in Uploads, InstallBegin(u) PROVE TaskOK'
  <2>1. task'.old \in dirs \cup {Bundled, Nil}
    BY <1>2, InstallBeginStep, ExistingIsVersion
  <2> QED BY <1>2, <2>1, InstallBeginStep
<1>3. CASE WriteJournal
  BY <1>3, WriteJournalStep DEF WriteJournal
<1>4. CASE Deny \/ MoveAside \/ Prepare \/ Place
  BY <1>4, SavingSteps DEF MoveAside, Moving, Prepare, Place, diskVars, historyVars
<1>5. CASE Load \/ Enable \/ Tidy \/ Commit \/ Clean
  BY <1>5 DEF Load, Enable, Tidy, Commit, Clean, diskVars
<1>6. CASE UndoDir \/ UndoFiles \/ UndoDeny \/ UndoJournal \/ UndoBackup
  BY <1>6, SavingSteps DEF UndoDir, UndoFiles, UndoJournal, UndoBackup, diskVars, historyVars
<1>7. CASE Reload
  <2>1. pc = "reload" /\ pc' = "idle" /\ loaded' \in {task.old, Nil} /\ UNCHANGED dirs
    BY <1>7 DEF Reload, PreviousPath, diskVars
  <2>2. task.old \in Uploads \cup {Bundled, Nil}
    BY DEF TypesOK, Tasks, Versions
  <2>3. loaded' \in dirs' \cup {Bundled, Nil}
    BY <2>1, <2>2
  <2> QED BY <2>1, <2>3
<1>8. CASE Restart \/ StageRename \/ StartLoad
  BY <1>8 DEF Restart, StageRename, StartLoad, OnDisk, UploadedCopies, diskVars
<1>9. CASE AdminDisable \/ DisableSaved \/ AdminEnable \/ AdminReload \/ Crash \/ Idle
  BY <1>9, SavingSteps DEF AdminDisable, AdminEnable, AdminReload, Crash, Idle, OnDisk, UploadedCopies,
     diskVars, processVars, vars, historyVars
<1>10. CASE RecoverBegin
  BY <1>10 DEF RecoverBegin, JournalOK
<1>11. CASE RecoverDir \/ RecoverFiles \/ RecoverDeny \/ RecoverBackup \/ RecoverMark \/ RecoverJournal
  BY <1>11 DEF RecoverDir, RecoverFiles, RecoverDeny, RecoverBackup, RecoverMark, RecoverJournal, RecoverGivesUp
<1> QED BY <1>1, <1>2, <1>3, <1>4, <1>5, <1>6, <1>7, <1>8, <1>9, <1>10, <1>11 DEF Next, InstallStep, UndoStep,
           RecoverStep

LEMMA DenyNext ==
  ASSUME TypesOK, DenyOK, Next
  PROVE  DenyOK'
<1> USE DEF DenyOK, Goto
<1>1. CASE Deny \/ UndoDeny \/ DisableSaved
  <2>1. CASE UndoDeny /\ ~task.wasDenied
    <3>1. pc' = "undo_journal" /\ DropName
      BY <2>1 DEF UndoDeny
    <3>2. ~cut
      BY <2>1 DEF UndoDeny
    <3> QED BY <3>1, <3>2, DropNameStep
  <2>2. CASE ~(UndoDeny /\ ~task.wasDenied)
    <3>1. Deny => AddName("aside") /\ pc = "deny"
      BY Zenon DEF Deny, DenyWhileLoading
    <3>2. UndoDeny => AddName("undo_journal") /\ task.wasDenied
      BY <2>2, Zenon DEF UndoDeny
    <3>3. DisableSaved => AddName("idle") /\ pc = "disable"
      BY Zenon DEF DisableSaved
    <3>4. PICK next \in {"aside", "undo_journal", "idle"} : AddName(next)
      BY <1>1, <3>1, <3>2, <3>3
    <3>5. cut' => UNCHANGED <<pc, task>> /\ (pc = "undo_deny" => task.wasDenied)
      BY <1>1, <2>2, <3>4, AddNameStep, SavingSteps
    <3> QED BY <1>1, <3>4, <3>5, AddNameStep, SavingSteps
  <2> QED BY <2>1, <2>2
<1>2. CASE Enable \/ RecoverDeny \/ AdminEnable
  BY <1>2, DropNameStep DEF Enable, RecoverDeny, AdminEnable, denyVars
<1>3. CASE Restart \/ Crash
  BY <1>3 DEF Restart, Crash
<1>4. CASE UNCHANGED denyVars
  BY <1>1, <1>3, <1>4, SavingPcs DEF denyVars
<1> QED BY <1>1, <1>2, <1>3, <1>4, DenyVarsKept

LEMMA CrasherNext ==
  ASSUME TypesOK, JournalOK, TaskOK, DenyOK, CrasherOK, Next
  PROVE  CrasherOK'
<1> USE Values DEF CrasherOK, Goto, InstallPcs, UndoPcs
<1>1. ASSUME NEW u \in Uploads, Stage(u) \/ Discard(u) PROVE CrasherOK'
  BY <1>1 DEF Stage, Discard, denyVars, processVars, historyVars
<1>2. ASSUME NEW u \in Uploads, InstallBegin(u) PROVE CrasherOK'
  <2>1. task'.old \in dirs \cup {Bundled, Nil}
    BY <1>2, InstallBeginStep, ExistingIsVersion
  <2>2. crasher' = IF crasher = u THEN Nil ELSE crasher
    BY <1>2 DEF InstallBegin
  <2> QED BY <1>2, <2>1, <2>2, InstallBeginStep DEF TypesOK
<1>3. CASE WriteJournal
  <2>1. /\ JournalOf(task).upload = task.upload /\ JournalOf(task).old = task.old
        /\ TornJournal(task).upload = task.upload /\ TornJournal(task).old = task.old
    BY JournalOfType, TornJournalOfType DEF TypesOK
  <2> QED BY <1>3, <2>1, WriteJournalStep DEF WriteJournal, historyVars
<1>4. CASE Deny \/ MoveAside \/ Prepare \/ Place
  BY <1>4, SavingSteps DEF MoveAside, Prepare, Place, historyVars, diskVars
<1>5. CASE Load \/ Enable \/ Tidy \/ Commit \/ Clean
  BY <1>5 DEF Load, Enable, Tidy, Commit, Clean, diskVars, historyVars
<1>6. CASE UndoDir \/ UndoFiles \/ UndoDeny \/ UndoJournal \/ UndoBackup \/ Reload
  BY <1>6, SavingSteps DEF UndoDir, UndoFiles, UndoJournal, UndoBackup, Reload, PreviousPath, diskVars,
     historyVars
<1>7. CASE Restart \/ StageRename \/ StartLoad
  BY <1>7 DEF Restart, StageRename, StartLoad, OnDisk, UploadedCopies, diskVars, denyVars, historyVars, TypesOK
<1>8. CASE AdminDisable \/ DisableSaved \/ AdminEnable \/ AdminReload \/ Idle
  BY <1>8, SavingSteps DEF AdminDisable, AdminEnable, AdminReload, Idle, diskVars, denyVars, processVars,
     historyVars, vars
<1>9. CASE Crash
  <2>1. crasher' = IF pc = "load" THEN task.upload ELSE crasher
    BY <1>9 DEF Crash
  <2>2. pc' = "down" /\ UNCHANGED <<dirs, denied>> /\ unsaved' = (unsaved \/ cut)
    BY <1>9, Zenon DEF Crash
  <2>3. journal' = journal \/ (pc = "journal" /\ journal'.old = task.old)
    BY <1>9, TornJournalOfType DEF Crash, TypesOK
  <2>4. CASE pc = "load"
    <3>1. journal.upload = task.upload /\ journal.old = task.old /\ task.old # task.upload
      BY <2>4, JournalOfType DEF JournalOK, TypesOK, TaskOK, Working
    <3>2. denied \/ unsaved
      BY <2>4 DEF DenyOK
    <3> QED BY <2>1, <2>2, <2>3, <2>4, <3>1, <3>2
  <2>5. CASE pc # "load" /\ crasher # Nil
    <3>1. journal'.old # crasher
      BY <2>3, <2>5
    <3>2. names => denied \/ unsaved \/ cut
      BY DEF DenyOK
    <3>3. crasher \notin dirs \/ (journal' = journal /\ journal.upload = crasher /\ (denied \/ unsaved \/ cut))
      BY <2>3, <2>5, <3>2
    <3> QED BY <2>1, <2>2, <2>5, <3>1, <3>3
  <2> QED BY <2>1, <2>4, <2>5
<1>10. CASE RecoverBegin \/ RecoverDir \/ RecoverFiles \/ RecoverDeny
  BY <1>10 DEF RecoverBegin, RecoverDir, RecoverFiles, RecoverDeny, RecoverGivesUp, diskVars, denyVars, historyVars,
     JournalOK, JournalOf, Recovering, RecoverPcs
<1>11. CASE RecoverBackup \/ RecoverMark \/ RecoverJournal
  BY <1>11 DEF RecoverBackup, RecoverMark, RecoverJournal, RecoverGivesUp, historyVars
<1> QED BY <1>1, <1>2, <1>3, <1>4, <1>5, <1>6, <1>7, <1>8, <1>9, <1>10, <1>11 DEF Next, InstallStep, UndoStep,
           RecoverStep

-----------------------------------------------------------------------------
(* The files                                                               *)

(* The copy an install replaces is the committed one: with no journal, an  *)
(* idle server has that one on disk and no other, and loads from there.    *)
LEMMA ReplacesCurrent ==
  ASSUME TypesOK, TaskOK, DiskOK, LoadedOK, pc = "idle", journal = NoJournal, NEW old \in Existing
  PROVE  Replaces(old) /\ (old = Bundled => bundled)
<1>1. UploadedCopies = IF current = Nil THEN {} ELSE {current}
  <2>1. \A d \in Uploads : home[d][Library] = IF d = current THEN d ELSE Nil
    BY Values DEF DiskOK, Settled, Library, Parts
  <2>2. current # Nil => current \in Uploads /\ home[current] = Files(current) /\ Files(current) # Empty
    BY Values DEF DiskOK, Settled, TypesOK
  <2>3. current # Nil => current \in dirs
    BY <2>2 DEF DiskOK
  <2> QED BY <2>1, <2>2, <2>3, Values DEF UploadedCopies, TypesOK
<1>2. OnDisk = IF current # Nil THEN {current} ELSE IF bundled THEN {Bundled} ELSE {}
  BY <1>1 DEF OnDisk
<1>3. loaded # Nil => loaded \in OnDisk
  BY DEF LoadedOK
<1>4. old \in {loaded} \cup OnDisk \cup {Nil} /\ (loaded # Nil => old = loaded)
  BY ExistingIsVersion
<1>5. OnDisk # {} => old \in OnDisk
  BY <1>3, <1>4 DEF Existing
<1>6. old \in OnDisk \cup {Nil}
  BY <1>3, <1>4
<1> QED BY <1>2, <1>5, <1>6, Values DEF Replaces, TypesOK

LEMMA StepNext ==
  ASSUME TypesOK, JournalOK, TaskOK, StepOK, DiskOK, LoadedOK, Next, ~tainted'
  PROVE  StepOK'
<1> USE Values DEF StepOK, Goto, InstallPcs, UndoPcs, RecoverPcs, Recovering, Replacing, Replaces, AtHome, SetAside,
        Kept, Moved, Before, After, NewEmpty
<1>1. ASSUME NEW u \in Uploads, Stage(u) \/ Discard(u) PROVE StepOK'
  BY <1>1 DEF Stage, Discard, processVars
<1>2. ASSUME NEW u \in Uploads, InstallBegin(u) PROVE StepOK'
  <2>1. Replaces(task'.old)
    BY <1>2, InstallBeginStep, ReplacesCurrent
  <2>2. backup[u] = Empty /\ home[u] = Empty /\ u # current
    <3>1. u \notin dirs /\ journal = NoJournal
      BY <1>2, InstallBeginStep
    <3>2. backup[u] = Empty
      BY <1>2 DEF InstallBegin
    <3> QED BY <3>1, <3>2 DEF DiskOK, Settled
  <2> QED BY <1>2, <2>1, <2>2, InstallBeginStep DEF DiskOK, Settled, TypesOK
<1>3. CASE WriteJournal
  BY <1>3, WriteJournalStep DEF WriteJournal, historyVars, TypesOK
<1>4. CASE Deny \/ Prepare
  BY <1>4, SavingSteps DEF Prepare, historyVars, JournalOK, Parts, diskVars
<1>14. CASE Load \/ Enable \/ Tidy
  BY <1>14 DEF Load, Enable, Tidy, diskVars, historyVars, JournalOK
<1>5. CASE MoveAside
  BY <1>5 DEF MoveAside, Moving, MoveFile, Parts, historyVars, JournalOK, TypesOK, FileSets
<1>6. CASE Place
  BY <1>6 DEF Place, Parts, Files, historyVars, JournalOK, TypesOK, FileSets
<1>7. CASE Commit \/ Clean
  BY <1>7 DEF Commit, Clean
<1>8. CASE UndoDir \/ UndoDeny \/ UndoJournal \/ UndoBackup \/ Reload
  BY <1>8, SavingSteps DEF UndoDir, UndoJournal, UndoBackup, Reload, diskVars, historyVars, Parts, TypesOK,
     FileSets
<1>9. CASE UndoFiles
  BY <1>9 DEF UndoFiles, Moving, InBackup, RestoreFile, MoveFile, Parts, historyVars, TypesOK, FileSets
<1>10. CASE RecoverBegin
  BY <1>10 DEF RecoverBegin, historyVars, DiskOK, JournalOK
<1>11. CASE RecoverFiles
  BY <1>11 DEF RecoverFiles, RecoverGivesUp, Moving, InBackup, RestoreFile, MoveFile, Parts, historyVars, TypesOK,
     FileSets
<1>12. CASE RecoverDir \/ RecoverDeny \/ RecoverBackup \/ RecoverMark \/ RecoverJournal
  BY <1>12 DEF RecoverDir, RecoverDeny, RecoverBackup, RecoverMark, RecoverJournal, RecoverGivesUp, diskVars,
     historyVars, Parts, TypesOK, FileSets
<1>13. CASE Restart \/ StageRename \/ StartLoad \/ AdminDisable \/ DisableSaved \/ AdminEnable \/ AdminReload \/ Crash \/ Idle
  BY <1>13, SavingSteps DEF Restart, StageRename, StartLoad, AdminDisable, AdminEnable, AdminReload, Crash,
     Idle, diskVars, processVars, historyVars, vars
<1> QED BY <1>1, <1>2, <1>3, <1>4, <1>5, <1>6, <1>7, <1>8, <1>9, <1>10, <1>11, <1>12, <1>13, <1>14 DEF Next,
           InstallStep, UndoStep, RecoverStep

LEMMA DiskNext ==
  ASSUME TypesOK, JournalOK, TaskOK, StepOK, DiskOK, Next, ~tainted'
  PROVE  DiskOK'
<1> USE Values DEF DiskOK, Settled, Replacing, Replaces, AtHome, SetAside, Kept, Moved, NewEmpty
<1>0. CASE UNCHANGED <<dirs, home, backup, journal, current>>
  BY <1>0
<1>1. ASSUME NEW u \in Uploads, Discard(u) PROVE DiskOK'
  BY <1>1 DEF Discard, historyVars
<1>2. CASE WriteJournal
  <2>1. /\ JournalOf(task).upload = task.upload /\ JournalOf(task).old = task.old
        /\ TornJournal(task).upload = task.upload /\ TornJournal(task).old = task.old
    BY JournalOfType, TornJournalOfType DEF TypesOK
  <2> QED BY <1>2, <2>1, WriteJournalStep DEF WriteJournal, historyVars, StepOK, InstallPcs
<1>3. CASE MoveAside
  BY <1>3 DEF MoveAside, Moving, MoveFile, Parts, historyVars, JournalOK, JournalOf, StepOK, InstallPcs, TypesOK,
     FileSets, Before, After
<1>4. CASE Prepare \/ Tidy
  BY <1>4 DEF Prepare, Tidy, historyVars
<1>5. CASE Place
  BY <1>5 DEF Place, Parts, historyVars, JournalOK, JournalOf, StepOK, TaskOK, InstallPcs, TypesOK, FileSets
<1>6. CASE Commit
  BY <1>6 DEF Commit, Parts, StepOK, TaskOK, InstallPcs, TypesOK, FileSets, Files, Empty
<1>7. CASE Clean
  BY <1>7 DEF Clean, StepOK
<1>8. CASE UndoDir \/ RecoverDir
  BY <1>8 DEF UndoDir, RecoverDir, StepOK, UndoPcs, Recovering, RecoverPcs, historyVars, TypesOK, FileSets,
     JournalOK, JournalOf, Parts
<1>9. CASE UndoFiles \/ RecoverFiles
  <2>0. pc \in {"undo_files", "rec_files"} /\ Replacing(task.upload, task.old)
    BY <1>9 DEF UndoFiles, RecoverFiles, StepOK, UndoPcs, Recovering, RecoverPcs
  <2>1. CASE Moving /\ InBackup /\ task.old \in dirs /\ RestoreFile
    <3>1. /\ task.upload \in Uploads /\ task.old = current /\ part \in Parts /\ current \in dirs
          /\ task.upload # current /\ SetAside(task.upload, part)
      BY <2>0, <2>1 DEF Moving, InBackup
    <3>2. journal \in {JournalOf(task), TornJournal(task)}
      <4>1. home[current][part] = Nil /\ Files(current)[part] = current /\ current # Nil
        BY <2>1, <3>1 DEF Moving, TypesOK
      <4>2. journal # NoJournal
        BY <3>1, <4>1 DEF TypesOK
      <4>3. pc = "undo_files" => journal \in {NoJournal, JournalOf(task), TornJournal(task)}
        BY DEF StepOK, UndoPcs
      <4>4. pc = "rec_files" => journal = JournalOf(task)
        BY DEF JournalOK, Recovering, RecoverPcs
      <4> QED BY <2>0, <4>2, <4>3, <4>4
    <3>3. /\ backup' = [backup EXCEPT ![task.upload][part] = Nil]
          /\ home' = [home EXCEPT ![current][part] = current]
          /\ UNCHANGED <<dirs, journal, current>>
      BY <1>9, <2>1, <3>1 DEF UndoFiles, RecoverFiles, RestoreFile, MoveFile, historyVars
    <3>4. journal.upload = task.upload /\ journal.old = task.old
      BY <3>2, JournalOfType, TornJournalOfType DEF TypesOK
    <3> QED BY <3>1, <3>3, <3>4 DEF TypesOK, FileSets, Parts
  <2>2. UndoFiles /\ Moving => task.old \in dirs
    BY DEF UndoFiles, Moving, TaskOK, UndoPcs
  <2> QED BY <1>0, <1>9, <2>1, <2>2 DEF UndoFiles, RecoverFiles, historyVars
<1>10. CASE UndoJournal \/ RecoverJournal
  <2>1. NewEmpty /\ Kept(Parts) /\ Replacing(task.upload, task.old)
    BY <1>10 DEF UndoJournal, RecoverJournal, StepOK, UndoPcs, Recovering, RecoverPcs
  <2>2. current # Nil => home[current] = Files(current)
    BY <2>1, ByParts DEF TypesOK, Files
  <2>3. Settled
    BY <2>1, <2>2
  <2>4. journal' \in {journal, NoJournal} /\ UNCHANGED <<dirs, home, backup, current>>
    BY <1>10 DEF UndoJournal, RecoverJournal, historyVars
  <2> QED BY <2>3, <2>4
<1>11. CASE UndoBackup \/ RecoverBackup
  BY <1>11 DEF UndoBackup, RecoverBackup, StepOK, UndoPcs, Recovering, RecoverPcs, historyVars, TypesOK, FileSets,
     JournalOK, JournalOf, Parts
<1>12. ASSUME NEW u \in Uploads, Stage(u) \/ InstallBegin(u) PROVE UNCHANGED <<dirs, home, backup, journal, current>>
  BY <1>12 DEF Stage, InstallBegin, diskVars, historyVars
<1>13. CASE StageRename \/ Deny \/ Load \/ Enable \/ UndoDeny \/ Reload \/ Restart \/ RecoverBegin \/ RecoverDeny
            \/ RecoverMark \/ StartLoad \/ AdminDisable \/ DisableSaved \/ AdminEnable \/ AdminReload \/ Idle
  <2>1. UNCHANGED <<dirs, home, backup, journal, current>>
    BY <1>13, SavingSteps DEF StageRename, Load, Enable, Reload, Restart, RecoverBegin, RecoverDeny, RecoverMark,
       StartLoad, AdminDisable, AdminEnable, AdminReload, Idle, diskVars, historyVars, vars
  <2> QED BY <1>0, <2>1
<1>14. CASE Crash
  <2>1. UNCHANGED <<dirs, home, backup, current>>
    BY <1>14 DEF Crash
  <2>2. CASE UNCHANGED journal
    BY <1>0, <2>1, <2>2
  <2>3. CASE pc = "journal" /\ journal' = TornJournal(task)
    <3>1. journal'.upload = task.upload /\ journal'.old = task.old
      BY <2>3, TornJournalOfType DEF TypesOK
    <3>2. Replacing(task.upload, task.old)
      BY <2>3 DEF StepOK, InstallPcs
    <3> QED BY <2>1, <3>1, <3>2
  <2> QED BY <1>14, <2>2, <2>3 DEF Crash
<1> QED BY <1>0, <1>1, <1>2, <1>3, <1>4, <1>5, <1>6, <1>7, <1>8, <1>9, <1>10, <1>11, <1>12, <1>13, <1>14 DEF Next,
           InstallStep, UndoStep, RecoverStep

LEMMA LoadedNext ==
  ASSUME TypesOK, JournalOK, TaskOK, StepOK, DiskOK, LoadedOK, Next, ~tainted'
  PROVE  LoadedOK'
<1> USE Values DEF LoadedOK, Goto, InstallPcs, UndoPcs
<1>1. ASSUME NEW u \in Uploads, Stage(u) \/ Discard(u) PROVE LoadedOK'
  BY <1>1 DEF Stage, Discard, processVars, OnDisk, UploadedCopies
<1>2. ASSUME NEW u \in Uploads, InstallBegin(u) PROVE LoadedOK'
  <2>1. task'.old = Bundled => bundled
    BY <1>2, InstallBeginStep, ReplacesCurrent
  <2>2. task'.wasLoaded => task'.old # Nil
    BY <1>2, InstallBeginStep, ExistingIsVersion
  <2> QED BY <1>2, <2>1, <2>2, InstallBeginStep
<1>3. CASE WriteJournal
  BY <1>3, WriteJournalStep DEF WriteJournal
<1>4. CASE Deny \/ MoveAside \/ Prepare \/ Place \/ Load \/ Enable \/ Tidy \/ Commit
  BY <1>4, SavingSteps DEF MoveAside, Prepare, Place, Load, Enable, Tidy, Commit, diskVars, historyVars
<1>5. CASE Clean
  <2>1. pc = "clean" /\ journal = NoJournal /\ current = task.upload /\ loaded = current /\ current \in dirs
    BY <1>5 DEF Clean, StepOK, TaskOK
  <2>2. current \in Uploads /\ home[current] = Files(current)
    BY <2>1 DEF DiskOK, Settled, TypesOK
  <2>3. current \in UploadedCopies
    BY <2>1, <2>2 DEF UploadedCopies, Library, Parts
  <2>4. UNCHANGED <<dirs, home, bundled, loaded>> /\ (pc' = "idle" \/ UNCHANGED <<pc, task>>)
    BY <1>5 DEF Clean
  <2> QED BY <2>1, <2>3, <2>4 DEF OnDisk, UploadedCopies
<1>6. CASE UndoDir \/ UndoFiles \/ UndoDeny \/ UndoJournal \/ UndoBackup
  BY <1>6, SavingSteps DEF UndoDir, UndoFiles, UndoJournal, UndoBackup, TaskOK, diskVars, historyVars
<1>7. CASE Reload
  <2>1. /\ pc = "reload" /\ NewEmpty /\ Kept(Parts) /\ Replacing(task.upload, task.old)
        /\ (task.old \in Uploads => task.old \in dirs) /\ (task.old = Bundled => bundled)
    BY <1>7 DEF Reload, StepOK, TaskOK
  <2>2. task.old \in Uploads => task.old \in UploadedCopies
    BY <2>1 DEF Kept, AtHome, Replacing, Replaces, UploadedCopies, Library, Parts
  <2>3. task.old = Bundled => UploadedCopies = {}
    <3>1. task.old = Bundled => current = Nil
      BY <2>1 DEF Replacing, Replaces, TypesOK
    <3>2. current = Nil => \A d \in Uploads : home[d] = Empty
      BY <2>1 DEF NewEmpty, Replacing
    <3> QED BY <3>1, <3>2 DEF UploadedCopies, Library, Parts, TypesOK
  <2>4. loaded' \in {task.old, Nil} /\ pc' = "idle" /\ UNCHANGED <<dirs, home, bundled>>
    BY <1>7 DEF Reload, PreviousPath, diskVars
  <2>5. task.old \in Uploads \cup {Bundled, Nil}
    BY DEF TypesOK, Tasks, Versions
  <2>6. loaded' # Nil => loaded' \in OnDisk
    BY <2>1, <2>2, <2>3, <2>4, <2>5 DEF OnDisk
  <2> QED BY <2>4, <2>6 DEF OnDisk, UploadedCopies
<1>8. CASE RecoverBegin \/ RecoverDir \/ RecoverFiles \/ RecoverDeny \/ RecoverBackup \/ RecoverMark \/ RecoverJournal
  BY <1>8 DEF RecoverBegin, RecoverDir, RecoverFiles, RecoverDeny, RecoverBackup, RecoverMark, RecoverJournal,
     RecoverGivesUp
<1>9. CASE Restart \/ StageRename \/ StartLoad
  BY <1>9 DEF Restart, StageRename, StartLoad, OnDisk, UploadedCopies, diskVars
<1>10. CASE AdminDisable \/ DisableSaved \/ Crash
  BY <1>10, SavingSteps DEF AdminDisable, Crash, TaskOK, diskVars
<1>11. CASE AdminEnable \/ AdminReload \/ Idle
  BY <1>11 DEF AdminEnable, AdminReload, Idle, OnDisk, UploadedCopies, diskVars, vars, processVars
<1> QED BY <1>1, <1>2, <1>3, <1>4, <1>5, <1>6, <1>7, <1>8, <1>9, <1>10, <1>11 DEF Next, InstallStep, UndoStep, RecoverStep

LEMMA StaysTainted ==
  ASSUME Next, ~tainted'
  PROVE  ~tainted
<1>1. ASSUME NEW u \in Uploads, Stage(u) \/ Discard(u) \/ InstallBegin(u) PROVE ~tainted
  BY <1>1 DEF Stage, Discard, InstallBegin, historyVars
<1>2. CASE StageRename \/ InstallStep
  BY <1>2 DEF StageRename, InstallStep, WriteJournal, Deny, MoveAside, Prepare, Place, Load, Enable, Tidy, Commit,
     Clean, historyVars
<1>3. CASE UndoStep \/ RecoverStep
  BY <1>3 DEF UndoStep, UndoDir, UndoFiles, UndoDeny, UndoJournal, UndoBackup, Reload, RecoverStep, RecoverBegin,
     RecoverDir, RecoverFiles, RecoverDeny, RecoverBackup, RecoverMark, RecoverJournal, historyVars
<1>4. CASE Restart \/ StartLoad \/ AdminDisable \/ DisableSaved \/ AdminEnable \/ AdminReload \/ Crash \/ Idle
  BY <1>4 DEF Restart, StartLoad, AdminDisable, DisableSaved, AdminEnable, AdminReload, Crash, Idle, historyVars, vars
<1> QED BY <1>1, <1>2, <1>3, <1>4 DEF Next

-----------------------------------------------------------------------------
(* The theorems                                                            *)

LEMMA InstallerInvariance == Spec => []InstallerInv
<1>1. InstallerInv /\ [Next]_vars => InstallerInv'
  <2> SUFFICES ASSUME InstallerInv, [Next]_vars PROVE InstallerInv'
    OBVIOUS
  <2>1. CASE Next
    <3>1. TypesOK /\ JournalOK /\ TaskOK /\ DenyOK /\ CrasherOK /\ (~tainted => StepOK /\ DiskOK /\ LoadedOK)
      BY DEF InstallerInv
    <3>2. TypesOK'
      BY <2>1, PathTypesNext, ProcTypesNext DEF PathTypes, ProcTypes, TypesOK
    <3>3. JournalOK' /\ TaskOK' /\ DenyOK' /\ CrasherOK'
      BY <2>1, <3>1, JournalNext, TaskNext, DenyNext, CrasherNext
    <3>4. ASSUME ~tainted' PROVE (StepOK /\ DiskOK /\ LoadedOK)'
      BY <2>1, <3>1, <3>4, StaysTainted, StepNext, DiskNext, LoadedNext
    <3> QED BY <3>2, <3>3, <3>4 DEF InstallerInv
  <2>2. CASE UNCHANGED vars
    BY <2>2 DEF vars, diskVars, denyVars, processVars, historyVars, InstallerInv, TypesOK, DenyTypes, JournalOK, TaskOK, DenyOK, CrasherOK,
       StepOK, DiskOK, LoadedOK, Settled, Replacing, Replaces, AtHome, SetAside, Kept, Moved, Before, After, NewEmpty,
       OnDisk, UploadedCopies
  <2> QED BY <2>1, <2>2
<1> QED BY <1>1, InitInstaller, PTL DEF Spec

(* Wherever the process dies, in an install, its rollback or a recovery,   *)
(* and whichever file operations fail, every file of the version committed *)
(* last is in its directory or in the previous/ the journal points at.     *)
THEOREM CommittedVersionSurvives == Spec => []Recoverable
<1>1. InstallerInv => Recoverable
  <2> SUFFICES ASSUME InstallerInv, ~tainted, current # Nil, NEW p \in Parts
               PROVE  \/ home[current][p] = current
                      \/ journal.old = current /\ backup[journal.upload][p] = current
    BY DEF Recoverable
  <2>1. DiskOK /\ current \in Uploads
    BY DEF InstallerInv, TypesOK
  <2>2. CASE journal = NoJournal
    BY <2>1, <2>2, Values DEF DiskOK, Settled
  <2>3. CASE journal # NoJournal
    BY <2>1, <2>3 DEF DiskOK, Replacing, Replaces, AtHome, SetAside
  <2> QED BY <2>2, <2>3
<1> QED BY <1>1, InstallerInvariance, PTL

(* An idle server without a journal has exactly the version committed      *)
(* last, whole, and what it has loaded is on disk where it was loaded      *)
(* from, for any number of uploads, failures and crashes.                  *)
THEOREM InstalledIsCommitted == Spec => []CommittedVersionInstalled
<1>1. InstallerInv => CommittedVersionInstalled
  BY DEF InstallerInv, DiskOK, Settled, LoadedOK, CommittedVersionInstalled
<1> QED BY <1>1, InstallerInvariance, PTL

(* A version whose loading killed the server is not loaded at a later      *)
(* start, also when its install could not be rolled back, unless the file  *)
(* of the denylist lost an entry.                                          *)
THEOREM CrasherStaysOff == Spec => CrasherNotReloaded
<1>1. InstallerInv /\ [Next]_vars => [pc = "start" /\ loaded' # Nil => unsaved \/ loaded' # crasher]_vars
  <2> SUFFICES ASSUME InstallerInv, Next, pc = "start", loaded' # Nil, ~unsaved PROVE loaded' # crasher
    BY DEF vars
  <2>1. loaded = Nil /\ CrasherOK /\ TypesOK
    BY DEF InstallerInv, TaskOK, InstallPcs
  <2>2. StartLoad
    BY <2>1, SavingSteps DEF Next, InstallStep, UndoStep, RecoverStep, Stage, Discard, InstallBegin, StageRename,
       WriteJournal, MoveAside, Prepare, Place, Load, Enable, Tidy, Commit, Clean, UndoDir, UndoFiles, UndoJournal,
       UndoBackup, Reload, Restart, RecoverBegin, RecoverDir, RecoverFiles, RecoverDeny, RecoverBackup, RecoverMark,
       RecoverJournal, AdminDisable, AdminEnable, AdminReload, Crash, Idle
  <2>3. ~names /\ loaded' \in dirs \cup {Bundled}
    BY <2>2 DEF StartLoad, OnDisk, UploadedCopies
  <2> QED BY <2>1, <2>3, Values DEF CrasherOK, TypesOK
<1> QED BY <1>1, InstallerInvariance, PTL DEF Spec, CrasherNotReloaded

-----------------------------------------------------------------------------
(* The remaining types                                                     *)

UploadTypes == upload \in [Uploads -> {"new", "tmp", "staged", "gone"}] /\ marked \subseteq Uploads
BoundTypes  == faults \in 0..MaxFaults /\ crashes \in 0..MaxCrashes
FlagTypes   == bundled \in BOOLEAN /\ off \in BOOLEAN /\ tainted \in BOOLEAN
Placed      == \A u \in Uploads : home[u] # Empty => u \in dirs
RestOK      == UploadTypes /\ BoundTypes /\ FlagTypes /\ Placed

LEMMA SaveFaults ==
  ASSUME BoundTypes, DropName \/ \E next \in Pcs : AddName(next)
  PROVE  faults' \in 0..MaxFaults
<1>1. faults' = faults \/ (faults < MaxFaults /\ faults' = faults + 1)
  BY Zenon DEF DropName, AddName, Fault
<1> QED BY <1>1, BoundsAssumption DEF BoundTypes

LEMMA UploadsNext ==
  ASSUME InstallerInv, RestOK, Next
  PROVE  UploadTypes' /\ BoundTypes'
<1> USE BoundsAssumption DEF RestOK, UploadTypes, BoundTypes, Fault
<1>1. ASSUME NEW u \in Uploads, Stage(u) \/ Discard(u) \/ InstallBegin(u) PROVE UploadTypes' /\ BoundTypes'
  BY <1>1 DEF Stage, Discard, InstallBegin, diskVars
<1>2. CASE StageRename
  BY <1>2 DEF StageRename
<1>3. CASE WriteJournal \/ MoveAside \/ Prepare \/ Place \/ Load \/ Tidy \/ Commit
  BY <1>3 DEF WriteJournal, MoveAside, Prepare, Place, Load, Tidy, Commit, diskVars
<1>4. CASE Clean
  BY <1>4 DEF Clean
<1>5. CASE UndoDir \/ UndoFiles \/ UndoJournal \/ UndoBackup \/ Reload
  BY <1>5 DEF UndoDir, UndoFiles, UndoJournal, UndoBackup, Reload, diskVars
<1>6. CASE RecoverBegin
  BY <1>6 DEF RecoverBegin
<1>7. CASE RecoverMark
  <2>1. task.upload \in Uploads
    BY <1>7 DEF RecoverMark, InstallerInv, TaskOK, Working, Recovering, RecoverPcs
  <2> QED BY <1>7, <2>1 DEF RecoverMark
<1>8. CASE RecoverDir \/ RecoverFiles \/ RecoverBackup \/ RecoverJournal
  BY <1>8 DEF RecoverDir, RecoverFiles, RecoverBackup, RecoverJournal
<1>9. CASE Restart \/ StartLoad \/ AdminDisable \/ AdminReload \/ Crash \/ Idle
  BY <1>9 DEF Restart, StartLoad, AdminDisable, AdminReload, Crash, Idle, diskVars, vars
<1>10. CASE Deny \/ UndoDeny \/ DisableSaved \/ Enable \/ RecoverDeny \/ AdminEnable
  <2>1. UNCHANGED <<upload, marked, crashes>>
    BY <1>10, Zenon DEF Deny, UndoDeny, DisableSaved, Enable, RecoverDeny, AdminEnable, diskVars
  <2>2. faults' = faults \/ DropName \/ \E next \in {"aside", "undo_journal", "idle"} : AddName(next)
    <3>1. UNCHANGED <<denyVars, faults>> => faults' = faults
      BY Zenon
    <3> QED BY <1>10, <3>1, Zenon DEF Deny, DenyWhileLoading, UndoDeny, DisableSaved, Enable, RecoverDeny, AdminEnable
  <2>3. {"aside", "undo_journal", "idle"} \subseteq Pcs
    BY DEF Pcs, InstallPcs, UndoPcs
  <2> QED BY <2>1, <2>2, <2>3, SaveFaults
<1> QED BY <1>1, <1>2, <1>3, <1>4, <1>5, <1>6, <1>7, <1>8, <1>9, <1>10 DEF Next, InstallStep, UndoStep, RecoverStep

LEMMA FlagsNext ==
  ASSUME RestOK, Next
  PROVE  FlagTypes'
<1> USE DEF RestOK, FlagTypes
<1>1. ASSUME NEW u \in Uploads, Stage(u) \/ Discard(u) \/ InstallBegin(u) PROVE FlagTypes'
  BY <1>1, Zenon DEF Stage, Discard, InstallBegin, historyVars
<1>2. CASE StageRename \/ InstallStep
  BY <1>2, Zenon DEF StageRename, InstallStep, WriteJournal, Deny, MoveAside, Prepare, Place, Load, Enable, Tidy, Commit,
     Clean, historyVars
<1>3. CASE UndoStep
  BY <1>3, Zenon DEF UndoStep, UndoDir, UndoFiles, UndoDeny, UndoJournal, UndoBackup, Reload, historyVars
<1>4. CASE RecoverStep
  BY <1>4, Zenon DEF RecoverStep, RecoverBegin, RecoverDir, RecoverFiles, RecoverDeny, RecoverBackup, RecoverMark,
     RecoverJournal, historyVars
<1>5. CASE Restart \/ StartLoad \/ AdminDisable \/ DisableSaved \/ AdminEnable \/ AdminReload \/ Crash \/ Idle
  BY <1>5, Zenon DEF Restart, StartLoad, AdminDisable, DisableSaved, AdminEnable, AdminReload, Crash, Idle, historyVars, vars
<1> QED BY <1>1, <1>2, <1>3, <1>4, <1>5 DEF Next

(* Files are moved only into directories that exist, and a directory is    *)
(* removed only empty or with its files.                                   *)
LEMMA PlacedNext ==
  ASSUME InstallerInv, RestOK, Next
  PROVE  Placed'
<1>0. TypesOK /\ TaskOK /\ Placed
  BY DEF InstallerInv, RestOK
<1> USE <1>0, Values DEF Placed, InstallPcs
<1>1. CASE UNCHANGED <<dirs, home>>
  BY <1>1
<1>2. CASE MoveAside
  BY <1>2 DEF MoveAside, Moving, MoveFile, TaskOK, TypesOK, FileSets
<1>3. CASE Prepare \/ Place \/ Tidy
  BY <1>3 DEF Prepare, Place, Tidy, TaskOK, TypesOK, FileSets
<1>4. CASE UndoDir \/ RecoverDir
  BY <1>4 DEF UndoDir, RecoverDir, TypesOK
<1>5. CASE UndoFiles \/ RecoverFiles
  BY <1>5 DEF UndoFiles, RecoverFiles, Moving, RestoreFile, MoveFile, TaskOK, UndoPcs, TypesOK, FileSets
<1>6. ASSUME NEW u \in Uploads, Stage(u) \/ Discard(u) \/ InstallBegin(u) PROVE UNCHANGED <<dirs, home>>
  BY <1>6 DEF Stage, Discard, InstallBegin, diskVars
<1>7. CASE StageRename \/ WriteJournal \/ Deny \/ Load \/ Enable \/ Commit \/ Clean \/ UndoDeny \/ UndoJournal
           \/ UndoBackup \/ Reload \/ RecoverBegin \/ RecoverDeny \/ RecoverBackup \/ RecoverMark \/ RecoverJournal
           \/ Restart \/ StartLoad \/ AdminDisable \/ DisableSaved \/ AdminEnable \/ AdminReload \/ Crash \/ Idle
  BY <1>1, <1>7, SavingSteps DEF StageRename, WriteJournal, Load, Enable, Commit, Clean, UndoJournal, UndoBackup,
     Reload, RecoverBegin, RecoverDeny, RecoverBackup, RecoverMark, RecoverJournal, Restart, StartLoad, AdminDisable,
     AdminEnable, AdminReload, Crash, Idle, diskVars, vars
<1> QED BY <1>1, <1>2, <1>3, <1>4, <1>5, <1>6, <1>7 DEF Next, InstallStep, UndoStep, RecoverStep

(* Every variable keeps its type, and files are in directories that exist, *)
(* in tainted histories too.                                               *)
THEOREM TypeCorrect == Spec => []TypeOK
<1>1. Init => RestOK
  <2> SUFFICES ASSUME Init PROVE RestOK
    OBVIOUS
  <2>1. FlagTypes
    BY Zenon DEF Init, FlagTypes
  <2>2. UploadTypes /\ BoundTypes /\ Placed
    BY BoundsAssumption DEF Init, UploadTypes, BoundTypes, Placed
  <2> QED BY <2>1, <2>2 DEF RestOK
<1>2. InstallerInv /\ RestOK /\ [Next]_vars => RestOK'
  <2> SUFFICES ASSUME InstallerInv, RestOK, [Next]_vars PROVE RestOK'
    OBVIOUS
  <2>1. CASE Next
    BY <2>1, UploadsNext, FlagsNext, PlacedNext DEF RestOK
  <2>2. CASE UNCHANGED vars
    <3>1. FlagTypes'
      BY <2>2, Zenon DEF RestOK, FlagTypes, vars, historyVars
    <3> QED BY <2>2, <3>1 DEF RestOK, UploadTypes, BoundTypes, Placed, vars, diskVars
  <2> QED BY <2>1, <2>2
<1>3. InstallerInv /\ RestOK => TypeOK
  <2> SUFFICES ASSUME InstallerInv, RestOK PROVE TypeOK
    OBVIOUS
  <2>1. loaded \in Versions
    BY DEF InstallerInv, TypesOK, TaskOK, Versions
  <2>2. /\ bundled \in BOOLEAN /\ off \in BOOLEAN /\ tainted \in BOOLEAN
        /\ denied \in BOOLEAN /\ names \in BOOLEAN /\ cut \in BOOLEAN /\ unsaved \in BOOLEAN
    BY Zenon DEF RestOK, FlagTypes, InstallerInv, TypesOK, DenyTypes
  <2> QED BY <2>1, <2>2 DEF InstallerInv, TypesOK, JournalType, Tasks, RestOK, UploadTypes, BoundTypes, Placed, TypeOK
<1> QED BY <1>1, <1>2, <1>3, InstallerInvariance, PTL DEF Spec
=============================================================================
