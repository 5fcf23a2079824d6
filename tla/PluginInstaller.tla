-------------------------- MODULE PluginInstaller --------------------------
(***************************************************************************)
(* Uploading, installing and recovering one plugin                         *)
(* (core/PluginInstaller.{hpp,cpp}), with the admin operations on it       *)
(* (agent/routes/PluginAdminRoute.hpp) and the server's start (main.cpp).  *)
(*                                                                         *)
(* The lifecycle mutex lets one operation run at a time, so there is one   *)
(* pc; the difficulty is that the process may die between any two changes  *)
(* of the disk, in recovery too, and that file operations fail.  One       *)
(* action is one change of the disk or of the loaded plugin.               *)
(*                                                                         *)
(* All uploads are versions of one plugin: other plugins share only the    *)
(* rule that an unfinished install blocks every other.  A version has two  *)
(* files, its library and its manifest (the provenance file is moved like  *)
(* the manifest).  Signatures, scopes and the downgrade question can only  *)
(* refuse, and a refusal changes nothing.                                  *)
(***************************************************************************)
EXTENDS Integers, FiniteSets

CONSTANTS
  Uploads,     \* upload ids; each is a version and has its own install directory
  Bundled,     \* the copy in plugins.directory
  Nil,         \* no version, no upload
  MaxStaged,   \* options_.max_staged
  MaxFaults,   \* bound: file operations that fail
  MaxCrashes   \* bound: times the process dies

ASSUME NamesAssumption  == Bundled \notin Uploads /\ Nil \notin Uploads /\ Bundled # Nil
ASSUME BoundsAssumption == MaxStaged \in Nat /\ MaxFaults \in Nat /\ MaxCrashes \in Nat

Parts   == 1..2   \* the files of a version, in the order they are moved
Library == 1
Empty   == [p \in Parts |-> Nil]
Files(u) == [p \in Parts |-> u]

VARIABLES
  (* disk *)
  upload,     \* the staging directory of each upload
  marked,     \* uploads with install_crashed_at
  dirs,       \* install directories that exist
  home,       \* files in each install directory: the version each one is of
  backup,     \* files in each upload's previous/
  journal,    \* the install journal, or NoJournal
  denied,     \* the denylist file has the plugin
  (* process *)
  names,      \* the denylist in memory has it
  cut,        \* save() has truncated the file and not yet written it
  pc,
  task,       \* locals of install(), or what recover_one() read from the journal
  part,       \* progress in a loop over the files
  loaded,     \* the directory the manager has loaded the plugin from
  (* environment and history *)
  bundled,    \* plugins.directory has the plugin
  faults, crashes,
  current,    \* the upload whose install was committed last
  off,        \* the admin's last word was Disable
  crasher,    \* the upload whose loading killed the process
  tainted,    \* a silent failure, or an install over a leftover previous/
  unsaved     \* an entry was added to the denylist and is not in the file

diskVars    == <<upload, marked, dirs, home, backup, journal>>
denyVars    == <<denied, names, cut, unsaved>>
processVars == <<pc, task, part, loaded>>
historyVars == <<current, off, crasher, tainted>>
vars == <<diskVars, denyVars, processVars, bundled, faults, crashes, historyVars>>

NoJournal == [upload |-> Nil, old |-> Nil, wasDenied |-> FALSE, whole |-> TRUE]
NoTask == [upload |-> Nil, old |-> Nil, wasDenied |-> FALSE, wasLoaded |-> FALSE,
           journaled |-> FALSE]

InstallPcs == {"journal", "deny", "aside", "prepare", "place", "load",
               "enable", "tidy", "commit", "clean"}
UndoPcs    == {"undo_dir", "undo_files", "undo_deny", "undo_journal", "undo_backup", "reload"}
RecoverPcs == {"recover", "rec_dir", "rec_files", "rec_deny", "rec_backup", "rec_mark",
               "rec_journal"}
Pcs == {"down", "start", "idle", "stage", "disable"} \cup InstallPcs \cup UndoPcs \cup RecoverPcs

Init ==
  /\ upload = [u \in Uploads |-> "new"] /\ marked = {}
  /\ dirs = {} /\ home = [u \in Uploads |-> Empty] /\ backup = [u \in Uploads |-> Empty]
  /\ journal = NoJournal /\ denied = FALSE /\ names = FALSE /\ cut = FALSE
  /\ pc = "start" /\ task = NoTask /\ part = 1 /\ loaded = Nil
  /\ bundled \in BOOLEAN /\ faults = 0 /\ crashes = 0
  /\ current = Nil /\ off = FALSE /\ crasher = Nil /\ tainted = FALSE
  /\ unsaved = FALSE

Fault == faults < MaxFaults /\ faults' = faults + 1

-----------------------------------------------------------------------------
(* PluginSources::scan: an uploaded copy overrides the bundled one.        *)
UploadedCopies == {d \in dirs : home[d][Library] # Nil}
OnDisk ==
  IF UploadedCopies # {} THEN UploadedCopies ELSE IF bundled THEN {Bundled} ELSE {}

(* find_existing(): what is loaded, else what is on disk.                  *)
Existing ==
  IF loaded # Nil THEN {loaded} ELSE IF OnDisk # {} THEN OnDisk ELSE {Nil}

-----------------------------------------------------------------------------
(* stage() and discard()                                                   *)

(* The files are written under a .tmp- name ...                            *)
Stage(u) ==
  /\ pc = "idle" /\ upload[u] = "new"
  /\ Cardinality({v \in Uploads : upload[v] = "staged"}) < MaxStaged
  /\ upload' = [upload EXCEPT ![u] = "tmp"]
  /\ pc' = "stage" /\ task' = [NoTask EXCEPT !.upload = u]
  /\ UNCHANGED <<marked, dirs, home, backup, journal, denyVars, part, loaded, bundled,
                 faults, crashes, historyVars>>

(* ... and renamed into place, or removed when that fails.                 *)
StageRename ==
  /\ pc = "stage"
  /\ \/ upload' = [upload EXCEPT ![task.upload] = "staged"] /\ UNCHANGED faults
     \/ Fault /\ upload' = [upload EXCEPT ![task.upload] = "gone"]
  /\ pc' = "idle" /\ task' = NoTask
  /\ UNCHANGED <<marked, dirs, home, backup, journal, denyVars, part, loaded, bundled,
                 crashes, historyVars>>

Discard(u) ==
  /\ pc = "idle" /\ upload[u] = "staged" /\ journal.upload # u
  /\ upload' = [upload EXCEPT ![u] = "gone"]
  /\ backup' = [backup EXCEPT ![u] = Empty]
  /\ UNCHANGED <<marked, dirs, home, journal, denyVars, processVars, bundled, faults,
                 crashes, historyVars>>

-----------------------------------------------------------------------------
(* install()                                                               *)

Goto(next) == pc' = next /\ part' = 1

(* The checks, the plan and the unloading of the current version.          *)
Unblocked_Unchecked == TRUE
Unblocked == journal = NoJournal
InstallBegin(u) ==
  /\ pc = "idle" /\ upload[u] = "staged"
  /\ Unblocked
  /\ u \notin dirs
  /\ \E old \in Existing :
       task' = [upload |-> u, old |-> old, wasDenied |-> names,
                wasLoaded |-> loaded # Nil, journaled |-> FALSE]
  /\ loaded' = Nil
  /\ Goto("journal")
  /\ crasher' = IF crasher = u THEN Nil ELSE crasher
  /\ tainted' = (tainted \/ backup[u] # Empty)
  /\ UNCHANGED <<diskVars, denyVars, bundled, faults, crashes, current, off>>

JournalOf(t) ==
  [upload |-> t.upload, old |-> t.old, wasDenied |-> t.wasDenied, whole |-> TRUE]
TornJournal(t) == [JournalOf(t) EXCEPT !.whole = FALSE]

(* write_durable can fail before the file exists, in its middle, or after. *)
WriteJournal ==
  /\ pc = "journal"
  /\ \/ /\ journal' = JournalOf(task) /\ task' = [task EXCEPT !.journaled = TRUE]
        /\ Goto("deny") /\ UNCHANGED faults
     \/ /\ Fault /\ journal' \in {journal, JournalOf(task), TornJournal(task)}
        /\ Goto("undo_dir") /\ UNCHANGED task
  /\ UNCHANGED <<upload, marked, dirs, home, backup, denyVars, loaded, bundled, crashes,
                 historyVars>>

(* FilePluginDenylist::add: a new name is saved.  Opening the file empties *)
(* it, and the names are written after that; neither is checked.           *)
AddName(next) ==
  /\ names' = TRUE
  /\ \/ names /\ ~cut /\ Goto(next) /\ UNCHANGED <<denied, cut, unsaved, faults>>
     \/ ~names /\ denied' = FALSE /\ cut' = TRUE /\ UNCHANGED <<pc, part, unsaved, faults>>
     \/ /\ cut /\ denied' = TRUE /\ cut' = FALSE /\ unsaved' = FALSE
        /\ Goto(next) /\ UNCHANGED faults
     \/ /\ ~names \/ cut
        /\ Fault /\ cut' = FALSE /\ unsaved' = TRUE
        /\ Goto(next) /\ UNCHANGED denied

(* FilePluginDenylist::remove: of this plugin the emptied file is already  *)
(* the right one.                                                          *)
DropName ==
  /\ names' = FALSE
  /\ \/ ~names /\ UNCHANGED <<denied, unsaved, faults>>
     \/ names /\ denied' = FALSE /\ unsaved' = FALSE /\ UNCHANGED faults
     \/ names /\ Fault /\ UNCHANGED <<denied, unsaved>>
  /\ UNCHANGED cut

DenyWhileLoading_Forgotten == Goto("aside") /\ UNCHANGED <<denyVars, faults>>
DenyWhileLoading == AddName("aside")

Deny ==
  /\ pc = "deny"
  /\ DenyWhileLoading
  /\ UNCHANGED <<diskVars, task, loaded, bundled, crashes, historyVars>>

(* The files of an uploaded previous version are moved to previous/, one   *)
(* by one; a bundled version is left alone.                                *)
Moving == task.old \in Uploads /\ part \in Parts
MoveFile(from, u, to, v) ==
  /\ from' = [from EXCEPT ![u][part] = Nil]
  /\ to' = [to EXCEPT ![v][part] = from[u][part]]
  /\ part' = part + 1

MoveAside ==
  /\ pc = "aside"
  /\ \/ /\ Moving /\ MoveFile(home, task.old, backup, task.upload)
        /\ UNCHANGED <<pc, faults>>
     \/ Moving /\ Fault /\ Goto("undo_dir") /\ UNCHANGED <<home, backup>>
     \/ ~Moving /\ Goto("prepare") /\ UNCHANGED <<home, backup, faults>>
  /\ UNCHANGED <<upload, marked, dirs, journal, denyVars, task, loaded, bundled, crashes,
                 historyVars>>

(* The new directory, with the files under .part names.                    *)
Prepare ==
  /\ pc = "prepare"
  /\ dirs' = dirs \cup {task.upload}
  /\ \/ Goto("place") /\ UNCHANGED faults
     \/ Fault /\ Goto("undo_dir")
  /\ UNCHANGED <<upload, marked, home, backup, journal, denyVars, task, loaded, bundled,
                 crashes, historyVars>>

Place ==
  /\ pc = "place"
  /\ \/ /\ part \in Parts
        /\ home' = [home EXCEPT ![task.upload][part] = task.upload]
        /\ part' = part + 1 /\ UNCHANGED <<pc, faults>>
     \/ part \in Parts /\ Fault /\ Goto("undo_dir") /\ UNCHANGED home
     \/ part \notin Parts /\ Goto("load") /\ UNCHANGED <<home, faults>>
  /\ UNCHANGED <<upload, marked, dirs, backup, journal, denyVars, task, loaded, bundled,
                 crashes, historyVars>>

(* The new version loads, or not (or kills the process: Crash).            *)
Load ==
  /\ pc = "load"
  /\ \/ loaded' = task.upload /\ Goto("enable")
     \/ Goto("undo_dir") /\ UNCHANGED loaded
  /\ UNCHANGED <<diskVars, denyVars, task, bundled, faults, crashes, historyVars>>

Enable ==
  /\ pc = "enable"
  /\ DropName
  /\ Goto("tidy")
  /\ UNCHANGED <<diskVars, task, loaded, bundled, crashes, historyVars>>

(* The old directory goes if it is now empty.                              *)
Tidy ==
  /\ pc = "tidy"
  /\ dirs' = IF task.old \in Uploads /\ home[task.old] = Empty THEN dirs \ {task.old} ELSE dirs
  /\ Goto("commit")
  /\ UNCHANGED <<upload, marked, home, backup, journal, denyVars, task, loaded, bundled,
                 faults, crashes, historyVars>>

(* The commit point: the journal is removed.  A failure is only logged.    *)
Commit ==
  /\ pc = "commit"
  /\ \/ /\ journal' = NoJournal /\ current' = task.upload /\ off' = FALSE
        /\ UNCHANGED <<faults, tainted>>
     \/ Fault /\ tainted' = TRUE /\ UNCHANGED <<journal, current, off>>
  /\ Goto("clean")
  /\ UNCHANGED <<upload, marked, dirs, home, backup, denyVars, task, loaded, bundled,
                 crashes, crasher>>

(* remove_all of the upload's directory takes its entries in any order, a  *)
(* journal that Commit could not remove too; its failure is ignored.       *)
Clean ==
  /\ pc = "clean"
  /\ LET u == task.upload
     IN  \/ /\ backup[u] # Empty /\ backup' = [backup EXCEPT ![u] = Empty]
            /\ UNCHANGED <<upload, journal, pc, part, task, faults, current, off>>
         \/ /\ upload[u] = "staged" /\ upload' = [upload EXCEPT ![u] = "gone"]
            /\ UNCHANGED <<backup, journal, pc, part, task, faults, current, off>>
         \/ /\ journal.upload = u /\ journal' = NoJournal /\ current' = u /\ off' = FALSE
            /\ UNCHANGED <<upload, backup, pc, part, task, faults>>
         \/ /\ \/ backup[u] = Empty /\ upload[u] = "gone" /\ journal.upload # u /\ UNCHANGED faults
               \/ Fault
            /\ Goto("idle") /\ task' = NoTask
            /\ UNCHANGED <<upload, backup, journal, current, off>>
  /\ UNCHANGED <<marked, dirs, home, denyVars, loaded, bundled, crashes, crasher, tainted>>

-----------------------------------------------------------------------------
(* The rollback of an install that failed                                  *)

UndoDir_Skipped ==
  /\ pc = "undo_dir"
  /\ Goto("undo_files")
  /\ UNCHANGED <<diskVars, denyVars, task, loaded, bundled, faults, crashes, historyVars>>

UndoDir ==
  /\ pc = "undo_dir"
  /\ \/ /\ dirs' = dirs \ {task.upload} /\ home' = [home EXCEPT ![task.upload] = Empty]
        /\ UNCHANGED <<faults, tainted>>
     \/ task.upload \in dirs /\ Fault /\ tainted' = TRUE /\ UNCHANGED <<dirs, home>>
  /\ Goto("undo_files")
  /\ UNCHANGED <<upload, marked, backup, journal, denyVars, task, loaded, bundled, crashes,
                 current, off, crasher>>

(* Files that are in previous/ go back.  A rename that throws ends the     *)
(* rollback, with the journal in place.                                    *)
InBackup == backup[task.upload][part] # Nil
RestoreFile == MoveFile(backup, task.upload, home, task.old)

UndoFiles ==
  /\ pc = "undo_files"
  /\ \/ Moving /\ InBackup /\ RestoreFile /\ UNCHANGED <<pc, task, faults>>
     \/ Moving /\ ~InBackup /\ part' = part + 1 /\ UNCHANGED <<pc, task, home, backup, faults>>
     \/ Moving /\ InBackup /\ Fault /\ Goto("idle") /\ task' = NoTask /\ UNCHANGED <<home, backup>>
     \/ ~Moving /\ Goto("undo_deny") /\ UNCHANGED <<task, home, backup, faults>>
  /\ UNCHANGED <<upload, marked, dirs, journal, denyVars, loaded, bundled, crashes, historyVars>>

UndoDeny ==
  /\ pc = "undo_deny"
  /\ \/ task.wasDenied /\ AddName("undo_journal")
     \/ ~task.wasDenied /\ DropName /\ Goto("undo_journal")
  /\ UNCHANGED <<diskVars, task, loaded, bundled, crashes, historyVars>>

UndoJournal ==
  /\ pc = "undo_journal"
  /\ \/ task.journaled /\ journal' = NoJournal /\ UNCHANGED faults
     \/ task.journaled /\ Fault /\ UNCHANGED journal
     \/ ~task.journaled /\ UNCHANGED <<journal, faults>>
  /\ Goto("undo_backup")
  /\ UNCHANGED <<upload, marked, dirs, home, backup, denyVars, task, loaded, bundled, crashes,
                 historyVars>>

UndoBackup ==
  /\ pc = "undo_backup"
  /\ backup' = [backup EXCEPT ![task.upload] = Empty]
  /\ Goto("reload")
  /\ UNCHANGED <<upload, marked, dirs, home, journal, denyVars, task, loaded, bundled, faults,
                 crashes, historyVars>>

PreviousPath_New == task.upload
PreviousPath == task.old

Reload ==
  /\ pc = "reload"
  /\ loaded' \in IF task.wasLoaded THEN {PreviousPath, Nil} ELSE {Nil}
  /\ Goto("idle") /\ task' = NoTask
  /\ UNCHANGED <<diskVars, denyVars, bundled, faults, crashes, historyVars>>

-----------------------------------------------------------------------------
(* Server start: recover_interrupted(), then load_plugins()                *)

Restart ==
  /\ pc = "down"
  /\ names' = denied
  /\ Goto("recover")
  /\ UNCHANGED <<diskVars, denied, cut, unsaved, task, loaded, bundled, faults, crashes,
                 historyVars>>

(* Half-written uploads are removed; a journal is read.  One that was cut  *)
(* off does not parse, and stays.                                          *)
RecoverBegin ==
  /\ pc = "recover"
  /\ upload' = [u \in Uploads |-> IF upload[u] = "tmp" THEN "gone" ELSE upload[u]]
  /\ \/ journal = NoJournal /\ Goto("start") /\ UNCHANGED task
     \/ journal # NoJournal /\ ~journal.whole /\ Goto("start") /\ UNCHANGED task
     \/ /\ journal # NoJournal /\ journal.whole /\ Goto("rec_dir")
        /\ task' = [upload |-> journal.upload, old |-> journal.old,
                    wasDenied |-> journal.wasDenied, wasLoaded |-> FALSE, journaled |-> TRUE]
  /\ UNCHANGED <<marked, dirs, home, backup, journal, denyVars, loaded, bundled, faults, crashes,
                 historyVars>>

(* An exception in recover_one: the journal stays, the server goes on.     *)
RecoverGivesUp == Goto("start") /\ task' = NoTask

RecoverDir ==
  /\ pc = "rec_dir"
  /\ \/ /\ dirs' = dirs \ {task.upload} /\ home' = [home EXCEPT ![task.upload] = Empty]
        /\ Goto("rec_files") /\ UNCHANGED <<task, faults>>
     \/ Fault /\ RecoverGivesUp /\ UNCHANGED <<dirs, home>>
  /\ UNCHANGED <<upload, marked, backup, journal, denyVars, loaded, bundled, crashes, historyVars>>

(* A rename into a directory that is not there throws.                     *)
RecoverFiles ==
  /\ pc = "rec_files"
  /\ \/ /\ Moving /\ InBackup /\ task.old \in dirs
        /\ RestoreFile /\ UNCHANGED <<pc, task, faults>>
     \/ /\ Moving /\ InBackup /\ task.old \notin dirs
        /\ RecoverGivesUp /\ UNCHANGED <<home, backup, faults>>
     \/ Moving /\ InBackup /\ Fault /\ RecoverGivesUp /\ UNCHANGED <<home, backup>>
     \/ Moving /\ ~InBackup /\ part' = part + 1 /\ UNCHANGED <<pc, task, home, backup, faults>>
     \/ ~Moving /\ Goto("rec_deny") /\ UNCHANGED <<task, home, backup, faults>>
  /\ UNCHANGED <<upload, marked, dirs, journal, denyVars, loaded, bundled, crashes, historyVars>>

RecoverDeny ==
  /\ pc = "rec_deny"
  /\ \/ task.wasDenied /\ UNCHANGED <<denyVars, faults>>
     \/ ~task.wasDenied /\ DropName
  /\ Goto("rec_backup")
  /\ UNCHANGED <<diskVars, task, loaded, bundled, crashes, historyVars>>

RecoverBackup ==
  /\ pc = "rec_backup"
  /\ backup' = [backup EXCEPT ![task.upload] = Empty]
  /\ Goto("rec_mark")
  /\ UNCHANGED <<upload, marked, dirs, home, journal, denyVars, task, loaded, bundled, faults,
                 crashes, historyVars>>

RecoverMark ==
  /\ pc = "rec_mark"
  /\ \/ /\ marked' = IF upload[task.upload] = "staged" THEN marked \cup {task.upload} ELSE marked
        /\ Goto("rec_journal") /\ UNCHANGED <<task, faults>>
     \/ upload[task.upload] = "staged" /\ Fault /\ RecoverGivesUp /\ UNCHANGED marked
  /\ UNCHANGED <<upload, dirs, home, backup, journal, denyVars, loaded, bundled, crashes,
                 historyVars>>

RecoverJournal ==
  /\ pc = "rec_journal"
  /\ \/ journal' = NoJournal /\ UNCHANGED faults
     \/ Fault /\ UNCHANGED journal
  /\ RecoverGivesUp
  /\ UNCHANGED <<upload, marked, dirs, home, backup, denyVars, loaded, bundled, crashes,
                 historyVars>>

(* load_plugins(): a denylisted plugin is skipped; loading may fail.       *)
StartLoad ==
  /\ pc = "start"
  /\ loaded' \in {Nil} \cup (IF names THEN {} ELSE OnDisk)
  /\ Goto("idle")
  /\ UNCHANGED <<diskVars, denyVars, task, bundled, faults, crashes, historyVars>>

-----------------------------------------------------------------------------
(* PluginAdminRoute::perform_action, under the lifecycle mutex             *)

AdminDisable ==
  /\ pc = "idle" /\ loaded # Nil
  /\ loaded' = Nil /\ Goto("disable")
  /\ UNCHANGED <<diskVars, denyVars, task, bundled, faults, crashes, historyVars>>

DisableSaved ==
  /\ pc = "disable"
  /\ AddName("idle")
  /\ off' = (off \/ pc' = "idle")
  /\ UNCHANGED <<diskVars, task, loaded, bundled, crashes, current, crasher, tainted>>

(* The denylist entry is dropped before loading, which may fail.           *)
AdminEnable ==
  /\ pc = "idle" /\ OnDisk # {}
  /\ DropName
  /\ off' = FALSE /\ crasher' = Nil
  /\ \/ loaded = Nil /\ loaded' \in OnDisk
     \/ UNCHANGED loaded
  /\ UNCHANGED <<diskVars, pc, task, part, bundled, crashes, current, tainted>>

AdminReload ==
  /\ pc = "idle" /\ loaded # Nil
  /\ loaded' \in {loaded, Nil}
  /\ UNCHANGED <<diskVars, denyVars, pc, task, part, bundled, faults, crashes, historyVars>>

(* The process dies, by itself or because the version it loads kills it.   *)
Crash ==
  /\ pc # "down" /\ crashes < MaxCrashes
  /\ crashes' = crashes + 1
  /\ crasher' = IF pc = "load" THEN task.upload ELSE crasher
  /\ journal' \in IF pc = "journal" THEN {journal, TornJournal(task)} ELSE {journal}
  /\ unsaved' = (unsaved \/ cut)
  /\ Goto("down") /\ task' = NoTask /\ loaded' = Nil /\ names' = FALSE /\ cut' = FALSE
  /\ UNCHANGED <<upload, marked, dirs, home, backup, denied, bundled, faults, current, off,
                 tainted>>

(* Nothing has to happen to an idle server.                                *)
Idle == pc = "idle" /\ UNCHANGED vars

InstallStep == \/ WriteJournal \/ Deny \/ MoveAside \/ Prepare \/ Place \/ Load \/ Enable
               \/ Tidy \/ Commit \/ Clean
UndoStep    == \/ UndoDir \/ UndoFiles \/ UndoDeny \/ UndoJournal \/ UndoBackup \/ Reload
RecoverStep == \/ RecoverBegin \/ RecoverDir \/ RecoverFiles \/ RecoverDeny \/ RecoverBackup
               \/ RecoverMark \/ RecoverJournal

Next ==
  \/ \E u \in Uploads : Stage(u) \/ Discard(u) \/ InstallBegin(u)
  \/ StageRename \/ InstallStep \/ UndoStep
  \/ Restart \/ RecoverStep \/ StartLoad
  \/ AdminDisable \/ DisableSaved \/ AdminEnable \/ AdminReload
  \/ Crash \/ Idle

Spec == Init /\ [][Next]_vars

-----------------------------------------------------------------------------
(* Properties                                                              *)

Versions == Uploads \cup {Bundled, Nil}
FileSets == [Parts -> Uploads \cup {Nil}]

(* Every variable has its type, and files are in directories that exist.   *)
TypeOK ==
  /\ upload \in [Uploads -> {"new", "tmp", "staged", "gone"}]
  /\ marked \subseteq Uploads /\ dirs \subseteq Uploads
  /\ \A u \in Uploads : home[u] # Empty => u \in dirs
  /\ home \in [Uploads -> FileSets] /\ backup \in [Uploads -> FileSets]
  /\ journal \in [upload : Uploads \cup {Nil}, old : Versions, wasDenied : BOOLEAN,
                  whole : BOOLEAN]
  /\ denied \in BOOLEAN /\ names \in BOOLEAN /\ cut \in BOOLEAN /\ unsaved \in BOOLEAN
  /\ pc \in Pcs /\ part \in 1..3 /\ loaded \in Versions
  /\ task \in [upload : Uploads \cup {Nil}, old : Versions, wasDenied : BOOLEAN,
               wasLoaded : BOOLEAN, journaled : BOOLEAN]
  /\ bundled \in BOOLEAN /\ faults \in 0..MaxFaults /\ crashes \in 0..MaxCrashes
  /\ current \in Uploads \cup {Nil} /\ off \in BOOLEAN
  /\ crasher \in Uploads \cup {Nil} /\ tainted \in BOOLEAN

(* Whenever the process dies, the version committed last can be put back:  *)
(* each of its files is in its directory, or in the previous/ of the       *)
(* upload a journal points at.  Assumes that no removal failed silently    *)
(* and no install began over a leftover previous/.                         *)
Recoverable ==
  ~tainted /\ current # Nil =>
    \A p \in Parts :
      \/ home[current][p] = current
      \/ journal.old = current /\ backup[journal.upload][p] = current

(* With no journal left, an idle server has exactly the version committed  *)
(* last in its upload directory, whole, whatever installs failed or were   *)
(* interrupted since; and what an idle server has loaded is on disk under  *)
(* the path it was loaded from, so it can be reloaded.                     *)
CommittedVersionInstalled ==
  ~tainted /\ pc = "idle" =>
    /\ journal = NoJournal =>
         \A d \in Uploads : home[d] = IF d = current THEN Files(d) ELSE Empty
    /\ loaded # Nil => loaded \in OnDisk

(* A version whose loading killed the process is not loaded at a later     *)
(* start, also when its install cannot be rolled back: the denylist entry  *)
(* made before it was loaded outlives the process, whatever other installs *)
(* and admin operations did to it, unless the file could not be written or *)
(* was cut off (save() tells nobody).                                      *)
CrasherNotReloaded ==
  [][pc = "start" /\ loaded' # Nil => unsaved \/ loaded' # crasher]_vars

(* PluginInstaller.cpp, after a recovery that failed: "The plugin itself   *)
(* is on the denylist, so it is not loaded".  Refuted: see the README.     *)
FailedRecoveryStaysDisabled ==
  [][pc = "start" /\ journal # NoJournal => loaded' = Nil]_vars

(* README: "If the server dies while installing ..., the previous version  *)
(* is put back on the next server start, before plugins are loaded".       *)
PreviousVersionPutBack ==
  ~tainted /\ pc = "idle" /\ current # Nil => home[current] = Files(current)

(* PluginDenylist.hpp: a plugin disabled through the admin API "stays      *)
(* unloaded across restarts"; enabling it, or an install, ends that.       *)
(* Refuted: see the README.                                                *)
DisabledStaysUnloaded == pc = "idle" /\ off /\ ~unsaved => loaded = Nil
=============================================================================
