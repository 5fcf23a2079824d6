--------------------------- MODULE PluginManager ---------------------------
(***************************************************************************)
(* The plugin manager (core/PluginManager.{hpp,cpp}) and the command       *)
(* registry (core/CommandRegistry.cpp) in a server: plugins are loaded in  *)
(* dependency order at start (main.cpp), then enabled, disabled and        *)
(* reloaded by admins (agent/routes/PluginAdminRoute.hpp) while workflow   *)
(* steps use their commands.  The denylist is a file                       *)
(* (core/PluginDenylist.hpp) that save() truncates and writes again; the   *)
(* process may die at any point and start again.                           *)
(*                                                                         *)
(* Each operation takes the locks of the manager, the registry and the     *)
(* denylist several times; one action is one critical section.  Only the   *)
(* lifecycle mutex of the admin routes spans a whole operation.  A library *)
(* registers one command, and stays mapped as long as someone holds it.    *)
(***************************************************************************)
EXTENDS DependencyResolver

CONSTANTS
  CmdOf,       \* CmdOf[p]: the name of the command in plugin p's library
  Graphs,      \* dependencies the manifests may declare
  Admin,       \* HTTP workers that serve admin requests
  User,        \* threads that execute workflow steps
  Main,        \* the thread that loads plugins at start
  None,
  MaxCrashes,  \* bound: times the process dies
  MaxFaults    \* bound: libraries that do not load, denylist files not written

ASSUME PluginNames == Main \notin Admin /\ None \notin Plugin \cup Admin \cup {Main}
ASSUME GraphsAssumption == Graphs \subseteq [Plugin -> SUBSET Plugin]
ASSUME PluginBounds == MaxCrashes \in Nat /\ MaxFaults \in Nat

Thread == Admin \cup {Main}
Cmd    == {CmdOf[p] : p \in Plugin} \cup Plugin

VARIABLES
  main,      \* "down", "starting", "loading", "up"
  order,     \* plugins main has still to load
  lifecycle, \* holder of the lifecycle mutex
  task,      \* what each thread is doing
  loaded,    \* keys of loaded_plugins_
  cmdsOf,    \* plugin_commands_
  reg,       \* commands_: the plugin each command comes from
  mapped,    \* libraries that are not dlclose()d
  using,     \* the plugin whose command a step holds
  names,     \* the denylist in memory
  file,      \* and on disk
  watch,     \* the watcher: thread, watching_, and who holds watch_control_mutex_
  crashes, faults,
  off,       \* history: plugins whose last successful admin action was Disable
  torn       \* history: a denylist file was not written out

processVars == <<main, order, lifecycle, task, loaded, cmdsOf, reg, mapped, using, names, watch>>
historyVars == <<crashes, faults, off, torn>>
vars == <<resolverVars, processVars, file, historyVars>>

Idle == [op |-> "none", plugin |-> None, pc |-> "idle", cmds |-> {}]
Off  == [thread |-> "none", watching |-> FALSE, control |-> "none"]

Init ==
  /\ ResolverInit
  /\ main = "down" /\ order = <<>> /\ lifecycle = None
  /\ task = [t \in Thread |-> Idle]
  /\ loaded = {} /\ cmdsOf = [p \in Plugin |-> {}]
  /\ reg = [c \in Cmd |-> None] /\ mapped = {} /\ using = [u \in User |-> None]
  /\ names = {} /\ file = {} /\ watch = Off
  /\ crashes = 0 /\ faults = 0 /\ off = {} /\ torn = FALSE

Registered == {c \in Cmd : reg[c] # None}
Held(p)    == \E u \in User : using[u] = p
Fault      == faults < MaxFaults /\ faults' = faults + 1

(***************************************************************************)
(* load_plugins() at the start of the server.                              *)
(***************************************************************************)

(* The denylist is read, directories are scanned, disabled plugins left    *)
(* out and the rest handed to the resolver.                                *)
Discover ==
  /\ main = "down" /\ main' = "starting"
  /\ names' = file
  /\ \E g \in Graphs : BeginResolve(Plugin \ file, g)
  /\ UNCHANGED <<order, lifecycle, task, loaded, cmdsOf, reg, mapped, using, watch, file,
                 historyVars>>

Resolve ==
  /\ ResolveStep
  /\ UNCHANGED <<processVars, file, historyVars>>

(* A circular dependency: nothing is loaded.                               *)
TakeOrder ==
  /\ phase \in {"ordered", "circular"}
  /\ order' = IF phase = "ordered" THEN ordered ELSE <<>>
  /\ main' = "loading"
  /\ EndResolve
  /\ UNCHANGED <<lifecycle, task, loaded, cmdsOf, reg, mapped, using, names, watch, file,
                 historyVars>>

LoadNext ==
  /\ main = "loading" /\ task[Main] = Idle
  /\ IF order = <<>>
     THEN main' = "up" /\ UNCHANGED <<order, task>>
     ELSE /\ task' = [task EXCEPT ![Main] =
                        [op |-> "start", plugin |-> Head(order), pc |-> "check", cmds |-> {}]]
          /\ order' = Tail(order) /\ UNCHANGED main
  /\ UNCHANGED <<resolverVars, lifecycle, loaded, cmdsOf, reg, mapped, using, names, watch,
                 file, historyVars>>

(***************************************************************************)
(* PluginAdminRoute::perform_action, under the lifecycle mutex.            *)
(***************************************************************************)
Begin(t, op, p) ==
  /\ main = "up" /\ t \in Admin /\ task[t] = Idle
  /\ task' = [task EXCEPT ![t] = [op |-> op, plugin |-> p, cmds |-> {},
                                  pc |-> IF op = "enable" THEN "deny" ELSE "gather"]]
  /\ off' = IF op = "enable" THEN off \ {p} ELSE off
  /\ UNCHANGED <<resolverVars, main, order, loaded, cmdsOf, reg, mapped, using, names, watch,
                 file, crashes, faults, torn>>

PerformAction_Unlocked(t, op, p) ==
  /\ Begin(t, op, p)
  /\ UNCHANGED lifecycle

PerformAction(t, op, p) ==
  /\ lifecycle = None /\ lifecycle' = t
  /\ Begin(t, op, p)

At(t, pc) == task[t].pc = pc
Goto(t, pc) == task' = [task EXCEPT ![t].pc = pc]

(* The operation returns and gives the lifecycle mutex back.               *)
Return(t) ==
  /\ task' = [task EXCEPT ![t] = Idle]
  /\ lifecycle' = IF lifecycle = t THEN None ELSE lifecycle

(***************************************************************************)
(* unload_plugin                                                           *)
(***************************************************************************)
Gather(t) ==
  LET p == task[t].plugin IN
  /\ At(t, "gather")
  /\ IF p \notin loaded
     THEN Return(t)
     ELSE /\ task' = [task EXCEPT ![t].pc = "unregister",
                                  ![t].cmds = IF cmdsOf[p] = {} THEN {p} ELSE cmdsOf[p]]
          /\ UNCHANGED lifecycle
  /\ UNCHANGED <<resolverVars, main, order, loaded, cmdsOf, reg, mapped, using, names, watch,
                 file, historyVars>>

(* CommandRegistry::unregister_command for each; the registry's reference  *)
(* is dropped, and the library closed if that was the last one.            *)
Unregister_Closes(t) ==
  /\ At(t, "unregister")
  /\ \E c \in task[t].cmds :
       IF reg[c] = None
       THEN Return(t) /\ UNCHANGED <<reg, mapped>>
       ELSE /\ reg' = [reg EXCEPT ![c] = None]
            /\ mapped' = mapped \ {reg[c]}
            /\ task' = [task EXCEPT ![t].cmds = @ \ {c},
                                    ![t].pc = IF task[t].cmds = {c} THEN "erase" ELSE @]
            /\ UNCHANGED lifecycle
  /\ UNCHANGED <<resolverVars, main, order, loaded, cmdsOf, using, names, watch, file,
                 historyVars>>

Unregister(t) ==
  /\ At(t, "unregister")
  /\ \E c \in task[t].cmds :
       IF reg[c] = None
       THEN Return(t) /\ UNCHANGED <<reg, mapped>>
       ELSE /\ reg' = [reg EXCEPT ![c] = None]
            /\ mapped' = IF Held(reg[c]) THEN mapped ELSE mapped \ {reg[c]}
            /\ task' = [task EXCEPT ![t].cmds = @ \ {c},
                                    ![t].pc = IF task[t].cmds = {c} THEN "erase" ELSE @]
            /\ UNCHANGED lifecycle
  /\ UNCHANGED <<resolverVars, main, order, loaded, cmdsOf, using, names, watch, file,
                 historyVars>>

(* Reload goes on to load_plugin, Disable to the denylist.                 *)
Erase(t) ==
  LET p == task[t].plugin IN
  /\ At(t, "erase")
  /\ loaded' = loaded \ {p}
  /\ cmdsOf' = [cmdsOf EXCEPT ![p] = {}]
  /\ Goto(t, IF task[t].op = "reload" THEN "check" ELSE "deny")
  /\ UNCHANGED <<resolverVars, main, order, lifecycle, reg, mapped, using, names, watch, file,
                 historyVars>>

(***************************************************************************)
(* try_load_plugin                                                         *)
(***************************************************************************)
Check(t) ==
  /\ At(t, "check")
  /\ IF task[t].plugin \in loaded
     THEN Return(t)
     ELSE Goto(t, "snapshot") /\ UNCHANGED lifecycle
  /\ UNCHANGED <<resolverVars, main, order, loaded, cmdsOf, reg, mapped, using, names, watch,
                 file, historyVars>>

(* The commands registered before ...                                      *)
Snapshot(t) ==
  /\ At(t, "snapshot")
  /\ task' = [task EXCEPT ![t].pc = "register", ![t].cmds = Registered]
  /\ UNCHANGED <<resolverVars, main, order, lifecycle, loaded, cmdsOf, reg, mapped, using,
                 names, watch, file, historyVars>>

(* CommandRegistry::try_load_command_library: dlopen, ABI check, factory;  *)
(* a command name that is taken is refused and the library released.       *)
Register(t) ==
  LET p == task[t].plugin
      c == CmdOf[p]
  IN  /\ At(t, "register")
      /\ \/ /\ reg[c] = None
            /\ reg' = [reg EXCEPT ![c] = p]
            /\ mapped' = mapped \cup {p}
            /\ Goto(t, "list") /\ UNCHANGED <<lifecycle, faults>>
         \/ /\ \/ reg[c] # None /\ UNCHANGED faults
               \/ Fault
            /\ Return(t) /\ UNCHANGED <<reg, mapped>>
      /\ UNCHANGED <<resolverVars, main, order, loaded, cmdsOf, using, names, watch, file,
                     crashes, off, torn>>

(* ... tell which ones are new, and so this plugin's.                      *)
NewCommands(t) ==
  /\ At(t, "list")
  /\ task' = [task EXCEPT ![t].pc = "track", ![t].cmds = Registered \ @]
  /\ UNCHANGED <<resolverVars, main, order, lifecycle, loaded, cmdsOf, reg, mapped, using,
                 names, watch, file, historyVars>>

Track(t) ==
  LET p == task[t].plugin IN
  /\ At(t, "track")
  /\ loaded' = loaded \cup {p}
  /\ cmdsOf' = [cmdsOf EXCEPT ![p] = task[t].cmds]
  /\ Return(t)
  /\ UNCHANGED <<resolverVars, main, order, reg, mapped, using, names, watch, file, historyVars>>

(***************************************************************************)
(* FilePluginDenylist::add (Disable) and remove (Enable).                  *)
(***************************************************************************)

(* Enable goes on to load_plugin, Disable is done.                         *)
Denied(t) ==
  IF task[t].op = "enable"
  THEN Goto(t, "check") /\ UNCHANGED <<lifecycle, off>>
  ELSE Return(t) /\ off' = off \cup {task[t].plugin}

DenyNames(t) ==
  /\ At(t, "deny")
  /\ names' = IF task[t].op = "enable" THEN names \ {task[t].plugin} ELSE names \cup {task[t].plugin}

(* The name changes in memory; save() opens the file, which empties it.    *)
Deny_MemoryOnly(t) ==
  /\ DenyNames(t)
  /\ Denied(t)
  /\ UNCHANGED <<resolverVars, main, order, loaded, cmdsOf, reg, mapped, using, watch,
                 file, crashes, faults, torn>>

Deny(t) ==
  /\ DenyNames(t)
  /\ \/ /\ names' # names
        /\ file' = {} /\ Goto(t, "save") /\ UNCHANGED <<lifecycle, faults, off, torn>>
     \/ /\ names' # names /\ Fault           \* it cannot be opened: nothing is said
        /\ torn' = TRUE /\ Denied(t) /\ UNCHANGED file
     \/ /\ names' = names                    \* nothing to save
        /\ Denied(t) /\ UNCHANGED <<file, faults, torn>>
  /\ UNCHANGED <<resolverVars, main, order, loaded, cmdsOf, reg, mapped, using, watch, crashes>>

(* The names are written out; or some of them, when the disk is full:      *)
(* nothing looks at the stream.                                            *)
Save(t) ==
  /\ At(t, "save")
  /\ \/ file' = names /\ UNCHANGED <<faults, torn>>
     \/ file' \in SUBSET names /\ Fault /\ torn' = TRUE
  /\ Denied(t)
  /\ UNCHANGED <<resolverVars, main, order, loaded, cmdsOf, reg, mapped, using, names, watch,
                 crashes>>

(***************************************************************************)
(* Workflow steps: get_command and, when the step is over, the release of  *)
(* the shared_ptr; its deleter closes the library.                         *)
(***************************************************************************)
GetCommand(u, c) ==
  /\ main = "up" /\ using[u] = None /\ reg[c] # None
  /\ using' = [using EXCEPT ![u] = reg[c]]
  /\ UNCHANGED <<resolverVars, main, order, lifecycle, task, loaded, cmdsOf, reg, mapped,
                 names, watch, file, historyVars>>

ReleaseCommand(u) ==
  LET p == using[u] IN
  /\ p # None
  /\ using' = [using EXCEPT ![u] = None]
  /\ mapped' = IF \/ \E c \in Cmd : reg[c] = p
                  \/ \E v \in User \ {u} : using[v] = p
               THEN mapped ELSE mapped \ {p}
  /\ UNCHANGED <<resolverVars, main, order, lifecycle, task, loaded, cmdsOf, reg, names, watch,
                 file, historyVars>>

(***************************************************************************)
(* start_watching and stop_watching: under watch_control_mutex_ the old    *)
(* thread is told to stop and joined.  The thread itself only logs.        *)
(***************************************************************************)
SetWatch(op) ==
  /\ main = "up" /\ watch.control = "none"
  /\ watch' = [watch EXCEPT !.control = op, !.thread = IF @ = "none" THEN @ ELSE "told"]
  /\ UNCHANGED <<resolverVars, main, order, lifecycle, task, loaded, cmdsOf, reg, mapped,
                 using, names, file, historyVars>>

WatchThreadEnds ==
  /\ watch.thread = "told"
  /\ watch' = [watch EXCEPT !.thread = "none"]
  /\ UNCHANGED <<resolverVars, main, order, lifecycle, task, loaded, cmdsOf, reg, mapped,
                 using, names, file, historyVars>>

WatchJoined ==
  /\ watch.control # "none" /\ watch.thread = "none"
  /\ watch' = IF watch.control = "start"
              THEN [thread |-> "running", watching |-> TRUE, control |-> "none"]
              ELSE Off
  /\ UNCHANGED <<resolverVars, main, order, lifecycle, task, loaded, cmdsOf, reg, mapped,
                 using, names, file, historyVars>>

(* The process dies; the files stay as they are.                           *)
Crash ==
  /\ main # "down" /\ crashes < MaxCrashes /\ crashes' = crashes + 1
  /\ torn' = (torn \/ \E t \in Thread : At(t, "save"))
  /\ main' = "down" /\ order' = <<>> /\ lifecycle' = None
  /\ task' = [t \in Thread |-> Idle]
  /\ loaded' = {} /\ cmdsOf' = [p \in Plugin |-> {}]
  /\ reg' = [c \in Cmd |-> None] /\ mapped' = {} /\ using' = [u \in User |-> None]
  /\ names' = {} /\ watch' = Off
  /\ EndResolve
  /\ UNCHANGED <<file, faults, off>>

Next ==
  \/ Discover \/ Resolve \/ TakeOrder \/ LoadNext
  \/ \E t \in Admin, op \in {"reload", "disable", "enable"}, p \in Plugin : PerformAction(t, op, p)
  \/ \E t \in Thread :
       \/ Gather(t) \/ Unregister(t) \/ Erase(t)
       \/ Check(t) \/ Snapshot(t) \/ Register(t) \/ NewCommands(t) \/ Track(t)
       \/ Deny(t) \/ Save(t)
  \/ \E u \in User : (\E c \in Cmd : GetCommand(u, c)) \/ ReleaseCommand(u)
  \/ (\E op \in {"start", "stop"} : SetWatch(op)) \/ WatchThreadEnds \/ WatchJoined
  \/ Crash

Spec == Init /\ [][Next]_vars
-----------------------------------------------------------------------------
TypeOK ==
  /\ ResolverTypeOK
  /\ main \in {"down", "starting", "loading", "up"}
  /\ order \in Seq(Plugin)
  /\ lifecycle \in Admin \cup {None}
  /\ task \in [Thread -> [op : {"none", "start", "reload", "disable", "enable"},
                          plugin : Plugin \cup {None},
                          pc : {"idle", "gather", "unregister", "erase", "check", "snapshot",
                                "register", "list", "track", "deny", "save"},
                          cmds : SUBSET Cmd]]
  /\ loaded \subseteq Plugin
  /\ cmdsOf \in [Plugin -> SUBSET Cmd]
  /\ reg \in [Cmd -> Plugin \cup {None}]
  /\ mapped \subseteq Plugin
  /\ using \in [User -> Plugin \cup {None}]
  /\ names \subseteq Plugin /\ file \subseteq Plugin
  /\ watch \in [thread : {"none", "running", "told"}, watching : BOOLEAN,
                control : {"none", "start", "stop"}]
  /\ crashes \in 0..MaxCrashes /\ faults \in 0..MaxFaults
  /\ off \subseteq Plugin /\ torn \in BOOLEAN

Busy(p) == \E t \in Thread : task[t].plugin = p

(* A plugin nobody is working on is loaded exactly when its own command is *)
(* registered, and the commands it will take out on unload are its own:    *)
(* the snapshots of try_load_plugin attribute no command of another plugin *)
(* whose load overlaps, and no command is left that nobody can unload.     *)
CommandsAttributed ==
  \A p \in Plugin : ~Busy(p) =>
    /\ p \in loaded <=> reg[CmdOf[p]] = p
    /\ cmdsOf[p] = IF p \in loaded THEN {CmdOf[p]} ELSE {}

(* A library is mapped exactly as long as its command is registered or a   *)
(* step still holds it: none is closed under a running step by Disable or  *)
(* Reload, and none stays open for ever.                                   *)
MappedWhileUsed ==
  mapped = {p \in Plugin : (\E c \in Cmd : reg[c] = p) \/ Held(p)}

(* A plugin that was disabled stays unloaded until it is enabled again,    *)
(* across restarts, unless a denylist file was lost: save() died between   *)
(* truncating and writing, or could not open or write the file and said    *)
(* nothing.                                                                *)
DisabledStaysOff == torn \/ off \cap loaded = {}
=============================================================================
