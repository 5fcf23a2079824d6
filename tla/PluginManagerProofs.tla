------------------------ MODULE PluginManagerProofs ------------------------
(***************************************************************************)
(* Proofs about PluginManager, for any plugins, dependency graphs, admins  *)
(* and users of commands, any number of crashes and of denylist writes     *)
(* that fail.                                                              *)
(*                                                                         *)
(* The three properties are about plugins no thread is working on, so the  *)
(* invariant says what the tables hold at each step of an operation:       *)
(*   OneOperation  main's while it starts, then the lifecycle mutex        *)
(*                 holder's: nobody else's step can disturb it;            *)
(*   TablesOK      a plugin's tables agree, but for the one that thread    *)
(*                 is about to erase or to track;                          *)
(*   TaskOK        the command list a thread took is still what the        *)
(*                 registry held when it took it;                          *)
(*   DenyInv       while no denylist file was torn, disabled names are in  *)
(*                 memory, and on disk but for the thread at its save, and *)
(*                 no operation past its denylist check is about a         *)
(*                 disabled plugin.                                        *)
(* The last part is about the dependency resolver, whose own invariant is  *)
(* ResolverInv: nothing but the start of the server touches it.            *)
(***************************************************************************)
EXTENDS PluginManager, FiniteSetTheorems, SequenceTheorems, WellFoundedInduction, TLAPS

(* Types, without the resolver's own.                                      *)
Ops == {"none", "start", "reload", "disable", "enable"}
Pcs == {"idle", "gather", "unregister", "erase", "check", "snapshot", "register", "list",
        "track", "deny", "save"}

TypesOK ==
  /\ order \in Seq(Plugin) /\ found \subseteq Plugin /\ ready \in Seq(found) /\ ordered \in Seq(found)
  /\ phase = "idle" => found = {} /\ ready = <<>> /\ ordered = <<>>
  /\ lifecycle \in Admin \cup {None}
  /\ task \in [Thread -> [op : Ops, plugin : Plugin \cup {None}, pc : Pcs, cmds : SUBSET Cmd]]
  /\ loaded \subseteq Plugin /\ cmdsOf \in [Plugin -> SUBSET Cmd]
  /\ reg \in [Cmd -> Plugin \cup {None}] /\ mapped \subseteq Plugin
  /\ using \in [User -> Plugin \cup {None}]
  /\ names \subseteq Plugin /\ file \subseteq Plugin /\ off \subseteq Plugin /\ torn \in BOOLEAN

(* One operation at a time: main's while the server starts, then that of   *)
(* the thread that holds the lifecycle mutex.                              *)
Active(t) == task[t].pc # "idle"
OneOperation ==
  /\ \A t \in Thread : Active(t) =>
       /\ task[t].plugin \in Plugin
       /\ \/ t = Main /\ main = "loading" /\ task[t].op = "start"
          \/ t \in Admin /\ main = "up" /\ lifecycle = t
  /\ \A t \in Thread : ~Active(t) => task[t] = Idle
  /\ phase # "idle" => main = "starting"

(* A registered command is its plugin's own; and what a plugin's tables    *)
(* say of it, but for the plugin a thread is about to erase or track.      *)
OwnCommands == \A c \in Cmd : reg[c] # None => c = CmdOf[reg[c]]

Attributed(p) ==
  /\ p \in loaded <=> reg[CmdOf[p]] = p
  /\ cmdsOf[p] = IF p \in loaded THEN {CmdOf[p]} ELSE {}

TablesOK ==
  \A p \in Plugin : \/ Attributed(p)
                    \/ \E t \in Thread : task[t].plugin = p /\ task[t].pc \in {"erase", "list", "track"}

TaskOK(t) ==
  LET p == task[t].plugin IN
  /\ task[t].pc = "unregister" => p \in loaded /\ task[t].cmds = {CmdOf[p]}
  /\ task[t].pc = "erase" => reg[CmdOf[p]] # p
  /\ task[t].pc \in {"snapshot", "register"} => p \notin loaded
  /\ task[t].pc = "register" => task[t].cmds = Registered
  /\ task[t].pc = "list" => reg[CmdOf[p]] = p /\ task[t].cmds = Registered \ {CmdOf[p]}
  /\ task[t].pc = "track" => reg[CmdOf[p]] = p /\ task[t].cmds = {CmdOf[p]}

(* Plugins that may be loaded at start.                                    *)
Startable == Plugin \ off
StartOK ==
  /\ order \in Seq(Startable) /\ found \subseteq Startable
  /\ main # "loading" => order = <<>>

(* The denylist in memory and on disk.                                     *)
DenylistOK ==
  /\ main # "down" => off \subseteq names
  /\ main = "down" => off \subseteq file
  /\ main # "down" /\ (\A t \in Thread : task[t].pc # "save") => file = names

(* Who is working on a plugin that is off.                                 *)
OffOK(t) ==
  /\ task[t].pc \in {"gather", "unregister", "erase"} => task[t].op \in {"reload", "disable"}
  /\ task[t].pc \in {"unregister", "erase", "check", "snapshot", "register", "list", "track"} =>
       task[t].plugin \notin off
  /\ task[t].pc \in {"deny", "save"} =>
       \/ task[t].op = "enable" /\ task[t].plugin \notin off
       \/ /\ task[t].op = "disable" /\ task[t].plugin \notin loaded
          /\ task[t].pc = "save" => task[t].plugin \in names

DenyFacts == StartOK /\ DenylistOK /\ (\A t \in Thread : OffOK(t)) /\ off \cap loaded = {}
DenyInv   == ~torn => DenyFacts

ManagerInv ==
  /\ TypesOK /\ OneOperation /\ OwnCommands /\ TablesOK
  /\ (\A t \in Thread : TaskOK(t)) /\ MappedWhileUsed /\ DenyInv

-----------------------------------------------------------------------------
ThreadStep(t) ==
  \/ Gather(t) \/ Unregister(t) \/ Erase(t)
  \/ Check(t) \/ Snapshot(t) \/ Register(t) \/ NewCommands(t) \/ Track(t)
  \/ Deny(t) \/ Save(t)

LEMMA InitManager == Init => ManagerInv
<1> SUFFICES ASSUME Init PROVE ManagerInv
  OBVIOUS
<1> USE DEF Init, ResolverInit
<1>1. TypesOK
  <2>1. Idle \in [op : Ops, plugin : Plugin \cup {None}, pc : Pcs, cmds : SUBSET Cmd]
    BY DEF Idle, Ops, Pcs
  <2>2. torn \in BOOLEAN
    BY Zenon
  <2> QED BY <2>1, <2>2 DEF TypesOK
<1>2. OneOperation
  BY DEF OneOperation, Active, Idle
<1>3. OwnCommands
  BY DEF OwnCommands
<1>4. TablesOK
  <2> SUFFICES ASSUME NEW p \in Plugin PROVE Attributed(p)
    BY DEF TablesOK
  <2>1. CmdOf[p] \in Cmd /\ None # p
    BY PluginNames DEF Cmd
  <2> QED BY <2>1 DEF Attributed
<1>5. \A t \in Thread : TaskOK(t)
  BY DEF TaskOK, Idle
<1>6. MappedWhileUsed
  BY PluginNames DEF MappedWhileUsed, Held
<1>7. DenyInv
  BY DEF DenyInv, StartOK, DenylistOK, OffOK, Idle, DenyFacts
<1> QED BY <1>1, <1>2, <1>3, <1>4, <1>5, <1>6, <1>7 DEF ManagerInv

(* A thread inside an operation is alone, and works on one plugin until    *)
(* the operation returns.                                                  *)
LEMMA ThreadAlone ==
  ASSUME TypesOK, OneOperation, NEW t \in Thread, Active(t)
  PROVE  /\ task[t].plugin \in Plugin /\ CmdOf[task[t].plugin] \in Cmd
         /\ \A u \in Thread \ {t} : task[u] = Idle
         /\ phase = "idle" /\ main # "starting" /\ main # "down"
BY PluginNames DEF OneOperation, Cmd, Thread

LEMMA ThreadFrame ==
  ASSUME TypesOK, OneOperation, NEW t \in Thread, ThreadStep(t)
  PROVE  /\ Active(t)
         /\ UNCHANGED <<resolverVars, main, order, using, watch>>
         /\ \A u \in Thread \ {t} : task'[u] = task[u]
         /\ \/ task'[t] = Idle /\ lifecycle' = IF lifecycle = t THEN None ELSE lifecycle
            \/ /\ UNCHANGED lifecycle /\ task'[t].pc # "idle"
               /\ task'[t].plugin = task[t].plugin /\ task'[t].op = task[t].op
<1> USE DEF At, Goto, Return, Active, TypesOK
<1>1. CASE Gather(t) \/ Erase(t) \/ Check(t) \/ Snapshot(t) \/ Register(t) \/ NewCommands(t) \/ Track(t)
  BY <1>1 DEF Gather, Erase, Check, Snapshot, Register, NewCommands, Track
<1>2. CASE Unregister(t)
  BY <1>2 DEF Unregister
<1>3. CASE Deny(t) \/ Save(t)
  BY <1>3 DEF Deny, Save, Denied, DenyNames
<1> QED BY <1>1, <1>2, <1>3 DEF ThreadStep

-----------------------------------------------------------------------------
(* The resolver orders plugins it was given.                               *)
LEMMA SetToSeqsElements ==
  ASSUME NEW S, IsFiniteSet(S), NEW s \in SetToSeqs(S)
  PROVE  s \in Seq(S)
<1>1. Cardinality(S) \in Nat
  BY FS_CardinalityType
<1> QED BY <1>1 DEF SetToSeqs

LEMMA ResolverNext ==
  ASSUME TypesOK, ResolveStep
  PROVE  found' = found /\ ready' \in Seq(found) /\ ordered' \in Seq(found) /\ phase # "idle" /\ phase' # "idle"
<1>0. found \subseteq Plugin /\ ready \in Seq(found) /\ ordered \in Seq(found)
  BY DEF TypesOK
<1>1. CASE KahnStep
  <2> DEFINE current == Head(ready)
             after == [p \in Plugin |-> IF p \in found /\ current \in Needs(p)
                                        THEN inDegree[p] - 1 ELSE inDegree[p]]
             freed == {p \in found : current \in Needs(p) /\ after[p] = 0}
  <2>1. PICK more \in SetToSeqs(freed) : ready' = Tail(ready) \o more
    BY <1>1 DEF KahnStep
  <2>2. IsFiniteSet(freed) /\ freed \subseteq found
    BY <1>0, PluginsFinite, FS_Subset
  <2>3. ordered' = Append(ordered, current) /\ UNCHANGED <<found, phase>> /\ phase = "kahn" /\ ready # <<>>
    BY <1>1 DEF KahnStep
  <2>4. current \in found /\ Tail(ready) \in Seq(found)
    BY <1>0, <2>3, HeadTailProperties
  <2> HIDE DEF freed, current
  <2>5. more \in Seq(freed)
    BY <2>2, SetToSeqsElements
  <2>6. more \in Seq(found)
    BY <2>2, <2>5
  <2> QED BY <1>0, <2>1, <2>3, <2>4, <2>6
<1>2. CASE KahnEnd \/ SearchRoot \/ SearchDown \/ SearchUp \/ SearchFound
  BY <1>0, <1>2 DEF KahnEnd, SearchRoot, SearchDown, SearchUp, SearchFound
<1> QED BY <1>1, <1>2 DEF ResolveStep

LEMMA DiscoverReady ==
  ASSUME TypesOK, Discover
  PROVE  /\ found' = Plugin \ file /\ ready' \in Seq(found') /\ phase = "idle" /\ phase' = "kahn"
         /\ UNCHANGED ordered /\ names' = file /\ main = "down" /\ main' = "starting"
<1>1. PICK g \in Graphs : BeginResolve(Plugin \ file, g)
  BY DEF Discover
<1>2. \E S : S \subseteq Plugin \ file /\ ready' \in SetToSeqs(S)
  BY <1>1 DEF BeginResolve
<1>3. PICK S : S \subseteq Plugin \ file /\ ready' \in SetToSeqs(S)
  BY <1>2
<1>4. IsFiniteSet(S)
  BY <1>3, PluginsFinite, FS_Subset
<1>5. ready' \in Seq(S)
  BY <1>3, <1>4, SetToSeqsElements
<1>6. ready' \in Seq(Plugin \ file)
  BY <1>3, <1>5
<1> QED BY <1>1, <1>6 DEF BeginResolve, Discover

TaskState == [op : Ops, plugin : Plugin \cup {None}, pc : Pcs, cmds : SUBSET Cmd]

LEMMA IdleType == Idle \in TaskState
BY DEF TaskState, Idle, Ops, Pcs

LEMMA TypesNext ==
  ASSUME TypesOK, OneOperation, Next
  PROVE  TypesOK'
<1>0. task \in [Thread -> TaskState]
  BY DEF TypesOK, TaskState
<1>1. ASSUME NEW t \in Thread, ThreadStep(t) PROVE TypesOK'
  <2>0. UNCHANGED <<found, phase, ready, ordered, order, using>> /\ lifecycle' \in Admin \cup {None}
    BY <1>1, ThreadFrame DEF TypesOK, resolverVars
  <2>1. /\ task[t] \in TaskState /\ task[t].plugin \in Plugin /\ CmdOf[task[t].plugin] \in Cmd
        /\ task[t].plugin \in Cmd
    BY <1>0, <1>1, ThreadFrame, ThreadAlone DEF Cmd
  <2> USE DEF At, Goto, Return
  <2>2. CASE Gather(t) \/ Check(t) \/ Snapshot(t) \/ NewCommands(t)
    <3>0. Registered \in SUBSET Cmd /\ cmdsOf[task[t].plugin] \in SUBSET Cmd
      BY <2>1 DEF TypesOK, Registered
    <3>1. task' \in [Thread -> TaskState]
      <4>1. CASE Gather(t)
        BY <1>0, <2>1, <3>0, <4>1, IdleType DEF Gather, TaskState, Pcs
      <4>2. CASE Check(t)
        BY <1>0, <2>1, <4>2, IdleType DEF Check, TaskState, Pcs
      <4>3. CASE Snapshot(t)
        BY <1>0, <2>1, <3>0, <4>3 DEF Snapshot, TaskState, Pcs
      <4>4. CASE NewCommands(t)
        BY <1>0, <2>1, <3>0, <4>4 DEF NewCommands, TaskState, Pcs
      <4> QED BY <2>2, <4>1, <4>2, <4>3, <4>4
    <3> QED BY <2>0, <2>2, <3>1 DEF TypesOK, Gather, Check, Snapshot, NewCommands, historyVars, TaskState
  <2>3. CASE Unregister(t)
    <3>1. task' \in [Thread -> TaskState]
      BY <1>0, <2>1, <2>3, IdleType DEF Unregister, TaskState, Pcs
    <3>2. reg' \in [Cmd -> Plugin \cup {None}] /\ mapped' \subseteq Plugin
      BY <2>3 DEF Unregister, TypesOK
    <3> QED BY <2>0, <2>3, <3>1, <3>2 DEF TypesOK, Unregister, historyVars, TaskState
  <2>4. CASE Erase(t) \/ Track(t)
    <3>1. task' \in [Thread -> TaskState]
      BY <1>0, <2>1, <2>4, IdleType DEF Erase, Track, TaskState, Pcs
    <3>2. loaded' \subseteq Plugin /\ cmdsOf' \in [Plugin -> SUBSET Cmd]
      <4>1. CASE Erase(t)
        BY <2>1, <4>1 DEF Erase, TypesOK
      <4>2. CASE Track(t)
        <5>1. task[t].cmds \in SUBSET Cmd
          BY <2>1 DEF TaskState
        <5> QED BY <2>1, <4>2, <5>1 DEF Track, TypesOK
      <4> QED BY <2>4, <4>1, <4>2
    <3> QED BY <2>0, <2>4, <3>1, <3>2 DEF TypesOK, Erase, Track, historyVars, TaskState
  <2>5. CASE Register(t)
    <3>1. task' \in [Thread -> TaskState]
      BY <1>0, <2>1, <2>5, IdleType DEF Register, TaskState, Pcs
    <3>2. reg' \in [Cmd -> Plugin \cup {None}] /\ mapped' \subseteq Plugin
      BY <2>1, <2>5 DEF Register, TypesOK
    <3> QED BY <2>0, <2>5, <3>1, <3>2 DEF TypesOK, Register, TaskState
  <2>6. CASE Deny(t) \/ Save(t)
    <3>1. task' \in [Thread -> TaskState]
      BY <1>0, <2>1, <2>6, IdleType DEF Deny, Save, Denied, TaskState, Pcs
    <3>2. names' \subseteq Plugin /\ off' \subseteq Plugin /\ file' \subseteq Plugin
      BY <2>1, <2>6 DEF Deny, Save, Denied, DenyNames, TypesOK
    <3>3. torn' \in BOOLEAN
      <4>1. torn' = TRUE \/ torn' = torn
        BY <2>6 DEF Deny, Save
      <4> QED BY <4>1, Zenon DEF TypesOK
    <3> QED BY <2>0, <2>6, <3>1, <3>2, <3>3 DEF TypesOK, Deny, Save, TaskState
  <2> QED BY <1>1, <2>2, <2>3, <2>4, <2>5, <2>6 DEF ThreadStep
<1>2. CASE Discover
  <2>1. names' \subseteq Plugin /\ found' \subseteq Plugin /\ ready' \in Seq(found') /\ ordered' \in Seq(found')
    <3>1. ordered' = <<>>
      BY <1>2, DiscoverReady DEF TypesOK
    <3> QED BY <1>2, <3>1, DiscoverReady DEF TypesOK
  <2>2. phase' # "idle"
    BY <1>2, DiscoverReady
  <2> QED BY <1>2, <2>1, <2>2 DEF TypesOK, Discover, historyVars
<1>3. CASE Resolve
  BY <1>3, ResolverNext DEF TypesOK, Resolve, processVars, historyVars
<1>4. CASE TakeOrder
  <2>1. order' \in Seq(Plugin)
    BY <1>4 DEF TakeOrder, TypesOK
  <2> QED BY <1>4, <2>1 DEF TypesOK, TakeOrder, EndResolve, historyVars
<1>5. CASE LoadNext
  <2>1. order' \in Seq(Plugin) /\ task' \in [Thread -> TaskState]
    <3>1. CASE order = <<>>
      BY <1>0, <1>5, <3>1 DEF TypesOK, LoadNext
    <3>2. CASE order # <<>>
      <4>1. Head(order) \in Plugin /\ Tail(order) \in Seq(Plugin)
        BY <3>2, HeadTailProperties DEF TypesOK
      <4> DEFINE next == [op |-> "start", plugin |-> Head(order), pc |-> "check", cmds |-> {}]
      <4>2. next \in TaskState
        BY <4>1 DEF TaskState, Ops, Pcs
      <4>3. order' = Tail(order) /\ task' = [task EXCEPT ![Main] = next]
        BY <1>5, <3>2 DEF LoadNext
      <4> HIDE DEF next
      <4> QED BY <1>0, <4>1, <4>2, <4>3
    <3> QED BY <3>1, <3>2
  <2> QED BY <1>5, <2>1 DEF TypesOK, LoadNext, resolverVars, historyVars, TaskState
<1>6. ASSUME NEW t \in Admin, NEW op \in {"reload", "disable", "enable"}, NEW p \in Plugin,
             PerformAction(t, op, p)
      PROVE  TypesOK'
  <2>1. task' \in [Thread -> TaskState] /\ off' \subseteq Plugin
    BY <1>0, <1>6 DEF PerformAction, Begin, TypesOK, TaskState, Ops, Pcs
  <2> QED BY <1>6, <2>1 DEF TypesOK, PerformAction, Begin, resolverVars, TaskState
<1>7. ASSUME NEW u \in User, (\E c \in Cmd : GetCommand(u, c)) \/ ReleaseCommand(u) PROVE TypesOK'
  BY <1>7 DEF TypesOK, GetCommand, ReleaseCommand, resolverVars, historyVars
<1>8. CASE (\E op \in {"start", "stop"} : SetWatch(op)) \/ WatchThreadEnds \/ WatchJoined
  BY <1>8 DEF TypesOK, SetWatch, WatchThreadEnds, WatchJoined, resolverVars, historyVars
<1>9. CASE Crash
  <2>1. task' \in [Thread -> TaskState]
    BY <1>9, IdleType DEF Crash
  <2>2. torn' \in BOOLEAN
    BY <1>9, Zenon DEF Crash
  <2> QED BY <1>9, <2>1, <2>2 DEF TypesOK, Crash, EndResolve, TaskState
<1> QED BY <1>1, <1>2, <1>3, <1>4, <1>5, <1>6, <1>7, <1>8, <1>9 DEF Next, ThreadStep

LEMMA OperationNext ==
  ASSUME TypesOK, OneOperation, Next
  PROVE  OneOperation'
<1> USE DEF Active
<1>1. ASSUME NEW t \in Thread, ThreadStep(t) PROVE OneOperation'
  <2>1. /\ task[t].plugin \in Plugin /\ \A u \in Thread \ {t} : task'[u] = Idle
        /\ UNCHANGED <<main, phase>>
        /\ \/ task'[t] = Idle
           \/ /\ UNCHANGED lifecycle /\ task'[t].pc # "idle"
              /\ task'[t].plugin = task[t].plugin /\ task'[t].op = task[t].op
    BY <1>1, ThreadFrame, ThreadAlone DEF resolverVars
  <2>2. \/ t = Main /\ main = "loading" /\ task[t].op = "start"
        \/ t \in Admin /\ main = "up" /\ lifecycle = t
    BY <1>1, ThreadFrame DEF OneOperation
  <2>3. phase' # "idle" => main' = "starting"
    BY <2>1 DEF OneOperation
  <2>4. CASE task'[t] = Idle
    <3>1. \A u \in Thread : task'[u] = Idle
      BY <2>1, <2>4
    <3>2. \A u \in Thread : ~(task'[u].pc # "idle")
      BY <3>1 DEF Idle
    <3> QED BY <2>3, <3>1, <3>2 DEF OneOperation
  <2>5. CASE /\ UNCHANGED lifecycle /\ task'[t].pc # "idle"
             /\ task'[t].plugin = task[t].plugin /\ task'[t].op = task[t].op
    BY <2>1, <2>2, <2>3, <2>5 DEF OneOperation, Idle
  <2> QED BY <2>1, <2>4, <2>5
<1>2. CASE Discover \/ Resolve \/ TakeOrder
  <2>1. (UNCHANGED <<task, lifecycle>> /\ phase # "idle") \/ main = "down"
    BY <1>2, ResolverNext DEF Discover, Resolve, TakeOrder, processVars
  <2>2. \A u \in Thread : ~Active(u)
    BY <1>2, <2>1, ThreadAlone
  <2>3. UNCHANGED task /\ (phase' # "idle" => main' = "starting")
    BY <1>2, ResolverNext, DiscoverReady DEF Discover, Resolve, TakeOrder, EndResolve, processVars, OneOperation
  <2> QED BY <2>2, <2>3 DEF OneOperation
<1>3. CASE LoadNext
  <2>1. \A u \in Thread \ {Main} : task[u] = Idle
    BY <1>3 DEF LoadNext, OneOperation, Thread
  <2>2. CASE order = <<>>
    <3>1. (\A u \in Thread : task'[u] = Idle) /\ UNCHANGED phase /\ phase = "idle"
      BY <1>3, <2>1, <2>2 DEF LoadNext, OneOperation, resolverVars
    <3>2. Idle.pc = "idle"
      BY DEF Idle
    <3>3. \A u \in Thread : ~(task'[u].pc # "idle")
      BY <3>1, <3>2
    <3> QED BY <3>1, <3>3 DEF OneOperation
  <2>3. CASE order # <<>>
    <3>1. Head(order) \in Plugin
      BY <2>3, HeadTailProperties DEF TypesOK
    <3>2. Main \in Thread
      BY DEF Thread
    <3>3. /\ task'[Main].plugin = Head(order) /\ task'[Main].pc = "check" /\ task'[Main].op = "start"
          /\ \A u \in Thread \ {Main} : task'[u] = Idle
          /\ main' = "loading" /\ UNCHANGED phase /\ main = "loading"
      BY <1>3, <2>1, <2>3, <3>2 DEF LoadNext, TypesOK, resolverVars
    <3> QED BY <3>1, <3>3 DEF OneOperation, Idle
  <2> QED BY <2>2, <2>3
<1>4. ASSUME NEW t \in Admin, NEW op \in {"reload", "disable", "enable"}, NEW p \in Plugin,
             PerformAction(t, op, p)
      PROVE  OneOperation'
  <2>1. t \in Thread /\ t # Main /\ main = "up" /\ lifecycle = None /\ lifecycle' = t /\ UNCHANGED <<main, phase>>
    BY <1>4, PluginNames DEF PerformAction, Begin, Thread, resolverVars
  <2>2. \A u \in Thread : task[u] = Idle
    BY <2>1, PluginNames DEF OneOperation, Thread
  <2>3. /\ task'[t].plugin = p /\ task'[t].pc \in {"deny", "gather"}
        /\ \A u \in Thread \ {t} : task'[u] = Idle
    BY <1>4, <2>1, <2>2 DEF PerformAction, Begin, TypesOK
  <2> QED BY <2>1, <2>2, <2>3 DEF OneOperation, Idle
<1>5. CASE \/ \E u \in User : (\E c \in Cmd : GetCommand(u, c)) \/ ReleaseCommand(u)
           \/ (\E op \in {"start", "stop"} : SetWatch(op)) \/ WatchThreadEnds \/ WatchJoined
  BY <1>5 DEF OneOperation, GetCommand, ReleaseCommand, SetWatch, WatchThreadEnds, WatchJoined, resolverVars
<1>6. CASE Crash
  BY <1>6 DEF OneOperation, Crash, EndResolve, Idle
<1> QED BY <1>1, <1>2, <1>3, <1>4, <1>5, <1>6 DEF Next, ThreadStep

-----------------------------------------------------------------------------
(* The tables of the manager and of the registry                           *)

(* While thread t is at work on p, every other plugin is attributed.       *)
LEMMA OthersAttributed ==
  ASSUME ManagerInv, NEW t \in Thread, Active(t), NEW p, p = task[t].plugin
  PROVE  /\ p \in Plugin /\ \A q \in Plugin : q # p => Attributed(q)
         /\ task[t].pc \notin {"erase", "list", "track"} => Attributed(p)
<1>1. \A u \in Thread \ {t} : task[u].pc = "idle"
  BY ThreadAlone DEF ManagerInv, Idle
<1>2. task[t].plugin \in Plugin
  BY ThreadAlone DEF ManagerInv
<1> QED BY <1>1, <1>2 DEF ManagerInv, TablesOK

(* After a step of t, it is enough to look at t's own plugin.              *)
LEMMA TablesFrame ==
  ASSUME TypesOK, OneOperation, NEW t \in Thread, ThreadStep(t), NEW p, p = task[t].plugin,
         \A q \in Plugin : q # p => Attributed(q)',
         Attributed(p)' \/ (task'[t].plugin = p /\ task'[t].pc \in {"erase", "list", "track"}),
         TaskOK(t)'
  PROVE  TablesOK' /\ \A u \in Thread : TaskOK(u)'
<1>1. \A u \in Thread \ {t} : task'[u] = Idle
  BY ThreadFrame, ThreadAlone
<1>2. \A u \in Thread : TaskOK(u)'
  BY <1>1 DEF TaskOK, Idle
<1> QED BY <1>2 DEF TablesOK

(* Steps that leave the tables alone.                                      *)
LEMMA TablesKept ==
  ASSUME UNCHANGED <<loaded, reg, cmdsOf>>, NEW q
  PROVE  Attributed(q)' <=> Attributed(q)
BY DEF Attributed

LEMMA ThreadTables ==
  ASSUME ManagerInv, NEW t \in Thread, ThreadStep(t)
  PROVE  OwnCommands' /\ TablesOK' /\ \A u \in Thread : TaskOK(u)'
<1> USE DEF At, Goto, Return
<1>0. PICK p \in Plugin :
        /\ p = task[t].plugin /\ CmdOf[p] \in Cmd /\ p # None
        /\ \A q \in Plugin : q # p => Attributed(q)
        /\ task[t].pc \notin {"erase", "list", "track"} => Attributed(p)
  BY ThreadFrame, ThreadAlone, OthersAttributed, PluginNames DEF ManagerInv
<1>1. /\ TypesOK /\ OneOperation /\ OwnCommands /\ TaskOK(t)
      /\ task \in [Thread -> [op : Ops, plugin : Plugin \cup {None}, pc : Pcs, cmds : SUBSET Cmd]]
      /\ reg \in [Cmd -> Plugin \cup {None}] /\ cmdsOf \in [Plugin -> SUBSET Cmd] /\ loaded \subseteq Plugin
  BY DEF ManagerInv, TypesOK
<1>2. ASSUME UNCHANGED <<loaded, reg, cmdsOf>>, task[t].pc \notin {"erase", "list", "track"}, TaskOK(t)'
      PROVE  OwnCommands' /\ TablesOK' /\ \A u \in Thread : TaskOK(u)'
  <2>1. Attributed(p)' /\ \A q \in Plugin : q # p => Attributed(q)'
    BY <1>0, <1>2, TablesKept
  <2>2. OwnCommands'
    BY <1>1, <1>2 DEF OwnCommands
  <2> QED BY <1>0, <1>1, <1>2, <2>1, <2>2, TablesFrame
<1>3. CASE Gather(t)
  <2>1. CASE p \notin loaded
    <3>1. task'[t] = Idle
      BY <1>0, <1>1, <1>3, <2>1 DEF Gather
    <3>2. TaskOK(t)'
      BY <3>1 DEF TaskOK, Idle
    <3> QED BY <1>2, <1>3, <3>2 DEF Gather
  <2>2. CASE p \in loaded
    <3>1. /\ task'[t].pc = "unregister" /\ task'[t].plugin = p /\ UNCHANGED <<loaded, reg, cmdsOf>>
          /\ task'[t].cmds = IF cmdsOf[p] = {} THEN {p} ELSE cmdsOf[p]
      <4>1. /\ task' = [task EXCEPT ![t].pc = "unregister",
                                    ![t].cmds = IF cmdsOf[p] = {} THEN {p} ELSE cmdsOf[p]]
            /\ UNCHANGED <<loaded, reg, cmdsOf>>
        BY <1>0, <1>3, <2>2 DEF Gather
      <4> HIDE DEF At, Goto, Return
      <4> QED BY <1>0, <1>1, <4>1
    <3>2. cmdsOf[p] = {CmdOf[p]}
      BY <1>0, <1>3, <2>2 DEF Gather, Attributed
    <3>3. TaskOK(t)'
      BY <2>2, <3>1, <3>2 DEF TaskOK
    <3> QED BY <1>2, <1>3, <3>1, <3>3 DEF Gather
  <2> QED BY <2>1, <2>2
<1>4. CASE Unregister(t)
  <2>1. p \in loaded /\ task[t].cmds = {CmdOf[p]} /\ reg[CmdOf[p]] = p /\ task[t].pc = "unregister"
    BY <1>0, <1>1, <1>4 DEF Unregister, TaskOK, Attributed
  <2>2. /\ reg' = [reg EXCEPT ![CmdOf[p]] = None] /\ UNCHANGED <<loaded, cmdsOf>>
        /\ task' = [task EXCEPT ![t].cmds = @ \ {CmdOf[p]}, ![t].pc = "erase"]
    BY <1>0, <1>4, <2>1 DEF Unregister
  <2>3. task'[t].pc = "erase" /\ task'[t].plugin = p
    BY <1>0, <1>1, <2>2
  <2>4. ASSUME NEW q \in Plugin, q # p PROVE Attributed(q)'
    <3>1. CmdOf[q] \in Cmd /\ q # None
      BY PluginNames DEF Cmd
    <3>2. reg'[CmdOf[q]] = q <=> reg[CmdOf[q]] = q
      BY <1>0, <1>1, <2>1, <2>2, <2>4, <3>1
    <3> QED BY <1>0, <2>2, <2>4, <3>2 DEF Attributed
  <2>5. TaskOK(t)'
    BY <1>0, <1>1, <2>2, <2>3 DEF TaskOK
  <2>6. OwnCommands'
    BY <1>0, <1>1, <2>2 DEF OwnCommands
  <2> QED BY <1>0, <1>1, <2>3, <2>4, <2>5, <2>6, TablesFrame
<1>5. CASE Erase(t)
  <2>1. /\ reg[CmdOf[p]] # p /\ loaded' = loaded \ {p} /\ cmdsOf' = [cmdsOf EXCEPT ![p] = {}]
        /\ UNCHANGED reg
    BY <1>0, <1>1, <1>5 DEF Erase, TaskOK
  <2>2. task'[t].pc \in {"check", "deny"} /\ task'[t].plugin = p
    BY <1>0, <1>1, <1>5 DEF Erase
  <2>3. Attributed(p)' /\ \A q \in Plugin : q # p => Attributed(q)'
    BY <1>0, <1>1, <2>1 DEF Attributed
  <2>4. TaskOK(t)'
    BY <2>2 DEF TaskOK
  <2>5. OwnCommands'
    BY <1>1, <2>1 DEF OwnCommands
  <2> QED BY <1>0, <1>1, <2>3, <2>4, <2>5, TablesFrame
<1>6. CASE Check(t)
  <2>1. /\ task'[t] = Idle \/ (task'[t].pc = "snapshot" /\ task'[t].plugin = p /\ p \notin loaded)
        /\ UNCHANGED <<loaded, reg, cmdsOf>>
    BY <1>0, <1>1, <1>6 DEF Check
  <2>2. TaskOK(t)'
    BY <2>1 DEF TaskOK, Idle
  <2> QED BY <1>2, <1>6, <2>1, <2>2 DEF Check
<1>7. CASE Snapshot(t)
  <2>1. /\ task'[t].pc = "register" /\ task'[t].plugin = p /\ p \notin loaded
        /\ task'[t].cmds = Registered /\ UNCHANGED <<loaded, reg, cmdsOf>> /\ Registered' = Registered
    BY <1>0, <1>1, <1>7 DEF Snapshot, TaskOK, Registered
  <2>2. TaskOK(t)'
    BY <2>1 DEF TaskOK
  <2> QED BY <1>2, <1>7, <2>1, <2>2 DEF Snapshot
<1>8. CASE Register(t)
  <2>1. CASE reg[CmdOf[p]] = None /\ reg' = [reg EXCEPT ![CmdOf[p]] = p] /\ Goto(t, "list")
    <3>1. /\ task'[t].pc = "list" /\ task'[t].plugin = p /\ task'[t].cmds = task[t].cmds
          /\ task[t].cmds = Registered /\ UNCHANGED <<loaded, cmdsOf>>
      BY <1>0, <1>1, <1>8, <2>1 DEF Register, TaskOK
    <3>2. ASSUME NEW q \in Plugin, q # p PROVE Attributed(q)'
      <4>1. CmdOf[q] \in Cmd /\ q # None
        BY PluginNames DEF Cmd
      <4>2. reg'[CmdOf[q]] = q <=> reg[CmdOf[q]] = q
        BY <1>0, <1>1, <2>1, <3>2, <4>1
      <4> QED BY <1>0, <3>1, <3>2, <4>2 DEF Attributed
    <3>3. Registered = Registered' \ {CmdOf[p]} /\ reg'[CmdOf[p]] = p
      BY <1>0, <1>1, <2>1 DEF Registered
    <3>4. TaskOK(t)'
      BY <3>1, <3>3 DEF TaskOK
    <3>5. OwnCommands'
      BY <1>0, <1>1, <2>1 DEF OwnCommands
    <3> QED BY <1>0, <1>1, <3>1, <3>2, <3>4, <3>5, TablesFrame
  <2>2. CASE Return(t) /\ UNCHANGED reg
    <3>1. task'[t] = Idle
      BY <1>1, <2>2
    <3>2. TaskOK(t)'
      BY <3>1 DEF TaskOK, Idle
    <3> QED BY <1>2, <1>8, <2>2, <3>2 DEF Register
  <2> QED BY <1>0, <1>8, <2>1, <2>2 DEF Register
<1>9. CASE Track(t)
  <2>1. /\ reg[CmdOf[p]] = p /\ UNCHANGED reg
        /\ loaded' = loaded \cup {p} /\ cmdsOf' = [cmdsOf EXCEPT ![p] = {CmdOf[p]}]
        /\ task'[t] = Idle
    BY <1>0, <1>1, <1>9 DEF Track, TaskOK
  <2>3. Attributed(p)' /\ \A q \in Plugin : q # p => Attributed(q)'
    BY <1>0, <1>1, <2>1 DEF Attributed
  <2>4. TaskOK(t)'
    BY <2>1 DEF TaskOK, Idle
  <2>5. OwnCommands'
    BY <1>1, <2>1 DEF OwnCommands
  <2> QED BY <1>0, <1>1, <2>3, <2>4, <2>5, TablesFrame
<1>10. CASE Deny(t) \/ Save(t)
  <2>1. /\ task'[t] = Idle \/ task'[t].pc \in {"check", "save"}
        /\ UNCHANGED <<loaded, reg, cmdsOf>> /\ task[t].pc \in {"deny", "save"}
    BY <1>1, <1>10 DEF Deny, Save, Denied, DenyNames
  <2>2. TaskOK(t)'
    BY <2>1 DEF TaskOK, Idle
  <2> QED BY <1>2, <2>1, <2>2
<1>11. CASE NewCommands(t)
  <2>1. reg[CmdOf[p]] = p /\ task[t].cmds = Registered \ {CmdOf[p]} /\ UNCHANGED <<loaded, reg, cmdsOf>>
    BY <1>0, <1>1, <1>11 DEF NewCommands, TaskOK
  <2>2. CmdOf[p] \in Registered
    BY <1>0, <2>1 DEF Registered
  <2>3. task'[t].pc = "track" /\ task'[t].plugin = p /\ task'[t].cmds = {CmdOf[p]}
    BY <1>0, <1>1, <1>11, <2>1, <2>2 DEF NewCommands
  <2>4. TaskOK(t)'
    BY <2>1, <2>3 DEF TaskOK
  <2>5. Attributed(p)' \/ (task'[t].plugin = p /\ task'[t].pc \in {"erase", "list", "track"})
    BY <2>3
  <2>6. OwnCommands' /\ \A q \in Plugin : q # p => Attributed(q)'
    BY <1>0, <1>1, <2>1, TablesKept DEF OwnCommands
  <2> QED BY <1>0, <1>1, <2>4, <2>5, <2>6, TablesFrame
<1> QED BY <1>3, <1>4, <1>5, <1>6, <1>7, <1>8, <1>9, <1>10, <1>11 DEF ThreadStep

LEMMA TablesNext ==
  ASSUME ManagerInv, Next
  PROVE  OwnCommands' /\ TablesOK' /\ \A u \in Thread : TaskOK(u)'
<1>0. /\ OneOperation /\ OwnCommands /\ TablesOK /\ \A u \in Thread : TaskOK(u)
      /\ task \in [Thread -> [op : Ops, plugin : Plugin \cup {None}, pc : Pcs, cmds : SUBSET Cmd]]
      /\ reg \in [Cmd -> Plugin \cup {None}]
  BY DEF ManagerInv, TypesOK
<1>1. ASSUME UNCHANGED <<task, loaded, cmdsOf, reg>>
      PROVE  OwnCommands' /\ TablesOK' /\ \A u \in Thread : TaskOK(u)'
  BY <1>0, <1>1 DEF OwnCommands, TablesOK, Attributed, TaskOK, Registered
<1>2. CASE \/ Discover \/ Resolve \/ TakeOrder
           \/ \E u \in User : (\E c \in Cmd : GetCommand(u, c)) \/ ReleaseCommand(u)
           \/ (\E op \in {"start", "stop"} : SetWatch(op)) \/ WatchThreadEnds \/ WatchJoined
  BY <1>1, <1>2 DEF Discover, Resolve, TakeOrder, GetCommand, ReleaseCommand, SetWatch, WatchThreadEnds,
                    WatchJoined, processVars
<1>3. ASSUME NEW t \in Thread, task[t] = Idle, \A u \in Thread \ {t} : task'[u] = task[u],
             task'[t].pc \in {"check", "deny", "gather"}, UNCHANGED <<loaded, cmdsOf, reg>>
      PROVE  OwnCommands' /\ TablesOK' /\ \A u \in Thread : TaskOK(u)'
  <2>1. TaskOK(t)' /\ \A u \in Thread \ {t} : TaskOK(u)'
    BY <1>0, <1>3 DEF TaskOK, Registered
  <2>2. TablesOK'
    <3> SUFFICES ASSUME NEW q \in Plugin, ~Attributed(q)'
                 PROVE  \E u \in Thread : task'[u].plugin = q /\ task'[u].pc \in {"erase", "list", "track"}
      BY DEF TablesOK
    <3>1. ~Attributed(q)
      BY <1>3, TablesKept
    <3>2. PICK u \in Thread : task[u].plugin = q /\ task[u].pc \in {"erase", "list", "track"}
      BY <1>0, <3>1 DEF TablesOK
    <3>3. u # t
      BY <1>3, <3>2 DEF Idle
    <3> QED BY <1>3, <3>2, <3>3
  <2> QED BY <1>0, <1>3, <2>1, <2>2 DEF OwnCommands
<1>4. CASE LoadNext
  <2>1. CASE UNCHANGED task
    BY <1>1, <1>4, <2>1 DEF LoadNext
  <2>2. CASE order # <<>>
    BY <1>0, <1>3, <1>4, <2>2 DEF LoadNext, Thread
  <2> QED BY <1>4, <2>1, <2>2 DEF LoadNext
<1>5. ASSUME NEW t \in Admin, NEW op \in {"reload", "disable", "enable"}, NEW p \in Plugin,
             PerformAction(t, op, p)
      PROVE  OwnCommands' /\ TablesOK' /\ \A u \in Thread : TaskOK(u)'
  <2>1. t \in Thread
    BY DEF Thread
  <2>2. task'[t].pc \in {"deny", "gather"}
    BY <1>0, <1>5, <2>1 DEF PerformAction, Begin
  <2> QED BY <1>0, <1>3, <1>5, <2>1, <2>2 DEF PerformAction, Begin
<1>6. CASE Crash
  <2>1. ASSUME NEW q \in Plugin PROVE Attributed(q)'
    <3>1. CmdOf[q] \in Cmd /\ q # None
      BY PluginNames DEF Cmd
    <3> QED BY <1>6, <3>1 DEF Crash, Attributed
  <2>2. \A u \in Thread : TaskOK(u)'
    BY <1>6 DEF Crash, TaskOK, Idle
  <2> QED BY <1>6, <2>1, <2>2 DEF Crash, OwnCommands, TablesOK
<1> QED BY <1>2, <1>4, <1>5, <1>6, ThreadTables DEF Next, ThreadStep

(* A library is open while its command is registered or held.              *)
LEMMA MappedNext ==
  ASSUME ManagerInv, Next
  PROVE  MappedWhileUsed'
<1>0. /\ MappedWhileUsed /\ OwnCommands /\ reg \in [Cmd -> Plugin \cup {None}]
      /\ using \in [User -> Plugin \cup {None}] /\ None \notin Plugin
  BY PluginNames DEF ManagerInv, TypesOK
<1>1. ASSUME UNCHANGED <<reg, using, mapped>> PROVE MappedWhileUsed'
  BY <1>0, <1>1 DEF MappedWhileUsed, Held
<1>2. ASSUME NEW t \in Thread, Unregister(t) PROVE MappedWhileUsed'
  <2>1. PICK c \in task[t].cmds :
          \/ UNCHANGED <<reg, mapped>>
          \/ /\ reg[c] # None /\ reg' = [reg EXCEPT ![c] = None]
             /\ mapped' = IF Held(reg[c]) THEN mapped ELSE mapped \ {reg[c]}
    BY <1>2 DEF Unregister
  <2>2. UNCHANGED using /\ c \in Cmd
    BY <1>2, <2>1 DEF Unregister, ManagerInv, TypesOK
  <2>3. CASE /\ reg[c] # None /\ reg' = [reg EXCEPT ![c] = None]
             /\ mapped' = IF Held(reg[c]) THEN mapped ELSE mapped \ {reg[c]}
    <3>1. PICK p \in Plugin : p = reg[c]
      BY <1>0, <2>2, <2>3
    <3>2. \A d \in Cmd : reg[d] = p => d = c
      BY <1>0, <2>2, <3>1 DEF OwnCommands
    <3>3. \A d \in Cmd : reg'[d] = IF d = c THEN None ELSE reg[d]
      BY <1>0, <2>3
    <3>4. \A q \in Plugin : (\E d \in Cmd : reg'[d] = q) <=> (\E d \in Cmd : reg[d] = q) /\ q # p
      BY <1>0, <2>2, <3>1, <3>2, <3>3
    <3>5. \A q : Held(q)' <=> Held(q)
      BY <2>2 DEF Held
    <3> QED BY <1>0, <2>3, <3>1, <3>4, <3>5 DEF MappedWhileUsed
  <2> QED BY <1>1, <2>1, <2>2, <2>3
<1>3. ASSUME NEW t \in Thread, Register(t) PROVE MappedWhileUsed'
  <2>1. PICK p \in Plugin : p = task[t].plugin /\ CmdOf[p] \in Cmd
    BY <1>3, ThreadAlone DEF Register, At, Active, ManagerInv
  <2>2. UNCHANGED using
    BY <1>3 DEF Register
  <2>3. CASE reg[CmdOf[p]] = None /\ reg' = [reg EXCEPT ![CmdOf[p]] = p] /\ mapped' = mapped \cup {p}
    <3>1. \A d \in Cmd : reg'[d] = IF d = CmdOf[p] THEN p ELSE reg[d]
      BY <1>0, <2>3
    <3>2. \A q \in Plugin : (\E d \in Cmd : reg'[d] = q) <=> (\E d \in Cmd : reg[d] = q) \/ q = p
      BY <1>0, <2>1, <2>3, <3>1
    <3>3. \A q : Held(q)' <=> Held(q)
      BY <2>2 DEF Held
    <3> QED BY <1>0, <2>3, <3>2, <3>3 DEF MappedWhileUsed
  <2> QED BY <1>1, <1>3, <2>1, <2>2, <2>3 DEF Register
<1>4. ASSUME NEW u \in User, NEW c \in Cmd, GetCommand(u, c) PROVE MappedWhileUsed'
  <2>1. reg[c] # None /\ using[u] = None /\ using' = [using EXCEPT ![u] = reg[c]] /\ UNCHANGED <<reg, mapped>>
    BY <1>4 DEF GetCommand
  <2>2. \A q \in Plugin : Held(q)' <=> Held(q) \/ q = reg[c]
    BY <1>0, <2>1 DEF Held
  <2> QED BY <1>0, <2>1, <2>2 DEF MappedWhileUsed
<1>5. ASSUME NEW u \in User, ReleaseCommand(u) PROVE MappedWhileUsed'
  <2>1. PICK p \in Plugin : p = using[u]
    BY <1>0, <1>5 DEF ReleaseCommand
  <2>2. /\ using' = [using EXCEPT ![u] = None] /\ UNCHANGED reg
        /\ mapped' = IF (\E c \in Cmd : reg[c] = p) \/ (\E v \in User \ {u} : using[v] = p)
                     THEN mapped ELSE mapped \ {p}
    BY <1>5, <2>1 DEF ReleaseCommand
  <2>3. \A q \in Plugin : Held(q)' <=> \E v \in User \ {u} : using[v] = q
    BY <1>0, <2>2 DEF Held
  <2>4. \A q \in Plugin : q # p => (Held(q)' <=> Held(q))
    BY <2>1, <2>3 DEF Held
  <2>5. \A q \in Plugin : q # p => (q \in mapped' <=> (\E c \in Cmd : reg'[c] = q) \/ Held(q)')
    BY <1>0, <2>2, <2>4 DEF MappedWhileUsed
  <2>6. p \in mapped /\ (p \in mapped' <=> (\E c \in Cmd : reg'[c] = p) \/ Held(p)')
    <3>1. p \in mapped
      BY <1>0, <2>1 DEF MappedWhileUsed, Held
    <3> QED BY <2>2, <2>3, <3>1
  <2>7. mapped' \subseteq Plugin
    BY <1>0, <2>2 DEF MappedWhileUsed
  <2> QED BY <2>5, <2>6, <2>7 DEF MappedWhileUsed
<1>6. CASE Crash
  BY <1>0, <1>6 DEF Crash, MappedWhileUsed, Held
<1>7. ASSUME NEW t \in Thread,
             \/ Gather(t) \/ Erase(t) \/ Check(t) \/ Snapshot(t) \/ NewCommands(t) \/ Track(t)
             \/ Deny(t) \/ Save(t)
      PROVE  MappedWhileUsed'
  BY <1>1, <1>7 DEF Gather, Erase, Check, Snapshot, NewCommands, Track, Deny, Save
<1>8. CASE \/ Discover \/ Resolve \/ TakeOrder \/ LoadNext
           \/ \E t \in Admin, op \in {"reload", "disable", "enable"}, p \in Plugin : PerformAction(t, op, p)
           \/ (\E op \in {"start", "stop"} : SetWatch(op)) \/ WatchThreadEnds \/ WatchJoined
  BY <1>1, <1>8 DEF Discover, Resolve, TakeOrder, LoadNext, PerformAction, Begin, SetWatch,
                    WatchThreadEnds, WatchJoined, processVars
<1> QED BY <1>2, <1>3, <1>4, <1>5, <1>6, <1>7, <1>8 DEF Next

-----------------------------------------------------------------------------
(* The denylist                                                            *)

LEMMA TornStays == ASSUME Next PROVE torn => torn'
<1>1. ASSUME NEW t \in Thread, ThreadStep(t) PROVE torn => torn'
  BY <1>1 DEF ThreadStep, Gather, Unregister, Erase, Check, Snapshot, Register, NewCommands, Track, Deny, Save,
              historyVars
<1>2. CASE Crash
  BY <1>2 DEF Crash
<1> QED
  BY <1>1, <1>2 DEF Next, ThreadStep, Discover, Resolve, TakeOrder, LoadNext, PerformAction, Begin, GetCommand,
     ReleaseCommand, SetWatch, WatchThreadEnds, WatchJoined, historyVars

LEMMA ThreadDeny ==
  ASSUME ManagerInv, DenyFacts, NEW t \in Thread, ThreadStep(t), ~torn'
  PROVE  DenyFacts'
<1> USE DEF At, Goto, Return
<1>0. PICK p \in Plugin :
        /\ p = task[t].plugin /\ task[t].pc # "idle" /\ UNCHANGED <<main, order, found, phase>> /\ main # "down"
        /\ phase = "idle" /\ found = {}
        /\ \A u \in Thread \ {t} : task'[u] = Idle /\ task[u] = Idle
  BY ThreadFrame, ThreadAlone DEF ManagerInv, TypesOK, Active, resolverVars
<1>1. /\ OffOK(t) /\ task \in [Thread -> [op : Ops, plugin : Plugin \cup {None}, pc : Pcs, cmds : SUBSET Cmd]]
      /\ off \subseteq names /\ names \subseteq Plugin /\ off \cap loaded = {}
      /\ (\A u \in Thread : task[u].pc # "save") => file = names
      /\ order \in Seq(Startable) /\ (main # "loading" => order = <<>>)
  BY <1>0 DEF DenyFacts, DenylistOK, StartOK, ManagerInv, TypesOK
<1>2. \/ t = Main /\ main = "loading" /\ task[t].op = "start"
      \/ t \in Admin /\ main = "up"
  BY <1>0 DEF ManagerInv, OneOperation, Active
<1>3. \A u \in Thread \ {t} : OffOK(u)' /\ task'[u].pc # "save" /\ task[u].pc # "save"
  BY <1>0 DEF OffOK, Idle
<1>4. ASSUME UNCHANGED off, off \cap loaded' = {}, OffOK(t)', UNCHANGED <<names, file>>,
             task[t].pc # "save", task'[t].pc # "save"
      PROVE  DenyFacts'
  <2>1. StartOK'
    BY <1>0, <1>1, <1>4 DEF StartOK, Startable
  <2>2. DenylistOK'
    BY <1>0, <1>1, <1>3, <1>4 DEF DenylistOK
  <2> QED BY <1>1, <1>3, <1>4, <2>1, <2>2 DEF DenyFacts
<1>5. CASE Gather(t)
  <2>1. UNCHANGED <<off, loaded, names, file>> /\ task[t].pc = "gather"
    BY <1>5 DEF Gather, historyVars
  <2>2. \/ task'[t] = Idle
        \/ task'[t].pc = "unregister" /\ task'[t].plugin = p /\ task'[t].op = task[t].op /\ p \in loaded
    BY <1>0, <1>1, <1>5 DEF Gather
  <2>3. OffOK(t)'
    BY <1>1, <2>1, <2>2 DEF OffOK, Idle
  <2> QED BY <1>1, <1>4, <2>1, <2>2, <2>3 DEF Idle
<1>6. CASE Unregister(t)
  <2>1. UNCHANGED <<off, loaded, names, file>> /\ task[t].pc = "unregister"
    BY <1>6 DEF Unregister, historyVars
  <2>2. \/ task'[t] = Idle
        \/ task'[t].pc \in {"unregister", "erase"} /\ task'[t].plugin = p /\ task'[t].op = task[t].op
    BY <1>0, <1>1, <1>6 DEF Unregister
  <2>3. OffOK(t)'
    BY <1>0, <1>1, <2>1, <2>2 DEF OffOK, Idle
  <2> QED BY <1>1, <1>4, <2>1, <2>2, <2>3 DEF Idle
<1>7. CASE Erase(t)
  <2>1. /\ UNCHANGED <<off, names, file>> /\ loaded' = loaded \ {p} /\ task[t].pc = "erase"
        /\ task'[t].pc = (IF task[t].op = "reload" THEN "check" ELSE "deny")
        /\ task'[t].plugin = p /\ task'[t].op = task[t].op
    BY <1>0, <1>1, <1>7 DEF Erase, historyVars
  <2>2. OffOK(t)'
    BY <1>0, <1>1, <2>1 DEF OffOK
  <2> QED BY <1>1, <1>4, <2>1, <2>2
<1>8. CASE Check(t) \/ Snapshot(t) \/ Register(t) \/ NewCommands(t)
  <2>1. UNCHANGED <<off, loaded, names, file>> /\ task[t].pc \in {"check", "snapshot", "register", "list"}
    BY <1>8 DEF Check, Snapshot, Register, NewCommands, historyVars
  <2>2. \/ task'[t] = Idle
        \/ task'[t].pc \in {"snapshot", "register", "list", "track"} /\ task'[t].plugin = p
    BY <1>0, <1>1, <1>8 DEF Check, Snapshot, Register, NewCommands
  <2>3. OffOK(t)'
    BY <1>0, <1>1, <2>1, <2>2 DEF OffOK, Idle
  <2> QED BY <1>1, <1>4, <2>1, <2>2, <2>3 DEF Idle
<1>9. CASE Track(t)
  <2>1. /\ UNCHANGED <<off, names, file>> /\ loaded' = loaded \cup {p} /\ task[t].pc = "track"
        /\ task'[t] = Idle
    BY <1>0, <1>1, <1>9 DEF Track, historyVars
  <2>2. OffOK(t)'
    BY <2>1 DEF OffOK, Idle
  <2>3. p \notin off
    BY <1>0, <1>1, <2>1 DEF OffOK
  <2> QED BY <1>1, <1>4, <2>1, <2>2, <2>3 DEF Idle
(* The denylist is changed by one admin thread, of a server that is up.    *)
<1>10. CASE Deny(t) \/ Save(t)
  <2>0. /\ task[t].pc \in {"deny", "save"} /\ UNCHANGED loaded
        /\ \/ task[t].op = "enable" /\ p \notin off
           \/ task[t].op = "disable" /\ p \notin loaded
    BY <1>0, <1>1, <1>10 DEF Deny, Save, DenyNames, OffOK
  <2>1. main = "up" /\ main' = "up" /\ order' = <<>> /\ found' = {}
    BY <1>0, <1>1, <1>2, <2>0
  <2>2. StartOK'
    BY <2>1 DEF StartOK
  <2>3. ASSUME off \subseteq names', (\A u \in Thread : task'[u].pc # "save") => file' = names',
               Denied(t), task[t].op = "disable" => p \in names'
        PROVE  DenyFacts'
    <3>1. CASE task[t].op = "enable"
      <4>1. UNCHANGED off /\ task'[t].pc = "check" /\ task'[t].plugin = p
        BY <1>0, <1>1, <2>3, <3>1 DEF Denied
      <4>2. OffOK(t)'
        BY <2>0, <3>1, <4>1 DEF OffOK
      <4> QED BY <1>1, <1>3, <2>0, <2>1, <2>2, <2>3, <4>1, <4>2 DEF DenyFacts, DenylistOK
    <3>2. CASE task[t].op = "disable"
      <4>1. off' = off \cup {p} /\ task'[t] = Idle
        BY <1>0, <1>1, <2>3, <3>2 DEF Denied
      <4>2. OffOK(t)'
        BY <4>1 DEF OffOK, Idle
      <4> QED BY <1>1, <1>3, <2>0, <2>1, <2>2, <2>3, <3>2, <4>1, <4>2 DEF DenyFacts, DenylistOK
    <3> QED BY <2>0, <3>1, <3>2
  <2>4. CASE Save(t)
    <3>1. file' = names /\ UNCHANGED names /\ task[t].pc = "save" /\ Denied(t)
      BY <2>4 DEF Save
    <3>2. task[t].op = "disable" => p \in names
      BY <1>0, <1>1, <3>1 DEF OffOK
    <3> QED BY <1>1, <2>3, <3>1, <3>2
  <2>5. CASE Deny(t)
    <3>1. /\ names' = IF task[t].op = "enable" THEN names \ {p} ELSE names \cup {p}
          /\ task[t].pc = "deny" /\ off \subseteq names' /\ (task[t].op = "disable" => p \in names')
      BY <1>0, <1>1, <2>0, <2>5 DEF Deny, DenyNames
    <3>2. CASE Goto(t, "save") /\ UNCHANGED off
      <4>1. task'[t].pc = "save" /\ task'[t].plugin = p /\ task'[t].op = task[t].op
        BY <1>0, <1>1, <3>2
      <4>2. OffOK(t)'
        BY <2>0, <3>1, <3>2, <4>1 DEF OffOK
      <4> QED BY <1>1, <1>3, <2>0, <2>1, <2>2, <3>1, <3>2, <4>1, <4>2 DEF DenyFacts, DenylistOK
    <3>3. CASE names' = names /\ Denied(t) /\ UNCHANGED file
      <4>1. file' = names'
        BY <1>1, <1>3, <3>1, <3>3
      <4> QED BY <2>3, <3>1, <3>3, <4>1
    <3> QED BY <2>5, <3>2, <3>3 DEF Deny
  <2> QED BY <1>10, <2>4, <2>5
<1> QED BY <1>5, <1>6, <1>7, <1>8, <1>9, <1>10 DEF ThreadStep

LEMMA DenyNext ==
  ASSUME ManagerInv, Next
  PROVE  DenyInv'
<1> SUFFICES ASSUME ~torn' PROVE DenyFacts'
  BY DEF DenyInv, DenyFacts
<1>0. /\ DenyFacts /\ off \subseteq Plugin /\ ordered \in Seq(found) /\ found \subseteq Plugin
      /\ task \in [Thread -> [op : Ops, plugin : Plugin \cup {None}, pc : Pcs, cmds : SUBSET Cmd]]
      /\ (phase = "idle" => found = {}) /\ OneOperation
  BY TornStays DEF ManagerInv, DenyInv, DenyFacts, TypesOK
<1>1. ASSUME UNCHANGED <<main, off, loaded, names, file, order, found, task>> PROVE DenyFacts'
  BY <1>0, <1>1 DEF DenyFacts, StartOK, Startable, DenylistOK, OffOK
<1>2. CASE Discover
  <2>1. found' = Plugin \ file /\ names' = file /\ main = "down" /\ main' = "starting"
    BY <1>2, DiscoverReady DEF ManagerInv
  <2>2. UNCHANGED <<off, loaded, file, order, task>>
    BY <1>2 DEF Discover, historyVars
  <2>3. \A t \in Thread : task[t].pc = "idle"
    BY <1>0, <2>1, ThreadAlone DEF ManagerInv, Active
  <2>4. \A t \in Thread : OffOK(t)'
    BY <2>2, <2>3 DEF OffOK
  <2> QED BY <1>0, <2>1, <2>2, <2>4 DEF DenyFacts, StartOK, Startable, DenylistOK
<1>3. CASE Resolve
  <2>1. UNCHANGED found
    BY <1>3, ResolverNext DEF Resolve, ManagerInv
  <2> QED BY <1>1, <1>3, <2>1 DEF Resolve, processVars, historyVars
<1>4. CASE TakeOrder
  <2>1. /\ UNCHANGED <<off, loaded, names, file, task>> /\ main' = "loading" /\ found' = {} /\ phase # "idle"
        /\ order' \in {ordered, <<>>}
    BY <1>4 DEF TakeOrder, EndResolve, historyVars
  <2>2. main = "starting"
    BY <1>0, <2>1 DEF OneOperation
  <2>3. order' \in Seq(Plugin \ off)
    <3>1. found \subseteq Plugin \ off
      BY <1>0 DEF DenyFacts, StartOK, Startable
    <3>2. ordered \in Seq(Plugin \ off)
      BY <1>0, <3>1
    <3>3. <<>> \in Seq(Plugin \ off)
      OBVIOUS
    <3> QED BY <2>1, <3>2, <3>3
  <2>4. StartOK'
    BY <2>1, <2>3 DEF StartOK, Startable
  <2> QED BY <1>0, <2>1, <2>2, <2>4 DEF DenyFacts, DenylistOK, OffOK
<1>5. CASE LoadNext
  <2>0. UNCHANGED <<off, loaded, names, file, found>> /\ main = "loading" /\ main' # "down" /\ task[Main] = Idle
    BY <1>5 DEF LoadNext, resolverVars, historyVars
  <2>1. CASE order = <<>>
    <3>1. UNCHANGED <<order, task>>
      BY <1>5, <2>1 DEF LoadNext
    <3> QED BY <1>0, <2>0, <2>1, <3>1 DEF DenyFacts, StartOK, Startable, DenylistOK, OffOK
  <2>2. CASE order # <<>>
    <3>1. Head(order) \in Plugin \ off /\ Tail(order) \in Seq(Plugin \ off)
      BY <1>0, <2>2, HeadTailProperties DEF DenyFacts, StartOK, Startable
    <3>2. Main \in Thread
      BY DEF Thread
    <3>3. /\ order' = Tail(order) /\ main' = "loading" /\ task'[Main].plugin = Head(order)
          /\ task'[Main].pc = "check" /\ \A u \in Thread \ {Main} : task'[u] = task[u]
      BY <1>0, <1>5, <2>0, <2>2, <3>2 DEF LoadNext
    <3>4. \A u \in Thread : OffOK(u)'
      <4>1. OffOK(Main)'
        BY <2>0, <3>1, <3>3 DEF OffOK
      <4>2. ASSUME NEW u \in Thread \ {Main} PROVE OffOK(u)'
        BY <1>0, <2>0, <3>3 DEF OffOK, DenyFacts
      <4> QED BY <4>1, <4>2
    <3>5. StartOK'
      BY <1>0, <2>0, <3>1, <3>3 DEF DenyFacts, StartOK, Startable
    <3>6. DenylistOK'
      <4>1. (\A u \in Thread : task'[u].pc # "save") => \A u \in Thread : task[u].pc # "save"
        BY <2>0, <3>2, <3>3 DEF Idle
      <4> QED BY <1>0, <2>0, <3>3, <4>1 DEF DenyFacts, DenylistOK
    <3> QED BY <1>0, <2>0, <3>4, <3>5, <3>6 DEF DenyFacts
  <2> QED BY <2>1, <2>2
<1>6. ASSUME NEW t \in Admin, NEW op \in {"reload", "disable", "enable"}, NEW p \in Plugin,
             PerformAction(t, op, p)
      PROVE  DenyFacts'
  <2>0. /\ UNCHANGED <<main, loaded, names, file, found, order, phase>> /\ main = "up" /\ task[t] = Idle
        /\ off' = (IF op = "enable" THEN off \ {p} ELSE off) /\ t \in Thread /\ t # Main
    BY <1>6, PluginNames DEF PerformAction, Begin, resolverVars, Thread
  <2>1. order = <<>> /\ found = {}
    BY <1>0, <2>0 DEF DenyFacts, StartOK, OneOperation
  <2>2. \A u \in Thread : task[u] = Idle
    BY <1>6, <1>0, <2>0, PluginNames DEF PerformAction, OneOperation, Thread
  <2>3. /\ task'[t].plugin = p /\ task'[t].op = op /\ task'[t].pc = (IF op = "enable" THEN "deny" ELSE "gather")
        /\ \A u \in Thread \ {t} : task'[u] = Idle
    BY <1>0, <1>6, <2>0, <2>2 DEF PerformAction, Begin
  <2>4. \A u \in Thread : OffOK(u)'
    <3>1. OffOK(t)'
      BY <2>0, <2>3 DEF OffOK
    <3>2. ASSUME NEW u \in Thread \ {t} PROVE OffOK(u)'
      BY <2>3 DEF OffOK, Idle
    <3> QED BY <3>1, <3>2
  <2>5. \A u \in Thread : task[u].pc # "save"
    BY <2>2 DEF Idle
  <2>6. off \subseteq names /\ file = names /\ off \cap loaded = {}
    BY <1>0, <2>0, <2>5 DEF DenyFacts, DenylistOK
  <2> QED BY <2>0, <2>1, <2>4, <2>6 DEF DenyFacts, StartOK, Startable, DenylistOK
<1>7. CASE \/ \E u \in User : (\E c \in Cmd : GetCommand(u, c)) \/ ReleaseCommand(u)
           \/ (\E op \in {"start", "stop"} : SetWatch(op)) \/ WatchThreadEnds \/ WatchJoined
  BY <1>1, <1>7 DEF GetCommand, ReleaseCommand, SetWatch, WatchThreadEnds, WatchJoined, resolverVars, historyVars
<1>8. CASE Crash
  <2>1. \A t \in Thread : task[t].pc # "save"
    BY <1>8 DEF Crash, At
  <2>2. main # "down" /\ main' = "down" /\ UNCHANGED <<file, off>> /\ loaded' = {} /\ order' = <<>> /\ found' = {}
    BY <1>8 DEF Crash, EndResolve
  <2>3. \A t \in Thread : OffOK(t)'
    BY <1>8 DEF Crash, OffOK, Idle
  <2>4. off \subseteq file
    BY <1>0, <2>1, <2>2 DEF DenyFacts, DenylistOK
  <2> QED BY <2>2, <2>3, <2>4 DEF DenyFacts, StartOK, DenylistOK
<1> QED BY <1>0, <1>2, <1>3, <1>4, <1>5, <1>6, <1>7, <1>8, ThreadDeny DEF Next, ThreadStep

-----------------------------------------------------------------------------
LEMMA ManagerInvariance == Spec => []ManagerInv
<1>1. ManagerInv /\ [Next]_vars => ManagerInv'
  <2> SUFFICES ASSUME ManagerInv, [Next]_vars PROVE ManagerInv'
    OBVIOUS
  <2>1. CASE Next
    BY <2>1, TypesNext, OperationNext, TablesNext, MappedNext, DenyNext DEF ManagerInv
  <2>2. CASE UNCHANGED vars
    BY <2>2 DEF ManagerInv, TypesOK, OneOperation, Active, OwnCommands, TablesOK, Attributed, TaskOK, Registered, DenyFacts,
                MappedWhileUsed, Held, DenyInv, StartOK, Startable, DenylistOK, OffOK, vars, resolverVars,
                processVars, historyVars
  <2> QED BY <2>1, <2>2
<1> QED BY <1>1, InitManager, PTL DEF Spec

(* Whatever admins do at once, and wherever the process dies, a plugin     *)
(* nobody is working on is loaded exactly when its command is registered,  *)
(* and is charged with that command only.                                  *)
THEOREM CommandsAreAttributed == Spec => []CommandsAttributed
<1>1. ManagerInv => CommandsAttributed
  BY DEF ManagerInv, TablesOK, Attributed, Busy, CommandsAttributed
<1> QED BY <1>1, ManagerInvariance, PTL

(* No library is closed under a step that holds its command, and none is   *)
(* left open.                                                              *)
THEOREM LibrariesStayMapped == Spec => []MappedWhileUsed
<1>1. ManagerInv => MappedWhileUsed
  BY DEF ManagerInv
<1> QED BY <1>1, ManagerInvariance, PTL

(* A plugin an admin disabled is not loaded again, by a reload or by a     *)
(* restart, before it is enabled, as long as every denylist file was       *)
(* written out.                                                            *)
THEOREM DisabledPluginsStayOff == Spec => []DisabledStaysOff
<1>1. ManagerInv => DisabledStaysOff
  BY DEF ManagerInv, DenyInv, DenyFacts, DisabledStaysOff
<1> QED BY <1>1, ManagerInvariance, PTL

-----------------------------------------------------------------------------
(***************************************************************************)
(* The resolver.  While Kahn's algorithm runs, the count of a plugin is    *)
(* the number of its dependencies not ordered yet, a plugin is ordered or  *)
(* ready exactly when it has none, and nothing is in either list twice.    *)
(***************************************************************************)
KahnOK ==
  /\ IsInjective(ready) /\ IsInjective(ordered) /\ ToSet(ordered) \cap ToSet(ready) = {}
  /\ Cardinality(ToSet(ordered)) = Len(ordered)
  /\ \A p \in found : inDegree[p] = Cardinality(Needs(p) \ ToSet(ordered))
  /\ \A p \in found :
       p \in ToSet(ordered) \cup ToSet(ready) <=> Needs(p) \subseteq ToSet(ordered)
  /\ \A i, j \in DOMAIN ordered : ordered[j] \in graph[ordered[i]] => j < i

(* The path of the search is a chain, and has every open plugin on it.     *)
Chain(s)   == \A i \in 1..(Len(s) - 1) : s[i + 1] \in graph[s[i]]
OpenOnPath == \A p \in Plugin : color[p] = "open" => p \in ToSet(path)
Unsearched == path = <<>> /\ OpenOnPath

ResolverTypes ==
  /\ found \subseteq Plugin /\ graph \in [Plugin -> SUBSET Plugin]
  /\ ready \in Seq(found) /\ ordered \in Seq(found) /\ path \in Seq(found)
  /\ inDegree \in [Plugin -> Int] /\ color \in [Plugin -> {"new", "open", "done"}]

ResolverInv ==
  /\ ResolverTypes
  /\ phase = "idle" => ordered = <<>> /\ Unsearched
  /\ phase = "kahn" => KahnOK /\ Unsearched
  /\ phase \in {"search", "circular"} => HasCycle
  /\ phase = "search" => Chain(path) /\ OpenOnPath
  /\ ResolveCorrect

(* A list of a finite set's elements has each of them, once.               *)
LEMMA SetToSeqsOnce ==
  ASSUME NEW S, IsFiniteSet(S), NEW s \in SetToSeqs(S)
  PROVE  s \in Seq(S) /\ ToSet(s) = S /\ IsInjective(s)
<1>1. Cardinality(S) \in Nat
  BY FS_CardinalityType
<1> DEFINE D == 1..Cardinality(S)
<1>2. s \in [D -> S] /\ \A i, j \in D : i # j => s[i] # s[j]
  BY DEF SetToSeqs
<1>3. s \in Injection(D, S)
  BY <1>2 DEF Injection, IsInjective
<1>4. Cardinality(D) = Cardinality(S)
  BY <1>1, FS_Interval
<1> HIDE DEF D
<1>5. s \in Surjection(D, S)
  BY <1>3, <1>4, FS_Injection
<1>6. DOMAIN s = D /\ \A x \in S : \E i \in D : s[i] = x
  BY <1>5 DEF Surjection
<1>7. s \in Seq(S)
  BY SetToSeqsElements
<1> QED BY <1>2, <1>3, <1>6, <1>7 DEF ToSet, Injection

(* Ordering a finite set of naturals.                                      *)
LEMMA LeastIndex ==
  ASSUME NEW S, S \subseteq Nat, S # {}
  PROVE  \E x \in S : \A y \in S : x <= y
<1>1. PICK x \in S : \A y \in S : ~(<<y, x>> \in OpToRel(<, Nat))
  BY WFMin, NatLessThanWellFounded
<1>2. \A y \in S : ~(y < x)
  BY <1>1 DEF OpToRel
<1> QED BY <1>2

LEMMA FoundFinite ==
  ASSUME found \subseteq Plugin
  PROVE  \A T : T \subseteq found => IsFiniteSet(T) /\ Cardinality(T) \in Nat
BY PluginsFinite, FS_Subset, FS_CardinalityType

(* What the start of Kahn's algorithm establishes.                         *)
LEMMA BeginsWell ==
  ASSUME ResolverInv, NEW g \in Graphs, NEW P, P \subseteq Plugin, BeginResolve(P, g)
  PROVE  ResolverInv'
<1> DEFINE degree == [p \in Plugin |-> IF p \in P THEN Cardinality(g[p] \cap P) ELSE 0]
           free   == {p \in P : degree[p] = 0}
<1>1. /\ phase = "idle" /\ found' = P /\ graph' = g /\ phase' = "kahn" /\ inDegree' = degree
      /\ ready' \in SetToSeqs(free) /\ UNCHANGED <<ordered, color, path>>
  BY DEF BeginResolve
<1>2. g \in [Plugin -> SUBSET Plugin]
  BY GraphsAssumption
<1>3. \A T : T \subseteq P => IsFiniteSet(T) /\ Cardinality(T) \in Nat /\ (Cardinality(T) = 0 <=> T = {})
  BY PluginsFinite, FS_Subset, FS_CardinalityType, FS_EmptySet
<1>4. degree \in [Plugin -> Int]
  BY <1>2, <1>3
<1>5. \A p \in P : degree[p] = Cardinality(g[p] \cap P) /\ (p \in free <=> g[p] \cap P = {})
  BY <1>3
<1>6. free \subseteq P
  OBVIOUS
<1> HIDE DEF degree, free
<1>7. ready' \in Seq(free) /\ ToSet(ready') = free /\ IsInjective(ready')
  BY <1>1, <1>3, <1>6, SetToSeqsOnce
<1>8. ordered' = <<>> /\ ToSet(<<>>) = {} /\ IsInjective(<<>>) /\ Unsearched'
  BY <1>1 DEF ResolverInv, Unsearched, OpenOnPath, ToSet, IsInjective
<1>9. ResolverTypes'
  <2>1. ready' \in Seq(P)
    BY <1>6, <1>7
  <2>2. ordered' \in Seq(P) /\ path' \in Seq(P)
    BY <1>8 DEF Unsearched
  <2> QED BY <1>1, <1>2, <1>4, <2>1, <2>2 DEF ResolverInv, ResolverTypes
<1>10. KahnOK'
  <2>1. \A p \in P : Needs(p)' = g[p] \cap P
    BY <1>1 DEF Needs
  <2>2. \A p \in P : inDegree'[p] = Cardinality(Needs(p)' \ {})
    BY <1>1, <1>5, <2>1
  <2>3. \A p \in P : p \in free <=> Needs(p)' \subseteq {}
    BY <1>5, <2>1
  <2>4. Len(<<>>) = 0 /\ Cardinality({}) = 0 /\ DOMAIN <<>> = {}
    BY FS_EmptySet
  <2> QED BY <1>1, <1>7, <1>8, <2>2, <2>3, <2>4 DEF KahnOK
<1> QED BY <1>1, <1>8, <1>9, <1>10 DEF ResolverInv, ResolveCorrect

(* The next ready plugin is not yet ordered, and needs only ordered ones.  *)
LEMMA KahnKeeps ==
  ASSUME ResolverInv, KahnStep
  PROVE  ResolverInv'
<1> DEFINE current == Head(ready)
           after == [p \in Plugin |-> IF p \in found /\ current \in Needs(p)
                                      THEN inDegree[p] - 1 ELSE inDegree[p]]
           freed == {p \in found : current \in Needs(p) /\ after[p] = 0}
           done  == ToSet(ordered)
           done1 == ToSet(ordered')
           n     == Len(ordered)
<1>1. /\ phase = "kahn" /\ ready # <<>> /\ UNCHANGED <<found, graph, phase, color, path>>
      /\ ordered' = Append(ordered, current) /\ inDegree' = after
  BY DEF KahnStep
<1>2. PICK more \in SetToSeqs(freed) : ready' = Tail(ready) \o more
  BY DEF KahnStep
<1>3. ResolverTypes /\ KahnOK /\ Unsearched
  BY <1>1 DEF ResolverInv
<1>4. \A T : T \subseteq found => IsFiniteSet(T) /\ Cardinality(T) \in Nat /\ (Cardinality(T) = 0 <=> T = {})
  BY <1>3, FoundFinite, FS_EmptySet DEF ResolverTypes
<1>5. freed \subseteq found /\ after \in [Plugin -> Int]
      /\ (\A p \in found : after[p] = IF current \in Needs(p) THEN inDegree[p] - 1 ELSE inDegree[p])
      /\ (\A p \in found : p \in freed <=> current \in Needs(p) /\ after[p] = 0)
  BY <1>3 DEF ResolverTypes
<1>6. /\ ready \in Seq(found) /\ ordered \in Seq(found)
      /\ DOMAIN ready = 1..Len(ready) /\ DOMAIN ordered = 1..n /\ n \in Nat /\ Len(ready) \in Nat
  BY <1>3 DEF ResolverTypes
<1>7. /\ current = ready[1] /\ Len(ready) >= 1 /\ current \in found
      /\ Tail(ready) \in Seq(found) /\ Len(Tail(ready)) = Len(ready) - 1
      /\ \A i \in 1..(Len(ready) - 1) : Tail(ready)[i] = ready[i + 1]
  BY <1>1, <1>6, HeadTailProperties
<1> HIDE DEF current, after, freed
<1>8. more \in Seq(freed) /\ ToSet(more) = freed /\ IsInjective(more)
  BY <1>4, <1>5, SetToSeqsOnce
<1>9. /\ ordered' \in Seq(found) /\ Len(ordered') = n + 1 /\ ordered'[n + 1] = current
      /\ \A i \in 1..n : ordered'[i] = ordered[i]
      /\ DOMAIN ordered' = 1..(n + 1)
  BY <1>1, <1>6, <1>7, AppendProperties
<1>10. done \subseteq found /\ done1 = done \cup {current}
  BY <1>6, <1>9 DEF ToSet
<1>11. current \notin done /\ current \in ToSet(ready) /\ Needs(current) \subseteq done
  <2>1. current \in ToSet(ready)
    BY <1>6, <1>7 DEF ToSet
  <2> QED BY <1>3, <1>7, <2>1 DEF KahnOK
<1>12. \A p : Needs(p)' = Needs(p) /\ Needs(p) \subseteq found
  BY <1>1 DEF Needs
<1>13. \A p \in found : after[p] = Cardinality(Needs(p) \ done1)
  <2> SUFFICES ASSUME NEW p \in found PROVE after[p] = Cardinality(Needs(p) \ done1)
    OBVIOUS
  <2>1. inDegree[p] = Cardinality(Needs(p) \ done) /\ IsFiniteSet(Needs(p) \ done)
    BY <1>3, <1>4, <1>12 DEF KahnOK
  <2>2. Needs(p) \ done1 = (Needs(p) \ done) \ {current}
    BY <1>10
  <2>3. Cardinality((Needs(p) \ done) \ {current})
          = IF current \in Needs(p) THEN Cardinality(Needs(p) \ done) - 1 ELSE Cardinality(Needs(p) \ done)
    BY <1>11, <2>1, FS_RemoveElement
  <2> QED BY <1>5, <2>1, <2>2, <2>3
<1>14. \A p \in found : p \in freed <=> current \in Needs(p) /\ Needs(p) \subseteq done1
  <2> SUFFICES ASSUME NEW p \in found
               PROVE  p \in freed <=> current \in Needs(p) /\ Needs(p) \subseteq done1
    OBVIOUS
  <2>1. Cardinality(Needs(p) \ done1) = 0 <=> Needs(p) \ done1 = {}
    BY <1>4, <1>12
  <2> QED BY <1>5, <1>13, <2>1
<1>15. freed \cap (done \cup ToSet(ready)) = {}
  <2> SUFFICES ASSUME NEW p \in freed PROVE p \notin done \cup ToSet(ready)
    OBVIOUS
  <2>1. p \in found /\ ~(Needs(p) \subseteq done)
    BY <1>5, <1>11, <1>14
  <2> QED BY <1>3, <2>1 DEF KahnOK
<1>16. /\ ready' \in Seq(found) /\ ToSet(ready') = (ToSet(ready) \ {current}) \cup freed
       /\ IsInjective(ready')
  <2> DEFINE m == Len(ready) - 1
  <2>0. m \in Nat /\ \A i \in 1..m : i + 1 \in DOMAIN ready
    BY <1>6, <1>7
  <2>1. more \in Seq(found) /\ Len(more) \in Nat /\ DOMAIN more = 1..Len(more)
    BY <1>5, <1>8
  <2>2. /\ ready' \in Seq(found) /\ Len(ready') = m + Len(more) /\ DOMAIN ready' = 1..(m + Len(more))
        /\ \A i \in 1..(m + Len(more)) : ready'[i] = IF i <= m THEN ready[i + 1] ELSE more[i - m]
    <3>1. /\ Tail(ready) \o more \in Seq(found)
          /\ Len(Tail(ready) \o more) = Len(Tail(ready)) + Len(more)
          /\ \A i \in 1 .. (Len(Tail(ready)) + Len(more)) :
               (Tail(ready) \o more)[i] = IF i <= Len(Tail(ready)) THEN Tail(ready)[i] ELSE more[i - Len(Tail(ready))]
      BY <1>7, <2>1, ConcatProperties
    <3> QED BY <1>2, <1>7, <2>0, <2>1, <3>1
  <2>3. \A i, j \in DOMAIN ready : ready[i] = ready[j] => i = j
    BY <1>3 DEF KahnOK, IsInjective
  <2>4. \A i \in 1..m : ready'[i] = ready[i + 1] /\ ready[i + 1] \in ToSet(ready) \ {current}
    BY <1>6, <1>7, <2>0, <2>1, <2>2, <2>3 DEF ToSet
  <2>5. \A i \in (m + 1)..(m + Len(more)) :
          i - m \in DOMAIN more /\ ready'[i] = more[i - m] /\ more[i - m] \in freed
    <3> HIDE DEF m
    <3> SUFFICES ASSUME NEW i \in (m + 1)..(m + Len(more))
                 PROVE  i - m \in DOMAIN more /\ ready'[i] = more[i - m] /\ more[i - m] \in freed
      OBVIOUS
    <3>1. i - m \in 1..Len(more) /\ i \in 1..(m + Len(more)) /\ ~(i <= m)
      BY <2>0, <2>1
    <3>2. ready'[i] = more[i - m]
      BY <2>2, <3>1
    <3> QED BY <1>8, <2>1, <3>1, <3>2 DEF ToSet
  <2>6. \A x \in ToSet(ready) \ {current} : \E i \in 1..m : ready[i + 1] = x
    <3> SUFFICES ASSUME NEW k \in DOMAIN ready, ready[k] # current
                 PROVE  \E i \in 1..m : ready[i + 1] = ready[k]
      BY DEF ToSet
    <3>1. k - 1 \in 1..m /\ (k - 1) + 1 = k
      BY <1>6, <1>7
    <3> QED BY <3>1
  <2>7. \A x \in freed : \E i \in (m + 1)..(m + Len(more)) : more[i - m] = x
    <3> SUFFICES ASSUME NEW k \in DOMAIN more
                 PROVE  \E i \in (m + 1)..(m + Len(more)) : more[i - m] = more[k]
      BY <1>8 DEF ToSet
    <3>1. k + m \in (m + 1)..(m + Len(more)) /\ (k + m) - m = k
      BY <2>0, <2>1
    <3> QED BY <3>1
  <2>8. 1..(m + Len(more)) = (1..m) \cup ((m + 1)..(m + Len(more)))
    BY <2>0, <2>1
  <2>9. ToSet(ready') = (ToSet(ready) \ {current}) \cup freed
    <3>1. ToSet(ready') = {ready'[i] : i \in (1..m) \cup ((m + 1)..(m + Len(more)))}
      BY <2>2, <2>8 DEF ToSet
    <3> HIDE DEF m
    <3>2. ToSet(ready') \subseteq (ToSet(ready) \ {current}) \cup freed
      BY <2>4, <2>5, <3>1
    <3>3. (ToSet(ready) \ {current}) \subseteq ToSet(ready')
      BY <2>4, <2>6, <3>1
    <3>4. freed \subseteq ToSet(ready')
      BY <2>5, <2>7, <3>1
    <3> QED BY <3>2, <3>3, <3>4
  <2>10. IsInjective(ready')
    <3> SUFFICES ASSUME NEW i \in 1..(m + Len(more)), NEW j \in 1..(m + Len(more)),
                        ready'[i] = ready'[j]
                 PROVE  i = j
      BY <2>2 DEF IsInjective
    <3>1. CASE i \in 1..m /\ j \in 1..m
      BY <2>0, <2>3, <2>4, <3>1
    <3>2. CASE i \in (m + 1)..(m + Len(more)) /\ j \in (m + 1)..(m + Len(more))
      <4>1. i - m = j - m
        BY <1>8, <2>5, <3>2 DEF IsInjective
      <4> QED BY <2>0, <4>1
    <3>3. ~(i \in 1..m /\ j \in (m + 1)..(m + Len(more))) /\ ~(j \in 1..m /\ i \in (m + 1)..(m + Len(more)))
      BY <1>15, <2>4, <2>5
    <3> QED BY <2>8, <3>1, <3>2, <3>3
  <2> QED BY <2>2, <2>9, <2>10
<1>17. ResolverTypes'
  BY <1>1, <1>3, <1>5, <1>9, <1>16 DEF ResolverTypes
<1>18. KahnOK'
  <2>1. ToSet(ordered') \cap ToSet(ready') = {}
    BY <1>3, <1>10, <1>11, <1>14, <1>15, <1>16 DEF KahnOK
  <2>2. Cardinality(done1) = Len(ordered')
    <3>1. IsFiniteSet(done) /\ Cardinality(done) = n
      BY <1>3, <1>4, <1>10 DEF KahnOK
    <3>2. Cardinality(done \cup {current}) = n + 1
      BY <1>11, <3>1, FS_AddElement
    <3> QED BY <1>9, <1>10, <3>2
  <2>3. IsInjective(ordered')
    <3>1. \A i, j \in 1..n : ordered[i] = ordered[j] => i = j
      BY <1>3, <1>6 DEF KahnOK, IsInjective
    <3>2. \A i \in 1..n : ordered[i] # current
      BY <1>6, <1>11 DEF ToSet
    <3> QED BY <1>6, <1>9, <3>1, <3>2 DEF IsInjective
  <2>4. \A p \in found' : inDegree'[p] = Cardinality(Needs(p)' \ ToSet(ordered'))
    BY <1>1, <1>12, <1>13
  <2>5. \A p \in found : p \in done1 \cup ToSet(ready') <=> Needs(p) \subseteq done1
    <3> SUFFICES ASSUME NEW p \in found
                 PROVE  p \in done1 \cup ToSet(ready') <=> Needs(p) \subseteq done1
      OBVIOUS
    <3>1. done1 \cup ToSet(ready') = done \cup ToSet(ready) \cup freed
      BY <1>10, <1>11, <1>16
    <3>2. p \in done \cup ToSet(ready) <=> Needs(p) \subseteq done
      BY <1>3 DEF KahnOK
    <3> QED BY <1>10, <1>14, <3>1, <3>2
  <2>6. \A i, j \in DOMAIN ordered' : ordered'[j] \in graph'[ordered'[i]] => j < i
    <3>1. \A i, j \in 1..n : ordered[j] \in graph[ordered[i]] => j < i
      BY <1>3, <1>6 DEF KahnOK
    <3>2. \A i \in 1..n : ordered[i] \in found /\ ordered[i] \in done
      BY <1>6 DEF ToSet
    <3>3. \A i \in 1..n : current \notin graph[ordered[i]]
      <4> SUFFICES ASSUME NEW i \in 1..n, current \in graph[ordered[i]] PROVE FALSE
        OBVIOUS
      <4>1. current \in Needs(ordered[i])
        BY <1>7 DEF Needs
      <4>2. Needs(ordered[i]) \subseteq done
        BY <1>3, <3>2 DEF KahnOK
      <4> QED BY <1>11, <4>1, <4>2
    <3>4. current \notin graph[current]
      BY <1>7, <1>11 DEF Needs
    <3> QED BY <1>1, <1>6, <1>9, <3>1, <3>3, <3>4
  <2> QED BY <1>1, <1>12, <1>16, <2>1, <2>2, <2>3, <2>4, <2>5, <2>6 DEF KahnOK
<1> QED BY <1>1, <1>3, <1>17, <1>18 DEF ResolverInv, ResolveCorrect, Unsearched, OpenOnPath

(* All ordered: a set of plugins that each need another of it would have   *)
(* one that is ordered first.  Some left over: those need each other.      *)
LEMMA KahnEnds ==
  ASSUME ResolverInv, KahnEnd
  PROVE  ResolverInv'
<1> DEFINE done == ToSet(ordered)
<1>1. /\ phase = "kahn" /\ ready = <<>>
      /\ UNCHANGED <<found, graph, inDegree, ready, ordered, color, path>>
      /\ phase' = IF Len(ordered) = Cardinality(found) THEN "ordered" ELSE "search"
  BY DEF KahnEnd
<1>2. ResolverTypes /\ KahnOK /\ Unsearched
  BY <1>1 DEF ResolverInv
<1>3. ToSet(ready) = {} /\ done \subseteq found /\ IsFiniteSet(found) /\ DOMAIN ordered = 1..Len(ordered)
  BY <1>1, <1>2, FoundFinite DEF ResolverTypes, ToSet
<1>4. ResolverTypes' /\ Unsearched' /\ Chain(path)'
  BY <1>1, <1>2 DEF ResolverTypes, Unsearched, OpenOnPath, Chain
<1>5. HasCycle' <=> HasCycle
  BY <1>1 DEF HasCycle, Needs
<1>6. CASE Len(ordered) = Cardinality(found)
  <2>1. done = found
    BY <1>2, <1>3, <1>6, FS_Subset DEF KahnOK
  <2>2. ASSUME NEW S \in SUBSET found, S # {}, \A p \in S : Needs(p) \cap S # {}
        PROVE  FALSE
    <3> DEFINE I == {i \in DOMAIN ordered : ordered[i] \in S}
    <3>1. \A p \in S : \E i \in I : ordered[i] = p
      BY <2>1 DEF ToSet
    <3>2. I # {} /\ I \subseteq Nat
      BY <1>3, <2>2, <3>1
    <3> HIDE DEF I
    <3>3. PICK i \in I : \A j \in I : i <= j
      BY <3>2, LeastIndex
    <3>4. PICK d \in S : d \in Needs(ordered[i])
      BY <2>2, <3>3 DEF I
    <3>5. PICK j \in I : ordered[j] = d
      BY <3>1
    <3>6. j < i
      BY <1>2, <3>4, <3>5 DEF KahnOK, I, Needs
    <3> QED BY <3>2, <3>3, <3>5, <3>6
  <2>3. ~HasCycle
    BY <2>2 DEF HasCycle
  <2> QED BY <1>1, <1>2, <1>4, <1>5, <1>6, <2>1, <2>3 DEF ResolverInv, ResolveCorrect, KahnOK
<1>7. CASE Len(ordered) # Cardinality(found)
  <2>0. done # found
    BY <1>2, <1>7 DEF KahnOK
  <2>1. found \ done # {}
    <3> HIDE DEF done
    <3> QED BY <1>3, <2>0
  <2>2. \A p \in found \ done : Needs(p) \cap (found \ done) # {}
    BY <1>2, <1>3 DEF KahnOK, Needs
  <2>3. HasCycle
    BY <2>1, <2>2 DEF HasCycle
  <2>4. phase' = "search"
    BY <1>1, <1>7
  <2> QED BY <1>4, <1>5, <2>3, <2>4 DEF ResolverInv, ResolveCorrect, Unsearched
<1> QED BY <1>6, <1>7

(* A step of the search keeps what the path and the colours say.           *)
LEMMA SearchKeeps ==
  ASSUME ResolverInv, SearchRoot \/ SearchDown \/ SearchUp
  PROVE  ResolverInv'
<1> DEFINE n == Len(path)
<1>1. phase = "search" /\ UNCHANGED <<found, graph, phase, inDegree, ready, ordered>>
  BY DEF SearchRoot, SearchDown, SearchUp
<1>2. /\ ResolverTypes /\ HasCycle /\ OpenOnPath /\ Chain(path)
      /\ path \in Seq(found) /\ n \in Nat /\ DOMAIN path = 1..n
  BY <1>1 DEF ResolverInv, ResolverTypes
<1>3. SUFFICES ResolverTypes' /\ Chain(path)' /\ OpenOnPath'
  <2>1. HasCycle'
    BY <1>1, <1>2 DEF HasCycle, Needs
  <2> QED BY <1>1, <1>3, <2>1 DEF ResolverInv, ResolveCorrect
<1>4. ASSUME path' \in Seq(found), color' \in [Plugin -> {"new", "open", "done"}]
      PROVE  ResolverTypes'
  BY <1>1, <1>2, <1>4 DEF ResolverTypes
<1>5. ASSUME NEW d \in found, color' = [color EXCEPT ![d] = "open"], path' = Append(path, d),
             path # <<>> => d \in Needs(path[n])
      PROVE  ResolverTypes' /\ Chain(path)' /\ OpenOnPath'
  <2>1. /\ path' \in Seq(found) /\ Len(path') = n + 1 /\ DOMAIN path' = 1..(n + 1)
        /\ path'[n + 1] = d /\ \A i \in 1..n : path'[i] = path[i]
    BY <1>2, <1>5, AppendProperties
  <2>2. color' \in [Plugin -> {"new", "open", "done"}]
    BY <1>2, <1>5 DEF ResolverTypes
  <2>3. ASSUME NEW i \in 1..n PROVE path'[i + 1] \in graph[path'[i]]
    <3>1. CASE i = n
      BY <1>2, <1>5, <2>1, <3>1 DEF Needs
    <3>2. CASE i # n
      <4>1. i \in 1..(n - 1) /\ i + 1 \in 1..n
        <5>1. n \in Nat
          BY <1>2
        <5> HIDE DEF n
        <5> QED BY <3>2, <5>1
      <4> QED BY <1>2, <2>1, <4>1 DEF Chain
    <3> QED BY <3>1, <3>2
  <2>4. Chain(path)'
    BY <1>1, <1>2, <2>1, <2>3 DEF Chain
  <2>5. OpenOnPath'
    <3> SUFFICES ASSUME NEW p \in Plugin, color'[p] = "open" PROVE p \in ToSet(path')
      BY DEF OpenOnPath
    <3>1. CASE p = d
      BY <1>2, <2>1, <3>1 DEF ToSet
    <3>2. CASE p # d
      <4>1. PICK i \in 1..n : path[i] = p
        BY <1>2, <1>5, <3>2 DEF OpenOnPath, ToSet, ResolverTypes
      <4> QED BY <1>2, <2>1, <4>1 DEF ToSet
    <3> QED BY <3>1, <3>2
  <2> QED BY <1>4, <2>1, <2>2, <2>4, <2>5
<1>6. CASE SearchRoot
  <2>1. PICK p \in found : color' = [color EXCEPT ![p] = "open"] /\ path' = <<p>>
    BY <1>6 DEF SearchRoot
  <2>2. path = <<>> /\ <<p>> = Append(path, p)
    BY <1>6 DEF SearchRoot
  <2> QED BY <1>5, <2>1, <2>2
<1>7. CASE SearchDown
  <2>1. PICK d \in Needs(Last(path)) : color' = [color EXCEPT ![d] = "open"] /\ path' = Append(path, d)
    BY <1>7 DEF SearchDown
  <2> QED BY <1>5, <2>1 DEF Needs, Last
<1>8. CASE SearchUp
  <2>1. path # <<>> /\ color' = [color EXCEPT ![path[n]] = "done"] /\ path' = SubSeq(path, 1, n - 1)
    BY <1>8 DEF SearchUp, Last, Front
  <2>2. n >= 1 /\ n \in 1..n
    BY <1>2, <2>1
  <2>3. /\ path' \in Seq(found) /\ Len(path') = n - 1 /\ DOMAIN path' = 1..(n - 1)
        /\ \A i \in 1..(n - 1) : path'[i] = path[i]
    BY <1>2, <2>1, <2>2
  <2>4. color' \in [Plugin -> {"new", "open", "done"}]
    BY <1>2, <2>1 DEF ResolverTypes
  <2>5. Chain(path)'
    <3> SUFFICES ASSUME NEW i \in 1..((n - 1) - 1) PROVE path'[i + 1] \in graph[path'[i]]
      BY <1>1, <2>3 DEF Chain
    <3>1. i \in 1..(n - 1) /\ i + 1 \in 1..(n - 1)
      BY <1>2
    <3> QED BY <1>2, <2>3, <3>1 DEF Chain
  <2>6. OpenOnPath'
    <3> SUFFICES ASSUME NEW p \in Plugin, color'[p] = "open" PROVE p \in ToSet(path')
      BY DEF OpenOnPath
    <3>1. p # path[n] /\ color[p] = "open"
      BY <1>2, <2>1 DEF ResolverTypes
    <3>2. PICK i \in 1..n : path[i] = p
      BY <1>2, <3>1 DEF OpenOnPath, ToSet
    <3>3. i \in 1..(n - 1)
      BY <1>2, <3>1, <3>2
    <3> QED BY <2>3, <3>2, <3>3 DEF ToSet
  <2> QED BY <1>4, <2>3, <2>4, <2>5, <2>6
<1> QED BY <1>6, <1>7, <1>8

(* A dependency back to the path: some element of it is the first to have  *)
(* one, and the report goes from there on.                                 *)
LEMMA SearchReports ==
  ASSUME ResolverInv, SearchFound
  PROVE  ResolverInv'
<1> DEFINE n == Len(path)
           back(i) == {j \in 1..i : path[j] \in graph[path[i]]}
           IsFirst(i) == back(i) # {} /\ \A k \in 1..(i - 1) : back(k) = {}
           first == CHOOSE i \in DOMAIN path : IsFirst(i)
<1>1. /\ phase = "search" /\ path # <<>> /\ phase' = "circular"
      /\ UNCHANGED <<found, graph, inDegree, ready, ordered, color>>
  BY DEF SearchFound
<1>2. PICK d \in Needs(Last(path)) : color[d] = "open"
  BY DEF SearchFound
<1>3. PICK j \in back(first) : path' = SubSeq(path, j, n)
  BY DEF SearchFound
<1>4. /\ ResolverTypes /\ HasCycle /\ OpenOnPath /\ Chain(path)
      /\ path \in Seq(found) /\ n \in Nat /\ DOMAIN path = 1..n /\ n \in 1..n
  BY <1>1 DEF ResolverInv, ResolverTypes
<1>5. back(n) # {}
  <2>1. d \in Plugin /\ d \in graph[path[n]]
    BY <1>2, <1>4 DEF Needs, Last, ResolverTypes
  <2>2. PICK i \in 1..n : path[i] = d
    BY <1>2, <1>4, <2>1 DEF OpenOnPath, ToSet
  <2> QED BY <2>1, <2>2
<1>6. \E i \in DOMAIN path : IsFirst(i)
  <2> DEFINE I == {i \in 1..n : back(i) # {}}
  <2>1. I # {} /\ I \subseteq Nat
    BY <1>4, <1>5
  <2>2. PICK i \in I : \A k \in I : i <= k
    <3> HIDE DEF I
    <3> QED BY <2>1, LeastIndex
  <2>3. ASSUME NEW k \in 1..(i - 1) PROVE back(k) = {}
    <3>1. k \in 1..n /\ ~(i <= k)
      BY <1>4
    <3> QED BY <2>2, <3>1
  <2> QED BY <1>4, <2>2, <2>3
<1>7. first \in 1..n
  <2> HIDE DEF IsFirst
  <2> QED BY <1>4, <1>6
<1> HIDE DEF first
<1>8. j \in 1..first /\ path[j] \in graph[path[first]] /\ j \in 1..n
  BY <1>3, <1>4, <1>7
<1>9. /\ path' \in Seq(found) /\ Len(path') = (n - j) + 1 /\ DOMAIN path' = 1..((n - j) + 1)
      /\ \A i \in 1..((n - j) + 1) : path'[i] = path[(j + i) - 1]
  <2>1. \A i \in j..n : path[i] \in found
    BY <1>4, <1>8
  <2>2. /\ SubSeq(path, j, n) \in Seq(found)
        /\ Len(SubSeq(path, j, n)) = IF j <= n THEN n - j + 1 ELSE 0
        /\ \A i \in 1..(n - j + 1) : SubSeq(path, j, n)[i] = path[j + i - 1]
    BY <1>4, <1>8, <2>1, SubSeqProperties
  <2> QED BY <1>3, <1>4, <1>8, <2>2
<1>10. \A i \in 1..(Len(path') - 1) : path'[i + 1] \in graph[path'[i]]
  <2>0. Len(path') - 1 = n - j
    BY <1>4, <1>8, <1>9
  <2> SUFFICES ASSUME NEW i \in 1..(n - j) PROVE path'[i + 1] \in graph[path'[i]]
    BY <2>0
  <2> DEFINE k == (j + i) - 1
  <2>1. /\ i \in 1..((n - j) + 1) /\ i + 1 \in 1..((n - j) + 1)
        /\ (j + (i + 1)) - 1 = k + 1 /\ k \in 1..(n - 1)
    BY <1>4, <1>8
  <2>2. path'[i] = path[k] /\ path'[i + 1] = path[k + 1]
    BY <1>9, <2>1
  <2> QED BY <1>4, <2>1, <2>2 DEF Chain
<1>11. \E i \in DOMAIN path' : Head(path') \in graph[path'[i]]
  <2> DEFINE i == (first - j) + 1
  <2>1. i \in 1..((n - j) + 1) /\ 1 \in 1..((n - j) + 1) /\ (j + i) - 1 = first /\ (j + 1) - 1 = j
    BY <1>4, <1>7, <1>8
  <2> HIDE DEF i
  <2>2. path'[i] = path[first] /\ path'[1] = path[j] /\ Head(path') = path'[1]
    <3>1. Head(path') = path'[1]
      BY <1>9
    <3> QED BY <1>9, <2>1, <3>1
  <2>3. i \in DOMAIN path'
    BY <1>9, <2>1
  <2>4. Head(path') \in graph[path'[i]]
    BY <1>8, <2>2
  <2> QED BY <2>3, <2>4
<1>12. HasCycle'
  BY <1>1, <1>4 DEF HasCycle, Needs
<1>13. ResolverTypes'
  BY <1>1, <1>4, <1>9 DEF ResolverTypes
<1> QED BY <1>1, <1>10, <1>11, <1>12, <1>13 DEF ResolverInv, ResolveCorrect

(* Only the scan of the plugin directories starts the resolver, and the    *)
(* caller that took the result, or a crash, ends it.                       *)
LEMMA ResolverInvariance == Spec => []ResolverInv
<1>1. Init => ResolverInv
  <2> SUFFICES ASSUME Init PROVE ResolverInv
    OBVIOUS
  <2> QED BY DEF Init, ResolverInit, NoGraph, ResolverInv, ResolverTypes, ResolveCorrect, Unsearched,
                 OpenOnPath
<1>2. ManagerInv /\ ResolverInv /\ [Next]_vars => ResolverInv'
  <2> SUFFICES ASSUME ManagerInv, ResolverInv, [Next]_vars PROVE ResolverInv'
    OBVIOUS
  <2>1. ASSUME UNCHANGED resolverVars PROVE ResolverInv'
    BY <2>1 DEF resolverVars, ResolverInv, ResolverTypes, KahnOK, Unsearched, OpenOnPath, Chain,
                ResolveCorrect, HasCycle, Needs
  <2>2. ASSUME EndResolve PROVE ResolverInv'
    BY <2>2 DEF EndResolve, NoGraph, ResolverInv, ResolverTypes, ResolveCorrect, Unsearched, OpenOnPath
  <2>3. CASE Discover
    BY <2>3, BeginsWell DEF Discover, ManagerInv, TypesOK
  <2>4. CASE Resolve
    BY <2>4, KahnKeeps, KahnEnds, SearchKeeps, SearchReports DEF Resolve, ResolveStep
  <2>5. CASE TakeOrder \/ Crash
    BY <2>2, <2>5 DEF TakeOrder, Crash
  <2>6. ASSUME NEW t \in Thread, ThreadStep(t) PROVE ResolverInv'
    BY <2>1, <2>6, ThreadFrame DEF ManagerInv
  <2>7. CASE LoadNext
    BY <2>1, <2>7 DEF LoadNext
  <2>8. ASSUME NEW t \in Admin, NEW op \in {"reload", "disable", "enable"}, NEW p \in Plugin,
               PerformAction(t, op, p)
        PROVE  ResolverInv'
    BY <2>1, <2>8 DEF PerformAction, Begin
  <2>9. ASSUME NEW u \in User, (\E c \in Cmd : GetCommand(u, c)) \/ ReleaseCommand(u)
        PROVE  ResolverInv'
    BY <2>1, <2>9 DEF GetCommand, ReleaseCommand
  <2>10. CASE (\E op \in {"start", "stop"} : SetWatch(op)) \/ WatchThreadEnds \/ WatchJoined
    BY <2>1, <2>10 DEF SetWatch, WatchThreadEnds, WatchJoined
  <2>11. CASE UNCHANGED vars
    BY <2>1, <2>11 DEF vars
  <2> QED BY <2>3, <2>4, <2>5, <2>6, <2>7, <2>8, <2>9, <2>10, <2>11 DEF Next, ThreadStep
<1> QED BY <1>1, <1>2, ManagerInvariance, PTL DEF Spec

(* DependencyResolver::resolve, at the start of the server, for any        *)
(* plugins and any dependencies their manifests declare: the order has     *)
(* each plugin once and after everything it needs, and a circular          *)
(* dependency is reported exactly when there is one, as a chain of         *)
(* dependencies that returns to its first plugin.                          *)
THEOREM PluginsAreOrdered == Spec => []ResolveCorrect
<1>1. ResolverInv => ResolveCorrect
  BY DEF ResolverInv
<1> QED BY <1>1, ResolverInvariance, PTL
=============================================================================
