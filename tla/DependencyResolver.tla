------------------------- MODULE DependencyResolver -------------------------
(***************************************************************************)
(* DependencyResolver::resolve and find_cycle                              *)
(* (core/DependencyResolver.hpp): Kahn's algorithm over the plugins found  *)
(* at start, and, when it leaves some over, the depth-first search that    *)
(* names a cycle.  A dependency that is not among the plugins is skipped:  *)
(* strict mode, which refuses it, is used by no caller.                    *)
(*                                                                         *)
(* The order of the ready queue comes from an unordered_map and from the   *)
(* order in which directories are read, and the order of a plugin's        *)
(* dependencies from its manifest: each is any order here.                 *)
(***************************************************************************)
EXTENDS Integers, FiniteSets, SequencesExt

CONSTANT Plugin

ASSUME PluginsFinite == IsFiniteSet(Plugin)

VARIABLES
  found,     \* the plugins to order
  graph,     \* graph[p]: the dependencies p declares
  phase,     \* "idle", "kahn", "search", "ordered", "circular"
  inDegree,
  ready,
  ordered,
  color,     \* of the search: "new", "open", "done"
  path       \* of the search, and then the reported cycle

resolverVars == <<found, graph, phase, inDegree, ready, ordered, color, path>>

NoGraph == [p \in Plugin |-> {}]

ResolverInit ==
  /\ found = {} /\ graph = NoGraph /\ phase = "idle"
  /\ inDegree = [p \in Plugin |-> 0]
  /\ ready = <<>> /\ ordered = <<>>
  /\ color = [p \in Plugin |-> "new"] /\ path = <<>>

(* Dependencies that are among the plugins.                                *)
Needs(p) == graph[p] \cap found

(* The graph is built, and plugins without dependencies are ready.         *)
BeginResolve(plugins, g) ==
  LET degree == [p \in Plugin |-> IF p \in plugins THEN Cardinality(g[p] \cap plugins) ELSE 0]
  IN  /\ phase = "idle"
      /\ found' = plugins /\ graph' = g /\ phase' = "kahn"
      /\ inDegree' = degree
      /\ ready' \in SetToSeqs({p \in plugins : degree[p] = 0})
      /\ UNCHANGED <<ordered, color, path>>

(* The next ready plugin is ordered; dependents with nothing left to wait  *)
(* for become ready.                                                       *)
KahnStep_EarlyReady ==
  /\ phase = "kahn" /\ ready # <<>>
  /\ LET current == Head(ready)
         after == [p \in Plugin |-> IF p \in found /\ current \in Needs(p)
                                    THEN inDegree[p] - 1 ELSE inDegree[p]]
         freed == {p \in found : current \in Needs(p) /\ inDegree[p] > 0 /\ after[p] <= 1}
     IN  /\ ordered' = Append(ordered, current)
         /\ inDegree' = after
         /\ \E more \in SetToSeqs(freed) : ready' = Tail(ready) \o more
  /\ UNCHANGED <<found, graph, phase, color, path>>

KahnStep ==
  /\ phase = "kahn" /\ ready # <<>>
  /\ LET current == Head(ready)
         after == [p \in Plugin |-> IF p \in found /\ current \in Needs(p)
                                    THEN inDegree[p] - 1 ELSE inDegree[p]]
         freed == {p \in found : current \in Needs(p) /\ after[p] = 0}
     IN  /\ ordered' = Append(ordered, current)
         /\ inDegree' = after
         /\ \E more \in SetToSeqs(freed) : ready' = Tail(ready) \o more
  /\ UNCHANGED <<found, graph, phase, color, path>>

(* Plugins left over are on, or behind, a cycle.                           *)
KahnEnd ==
  /\ phase = "kahn" /\ ready = <<>>
  /\ phase' = IF Len(ordered) = Cardinality(found) THEN "ordered" ELSE "search"
  /\ UNCHANGED <<found, graph, inDegree, ready, ordered, color, path>>

(* find_cycle: the search goes on from a plugin not yet visited ...        *)
SearchRoot ==
  /\ phase = "search" /\ path = <<>>
  /\ \E p \in found :
       /\ color[p] = "new"
       /\ color' = [color EXCEPT ![p] = "open"] /\ path' = <<p>>
  /\ UNCHANGED <<found, graph, phase, inDegree, ready, ordered>>

(* ... into a dependency ...                                               *)
SearchDown ==
  /\ phase = "search" /\ path # <<>>
  /\ \E d \in Needs(Last(path)) :
       /\ color[d] = "new"
       /\ color' = [color EXCEPT ![d] = "open"] /\ path' = Append(path, d)
  /\ UNCHANGED <<found, graph, phase, inDegree, ready, ordered>>

(* ... and back when all are visited.                                      *)
SearchUp ==
  /\ phase = "search" /\ path # <<>>
  /\ \A d \in Needs(Last(path)) : color[d] = "done"
  /\ color' = [color EXCEPT ![Last(path)] = "done"] /\ path' = Front(path)
  /\ UNCHANGED <<found, graph, phase, inDegree, ready, ordered>>

(* A dependency on the path: the report is the path from where its first   *)
(* element with a dependency at or before itself points to.                *)
SearchFound ==
  /\ phase = "search" /\ path # <<>>
  /\ \E d \in Needs(Last(path)) : color[d] = "open"
  /\ LET back(i) == {j \in 1..i : path[j] \in graph[path[i]]}
         first == CHOOSE i \in DOMAIN path :
                    back(i) # {} /\ \A k \in 1..(i - 1) : back(k) = {}
     IN  \E j \in back(first) : path' = SubSeq(path, j, Len(path))
  /\ phase' = "circular"
  /\ UNCHANGED <<found, graph, inDegree, ready, ordered, color>>

ResolveStep == KahnStep \/ KahnEnd \/ SearchRoot \/ SearchDown \/ SearchUp \/ SearchFound

(* The caller has taken the result; the locals of resolve() are gone.      *)
EndResolve ==
  /\ found' = {} /\ graph' = NoGraph /\ phase' = "idle"
  /\ inDegree' = [p \in Plugin |-> 0]
  /\ ready' = <<>> /\ ordered' = <<>>
  /\ color' = [p \in Plugin |-> "new"] /\ path' = <<>>
-----------------------------------------------------------------------------
ResolverTypeOK ==
  /\ found \subseteq Plugin
  /\ graph \in [Plugin -> SUBSET Plugin]
  /\ phase \in {"idle", "kahn", "search", "ordered", "circular"}
  /\ inDegree \in [Plugin -> Nat]
  /\ ready \in Seq(Plugin) /\ ordered \in Seq(Plugin) /\ path \in Seq(Plugin)
  /\ color \in [Plugin -> {"new", "open", "done"}]

(* Reference definition: a set of plugins is stuck when each one needs     *)
(* another of the set, and there is a cycle exactly when some set is.      *)
HasCycle == \E S \in SUBSET found : S # {} /\ \A p \in S : Needs(p) \cap S # {}

(* resolve() orders the plugins so that each comes after everything it     *)
(* needs, all of them and each once, or reports a circular dependency, and *)
(* does the latter exactly when there is one.  The report is a chain of    *)
(* dependencies that begins with a cycle.                                  *)
ResolveCorrect ==
  /\ phase = "ordered" =>
       /\ ~HasCycle
       /\ ToSet(ordered) = found /\ IsInjective(ordered)
       /\ \A i, j \in DOMAIN ordered : ordered[j] \in graph[ordered[i]] => j < i
  /\ phase = "circular" =>
       /\ HasCycle
       /\ \A i \in 1..(Len(path) - 1) : path[i + 1] \in graph[path[i]]
       /\ \E i \in DOMAIN path : Head(path) \in graph[path[i]]

(* find_cycle: the report is a cycle of the dependency graph, so that each *)
(* plugin in it, the last one too, needs the next.  Refuted: see the       *)
(* README.                                                                 *)
ReportIsCycle == phase = "circular" => Head(path) \in graph[Last(path)]
=============================================================================
