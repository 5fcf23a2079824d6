-------------------------- MODULE MCPluginManager --------------------------
(* Three plugins, two of which provide a command of the same name.         *)
EXTENDS PluginManager
CONSTANTS p1, p2, p3, a1, a2, u1

Plugins == {p1, p2, p3}
Admins  == {a1, a2}
Users   == {u1}
Command == (p1 :> p1) @@ (p2 :> "shared") @@ (p3 :> "shared")

AllGraphs == [Plugins -> SUBSET Plugins]
=============================================================================
