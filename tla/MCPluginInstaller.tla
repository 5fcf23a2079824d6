------------------------- MODULE MCPluginInstaller -------------------------
(* Small instances of PluginInstaller for TLC.                             *)
EXTENDS PluginInstaller, TLC
CONSTANTS u1, u2, u3

TwoUploads   == {u1, u2}
ThreeUploads == {u1, u2, u3}

(* Uploads are interchangeable; no liveness is checked with it.            *)
Symmetry == Permutations(Uploads)
=============================================================================
