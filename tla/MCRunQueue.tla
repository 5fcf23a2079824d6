----------------------------- MODULE MCRunQueue -----------------------------
(* Small instances of RunQueue for TLC.                                    *)
EXTENDS RunQueue, TLC
CONSTANTS r1, r2, r3, w1, w2, c1, c2, x1

TwoRuns       == {r1, r2}
ThreeRuns     == {r1, r2, r3}
OneRunner     == {w1}
TwoRunners    == {w1, w2}
NoCancellers  == {}
OneCanceller  == {c1}
TwoCancellers == {c1, c2}
NoWaiters     == {}
OneWaiter     == {x1}

(* Runs and runners are interchangeable; no liveness is checked with it.   *)
Symmetry == Permutations(Runs) \cup Permutations(Runners)
=============================================================================
