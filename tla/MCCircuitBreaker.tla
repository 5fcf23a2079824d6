-------------------------- MODULE MCCircuitBreaker --------------------------
(* Small instances of CircuitBreaker for TLC.                              *)
EXTENDS CircuitBreaker
CONSTANTS s1, s2, s3

TwoSteps   == {s1, s2}
ThreeSteps == {s1, s2, s3}
=============================================================================
