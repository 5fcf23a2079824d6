----------------------------- MODULE MCCommands -----------------------------
(* Two parallel steps of every kind that share something, for TLC.         *)
EXTENDS Commands
CONSTANTS s1, s2

TwoSteps == {s1, s2}
Plan(a, b) == [s \in TwoSteps |-> IF s = s1 THEN a ELSE b]

(* shell_exec and http_request share nothing with another step but stop.   *)
AllPlans == {Plan("shell", "pg"), Plan("http", "pg"), Plan("pg", "pg"),
             Plan("python", "python"), Plan("pwsh", "pg")}
OneEach == [s \in TwoSteps |-> IF s = s1 THEN 1 ELSE 2]
=============================================================================
