-------------------------- MODULE MCWorkflowEngine --------------------------
(* Three-step workflows for TLC: every choice of parallel steps and of     *)
(* rollback strategy, over reference patterns that differ in what waits    *)
(* for what.                                                               *)
EXTENDS WorkflowEngine
CONSTANT a

None3  == <<{}, {}, {}>>
NoNames == <<NoName, NoName, NoName>>

Pattern(name, positions, names) == [name |-> name, positions |-> positions, names |-> names]

Patterns == {
  Pattern(NoNames, None3, None3),                                       \* independent
  Pattern(NoNames, <<{}, {1}, {2}>>, None3),                            \* a chain
  Pattern(NoNames, <<{}, {}, {1, 2}>>, None3),                          \* a join
  Pattern(<<a, NoName, a>>, None3, <<{}, {a}, {a}>>),                   \* a name used twice
  Pattern(NoNames, <<{2}, {2}, {1}>>, None3) }                          \* later and own positions

MCWorkflows ==
  {[parallel |-> par, name |-> p.name, positions |-> p.positions, names |-> p.names,
    rollback |-> s] : par \in SUBSET Steps, p \in Patterns, s \in Strategies}

(* Workflows whose steps all run in parallel.                              *)
ParallelWorkflows == {w \in MCWorkflows : w.parallel = Steps}
MCNames == {a}
=============================================================================
