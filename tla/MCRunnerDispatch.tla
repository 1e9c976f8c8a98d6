-------------------------- MODULE MCRunnerDispatch --------------------------
(* Instances of RunnerDispatch for TLC. *)
EXTENDS RunnerDispatch, TLC
CONSTANTS j1, j2, r1, r2, c1, c2, c3

\* One runner that may dial twice, or two runners, the first dialling twice.
OneRunner == [c \in Conns |-> r1]
TwoRunners == [c \in Conns |-> IF c = c2 THEN r2 ELSE r1]

\* Every job may run anywhere.
AnyRunner == [j \in Jobs |-> Runners]

OwnStack == [j \in Jobs |-> j]

JobSymmetry == Permutations(Jobs)
=============================================================================
