--------------------------- MODULE MCRunnerWorker ---------------------------
(* The values of RunnerWorker's constants for model checking. *)
EXTENDS RunnerWorker, TLC

CONSTANTS j1, j2, b1

TwoJobs == {j1, j2}
OneBot == {b1}
BotAll == [j \in Jobs |-> b1]
Permuted == Permutations(Jobs)
=============================================================================
