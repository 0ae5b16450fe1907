--------------------------- MODULE MCRunnerBroker ---------------------------
(* Small instances of RunnerBroker: who submits what, and who can run it.   *)
EXTENDS RunnerBroker

CONSTANT d1

\* One bot submits every job, and every computer can run it.
OneBot == [j \in Jobs |-> CHOOSE b \in Bots : TRUE]
AnyDevice == [j \in Jobs |-> Devices]

\* The jobs of two bots alternate.
TwoBots == [j \in Jobs |-> IF j % 2 = 1 THEN "b1" ELSE "b2"]
=============================================================================
