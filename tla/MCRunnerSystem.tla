--------------------------- MODULE MCRunnerSystem ---------------------------
(* Small instances of RunnerSystem. *)
EXTENDS RunnerSystem

CONSTANTS d1, d2

OneBot == [j \in Jobs |-> "b1"]
AnyDevice == [j \in Jobs |-> Devices]

-----------------------------------------------------------------------------
(* How far the run with a second computer searches.                        *)

\* The second computer links itself before it opens its stream, then stays
\* online, and is there only where nothing else goes wrong; only for it is a
\* second runner id minted.
Others == {d \in Devices \ {Runner} : \E b \in Bots : Linked(b, d)}
OtherStays ==
    /\ \A d \in Devices \ {Runner} :
          live[d] + closing[d] > 0 \/ presence[d] # Absent => d \in Others
    /\ \A d \in Others : closing[d] = 0 /\ presence[d] # 0
    /\ Others # {} => troubles = 0
    /\ minted > 1 => Others # {}

\* A job asks for any computer; its row stays until its bot is deleted; and its
\* time in the queue, which nothing reads once it was accepted, stops there.
PlainJob(j) ==
    /\ wants[j] = 0
    /\ state[j] = "gone" => BotOf[j] \notin bots
    /\ state[j] \in OnRunner => queueDeadline[j] = QueueTimeout

\* Nothing more is asked once the jobs ended and their computer let them go.
Going == \E j \in Jobs : state[j] \notin Final \cup {"gone"} \/ run[j] # "none"

Searched == OtherStays /\ (\A j \in Jobs : PlainJob(j)) /\ Going
=============================================================================
