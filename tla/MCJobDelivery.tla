-------------------------- MODULE MCJobDelivery --------------------------
(* Instances of JobDelivery for TLC.                                       *)
EXTENDS JobDelivery, TLC

CONSTANTS job1, end1, end2, said, words

(* A job's end may be queued twice, and its owner may say the same.        *)
MCJobs == {job1}
MCInputs == {end1, end2, said}
MCKey == (end1 :> job1) @@ (end2 :> job1) @@ (said :> said)
MCText == [i \in MCInputs |-> words]
=============================================================================
