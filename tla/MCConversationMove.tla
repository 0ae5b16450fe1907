------------------------ MODULE MCConversationMove ------------------------
(* Instances of ConversationMove for TLC.                                  *)
EXTENDS ConversationMove, TLC

CONSTANTS pc, box, cloud, m1, m2

MCHosts == {pc, box}
MCHosts3 == {pc, box, cloud}
MCOps == {m1, m2}

(* No property promises anything once the ghost is set; the search of the  *)
(* run that passes ends there.                                             *)
Unbroken == ~broken
=============================================================================
