---------------------------- MODULE MoveRegister ----------------------------
(***************************************************************************)
(* What moving a conversation between hosts promises, without the saga     *)
(* that does it: the conversation has one home, it grows there, and it     *)
(* changes homes whole.  ConversationMove implements this.                 *)
(***************************************************************************)
EXTENDS Naturals

CONSTANTS Hosts,        \* the computers and remote hosts
          First,        \* where the conversation begins
          MaxMessages   \* bound: how far the conversation grows

VARIABLES home,         \* the host the conversation lives on
          messages,     \* how much was said in it
          broken        \* one of the moments nothing protects was met

vars == <<home, messages, broken>>

Init == /\ home = First
        /\ messages = 0
        /\ broken = FALSE

(* Somebody goes on with the conversation at its home.                     *)
Write == /\ ~broken
         /\ messages < MaxMessages
         /\ messages' = messages + 1
         /\ UNCHANGED <<home, broken>>

(* The conversation changes homes and takes everything said with it.       *)
HandOver == /\ ~broken
            /\ home' \in Hosts \ {home}
            /\ UNCHANGED <<messages, broken>>

(* The moments the code does not protect: a host stops while it lets the   *)
(* conversation go, a move is resolved while a call it gave up still runs  *)
(* or while a turn its freeze did not stop goes on (LettingGo, Unsettled   *)
(* and TurnGoesOn in ConversationMove).  From then on nothing is promised. *)
Break == /\ broken' = TRUE
         /\ home' \in Hosts
         /\ messages' \in 0..MaxMessages

Next == Write \/ HandOver \/ Break

Spec == Init /\ [][Next]_vars
=============================================================================
