---------------------------- MODULE InputQueue ----------------------------
(***************************************************************************)
(* The queue of what a bot is asked (fleet/instance/queue.ts) and the turn *)
(* that answers it (runTurn of runtime.ts), for one conversation.  Inputs  *)
(* that can still change are in the queue file; one that started and whose *)
(* message is in the chat is settled, and is in the settled log.  Every    *)
(* change is an update: lines are appended to the log, then the file is    *)
(* replaced, then memory follows; updates run one after another.           *)
(***************************************************************************)
EXTENDS Naturals, Sequences, FiniteSets

CONSTANTS Inputs,       \* bound: the inputs that may ever be queued
          Key,          \* the idempotency key an input comes with
          Text,         \* what an input asks: inputs may ask the same
          None,         \* no update, no turn
          MaxTroubles   \* bound: crashes, failed writes and turns,
                        \* deletions, days

(* An input as the queue keeps it: its state, the message its turn saved   *)
(* (0: not known), and how much the chat held when it came.                *)
Absent == [state |-> "absent", native |-> 0, at |-> 0]
Items == [state : {"absent", "waiting", "started"}, native : Nat, at : Nat]

(* A turn: the input it answers, and how far it is.                        *)
Turns == [input : Inputs, at : {"claimed", "starts", "starting", "saved", "maps",
                                "answering", "failed"}]

(* An update: what for, of which input, to which queue, and how far it is. *)
Updates == [op : {"enqueue", "delete", "start", "map", "recover"},
            input : Inputs \cup {None}, next : [Inputs -> Items],
            stage : {"log", "file"}]

ASSUME QueueAssumption ==
  /\ IsFiniteSet(Inputs) /\ MaxTroubles \in Nat
  /\ None \notin Inputs \cup Turns \cup Updates

VARIABLES mem,        \* the queue in memory: both its waiting and settled inputs
          file,       \* the queue file
          log,        \* the settled log: the last line of each input
          write,      \* the update in progress
          chat,       \* the user messages of the chat: whose turn saved each
          turn,       \* the turn that runs
          up,         \* the environment's process
          old,        \* the inputs that came more than a day ago
          accepted,   \* the inputs whose senders got a receipt
          gone,       \* the inputs their owner deleted from the queue
          troubles    \* how much went wrong so far

queueVars == <<mem, file, log, write, chat, turn, up, old, accepted, gone,
               troubles>>

Settled(item) == item.state = "started" /\ item.native # 0
Waiting(i) == mem[i].state = "waiting"
Unmapped(i) == mem[i].state = "started" /\ mem[i].native = 0

(* What may go wrong, and what is only bounded with it.                    *)
Trouble == troubles < MaxTroubles /\ troubles' = troubles + 1

-----------------------------------------------------------------------------
(* Updates.                                                                *)

Newly(next) == {i \in Inputs : Settled(next[i]) /\ ~Settled(mem[i])}
(* Mutant: the file keeps only what waits.                                 *)
Unsettled_Waiting(next) ==
  [i \in Inputs |-> IF next[i].state = "started" THEN Absent ELSE next[i]]

Unsettled(next) == [i \in Inputs |-> IF Settled(next[i]) THEN Absent ELSE next[i]]
Logged(S, next) == [i \in Inputs |-> IF i \in S THEN next[i] ELSE log[i]]

Begin(op, i, next) ==
  /\ write = None
  /\ write' = [op |-> op, input |-> i, next |-> next,
               stage |-> IF Newly(next) = {} THEN "file" ELSE "log"]

(* Logged before the file drops them: a crash leaves them in both.         *)
AppendLog == /\ write # None /\ write.stage = "log"
             /\ log' = Logged(Newly(write.next), write.next)
             /\ write' = [write EXCEPT !.stage = "file"]
             /\ UNCHANGED <<mem, file, chat, turn, up, old, accepted, gone,
                            troubles>>

(* What waited for the update goes on: the sender gets its receipt, the    *)
(* turn its next step; the process is up once its queue was recovered.     *)
Advance(at) == turn' = [turn EXCEPT !.at = at]
Resumes(op, i) ==
  /\ accepted' = IF op = "enqueue" THEN accepted \cup {i} ELSE accepted
  /\ gone' = IF op = "delete" THEN gone \cup {i} ELSE gone
  /\ up' = IF op = "recover" THEN "up" ELSE up
  /\ CASE op = "start" -> Advance("starting")
       [] op = "map" -> Advance("answering")
       [] op = "recover" -> turn' = None
       [] OTHER -> UNCHANGED turn

ReplaceFile == /\ write # None /\ write.stage = "file"
               /\ file' = Unsettled(write.next)
               /\ mem' = write.next
               /\ write' = None
               /\ Resumes(write.op, write.input)
               /\ UNCHANGED <<log, chat, old, troubles>>

-----------------------------------------------------------------------------
(* What is sent, and deleted.                                              *)

Young(i) == mem[i].state # "absent" /\ i \notin old

(* Mutant: only what still waits is known.                                 *)
Known_Waiting(key) == \E k \in Inputs : Key[k] = key /\ Waiting(k) /\ Young(k)

Known(key) == \E k \in Inputs : Key[k] = key /\ Young(k)

(* An input whose key came within a day is the one that came then.         *)
Enqueue(i) ==
  /\ up = "up"
  /\ mem[i] = Absent /\ i \notin gone
  /\ ~Known(Key[i])
  /\ Begin("enqueue", i,
           [mem EXCEPT ![i] = [state |-> "waiting", native |-> 0,
                               at |-> Len(chat)]])
  /\ UNCHANGED <<mem, file, log, chat, turn, up, old, accepted, gone, troubles>>

(* Its sender gets the receipt of that one.                                *)
Receipt(key) ==
  /\ up = "up"
  /\ Known(key)
  /\ accepted' = accepted \cup {i \in Inputs : Key[i] = key /\ Young(i)}
  /\ UNCHANGED <<mem, file, log, write, chat, turn, up, old, gone, troubles>>

(* The owner deletes an input that waits (a trouble: bounded with them).   *)
Delete(i) ==
  /\ Trouble
  /\ up = "up"
  /\ Waiting(i)
  /\ Begin("delete", i, [mem EXCEPT ![i] = Absent])
  /\ UNCHANGED <<mem, file, log, chat, turn, up, old, accepted, gone>>

-----------------------------------------------------------------------------
(* The turn.                                                               *)

TurnUnchanged == UNCHANGED <<mem, file, log, up, old, accepted, gone, troubles>>

Claim(i) ==
  /\ up = "up" /\ turn = None
  /\ Waiting(i)
  /\ turn' = [input |-> i, at |-> "claimed"]
  /\ UNCHANGED <<write, chat>>
  /\ TurnUnchanged

At(at) == turn # None /\ turn.at = at

(* markStarted; the owner may have deleted the input since it was claimed. *)
Start ==
  /\ At("claimed")
  /\ IF Waiting(turn.input)
     THEN /\ Begin("start", turn.input,
                   [mem EXCEPT ![turn.input].state = "started"])
          /\ Advance("starts")
     ELSE /\ turn' \in {None, [turn EXCEPT !.at = "failed"]}
          /\ UNCHANGED write
  /\ UNCHANGED chat
  /\ TurnUnchanged

(* startExecutorChatTurn: the user's message is saved in the chat.         *)
SaveMessage ==
  /\ At("starting")
  /\ chat' = Append(chat, turn.input)
  /\ Advance("saved")
  /\ UNCHANGED write
  /\ TurnUnchanged

(* mapNativeMessage: the newest message that asks what the input asks.  It *)
(* would throw for an input that is not started: none is, here.            *)
Map ==
  /\ At("saved")
  /\ mem[turn.input].state = "started"
  /\ Begin("map", turn.input, [mem EXCEPT ![turn.input].native = Len(chat)])
  /\ Advance("maps")
  /\ UNCHANGED chat
  /\ TurnUnchanged

Finish ==
  /\ At("answering")
  /\ turn' = None
  /\ UNCHANGED <<write, chat>>
  /\ TurnUnchanged

(* reconcile: one after another, the started inputs without a message take *)
(* the first that asks the same, came no earlier (up to a second) and is   *)
(* nobody's; without one they wait again.  The queue's order is left open. *)
Claimed == {mem[i].native : i \in Inputs}
Orphans == {i \in Inputs : Unmapped(i)}

(* Mutant: a message that is somebody's counts too.                        *)
Fits_Claimed(i, m) == m >= mem[i].at /\ Text[chat[m]] = Text[i]

Fits(i, m) == m \notin Claimed /\ m >= mem[i].at /\ Text[chat[m]] = Text[i]
Matches ==
  {f \in [Orphans -> 0..Len(chat)] :
     \A i \in Orphans :
       /\ f[i] # 0 => /\ Fits(i, f[i])
                      /\ \A k \in Orphans \ {i} : f[k] # f[i]
       /\ \A m \in 1..Len(chat) : Fits(i, m) /\ (f[i] = 0 \/ m < f[i])
                                    => \E k \in Orphans : f[k] = m}
Mapped(f) == [i \in Inputs |->
                IF i \notin Orphans THEN mem[i]
                ELSE IF f[i] = 0 THEN [mem[i] EXCEPT !.state = "waiting"]
                ELSE [mem[i] EXCEPT !.native = f[i]]]

Recover ==
  /\ up = "starting" \/ At("failed")
  /\ write = None
  /\ IF Orphans = {}
     THEN up' = "up" /\ turn' = None /\ UNCHANGED write
     ELSE /\ \E f \in Matches : Begin("recover", None, Mapped(f))
          /\ UNCHANGED <<up, turn>>
  /\ UNCHANGED <<mem, file, log, chat, old, accepted, gone, troubles>>

-----------------------------------------------------------------------------
(* What goes wrong.                                                        *)

(* The turn cannot start, or is cancelled before its message is mapped.    *)
TurnFails ==
  /\ Trouble
  /\ At("starting") \/ At("saved")
  /\ Advance("failed")
  /\ UNCHANGED <<mem, file, log, write, chat, up, old, accepted, gone>>

(* A write fails: memory and the file stay.  A turn that waited for it     *)
(* fails; a recovery that fails leaves its input started, but at the start *)
(* of the process, which starts again.                                     *)
WriteFails ==
  /\ Trouble
  /\ write # None
  /\ write' = None
  /\ CASE write.op \in {"start", "map"} -> Advance("failed") /\ UNCHANGED up
       [] write.op = "recover" -> turn' = None /\ UNCHANGED up
       [] OTHER -> UNCHANGED <<turn, up>>
  /\ UNCHANGED <<mem, file, log, chat, old, accepted, gone>>

(* The process ends.  The update in progress may have appended some of its *)
(* lines, or have replaced the file.                                       *)
Lost == [i \in Inputs |-> Absent]
Crash ==
  /\ Trouble
  /\ up # "down" /\ up' = "down"
  /\ \/ UNCHANGED <<file, log, gone>>
     \/ /\ write # None /\ write.stage = "log"
        /\ \E S \in SUBSET Newly(write.next) : log' = Logged(S, write.next)
        /\ UNCHANGED <<file, gone>>
     \/ /\ write # None /\ write.stage = "file"
        /\ file' = Unsettled(write.next)
        /\ gone' = IF write.op = "delete" THEN gone \cup {write.input} ELSE gone
        /\ UNCHANGED log
  /\ mem' = Lost /\ write' = None /\ turn' = None
  /\ UNCHANGED <<chat, old, accepted>>

(* load: an input that is in both is as the queue file has it.             *)
Loaded == [i \in Inputs |-> IF file[i] # Absent THEN file[i] ELSE log[i]]
Boot ==
  /\ up = "down" /\ up' = "starting"
  /\ mem' = Loaded
  /\ UNCHANGED <<file, log, write, chat, turn, old, accepted, gone, troubles>>

(* A day passes: the keys of what came before it are forgotten.            *)
Held == IF up = "down" THEN Loaded ELSE mem
DayPasses ==
  /\ Trouble
  /\ old' = {i \in Inputs : Held[i] # Absent}
  /\ UNCHANGED <<mem, file, log, write, chat, turn, up, accepted, gone>>

-----------------------------------------------------------------------------

QueueInit == /\ mem = [i \in Inputs |-> Absent]
             /\ file = [i \in Inputs |-> Absent]
             /\ log = [i \in Inputs |-> Absent]
             /\ write = None
             /\ chat = <<>>
             /\ turn = None
             /\ up = "up"
             /\ old = {}
             /\ accepted = {}
             /\ gone = {}
             /\ troubles = 0

WriteStep == AppendLog \/ ReplaceFile
TurnStep == Start \/ SaveMessage \/ Map \/ Finish \/ Recover
QueueNext == \/ \E i \in Inputs : \/ Enqueue(i) \/ Receipt(Key[i])
                              \/ Delete(i) \/ Claim(i)
             \/ WriteStep \/ TurnStep
             \/ TurnFails \/ WriteFails \/ Crash \/ Boot \/ DayPasses

QueueSpec == QueueInit /\ [][QueueNext]_queueVars

-----------------------------------------------------------------------------
(* Properties.                                                             *)

(* The queue's state is of its type.                                       *)
QueueTypeOK ==
  /\ mem \in [Inputs -> Items]
  /\ file \in [Inputs -> Items]
  /\ log \in [Inputs -> Items]
  /\ write \in Updates \cup {None}
  /\ chat \in Seq(Inputs)
  /\ turn \in Turns \cup {None}
  /\ up \in {"up", "down", "starting"}
  /\ old \subseteq Inputs /\ accepted \subseteq Inputs /\ gone \subseteq Inputs
  /\ troubles \in 0..MaxTroubles

(* An input whose sender got a receipt is on disk until its owner deletes  *)
(* it, whatever update a crash or a full disk cuts short.                  *)
NotLost == \A i \in accepted \ gone : file[i] # Absent \/ log[i] # Absent

(* No input is asked twice: as many inputs that ask something started as   *)
(* messages ask it, and no message is taken for two of them (but for one   *)
(* that its owner deleted, which a crash may bring back from the log).     *)
AskedOnce ==
  /\ \A i \in Inputs :
        Cardinality({m \in 1..Len(chat) : Text[chat[m]] = Text[i]})
          <= Cardinality({k \in Inputs : /\ Text[k] = Text[i]
                                         /\ Held[k].state = "started"})
  /\ \A i, k \in Inputs \ gone :
        mem[i].native = mem[k].native /\ mem[i].native # 0 => i = k

(* A key is queued once a day, unless its owner deletes what it queued.    *)
OncePerKey == \A i, k \in Inputs \ gone :
                Young(i) /\ Young(k) /\ Key[i] = Key[k] => i = k
=============================================================================
