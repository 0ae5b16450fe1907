------------------------- MODULE InputQueueProofs -------------------------
(***************************************************************************)
(* Proofs about InputQueue: its types, that nothing accepted is lost, that *)
(* nothing is asked twice, and that a key is queued once, for any inputs,  *)
(* keys and troubles.                                                      *)
(***************************************************************************)
EXTENDS InputQueue, FiniteSetTheorems, SequenceTheorems, TLAPS

(* The turn waits for the update that it asked for, in a process.          *)
TurnAwaits ==
  /\ turn # None => up # "down"
  /\ write # None /\ write.op = "start" => turn \in Turns /\ turn.at = "starts"
  /\ write # None /\ write.op = "map" => turn \in Turns /\ turn.at = "maps"

(* What an update takes from the queue is what it deletes; what it settles *)
(* is logged before the file goes; what it queues is there.                *)
UpdateKeeps ==
  write # None =>
    /\ up # "down"
    /\ \A i \in Inputs :
         /\ write.next[i] = Absent => \/ mem[i] = Absent
                                      \/ write.op = "delete" /\ i = write.input
         /\ write.stage = "file" /\ i \in Newly(write.next) => log[i] # Absent
    /\ write.op \in {"enqueue", "delete"} => write.input \in Inputs
    /\ write.op = "enqueue" => write.next[write.input] # Absent

(* What memory holds is on disk, and what is settled is in the log; memory *)
(* holds what was accepted.                                                *)
FileUnsettled == \A i \in Inputs : ~Settled(file[i])
MemoryOnDisk ==
  up # "down" =>
    \A i \in Inputs :
      /\ mem[i] # Absent => file[i] # Absent \/ log[i] # Absent
      /\ Settled(mem[i]) => log[i] # Absent
      /\ i \in accepted \ gone => mem[i] # Absent

IInv == /\ QueueTypeOK /\ TurnAwaits /\ UpdateKeeps /\ FileUnsettled
        /\ MemoryOnDisk /\ NotLost

-----------------------------------------------------------------------------
(* Nothing absent is settled, and both are items.                          *)
LEMMA AbsentItem == Absent \in Items /\ ~Settled(Absent) /\ Absent.state = "absent"
BY DEF Absent, Items, Settled

LEMMA UnsettledItems ==
  ASSUME NEW next \in [Inputs -> Items]
  PROVE  /\ Unsettled(next) \in [Inputs -> Items]
         /\ \A i \in Inputs : /\ ~Settled(Unsettled(next)[i])
                              /\ next[i] # Absent /\ ~Settled(next[i])
                                   => Unsettled(next)[i] # Absent
BY AbsentItem DEF Unsettled

LEMMA LoggedItems ==
  ASSUME log \in [Inputs -> Items], NEW next \in [Inputs -> Items], NEW S \in SUBSET Newly(next)
  PROVE  /\ Logged(S, next) \in [Inputs -> Items]
         /\ \A i \in Inputs : log[i] # Absent => Logged(S, next)[i] # Absent
         /\ \A i \in S : Logged(S, next)[i] # Absent
<1>1. \A i \in S : i \in Inputs /\ Settled(next[i])
  BY DEF Newly
<1>2. \A i \in S : next[i] # Absent
  BY <1>1, AbsentItem
<1> QED
  BY <1>1, <1>2 DEF Logged

(* The file an update leaves, with the log, holds what memory will hold.   *)
LEMMA FileHolds ==
  ASSUME IInv, write # None, write.stage = "file",
         NEW i \in Inputs, write.next[i] # Absent
  PROVE  /\ Unsettled(write.next)[i] # Absent \/ log[i] # Absent
         /\ Settled(write.next[i]) => log[i] # Absent
<1>1. write.next \in [Inputs -> Items] /\ up # "down"
  BY DEF IInv, QueueTypeOK, Updates, UpdateKeeps
<1>2. Settled(write.next[i]) => log[i] # Absent
  <2>1. CASE Settled(mem[i])
    BY <1>1, <2>1 DEF IInv, MemoryOnDisk
  <2>2. CASE ~Settled(mem[i])
    BY <2>2 DEF IInv, UpdateKeeps, Newly
  <2> QED
    BY <2>1, <2>2
<1> QED
  BY <1>1, <1>2, UnsettledItems

(* What was accepted and is not deleted by an update stays in its queue.   *)
LEMMA UpdateHolds ==
  ASSUME IInv, write # None, NEW i \in Inputs, i \in accepted \ gone,
         ~(write.op = "delete" /\ i = write.input)
  PROVE  write.next[i] # Absent
BY DEF IInv, UpdateKeeps, MemoryOnDisk

-----------------------------------------------------------------------------
(* Steps that begin an update.                                             *)
LEMMA BeginStep ==
  ASSUME IInv, up # "down", NEW i \in Inputs \cup {None},
         NEW op \in {"enqueue", "delete", "start", "map", "recover"},
         NEW next \in [Inputs -> Items], Begin(op, i, next),
         \A k \in Inputs : next[k] = Absent => \/ mem[k] = Absent
                                               \/ op = "delete" /\ k = i,
         op \in {"enqueue", "delete"} => i \in Inputs,
         op = "enqueue" => next[i] # Absent,
         UNCHANGED <<mem, file, log, chat, up, old, accepted, gone>>,
         turn' = None \/ turn' \in Turns,
         op = "start" => turn' \in Turns /\ turn'.at = "starts",
         op = "map" => turn' \in Turns /\ turn'.at = "maps",
         troubles' \in 0..MaxTroubles
  PROVE  IInv'
<1>1. /\ write' = [op |-> op, input |-> i, next |-> next,
                   stage |-> IF Newly(next) = {} THEN "file" ELSE "log"]
      /\ write' # None => write'.op = op /\ write'.input = i /\ write'.next = next
  BY DEF Begin
<1>2. write' \in Updates
  BY <1>1 DEF Updates
<1>3. QueueTypeOK'
  BY <1>2 DEF IInv, QueueTypeOK, Turns
<1>4. TurnAwaits'
  BY <1>1 DEF TurnAwaits
<1>5. UpdateKeeps'
  <2>1. write'.stage = "file" => Newly(next) = {}
    BY <1>1
  <2>2. Newly(next)' = Newly(next)
    BY DEF Newly
  <2> QED
    BY <1>1, <2>1, <2>2 DEF UpdateKeeps, Newly
<1> QED
  BY <1>3, <1>4, <1>5 DEF IInv, FileUnsettled, MemoryOnDisk, NotLost

(* Steps of the turn and of failures that touch neither queue nor disk.    *)
LEMMA OwnStep ==
  ASSUME IInv, UNCHANGED <<mem, file, log, accepted, gone>>,
         write' = write \/ write' = None,
         up' = up \/ up # "down",
         up' \in {"up", "starting"} \/ up' = up,
         chat' \in Seq(Inputs), old' \subseteq Inputs, troubles' \in 0..MaxTroubles,
         turn' = None \/ (turn' \in Turns /\ up # "down"),
         \/ turn' = turn \/ write' = None
         \/ turn = None \/ turn.at \notin {"starts", "maps"}
  PROVE  IInv'
<1>1. QueueTypeOK'
  BY DEF IInv, QueueTypeOK, Turns
<1>2. TurnAwaits'
  BY QueueAssumption DEF IInv, TurnAwaits
<1>3. UpdateKeeps'
  BY DEF IInv, UpdateKeeps, Newly
<1> QED
  BY <1>1, <1>2, <1>3 DEF IInv, FileUnsettled, MemoryOnDisk, NotLost

LEMMA AppendLogStep == IInv /\ AppendLog => IInv'
<1> SUFFICES ASSUME IInv, AppendLog PROVE IInv'
  OBVIOUS
<1>1. /\ write # None /\ write.stage = "log"
      /\ log' = Logged(Newly(write.next), write.next)
      /\ write' = [write EXCEPT !.stage = "file"]
      /\ UNCHANGED <<mem, file, chat, turn, up, old, accepted, gone, troubles>>
      /\ write.next \in [Inputs -> Items] /\ log \in [Inputs -> Items]
      /\ write \in Updates
  BY DEF AppendLog, IInv, QueueTypeOK, Updates
<1>2. /\ log' \in [Inputs -> Items]
      /\ \A i \in Inputs : log[i] # Absent => log'[i] # Absent
      /\ \A i \in Newly(write.next) : log'[i] # Absent
  BY <1>1, LoggedItems
<1>3. /\ write'.op = write.op /\ write'.input = write.input
      /\ write'.next = write.next
      /\ write' \in Updates
  BY <1>1 DEF Updates
<1>4. QueueTypeOK'
  BY <1>1, <1>2, <1>3 DEF IInv, QueueTypeOK
<1>5. TurnAwaits'
  BY <1>1, <1>3 DEF IInv, TurnAwaits
<1>6. UpdateKeeps'
  BY <1>1, <1>2, <1>3 DEF IInv, UpdateKeeps, Newly
<1>7. FileUnsettled'
  BY <1>1 DEF IInv, FileUnsettled
<1>8. MemoryOnDisk'
  BY <1>1, <1>2 DEF IInv, MemoryOnDisk
<1>9. NotLost'
  BY <1>1, <1>2 DEF IInv, NotLost, QueueTypeOK
<1> QED
  BY <1>4, <1>5, <1>6, <1>7, <1>8, <1>9 DEF IInv

LEMMA ReplaceFileStep == IInv /\ ReplaceFile => IInv'
<1> SUFFICES ASSUME IInv, ReplaceFile PROVE IInv'
  OBVIOUS
<1>1. /\ write # None /\ write.stage = "file"
      /\ file' = Unsettled(write.next) /\ mem' = write.next /\ write' = None
      /\ UNCHANGED <<log, chat, old, troubles>>
      /\ accepted' = IF write.op = "enqueue" THEN accepted \cup {write.input} ELSE accepted
      /\ gone' = IF write.op = "delete" THEN gone \cup {write.input} ELSE gone
      /\ up' = IF write.op = "recover" THEN "up" ELSE up
  BY DEF ReplaceFile, Resumes
<1>2. /\ write.next \in [Inputs -> Items]
      /\ write.op \in {"enqueue", "delete", "start", "map", "recover"}
      /\ write.op = "enqueue" => write.input \in Inputs /\ write.next[write.input] # Absent
      /\ write.op = "delete" => write.input \in Inputs
      /\ up # "down"
  BY <1>1 DEF IInv, QueueTypeOK, Updates, UpdateKeeps
<1>3. turn' = None \/ turn' \in Turns
  <2>1. write.op \in {"start", "map"} => turn \in Turns
    BY <1>1 DEF IInv, TurnAwaits
  <2>2. CASE write.op = "start"
    BY <2>1, <2>2 DEF ReplaceFile, Resumes, Advance, Turns
  <2>3. CASE write.op = "map"
    BY <2>1, <2>3 DEF ReplaceFile, Resumes, Advance, Turns
  <2>4. CASE write.op = "recover"
    BY <2>4 DEF ReplaceFile, Resumes
  <2>5. CASE write.op \in {"enqueue", "delete"}
    BY <2>5 DEF ReplaceFile, Resumes, IInv, QueueTypeOK, Turns
  <2> QED
    BY <1>2, <2>2, <2>3, <2>4, <2>5
<1>4. /\ file' \in [Inputs -> Items] /\ \A i \in Inputs : ~Settled(file'[i])
  BY <1>1, <1>2, UnsettledItems
<1>5. QueueTypeOK'
  BY <1>1, <1>2, <1>3, <1>4 DEF IInv, QueueTypeOK, Turns
<1>6. \A i \in Inputs : mem'[i] # Absent =>
        /\ file'[i] # Absent \/ log'[i] # Absent
        /\ Settled(mem'[i]) => log'[i] # Absent
  BY <1>1, FileHolds
<1>7. \A i \in accepted' \ gone' : mem'[i] # Absent
  <2>1. SUFFICES ASSUME NEW i \in accepted' \ gone' PROVE write.next[i] # Absent
    BY <1>1
  <2>2. i \in Inputs
    BY <1>5 DEF QueueTypeOK
  <2>3. CASE write.op = "enqueue" /\ i = write.input
    BY <1>2, <2>3
  <2>4. CASE ~(write.op = "enqueue" /\ i = write.input)
    <3>1. i \in accepted \ gone /\ ~(write.op = "delete" /\ i = write.input)
      BY <1>1, <2>4
    <3> QED
      BY <1>1, <2>2, <3>1, UpdateHolds
  <2> QED
    BY <2>3, <2>4
<1>8. Settled(Absent) = FALSE
  BY AbsentItem
<1>9. MemoryOnDisk'
  <2>1. \A i \in Inputs : Settled(mem'[i]) => mem'[i] # Absent
    BY <1>8
  <2> QED
    BY <1>6, <1>7, <2>1 DEF MemoryOnDisk
<1>10. NotLost'
  BY <1>5, <1>6, <1>7 DEF NotLost, QueueTypeOK
<1> QED
  BY <1>1, <1>4, <1>5, <1>9, <1>10 DEF IInv, TurnAwaits, UpdateKeeps, FileUnsettled

LEMMA CrashStep == IInv /\ Crash => IInv'
<1> SUFFICES ASSUME IInv, Crash PROVE IInv'
  OBVIOUS
<1>1. /\ mem' = Lost /\ write' = None /\ turn' = None /\ up' = "down"
      /\ UNCHANGED <<chat, old, accepted>> /\ troubles' \in 0..MaxTroubles
      /\ mem' \in [Inputs -> Items]
  <2>1. /\ mem' = Lost /\ write' = None /\ turn' = None /\ up' = "down"
        /\ UNCHANGED <<chat, old, accepted>>
        /\ troubles < MaxTroubles /\ troubles' = troubles + 1
    BY DEF Crash, Trouble
  <2>2. troubles' \in 0..MaxTroubles
    BY <2>1, QueueAssumption DEF IInv, QueueTypeOK
  <2>3. Lost \in [Inputs -> Items]
    BY AbsentItem DEF Lost
  <2> QED
    BY <2>1, <2>2, <2>3
<1>2. CASE UNCHANGED <<file, log, gone>>
  BY <1>1, <1>2 DEF IInv, QueueTypeOK, TurnAwaits, UpdateKeeps, FileUnsettled,
                    MemoryOnDisk, NotLost
<1>3. CASE /\ write # None /\ write.stage = "log"
           /\ \E S \in SUBSET Newly(write.next) : log' = Logged(S, write.next)
           /\ UNCHANGED <<file, gone>>
  <2>1. /\ log' \in [Inputs -> Items]
        /\ \A i \in Inputs : log[i] # Absent => log'[i] # Absent
    BY <1>3, LoggedItems DEF IInv, QueueTypeOK, Updates
  <2> QED
    BY <1>1, <1>3, <2>1 DEF IInv, QueueTypeOK, TurnAwaits, UpdateKeeps, FileUnsettled,
                    MemoryOnDisk, NotLost
<1>4. CASE /\ write # None /\ write.stage = "file"
           /\ file' = Unsettled(write.next)
           /\ gone' = IF write.op = "delete" THEN gone \cup {write.input} ELSE gone
           /\ UNCHANGED log
  <2>1. /\ write.next \in [Inputs -> Items]
        /\ write.op = "delete" => write.input \in Inputs
    BY <1>4 DEF IInv, QueueTypeOK, Updates, UpdateKeeps
  <2>2. file' \in [Inputs -> Items] /\ \A i \in Inputs : ~Settled(file'[i])
    BY <1>4, <2>1, UnsettledItems
  <2>3. QueueTypeOK'
    BY <1>1, <1>4, <2>1, <2>2 DEF IInv, QueueTypeOK
  <2>4. ASSUME NEW i \in accepted' \ gone'
        PROVE  file'[i] # Absent \/ log'[i] # Absent
    <3>1. /\ i \in Inputs /\ i \in accepted \ gone
          /\ ~(write.op = "delete" /\ i = write.input)
      BY <1>1, <1>4, <2>3 DEF QueueTypeOK
    <3> QED
      BY <1>4, <3>1, UpdateHolds, FileHolds
  <2> QED
    BY <1>1, <2>2, <2>3, <2>4 DEF IInv, TurnAwaits, UpdateKeeps, FileUnsettled,
                                  MemoryOnDisk, NotLost
<1> QED
  BY <1>2, <1>3, <1>4 DEF Crash

LEMMA BootStep == IInv /\ Boot => IInv'
<1> SUFFICES ASSUME IInv, Boot PROVE IInv'
  OBVIOUS
<1>1. /\ up' = "starting" /\ mem' = Loaded /\ up = "down"
      /\ UNCHANGED <<file, log, write, chat, turn, old, accepted, gone, troubles>>
  BY DEF Boot
<1>2. write = None
  BY <1>1 DEF IInv, UpdateKeeps
<1>3. QueueTypeOK'
  BY <1>1 DEF Loaded, IInv, QueueTypeOK
<1>4. MemoryOnDisk'
  <2>1. ASSUME NEW i \in Inputs
        PROVE  /\ Loaded[i] # Absent => file[i] # Absent \/ log[i] # Absent
               /\ Settled(Loaded[i]) => log[i] # Absent
               /\ i \in accepted \ gone => Loaded[i] # Absent
    BY AbsentItem DEF Loaded, IInv, FileUnsettled, NotLost
  <2> QED
    BY <1>1, <2>1 DEF MemoryOnDisk
<1> QED
  BY <1>1, <1>2, <1>3, <1>4 DEF IInv, TurnAwaits, UpdateKeeps, FileUnsettled, NotLost

LEMMA NextInv == IInv /\ [QueueNext]_queueVars => IInv'
<1> SUFFICES ASSUME IInv, [QueueNext]_queueVars PROVE IInv'
  OBVIOUS
<1>0. /\ mem \in [Inputs -> Items] /\ file \in [Inputs -> Items]
      /\ log \in [Inputs -> Items] /\ chat \in Seq(Inputs)
      /\ Len(chat) \in Nat
      /\ write = None \/ write \in Updates
      /\ turn = None \/ turn \in Turns
      /\ up \in {"up", "down", "starting"}
      /\ old \subseteq Inputs /\ troubles \in 0..MaxTroubles
      /\ turn # None => up # "down"
  BY LenProperties DEF IInv, QueueTypeOK, TurnAwaits, Updates, Turns
<1>t. Trouble => troubles' \in 0..MaxTroubles
  BY <1>0, QueueAssumption DEF Trouble
<1>1. CASE UNCHANGED queueVars
  BY <1>1 DEF queueVars, IInv, QueueTypeOK, TurnAwaits, UpdateKeeps, Newly,
              FileUnsettled, MemoryOnDisk, NotLost
<1>2. ASSUME NEW i \in Inputs, Enqueue(i) PROVE IInv'
  <2> DEFINE next == [mem EXCEPT ![i] = [state |-> "waiting", native |-> 0,
                                         at |-> Len(chat)]]
  <2>1. next \in [Inputs -> Items]
    BY <1>0 DEF Items
  <2>2. next[i] # Absent /\ \A k \in Inputs : next[k] = Absent => mem[k] = Absent
    BY <1>0 DEF Absent
  <2>3. /\ up # "down" /\ Begin("enqueue", i, next)
        /\ UNCHANGED <<mem, file, log, chat, turn, up, old, accepted, gone, troubles>>
    BY <1>2 DEF Enqueue
  <2> HIDE DEF next
  <2> QED
    BY <1>0, <2>1, <2>2, <2>3, BeginStep
<1>3. ASSUME NEW i \in Inputs, Receipt(Key[i]) PROVE IInv'
  <2>1. /\ up = "up"
        /\ UNCHANGED <<mem, file, log, write, chat, turn, up, old, gone, troubles>>
        /\ accepted' \subseteq Inputs
        /\ \A k \in accepted' : k \in accepted \/ mem[k] # Absent
    BY <1>3 DEF Receipt, Young, Absent, IInv, QueueTypeOK
  <2>2. QueueTypeOK'
    BY <2>1 DEF IInv, QueueTypeOK
  <2>3. MemoryOnDisk'
    BY <2>1 DEF IInv, MemoryOnDisk
  <2>4. NotLost'
    BY <2>1 DEF IInv, MemoryOnDisk, NotLost
  <2> QED
    BY <2>1, <2>2, <2>3, <2>4 DEF IInv, TurnAwaits, UpdateKeeps, Newly, FileUnsettled
<1>4. ASSUME NEW i \in Inputs, Delete(i) PROVE IInv'
  <2> DEFINE next == [mem EXCEPT ![i] = Absent]
  <2>1. /\ next \in [Inputs -> Items]
        /\ \A k \in Inputs : next[k] = Absent => mem[k] = Absent \/ k = i
    BY <1>0, AbsentItem
  <2>2. /\ up # "down" /\ Begin("delete", i, next)
        /\ UNCHANGED <<mem, file, log, chat, turn, up, old, accepted, gone>>
    BY <1>4 DEF Delete
  <2>3. troubles' \in 0..MaxTroubles
    BY <1>4, <1>t DEF Delete
  <2> HIDE DEF next
  <2> QED
    BY <1>0, <2>1, <2>2, <2>3, BeginStep
<1>5. ASSUME NEW i \in Inputs, Claim(i) PROVE IInv'
  BY <1>0, <1>5, OwnStep DEF Claim, TurnUnchanged, Turns
<1>6. CASE Start
  <2>0. turn # None /\ turn \in Turns /\ turn.at = "claimed" /\ up # "down"
    BY <1>0, <1>6 DEF Start, At
  <2>1. CASE Waiting(turn.input)
    <3> DEFINE next == [mem EXCEPT ![turn.input].state = "started"]
    <3>0. turn.input \in Inputs /\ mem[turn.input] \in Items
      BY <1>0, <2>0 DEF Turns
    <3>1. next \in [Inputs -> Items]
      <4>1. [mem[turn.input] EXCEPT !.state = "started"] \in Items
        BY <3>0 DEF Items
      <4> QED
        BY <1>0, <3>0, <4>1
    <3>2. \A k \in Inputs : next[k] = Absent => mem[k] = Absent
      BY <1>0, <2>0 DEF Absent, Items, Turns
    <3>3. /\ Begin("start", turn.input, next)
          /\ UNCHANGED <<mem, file, log, chat, up, old, accepted, gone, troubles>>
          /\ turn' \in Turns /\ turn'.at = "starts"
      BY <1>6, <2>0, <2>1 DEF Start, Advance, TurnUnchanged, Turns
    <3>4. turn.input \in Inputs
      BY <2>0 DEF Turns
    <3> HIDE DEF next
    <3> QED
      BY <1>0, <2>0, <3>1, <3>2, <3>3, <3>4, BeginStep
  <2>2. CASE ~Waiting(turn.input)
    <3>1. /\ UNCHANGED <<mem, file, log, up, old, accepted, gone, troubles, write, chat>>
          /\ turn' = None \/ turn' \in Turns
      BY <1>6, <2>0, <2>2 DEF Start, TurnUnchanged, Turns
    <3> QED
      BY <1>0, <2>0, <3>1, OwnStep
  <2> QED
    BY <2>1, <2>2
<1>7. CASE SaveMessage
  <2>1. turn # None /\ turn \in Turns /\ turn.at = "starting" /\ up # "down"
    BY <1>0, <1>7 DEF SaveMessage, At
  <2>2. chat' \in Seq(Inputs) /\ turn' \in Turns
    BY <1>0, <1>7, <2>1 DEF SaveMessage, Advance, Turns
  <2> QED
    BY <1>0, <1>7, <2>1, <2>2, OwnStep DEF SaveMessage, TurnUnchanged
<1>8. CASE Map
  <2>0. turn # None /\ turn \in Turns /\ turn.at = "saved" /\ up # "down"
    BY <1>0, <1>8 DEF Map, At
  <2> DEFINE next == [mem EXCEPT ![turn.input].native = Len(chat)]
  <2>1. next \in [Inputs -> Items]
    <3>1. turn.input \in Inputs /\ mem[turn.input] \in Items
      BY <1>0, <2>0 DEF Turns
    <3>2. [mem[turn.input] EXCEPT !.native = Len(chat)] \in Items
      BY <1>0, <3>1 DEF Items
    <3> QED
      BY <1>0, <3>1, <3>2
  <2>2. \A k \in Inputs : next[k] = Absent => mem[k] = Absent
    <3>1. next[turn.input].state = "started"
      BY <1>0, <1>8, <2>0 DEF Map, Items, Turns
    <3> QED
      BY <1>0, <3>1 DEF Absent
  <2>3. /\ Begin("map", turn.input, next)
        /\ UNCHANGED <<mem, file, log, chat, up, old, accepted, gone, troubles>>
        /\ turn' \in Turns /\ turn'.at = "maps"
    BY <1>8, <2>0 DEF Map, Advance, TurnUnchanged, Turns
  <2>4. turn.input \in Inputs
    BY <2>0 DEF Turns
  <2> HIDE DEF next
  <2> QED
    BY <1>0, <2>0, <2>1, <2>2, <2>3, <2>4, BeginStep
<1>9. CASE Finish
  <2>1. turn # None /\ turn.at = "answering" /\ up # "down"
    BY <1>0, <1>9 DEF Finish, At
  <2> QED
    BY <1>0, <1>9, <2>1, OwnStep DEF Finish, TurnUnchanged
<1>10. CASE Recover
  <2>0. up # "down" /\ (turn = None \/ turn \in Turns)
    BY <1>0, <1>10 DEF Recover, At
  <2>1. CASE Orphans = {}
    BY <1>0, <1>10, <2>0, <2>1, OwnStep DEF Recover
  <2>2. CASE Orphans # {}
    <3>1. PICK f \in Matches : Begin("recover", None, Mapped(f))
      BY <1>10, <2>2 DEF Recover
    <3>2. /\ f \in [Orphans -> 0..Len(chat)]
          /\ \A i \in Orphans : i \in Inputs /\ mem[i].state = "started"
      BY <3>1 DEF Matches, Orphans, Unmapped
    <3>3. ASSUME NEW i \in Inputs
          PROVE  /\ Mapped(f)[i] \in Items
                 /\ Mapped(f)[i] = Absent => mem[i] = Absent
      <4>1. CASE i \notin Orphans
        BY <1>0, <4>1 DEF Mapped
      <4>2. CASE i \in Orphans /\ f[i] = 0
        BY <1>0, <4>2 DEF Mapped, Items, Absent
      <4>3. CASE i \in Orphans /\ f[i] # 0
        <5>1. /\ Mapped(f)[i] = [mem[i] EXCEPT !.native = f[i]]
              /\ f[i] \in Nat /\ mem[i] \in Items /\ mem[i].state = "started"
          BY <1>0, <3>2, <4>3 DEF Mapped
        <5> QED
          BY <5>1 DEF Items, Absent
      <4> QED
        BY <4>1, <4>2, <4>3
    <3>4. Mapped(f) \in [Inputs -> Items]
      BY <3>3 DEF Mapped
    <3>5. UNCHANGED <<mem, file, log, chat, turn, up, old, accepted, gone, troubles>>
      BY <1>10, <2>2 DEF Recover
    <3> DEFINE next == Mapped(f)
    <3>6. /\ next \in [Inputs -> Items] /\ Begin("recover", None, next)
          /\ \A i \in Inputs : next[i] = Absent => mem[i] = Absent
      BY <3>1, <3>3, <3>4
    <3> HIDE DEF next
    <3>7. /\ None \in Inputs \cup {None} /\ up # "down"
          /\ turn' = None \/ turn' \in Turns
          /\ troubles' \in 0..MaxTroubles
      BY <1>0, <2>0, <3>5
    <3> QED
      BY <3>5, <3>6, <3>7, BeginStep
  <2> QED
    BY <2>1, <2>2
<1>11. CASE TurnFails
  <2>1. turn # None /\ turn \in Turns /\ up # "down" /\ turn.at \in {"starting", "saved"}
    BY <1>0, <1>11 DEF TurnFails, At
  <2>2. turn' \in Turns /\ troubles' \in 0..MaxTroubles
    BY <1>t, <1>11, <2>1 DEF TurnFails, Advance, Turns
  <2> QED
    BY <1>0, <1>11, <2>1, <2>2, OwnStep DEF TurnFails
<1>12. CASE WriteFails
  <2>1. /\ up # "down" /\ write # None /\ write' = None /\ up' = up
        /\ UNCHANGED <<mem, file, log, chat, old, accepted, gone>>
        /\ troubles' \in 0..MaxTroubles
    BY <1>t, <1>12 DEF WriteFails, IInv, UpdateKeeps
  <2>2. turn' = None \/ turn' \in Turns
    <3>1. write.op \in {"start", "map"} => turn \in Turns
      BY <2>1 DEF IInv, TurnAwaits
    <3>2. CASE write.op \in {"start", "map"}
      BY <1>12, <3>1, <3>2 DEF WriteFails, Advance, Turns
    <3>3. CASE write.op = "recover"
      BY <1>12, <3>3 DEF WriteFails
    <3>4. CASE write.op \notin {"start", "map", "recover"}
      BY <1>0, <1>12, <3>4 DEF WriteFails
    <3> QED
      BY <3>2, <3>3, <3>4
  <2> QED
    BY <1>0, <2>1, <2>2, OwnStep
<1>13. CASE DayPasses
  <2>1. /\ UNCHANGED <<mem, file, log, write, chat, turn, up, accepted, gone>>
        /\ old' \subseteq Inputs /\ troubles' \in 0..MaxTroubles
    BY <1>t, <1>13 DEF DayPasses
  <2> QED
    BY <1>0, <2>1, OwnStep
<1> QED
  BY <1>1, <1>2, <1>3, <1>4, <1>5, <1>6, <1>7, <1>8, <1>9, <1>10, <1>11, <1>12,
     <1>13, AppendLogStep, ReplaceFileStep, CrashStep, BootStep
  DEF QueueNext, WriteStep, TurnStep

LEMMA InitInv == QueueInit => IInv
<1> SUFFICES ASSUME QueueInit PROVE IInv
  OBVIOUS
<1>1. QueueTypeOK
  BY AbsentItem, EmptySeq, QueueAssumption DEF QueueInit, QueueTypeOK
<1> QED
  BY <1>1, AbsentItem DEF QueueInit, IInv, TurnAwaits, UpdateKeeps, FileUnsettled,
                          MemoryOnDisk, NotLost

-----------------------------------------------------------------------------
(* What keeps inputs from being asked twice.                               *)

(* The disk of a queue q: its file has what may change, its log what is    *)
(* settled, and old lines of what was deleted.                             *)
Disk(q, f, l, d) ==
  /\ f = Unsettled(q)
  /\ \A i \in Inputs : /\ l[i] # Absent => Settled(l[i])
                       /\ Settled(q[i]) => l[i] = q[i]
                       /\ q[i] = Absent /\ i \notin d => l[i] = Absent

(* An input's message is in the chat and asks what the input asks; one     *)
(* that may get a message came to the chat as it is, or was.               *)
ItemTrue(i, item, c) ==
  /\ item.native # 0 => /\ item.state = "started"
                        /\ item.native \in 1..Len(c)
                        /\ Text[c[item.native]] = Text[i]
  /\ ~Settled(item) => item.at <= Len(c)
ItemsTrue == \A i \in Inputs : ItemTrue(i, Held[i], chat) /\ ItemTrue(i, log[i], chat)

(* A process that ended remembers nothing; the input of a turn on its way  *)
(* to a message has none.                                                  *)
TurnHolds ==
  /\ up = "down" => mem = Lost
  /\ up # "up" => turn = None
  /\ turn # None /\ turn.at \in {"starting", "saved", "maps"}
       => Unmapped(turn.input)

(* An update's queue is memory's, but for what the update is for.          *)
Changes(op, i, next) ==
  \/ /\ op = "enqueue" /\ i \in Inputs /\ mem[i] = Absent
     /\ \E n \in 0..Len(chat) :
          next = [mem EXCEPT ![i] = [state |-> "waiting", native |-> 0, at |-> n]]
     /\ \A k \in Inputs \ gone : Key[k] = Key[i] /\ mem[k].state # "absent" => k \in old
  \/ /\ op = "delete" /\ i \in Inputs /\ Waiting(i)
     /\ next = [mem EXCEPT ![i] = Absent]
  \/ /\ op = "start" /\ turn # None /\ i = turn.input /\ Waiting(i)
     /\ next = [mem EXCEPT ![i].state = "started"]
  \/ /\ op = "map" /\ turn # None /\ i = turn.input
     /\ next = [mem EXCEPT ![i].native = Len(chat)]
  \/ /\ op = "recover" /\ (up = "starting" \/ At("failed"))
     /\ \E f \in Matches : next = Mapped(f)
UpdateIs ==
  write # None =>
    /\ Changes(write.op, write.input, write.next)
    /\ write.stage = "file" => \A i \in Newly(write.next) : log[i] = write.next[i]

(* Every message has a started input of its own that asks it: one that is  *)
(* settled when some input holds the message, else one that the next       *)
(* recovery may give it to.  An input that is not deleted has its message. *)
Holds(q, m) == \E i \in Inputs : q[i].native = m
Answers(q, g, c, d) ==
  /\ \A m, n \in 1..Len(c) : g[m] = g[n] => m = n
  /\ \A m \in 1..Len(c) :
       /\ Text[g[m]] = Text[c[m]]
       /\ q[g[m]].state = "started"
       /\ Holds(q, m) => q[g[m]].native # 0
       /\ ~Holds(q, m) => q[g[m]].native = 0 /\ q[g[m]].at <= m
  /\ \A i \in Inputs \ d :
       q[i].native # 0 => q[i].native \in 1..Len(c) /\ g[q[i].native] = i

(* The input of the turn has no message before its turn saves it, and then *)
(* the last one.                                                           *)
TurnAnswers(g, t, n) ==
  t # None => /\ t.at = "starting" => \A m \in 1..n : g[m] # t.input
              /\ t.at \in {"saved", "maps"} => n # 0 /\ g[n] = t.input
Covered == \E g \in [1..Len(chat) -> Inputs] :
             Answers(Held, g, chat, gone) /\ TurnAnswers(g, turn, Len(chat))

(* Of the inputs with a key that are not deleted, one came within a day.   *)
KeysOnce(q, d) ==
  \A i, k \in Inputs \ d :
    q[i].state # "absent" /\ q[k].state # "absent" /\ Key[i] = Key[k]
      => i = k \/ i \in old \/ k \in old

AInv == /\ Disk(Held, file, log, gone) /\ ItemsTrue /\ TurnHolds /\ UpdateIs
        /\ Covered /\ KeysOnce(Held, gone)

-----------------------------------------------------------------------------
(* What a queue's disk gives back at the next start is the queue, and old  *)
(* lines of what was deleted.                                              *)
Load(f, l) == [i \in Inputs |-> IF f[i] # Absent THEN f[i] ELSE l[i]]

LEMMA DiskLoad ==
  ASSUME NEW q \in [Inputs -> Items], NEW f, NEW l \in [Inputs -> Items], NEW d,
         Disk(q, f, l, d)
  PROVE  /\ Load(f, l) \in [Inputs -> Items]
         /\ Disk(Load(f, l), f, l, d)
         /\ \A i \in Inputs : \/ Load(f, l)[i] = q[i]
                              \/ /\ i \in d /\ q[i] = Absent
                                 /\ Settled(Load(f, l)[i]) /\ Load(f, l)[i] = l[i]
<1>1. ASSUME NEW i \in Inputs
      PROVE  /\ Settled(q[i]) => f[i] = Absent /\ l[i] = q[i]
             /\ q[i] = Absent => f[i] = Absent
             /\ q[i] # Absent /\ ~Settled(q[i]) => f[i] = q[i]
             /\ q[i] = Absent /\ i \notin d => l[i] = Absent
             /\ l[i] # Absent => Settled(l[i])
  BY AbsentItem DEF Disk, Unsettled
<1>2. \A i \in Inputs : /\ Settled(q[i]) => q[i] # Absent
                        /\ ~Settled(Absent)
  BY AbsentItem
<1>3. ASSUME NEW i \in Inputs
      PROVE  /\ Load(f, l)[i] \in Items
             /\ \/ Load(f, l)[i] = q[i]
                \/ /\ i \in d /\ q[i] = Absent
                   /\ Settled(Load(f, l)[i]) /\ Load(f, l)[i] = l[i]
             /\ Settled(Load(f, l)[i]) => l[i] = Load(f, l)[i] /\ f[i] = Absent
             /\ ~Settled(Load(f, l)[i]) => f[i] = Load(f, l)[i]
             /\ Load(f, l)[i] = Absent => l[i] = Absent
  <2>1. Load(f, l)[i] = IF f[i] # Absent THEN f[i] ELSE l[i]
    BY DEF Load
  <2>2. CASE Settled(q[i])
    BY <1>1, <1>2, <2>1, <2>2
  <2>3. CASE q[i] = Absent
    BY <1>1, <1>2, <2>1, <2>3
  <2>4. CASE q[i] # Absent /\ ~Settled(q[i])
    BY <1>1, <1>2, <2>1, <2>4
  <2> QED
    BY <2>2, <2>3, <2>4
<1>4. Load(f, l) \in [Inputs -> Items]
  <2>1. Load(f, l) = [i \in Inputs |-> Load(f, l)[i]]
    BY DEF Load
  <2> QED
    BY <1>3, <2>1
<1>5. f = Unsettled(Load(f, l))
  <2>1. f = [i \in Inputs |-> f[i]]
    BY DEF Disk, Unsettled
  <2>2. Unsettled(Load(f, l))
          = [i \in Inputs |-> IF Settled(Load(f, l)[i]) THEN Absent ELSE Load(f, l)[i]]
    BY DEF Unsettled
  <2>3. \A i \in Inputs :
          f[i] = IF Settled(Load(f, l)[i]) THEN Absent ELSE Load(f, l)[i]
    BY <1>3
  <2> QED
    BY <2>1, <2>2, <2>3
<1>6. Disk(Load(f, l), f, l, d)
  BY <1>1, <1>3, <1>5 DEF Disk
<1> QED
  BY <1>3, <1>4, <1>6

(* An input without a message changes, and its message is still missing.   *)
LEMMA SameAnswers ==
  ASSUME NEW q \in [Inputs -> Items], NEW c \in Seq(Inputs), NEW d,
         NEW g \in [1..Len(c) -> Inputs], Answers(q, g, c, d),
         NEW i \in Inputs, NEW x \in Items,
         q[i].state # "started", q[i].native = 0, x.native = 0
  PROVE  /\ Answers([q EXCEPT ![i] = x], g, c, d)
         /\ \A m \in 1..Len(c) : g[m] # i
<1> DEFINE r == [q EXCEPT ![i] = x]
<1>1. \A m \in 1..Len(c) : g[m] \in Inputs /\ g[m] # i
  BY DEF Answers
<1>2. /\ \A k \in Inputs : k # i => r[k] = q[k]
      /\ r[i].native = 0
  OBVIOUS
<1>3. Len(c) \in Nat
  BY LenProperties
<1> HIDE DEF r
<1>4. \A m \in 1..Len(c) : Holds(r, m) <=> Holds(q, m)
  <2>1. \A m \in 1..Len(c) : m # 0
    BY <1>3
  <2> QED
    BY <1>2, <2>1 DEF Holds
<1>5. Answers(r, g, c, d)
  <2>1. \A m, n \in 1..Len(c) : g[m] = g[n] => m = n
    BY DEF Answers
  <2>2. \A m \in 1..Len(c) :
          /\ Text[g[m]] = Text[c[m]]
          /\ r[g[m]].state = "started"
          /\ Holds(r, m) => r[g[m]].native # 0
          /\ ~Holds(r, m) => r[g[m]].native = 0 /\ r[g[m]].at <= m
    BY <1>1, <1>2, <1>4 DEF Answers
  <2>3. \A k \in Inputs \ d :
          r[k].native # 0 => r[k].native \in 1..Len(c) /\ g[r[k].native] = k
    BY <1>2 DEF Answers
  <2> QED
    BY <2>1, <2>2, <2>3 DEF Answers
<1> QED
  BY <1>1, <1>5 DEF r

(* The input of the turn takes the message that is its own.                *)
LEMMA MapAnswers ==
  ASSUME NEW q \in [Inputs -> Items], NEW c \in Seq(Inputs), NEW d,
         NEW g \in [1..Len(c) -> Inputs], Answers(q, g, c, d),
         NEW i \in Inputs, q[i].state = "started", q[i].native = 0,
         Len(c) # 0, g[Len(c)] = i
  PROVE  Answers([q EXCEPT ![i].native = Len(c)], g, c, d)
<1> DEFINE r == [q EXCEPT ![i].native = Len(c)]
           n == Len(c)
<1>1. n \in 1..Len(c) /\ n \in Nat
  BY LenProperties
<1>2. /\ \A k \in Inputs : k # i => r[k] = q[k]
      /\ r[i].native = n /\ r[i].state = "started"
  BY DEF Items
<1>3. \A m \in 1..Len(c) : g[m] \in Inputs /\ (g[m] = i => m = n)
  BY <1>1 DEF Answers
<1> HIDE DEF r
<1>4. \A m \in 1..Len(c) : m # n => (Holds(r, m) <=> Holds(q, m))
  <2>1. \A m \in 1..Len(c) : m # 0
    BY <1>1
  <2> QED
    BY <1>2, <2>1 DEF Holds
<1>5. Holds(r, n)
  BY <1>2 DEF Holds
<1>6. \A m, k \in 1..Len(c) : g[m] = g[k] => m = k
  BY DEF Answers
<1>7. ASSUME NEW m \in 1..Len(c)
      PROVE  /\ Text[g[m]] = Text[c[m]]
             /\ r[g[m]].state = "started"
             /\ Holds(r, m) => r[g[m]].native # 0
             /\ ~Holds(r, m) => r[g[m]].native = 0 /\ r[g[m]].at <= m
  <2>1. CASE m = n
    BY <1>1, <1>2, <1>5, <2>1 DEF Answers
  <2>2. CASE m # n
    BY <1>2, <1>3, <1>4, <2>2 DEF Answers
  <2> QED
    BY <2>1, <2>2
<1>8. \A k \in Inputs \ d :
        r[k].native # 0 => r[k].native \in 1..Len(c) /\ g[r[k].native] = k
  BY <1>1, <1>2 DEF Answers
<1> QED
  BY <1>6, <1>7, <1>8 DEF Answers, r

(* A message is new: the input of the turn is the one that it answers.     *)
SavedFor(i, q, c, d) == \E h \in [1..Len(c) -> Inputs] :
                          Answers(q, h, c, d) /\ Len(c) # 0 /\ h[Len(c)] = i
LEMMA SaveAnswers ==
  ASSUME NEW q \in [Inputs -> Items], NEW c \in Seq(Inputs), NEW d,
         NEW g \in [1..Len(c) -> Inputs], Answers(q, g, c, d),
         NEW i \in Inputs, q[i].state = "started", q[i].native = 0,
         q[i].at <= Len(c), \A k \in Inputs : q[k].native <= Len(c),
         \A m \in 1..Len(c) : g[m] # i
  PROVE  SavedFor(i, q, Append(c, i), d)
<1> DEFINE e == Append(c, i)
           n == Len(c)
           h == [m \in 1..(n + 1) |-> IF m = n + 1 THEN i ELSE g[m]]
<1>1. /\ n \in Nat /\ e \in Seq(Inputs) /\ Len(e) = n + 1 /\ e[n + 1] = i
      /\ \A m \in 1..n : e[m] = c[m]
  BY LenProperties, AppendProperties
<1>2. \A m \in 1..(n + 1) : m = n + 1 \/ m \in 1..n
  BY <1>1
<1>3. /\ h \in [1..Len(e) -> Inputs] /\ h[n + 1] = i
      /\ \A m \in 1..n : h[m] = g[m] /\ h[m] # i /\ m \in 1..(n + 1)
  BY <1>1, <1>2
<1> HIDE DEF h, e
<1>4. ~Holds(q, n + 1)
  <2>1. \A k \in Inputs : q[k].native \in Nat
    BY DEF Items
  <2> QED
    BY <1>1, <2>1 DEF Holds
<1>5. \A m, k \in 1..Len(e) : h[m] = h[k] => m = k
  BY <1>1, <1>2, <1>3 DEF Answers
<1>6. ASSUME NEW m \in 1..Len(e)
      PROVE  /\ Text[h[m]] = Text[e[m]]
             /\ q[h[m]].state = "started"
             /\ Holds(q, m) => q[h[m]].native # 0
             /\ ~Holds(q, m) => q[h[m]].native = 0 /\ q[h[m]].at <= m
  <2>1. CASE m = n + 1
    <3>1. q[i].at \in Nat
      BY DEF Items
    <3> QED
      BY <1>1, <1>3, <1>4, <2>1, <3>1
  <2>2. CASE m \in 1..n
    BY <1>1, <1>3, <2>2 DEF Answers
  <2> QED
    BY <1>1, <1>2, <2>1, <2>2
<1>7. \A k \in Inputs \ d :
        q[k].native # 0 => q[k].native \in 1..Len(e) /\ h[q[k].native] = k
  BY <1>1, <1>3 DEF Answers
<1>8. Answers(q, h, e, d) /\ Len(e) # 0 /\ h[Len(e)] = i
  BY <1>1, <1>3, <1>5, <1>6, <1>7 DEF Answers
<1> QED
  BY <1>3, <1>8 DEF SavedFor, e

(* Old lines of the log bring deleted inputs back: one of them may hold a  *)
(* message that another was to get, and gets it.                           *)
LEMMA StaleAnswers ==
  ASSUME NEW q \in [Inputs -> Items], NEW r \in [Inputs -> Items],
         NEW c \in Seq(Inputs), NEW d,
         NEW g \in [1..Len(c) -> Inputs], Answers(q, g, c, d),
         \A i \in Inputs : \/ r[i] = q[i]
                           \/ /\ i \in d /\ q[i] = Absent /\ Settled(r[i])
                              /\ Text[c[r[i].native]] = Text[i]
  PROVE  \E h \in [1..Len(c) -> Inputs] : Answers(r, h, c, d)
<1> DEFINE Back == {i \in Inputs : r[i] # q[i]}
           Taken(m) == ~Holds(q, m) /\ \E i \in Back : r[i].native = m
           h == [m \in 1..Len(c) |->
                   IF Taken(m) THEN CHOOSE i \in Back : r[i].native = m ELSE g[m]]
<1>0. Len(c) \in Nat /\ \A m \in 1..Len(c) : m # 0
  BY LenProperties
<1>1. \A i \in Back : /\ i \in Inputs /\ i \in d /\ q[i] = Absent
                      /\ Text[c[r[i].native]] = Text[i]
                      /\ r[i].state = "started" /\ r[i].native # 0
  BY DEF Settled
<1>2. ASSUME NEW m \in 1..Len(c), Taken(m)
      PROVE  h[m] \in Back /\ r[h[m]].native = m
  BY <1>2
<1>3. \A m \in 1..Len(c) : ~Taken(m) => h[m] = g[m]
  OBVIOUS
<1>4. \A m \in 1..Len(c) : g[m] \in Inputs /\ g[m] \notin Back
  BY <1>1, AbsentItem DEF Answers
<1>5. h \in [1..Len(c) -> Inputs]
  <2>1. \A m \in 1..Len(c) : h[m] \in Inputs
    BY <1>1, <1>2, <1>3, <1>4
  <2>2. h = [m \in 1..Len(c) |-> h[m]]
    OBVIOUS
  <2> HIDE DEF h
  <2> QED
    BY <2>1, <2>2
<1> HIDE DEF h
<1>6. \A m \in 1..Len(c) : Holds(r, m) <=> Holds(q, m) \/ Taken(m)
  <2>1. \A i \in Inputs : i \in Back => q[i].native = 0
    BY <1>1 DEF Absent
  <2>2. \A i \in Inputs : i \notin Back => r[i] = q[i]
    OBVIOUS
  <2> HIDE DEF Back
  <2> QED
    BY <1>0, <1>1, <2>1, <2>2 DEF Holds
<1>7. \A m, n \in 1..Len(c) : h[m] = h[n] => m = n
  <2> SUFFICES ASSUME NEW m \in 1..Len(c), NEW n \in 1..Len(c), h[m] = h[n]
               PROVE  m = n
    OBVIOUS
  <2>1. CASE Taken(m) /\ Taken(n)
    BY <1>2, <2>1
  <2>2. CASE ~Taken(m) /\ ~Taken(n)
    BY <1>3, <2>2 DEF Answers
  <2> HIDE DEF Back
  <2>3. ~(Taken(m) /\ ~Taken(n)) /\ ~(~Taken(m) /\ Taken(n))
    <3> HIDE DEF Taken
    <3> QED
      BY <1>2, <1>3, <1>4
  <2> QED
    BY <2>1, <2>2, <2>3
<1>8. ASSUME NEW m \in 1..Len(c)
      PROVE  /\ Text[h[m]] = Text[c[m]]
             /\ r[h[m]].state = "started"
             /\ Holds(r, m) => r[h[m]].native # 0
             /\ ~Holds(r, m) => r[h[m]].native = 0 /\ r[h[m]].at <= m
  <2>1. CASE Taken(m)
    <3>1. Holds(r, m) /\ h[m] \in Back /\ r[h[m]].native = m
      BY <1>2, <1>6, <2>1
    <3> HIDE DEF Back
    <3> QED
      BY <1>1, <3>1
  <2>2. CASE ~Taken(m)
    <3>1. h[m] = g[m] /\ r[g[m]] = q[g[m]] /\ (Holds(r, m) <=> Holds(q, m))
      BY <1>3, <1>4, <1>6, <2>2
    <3> QED
      BY <3>1 DEF Answers
  <2> QED
    BY <2>1, <2>2
<1>9. ASSUME NEW i \in Inputs \ d, r[i].native # 0
      PROVE  r[i].native \in 1..Len(c) /\ h[r[i].native] = i
  <2>1. r[i] = q[i]
    OBVIOUS
  <2>2. q[i].native \in 1..Len(c) /\ g[q[i].native] = i
    BY <1>9, <2>1 DEF Answers
  <2>3. ~Taken(q[i].native)
    BY DEF Holds
  <2> QED
    BY <1>3, <2>1, <2>2, <2>3
<1>10. Answers(r, h, c, d)
  BY <1>7, <1>8, <1>9 DEF Answers
<1> QED
  BY <1>5, <1>10

(* No finite set maps one to one into one member less.                     *)
Squeezes(h, A, m) == /\ m \in A
                     /\ \A k \in A : h[k] \in A /\ h[k] # m
                     /\ \A k, n \in A : h[k] = h[n] => k = n
LEMMA OneLess ==
  ASSUME NEW A, IsFiniteSet(A), NEW m, NEW h, Squeezes(h, A, m)
  PROVE  FALSE
<1> DEFINE s == [k \in A |-> h[k]]
<1>1. Cardinality(A) \in Nat
  BY FS_CardinalityType
<1>2. IsFiniteSet(A \ {m}) /\ Cardinality(A \ {m}) = Cardinality(A) - 1
  BY FS_RemoveElement DEF Squeezes
<1>3. Cardinality(A \ {m}) < Cardinality(A)
  BY <1>1, <1>2
<1>4. s \in [A -> A \ {m}] /\ \A k \in A : s[k] = h[k]
  BY DEF Squeezes
<1> HIDE DEF s
<1>5. \E k, n \in A : k # n /\ s[k] = s[n]
  BY <1>2, <1>3, <1>4, FS_PigeonHole
<1> QED
  BY <1>4, <1>5 DEF Squeezes

(* A recovery gives every message that nobody has to an input: else the    *)
(* inputs of the messages up to such a one, which all came before it,      *)
(* took fewer messages than they are.                                      *)
LEMMA AllTaken ==
  ASSUME mem \in [Inputs -> Items], chat \in Seq(Inputs), NEW d,
         NEW g \in [1..Len(chat) -> Inputs], Answers(mem, g, chat, d),
         NEW f \in Matches, NEW m \in 1..Len(chat), ~Holds(mem, m)
  PROVE  \E i \in Orphans : f[i] = m
<1> SUFFICES ASSUME \A i \in Orphans : f[i] # m PROVE FALSE
  OBVIOUS
<1> DEFINE A == {k \in 1..m : ~Holds(mem, k) /\ Text[chat[k]] = Text[chat[m]]}
           h == [k \in A |-> f[g[k]]]
<1>0. /\ Len(chat) \in Nat /\ m \in Nat /\ m # 0
      /\ \A k \in 1..m : k \in 1..Len(chat)
      /\ f \in [Orphans -> 0..Len(chat)]
  BY LenProperties DEF Matches
<1>1. \A k \in 1..Len(chat) : Holds(mem, k) <=> k \in Claimed
  BY DEF Holds, Claimed
<1>2. ASSUME NEW k \in A
      PROVE  g[k] \in Orphans /\ h[k] = f[g[k]] /\ f[g[k]] \in A \ {m}
  <2>1. k \in 1..m /\ k \in 1..Len(chat) /\ ~Holds(mem, k)
        /\ Text[chat[k]] = Text[chat[m]]
    BY <1>0
  <2>2. /\ g[k] \in Inputs /\ Text[g[k]] = Text[chat[m]]
        /\ mem[g[k]].state = "started" /\ mem[g[k]].native = 0
        /\ mem[g[k]].at <= k
    BY <2>1 DEF Answers
  <2>3. g[k] \in Orphans
    BY <2>2 DEF Orphans, Unmapped
  <2>4. Fits(g[k], m)
    <3>1. mem[g[k]].at \in Nat
      BY <2>2 DEF Items
    <3>2. m >= mem[g[k]].at
      BY <1>0, <2>1, <2>2, <3>1
    <3> QED
      BY <1>1, <2>2, <3>2 DEF Fits
  <2>5. f[g[k]] # 0 /\ ~(m < f[g[k]])
    BY <2>3, <2>4 DEF Matches
  <2>6. Fits(g[k], f[g[k]]) /\ f[g[k]] \in 0..Len(chat)
    BY <1>0, <2>3, <2>5 DEF Matches
  <2>7. f[g[k]] # m
    BY <2>3
  <2>8. f[g[k]] \in 1..m /\ f[g[k]] \in 1..Len(chat)
    BY <1>0, <2>5, <2>6
  <2>9. ~Holds(mem, f[g[k]]) /\ Text[chat[f[g[k]]]] = Text[chat[m]]
    BY <1>1, <2>2, <2>6, <2>8 DEF Fits
  <2> QED
    BY <2>3, <2>7, <2>8, <2>9
<1>3. IsFiniteSet(A) /\ m \in A
  <2>1. IsFiniteSet(1..m)
    BY <1>0, FS_Interval
  <2>2. A \in SUBSET (1..m)
    OBVIOUS
  <2>3. m \in A
    BY <1>0
  <2> QED
    BY <2>1, <2>2, <2>3, FS_Subset
<1>4. \A k \in A : h[k] \in A /\ h[k] # m
  BY <1>2
<1>6. ASSUME NEW k \in A, NEW n \in A, h[k] = h[n] PROVE k = n
  <2>1. /\ g[k] \in Orphans /\ g[n] \in Orphans /\ f[g[k]] = f[g[n]]
        /\ f[g[k]] \in A
    BY <1>2, <1>6
  <2>2. f[g[k]] # 0 /\ f[g[n]] # 0
    BY <1>0, <2>1
  <2>3. g[k] = g[n]
    BY <2>1, <2>2 DEF Matches
  <2>4. k \in 1..Len(chat) /\ n \in 1..Len(chat)
    BY <1>0
  <2> QED
    BY <2>3, <2>4 DEF Answers
<1>7. \A k, n \in A : h[k] = h[n] => k = n
  BY <1>6
<1> HIDE DEF A, h
<1>8. Squeezes(h, A, m)
  BY <1>3, <1>4, <1>7 DEF Squeezes
<1> QED
  BY <1>3, <1>8, OneLess

LEMMA RecoverAnswers ==
  ASSUME mem \in [Inputs -> Items], chat \in Seq(Inputs), NEW d,
         NEW g \in [1..Len(chat) -> Inputs], Answers(mem, g, chat, d),
         NEW f \in Matches
  PROVE  \E h \in [1..Len(chat) -> Inputs] : Answers(Mapped(f), h, chat, d)
<1> DEFINE h == [m \in 1..Len(chat) |->
                   IF Holds(mem, m) THEN g[m] ELSE CHOOSE i \in Orphans : f[i] = m]
           r == Mapped(f)
<1>0. /\ Len(chat) \in Nat /\ f \in [Orphans -> 0..Len(chat)]
      /\ \A m \in 1..Len(chat) : m # 0
  BY LenProperties DEF Matches
<1>1. \A i \in Orphans : /\ i \in Inputs /\ mem[i].native = 0
                         /\ mem[i].state = "started"
  BY DEF Orphans, Unmapped
<1>2. ASSUME NEW m \in 1..Len(chat), Holds(mem, m)
      PROVE  h[m] = g[m] /\ g[m] \in Inputs \ Orphans
  BY <1>1, <1>2 DEF Answers
<1>3. ASSUME NEW m \in 1..Len(chat), ~Holds(mem, m)
      PROVE  h[m] \in Orphans /\ f[h[m]] = m
  <2>1. h[m] = CHOOSE i \in Orphans : f[i] = m
    BY <1>3
  <2>2. \E i \in Orphans : f[i] = m
    BY <1>3, AllTaken
  <2> HIDE DEF h
  <2> QED
    BY <2>1, <2>2
<1>4. h \in [1..Len(chat) -> Inputs]
  <2>1. \A m \in 1..Len(chat) : h[m] \in Inputs
    BY <1>1, <1>2, <1>3
  <2>2. h = [m \in 1..Len(chat) |-> h[m]]
    OBVIOUS
  <2> HIDE DEF h
  <2> QED
    BY <2>1, <2>2
<1> HIDE DEF h
<1>5. /\ \A i \in Inputs \ Orphans : r[i] = mem[i]
      /\ \A i \in Orphans : /\ r[i].native = f[i]
                            /\ f[i] # 0 => r[i].state = "started"
  <2>1. ASSUME NEW i \in Inputs \ Orphans PROVE r[i] = mem[i]
    BY DEF Mapped
  <2>2. ASSUME NEW i \in Orphans
        PROVE  r[i].native = f[i] /\ (f[i] # 0 => r[i].state = "started")
    <3>1. i \in Inputs /\ mem[i] \in Items /\ mem[i].native = 0 /\ mem[i].state = "started"
      BY <1>1
    <3>2. CASE f[i] = 0
      BY <3>1, <3>2 DEF Mapped, Items
    <3>3. CASE f[i] # 0
      BY <3>1, <3>3 DEF Mapped, Items
    <3> QED
      BY <3>2, <3>3
  <2> QED
    BY <2>1, <2>2
<1> HIDE DEF r
<1>6. \A m, n \in 1..Len(chat) : h[m] = h[n] => m = n
  <2> SUFFICES ASSUME NEW m \in 1..Len(chat), NEW n \in 1..Len(chat), h[m] = h[n]
               PROVE  m = n
    OBVIOUS
  <2>1. CASE Holds(mem, m) /\ Holds(mem, n)
    BY <1>2, <2>1 DEF Answers
  <2>2. CASE ~Holds(mem, m) /\ ~Holds(mem, n)
    BY <1>3, <2>2
  <2>3. CASE ~(Holds(mem, m) <=> Holds(mem, n))
    BY <1>2, <1>3, <2>3
  <2> QED
    BY <2>1, <2>2, <2>3
<1>7. ASSUME NEW m \in 1..Len(chat)
      PROVE  /\ Text[h[m]] = Text[chat[m]]
             /\ r[h[m]].state = "started"
             /\ r[h[m]].native # 0
             /\ Holds(r, m)
  <2>1. CASE Holds(mem, m)
    <3>1. h[m] = g[m] /\ g[m] \in Inputs \ Orphans /\ r[g[m]] = mem[g[m]]
      BY <1>2, <1>5, <2>1
    <3>2. PICK i \in Inputs : mem[i].native = m
      BY <2>1 DEF Holds
    <3>3. i \notin Orphans /\ r[i].native = m
      BY <1>0, <1>1, <1>5, <3>2
    <3>4. Holds(r, m)
      BY <3>3 DEF Holds
    <3> QED
      BY <2>1, <3>1, <3>4 DEF Answers
  <2>2. CASE ~Holds(mem, m)
    <3>1. h[m] \in Orphans /\ h[m] \in Inputs /\ f[h[m]] = m /\ m # 0
      BY <1>0, <1>1, <1>3, <2>2
    <3>2. Fits(h[m], m)
      BY <3>1 DEF Matches
    <3> QED
      BY <1>5, <3>1, <3>2 DEF Fits, Holds
  <2> QED
    BY <2>1, <2>2
<1>8. ASSUME NEW i \in Inputs \ d, r[i].native # 0
      PROVE  r[i].native \in 1..Len(chat) /\ h[r[i].native] = i
  <2>1. CASE i \in Orphans
    <3>1. r[i].native = f[i] /\ f[i] \in 1..Len(chat)
      BY <1>0, <1>5, <1>8, <2>1
    <3>2. Fits(i, f[i])
      BY <2>1, <3>1 DEF Matches
    <3>3. ~Holds(mem, f[i])
      BY <3>2 DEF Fits, Holds, Claimed
    <3>4. h[f[i]] \in Orphans /\ f[h[f[i]]] = f[i]
      BY <1>3, <3>1, <3>3
    <3>5. h[f[i]] = i
      BY <1>0, <2>1, <3>1, <3>4 DEF Matches
    <3> QED
      BY <3>1, <3>5
  <2>2. CASE i \notin Orphans
    <3>1. r[i] = mem[i] /\ mem[i].native # 0
      BY <1>5, <1>8, <2>2
    <3>2. mem[i].native \in 1..Len(chat) /\ g[mem[i].native] = i
      BY <3>1 DEF Answers
    <3>3. Holds(mem, mem[i].native)
      BY DEF Holds
    <3> QED
      BY <1>2, <3>1, <3>2, <3>3
  <2> QED
    BY <2>1, <2>2
<1>9. Answers(r, h, chat, d)
  BY <1>6, <1>7, <1>8 DEF Answers
<1> QED
  BY <1>4, <1>9 DEF r

-----------------------------------------------------------------------------
(* The queue of an update.                                                 *)

LEMMA HeldUp == up # "down" => Held = mem
BY DEF Held

(* The input whose message the turn saved can have that message.           *)
LEMMA MapsInput ==
  ASSUME IInv, AInv, write # None, write.op = "map"
  PROVE  /\ turn # None /\ turn \in Turns /\ turn.input \in Inputs
         /\ Unmapped(turn.input) /\ Len(chat) \in 1..Len(chat)
         /\ \E g \in [1..Len(chat) -> Inputs] :
              Answers(mem, g, chat, gone) /\ g[Len(chat)] = turn.input
         /\ Text[chat[Len(chat)]] = Text[turn.input]
<1>1. /\ turn # None /\ turn \in Turns /\ turn.input \in Inputs /\ turn.at = "maps"
      /\ up # "down"
  BY QueueAssumption DEF IInv, TurnAwaits, UpdateKeeps, Turns
<1>2. Unmapped(turn.input)
  BY <1>1 DEF AInv, TurnHolds
<1>3. PICK g \in [1..Len(chat) -> Inputs] :
        Answers(mem, g, chat, gone) /\ TurnAnswers(g, turn, Len(chat))
  BY <1>1, HeldUp DEF AInv, Covered
<1>4. Len(chat) # 0 /\ g[Len(chat)] = turn.input
  BY <1>1, <1>3 DEF TurnAnswers
<1>5. Len(chat) \in 1..Len(chat)
  BY <1>4, LenProperties DEF IInv, QueueTypeOK
<1>6. Text[g[Len(chat)]] = Text[chat[Len(chat)]]
  BY <1>3, <1>5 DEF Answers
<1> QED
  BY <1>1, <1>2, <1>3, <1>4, <1>5, <1>6

(* It keeps what is settled, and settles what is there; what is new in it  *)
(* is what it queues; its items are true.                                  *)
LEMMA NextFacts ==
  ASSUME IInv, AInv, write # None, NEW i \in Inputs
  PROVE  /\ up # "down" /\ write.next \in [Inputs -> Items]
         /\ Settled(mem[i]) => write.next[i] = mem[i]
         /\ i \in Newly(write.next) => mem[i] # Absent
         /\ mem[i].state = "absent" /\ write.next[i].state # "absent"
              => write.op = "enqueue" /\ i = write.input
         /\ ItemTrue(i, write.next[i], chat)
<1> DEFINE next == write.next
           k == write.input
<1>1. /\ up # "down" /\ next \in [Inputs -> Items] /\ mem \in [Inputs -> Items]
      /\ Changes(write.op, k, next) /\ Len(chat) \in Nat
      /\ ItemTrue(i, mem[i], chat)
  BY LenProperties, HeldUp
  DEF IInv, AInv, QueueTypeOK, Updates, UpdateKeeps, UpdateIs, ItemsTrue
<1>2. Absent.state = "absent" /\ mem[i] \in Items /\ ~Settled(Absent)
  BY <1>1, AbsentItem
<1> DEFINE Goal == /\ Settled(mem[i]) => next[i] = mem[i]
                   /\ Settled(next[i]) /\ ~Settled(mem[i]) => mem[i] # Absent
                   /\ mem[i].state = "absent" /\ next[i].state # "absent"
                        => write.op = "enqueue" /\ i = k
                   /\ ItemTrue(i, next[i], chat)
<1>3. ASSUME next[i] = mem[i] PROVE Goal
  BY <1>1, <1>2, <1>3
<1>4. ASSUME next[i] # mem[i], write.op = "enqueue", i = k, mem[i] = Absent,
             NEW n \in 0..Len(chat),
             next[i] = [state |-> "waiting", native |-> 0, at |-> n]
      PROVE  Goal
  BY <1>1, <1>2, <1>4 DEF ItemTrue, Settled
<1>5. ASSUME Waiting(i), next[i] = Absent PROVE Goal
  BY <1>1, <1>2, <1>5 DEF ItemTrue, Settled, Waiting, Absent
<1>6. ASSUME Waiting(i), next[i] = [mem[i] EXCEPT !.state = "started"] PROVE Goal
  BY <1>1, <1>2, <1>6 DEF ItemTrue, Settled, Waiting, Items
<1>7. ASSUME write.op = "map", i = turn.input,
             next[i] = [mem[i] EXCEPT !.native = Len(chat)]
      PROVE  Goal
  <2>1. /\ mem[i].state = "started" /\ mem[i].native = 0
        /\ Len(chat) \in 1..Len(chat) /\ Text[chat[Len(chat)]] = Text[i]
    BY <1>7, MapsInput DEF Unmapped
  <2>2. /\ next[i].state = "started" /\ next[i].native = Len(chat)
        /\ mem[i] # Absent /\ ~Settled(mem[i])
    BY <1>2, <1>7, <2>1 DEF Items, Settled
  <2> QED
    BY <1>1, <2>1, <2>2 DEF ItemTrue, Settled
<1>8. ASSUME next[i] # mem[i], NEW f \in Matches, next = Mapped(f) PROVE Goal
  <2>1. /\ i \in Orphans /\ mem[i].state = "started" /\ mem[i].native = 0
        /\ f[i] \in 0..Len(chat)
        /\ f[i] # 0 => Text[chat[f[i]]] = Text[i]
    BY <1>8 DEF Mapped, Matches, Fits, Orphans, Unmapped
  <2>2. mem[i].at <= Len(chat)
    BY <1>1, <2>1 DEF ItemTrue, Settled
  <2>3. CASE f[i] = 0
    <3>1. next[i] = [mem[i] EXCEPT !.state = "waiting"]
      BY <1>8, <2>1, <2>3 DEF Mapped
    <3>2. next[i].state = "waiting" /\ next[i].native = 0 /\ next[i].at = mem[i].at
      BY <1>2, <2>1, <3>1 DEF Items
    <3> QED
      BY <1>2, <2>1, <2>2, <3>2 DEF ItemTrue, Settled
  <2>4. CASE f[i] # 0
    <3>1. next[i] = [mem[i] EXCEPT !.native = f[i]]
      BY <1>8, <2>1, <2>4 DEF Mapped
    <3>2. /\ next[i].state = "started" /\ next[i].native = f[i]
          /\ next[i].at = mem[i].at
      BY <1>2, <2>1, <3>1 DEF Items
    <3>3. f[i] \in 1..Len(chat)
      BY <1>1, <2>1, <2>4
    <3> QED
      BY <1>2, <2>1, <2>2, <3>2, <3>3 DEF ItemTrue, Settled
  <2> QED
    BY <2>3, <2>4
<1>9. Goal
  <2>1. CASE /\ write.op = "enqueue" /\ k \in Inputs /\ mem[k] = Absent
             /\ \E n \in 0..Len(chat) :
                  next = [mem EXCEPT ![k] = [state |-> "waiting", native |-> 0, at |-> n]]
    BY <1>1, <1>3, <1>4, <2>1
  <2>2. CASE Waiting(k) /\ next = [mem EXCEPT ![k] = Absent]
    BY <1>1, <1>3, <1>5, <2>2
  <2>3. CASE Waiting(k) /\ next = [mem EXCEPT ![k].state = "started"]
    <3>1. next[i] = IF i = k THEN [mem[i] EXCEPT !.state = "started"] ELSE mem[i]
      BY <1>1, <2>3
    <3> QED
      BY <1>3, <1>6, <2>3, <3>1
  <2>4. CASE /\ write.op = "map" /\ k = turn.input
             /\ next = [mem EXCEPT ![k].native = Len(chat)]
    <3>1. next[i] = IF i = k THEN [mem[i] EXCEPT !.native = Len(chat)] ELSE mem[i]
      BY <1>1, <2>4
    <3> QED
      BY <1>3, <1>7, <2>4, <3>1
  <2>5. CASE \E f \in Matches : next = Mapped(f)
    BY <1>3, <1>8, <2>5
  <2> HIDE DEF Goal, next, k
  <2> QED
    BY <1>1, <2>1, <2>2, <2>3, <2>4, <2>5 DEF Changes
<1> QED
  BY <1>1, <1>9 DEF Newly

(* Its messages are answered as memory's are.                              *)
LEMMA NextAnswers ==
  ASSUME IInv, AInv, write # None
  PROVE  \E g \in [1..Len(chat) -> Inputs] :
           /\ Answers(write.next, g, chat, gone)
           /\ write.op \in {"enqueue", "delete"} => TurnAnswers(g, turn, Len(chat))
           /\ write.op = "start" => \A m \in 1..Len(chat) : g[m] # turn.input
<1> DEFINE next == write.next
           k == write.input
<1>1. /\ up # "down" /\ next \in [Inputs -> Items] /\ mem \in [Inputs -> Items]
      /\ Changes(write.op, k, next) /\ chat \in Seq(Inputs) /\ Len(chat) \in Nat
      /\ \A i \in Inputs : ItemTrue(i, mem[i], chat)
  BY LenProperties, HeldUp
  DEF IInv, AInv, QueueTypeOK, Updates, UpdateKeeps, UpdateIs, ItemsTrue
<1>2. PICK g \in [1..Len(chat) -> Inputs] :
        Answers(mem, g, chat, gone) /\ TurnAnswers(g, turn, Len(chat))
  BY <1>1, HeldUp DEF AInv, Covered
<1>3. ASSUME k \in Inputs, mem[k].state # "started", NEW x \in Items, x.native = 0,
             next = [mem EXCEPT ![k] = x]
      PROVE  Answers(next, g, chat, gone) /\ \A m \in 1..Len(chat) : g[m] # k
  <2>1. mem[k].native = 0
    BY <1>1, <1>3 DEF ItemTrue
  <2> HIDE DEF k, next
  <2> QED
    BY <1>1, <1>2, <1>3, <2>1, SameAnswers
<1>4. CASE /\ write.op = "enqueue" /\ k \in Inputs /\ mem[k] = Absent
           /\ \E n \in 0..Len(chat) :
                next = [mem EXCEPT ![k] = [state |-> "waiting", native |-> 0, at |-> n]]
  <2>1. PICK n \in 0..Len(chat) :
          next = [mem EXCEPT ![k] = [state |-> "waiting", native |-> 0, at |-> n]]
    BY <1>4
  <2>2. /\ [state |-> "waiting", native |-> 0, at |-> n] \in Items
        /\ [state |-> "waiting", native |-> 0, at |-> n].native = 0
        /\ mem[k].state # "started"
    BY <1>1, <1>4, AbsentItem DEF Items
  <2>3. Answers(next, g, chat, gone)
    BY <1>3, <1>4, <2>1, <2>2
  <2> QED
    BY <1>2, <1>4, <2>3
<1>5. CASE /\ write.op = "delete" /\ k \in Inputs /\ Waiting(k)
           /\ next = [mem EXCEPT ![k] = Absent]
  <2>1. Absent \in Items /\ Absent.native = 0 /\ mem[k].state # "started"
    BY <1>5, AbsentItem DEF Waiting, Absent
  <2>2. Answers(next, g, chat, gone)
    BY <1>3, <1>5, <2>1
  <2> QED
    BY <1>2, <1>5, <2>2
<1>6. CASE /\ write.op = "start" /\ turn # None /\ k = turn.input /\ Waiting(k)
           /\ next = [mem EXCEPT ![k].state = "started"]
  <2>1. k \in Inputs /\ mem[k] \in Items
    BY <1>1, <1>6 DEF IInv, TurnAwaits, Turns
  <2> DEFINE x == [mem[k] EXCEPT !.state = "started"]
  <2>2. x \in Items /\ x.native = mem[k].native /\ mem[k].state # "started"
    BY <1>6, <2>1 DEF Items, Waiting
  <2>3. x.native = 0
    BY <1>1, <2>1, <2>2 DEF ItemTrue
  <2>4. next = [mem EXCEPT ![k] = x]
    BY <1>6
  <2> HIDE DEF x
  <2>5. Answers(next, g, chat, gone) /\ \A m \in 1..Len(chat) : g[m] # k
    BY <1>3, <2>1, <2>2, <2>3, <2>4
  <2> QED
    BY <1>6, <2>5
<1>7. CASE /\ write.op = "map" /\ turn # None /\ k = turn.input
           /\ next = [mem EXCEPT ![k].native = Len(chat)]
  <2>1. /\ k \in Inputs /\ mem[k].state = "started" /\ mem[k].native = 0
        /\ Len(chat) # 0
    BY <1>1, <1>7, MapsInput DEF Unmapped
  <2>2. PICK h \in [1..Len(chat) -> Inputs] :
          Answers(mem, h, chat, gone) /\ h[Len(chat)] = k
    BY <1>7, MapsInput
  <2> HIDE DEF k, next
  <2>3. Answers(next, h, chat, gone)
    BY <1>1, <1>7, <2>1, <2>2, MapAnswers
  <2> QED
    BY <1>7, <2>3 DEF k, next
<1>8. CASE write.op = "recover" /\ \E f \in Matches : next = Mapped(f)
  BY <1>1, <1>2, <1>8, RecoverAnswers
<1> HIDE DEF k, next
<1>9. \E h \in [1..Len(chat) -> Inputs] :
        /\ Answers(next, h, chat, gone)
        /\ write.op \in {"enqueue", "delete"} => TurnAnswers(h, turn, Len(chat))
        /\ write.op = "start" => \A m \in 1..Len(chat) : h[m] # turn.input
  BY <1>1, <1>4, <1>5, <1>6, <1>7, <1>8 DEF Changes, k, next
<1> QED
  BY <1>9 DEF next

(* No key comes twice within a day with it.                                *)
LEMMA NextKeys ==
  ASSUME IInv, AInv, write # None
  PROVE  KeysOnce(write.next, gone)
<1> SUFFICES ASSUME NEW i \in Inputs \ gone, NEW k \in Inputs \ gone,
                    write.next[i].state # "absent", write.next[k].state # "absent",
                    Key[i] = Key[k], i # k
             PROVE  i \in old \/ k \in old
  BY DEF KeysOnce
<1>1. KeysOnce(mem, gone) /\ Changes(write.op, write.input, write.next)
  BY NextFacts, HeldUp DEF AInv, UpdateIs
<1>2. ASSUME NEW n \in Inputs \ gone, write.op = "enqueue",
             Key[n] = Key[write.input], mem[n].state # "absent"
      PROVE  n \in old
  BY <1>1, <1>2 DEF Changes
<1>3. CASE mem[i].state = "absent"
  <2>1. write.op = "enqueue" /\ i = write.input
    BY <1>3, NextFacts
  <2>2. mem[k].state # "absent"
    BY <2>1, NextFacts
  <2> QED
    BY <1>2, <2>1, <2>2
<1>4. CASE mem[k].state = "absent"
  <2>1. write.op = "enqueue" /\ k = write.input
    BY <1>4, NextFacts
  <2>2. mem[i].state # "absent"
    BY <2>1, NextFacts
  <2> QED
    BY <1>2, <2>1, <2>2
<1>5. CASE mem[i].state # "absent" /\ mem[k].state # "absent"
  BY <1>1, <1>5 DEF KeysOnce
<1> QED
  BY <1>3, <1>4, <1>5

(* Lines that are logged first are of what memory still holds otherwise.   *)
LEMMA LogKeeps ==
  ASSUME IInv, AInv, write # None, NEW S \in SUBSET Newly(write.next)
  PROVE  /\ Disk(mem, file, Logged(S, write.next), gone)
         /\ \A i \in Inputs : ItemTrue(i, Logged(S, write.next)[i], chat)
<1> DEFINE l == Logged(S, write.next)
<1>1. Disk(mem, file, log, gone)
  BY NextFacts, HeldUp DEF AInv, IInv, UpdateKeeps
<1>2. ASSUME NEW i \in Inputs
      PROVE  /\ i \in S => /\ l[i] = write.next[i] /\ Settled(write.next[i])
                           /\ ~Settled(mem[i]) /\ mem[i] # Absent
             /\ i \notin S => l[i] = log[i]
             /\ ItemTrue(i, l[i], chat)
  <2>1. CASE i \in S
    BY <2>1, NextFacts DEF Newly, Logged
  <2>2. CASE i \notin S
    BY <2>2 DEF Logged, AInv, ItemsTrue
  <2> QED
    BY <2>1, <2>2
<1> HIDE DEF l
<1>3. Disk(mem, file, l, gone)
  BY <1>1, <1>2 DEF Disk
<1> QED
  BY <1>2, <1>3 DEF l

(* The file that replaces it is of the new queue.                          *)
LEMMA FileKeeps ==
  ASSUME IInv, AInv, write # None, write.stage = "file"
  PROVE  Disk(write.next, Unsettled(write.next), log,
              IF write.op = "delete" THEN gone \cup {write.input} ELSE gone)
<1>1. Disk(mem, file, log, gone)
  BY NextFacts, HeldUp DEF AInv, IInv, UpdateKeeps
<1>2. ASSUME NEW i \in Inputs, Settled(write.next[i]) PROVE log[i] = write.next[i]
  <2>1. CASE Settled(mem[i])
    BY <1>1, <2>1, NextFacts DEF Disk
  <2>2. CASE ~Settled(mem[i])
    BY <1>2, <2>2 DEF Newly, AInv, UpdateIs
  <2> QED
    BY <2>1, <2>2
<1>3. ASSUME NEW i \in Inputs, write.next[i] = Absent,
             i \notin IF write.op = "delete" THEN gone \cup {write.input} ELSE gone
      PROVE  log[i] = Absent
  <2>1. mem[i] = Absent /\ i \notin gone
    BY <1>3 DEF IInv, UpdateKeeps
  <2> QED
    BY <1>1, <2>1 DEF Disk
<1> QED
  BY <1>1, <1>2, <1>3 DEF Disk

-----------------------------------------------------------------------------
(* Steps.                                                                  *)

(* The update in progress stays what it is while memory and what it was    *)
(* made from do.                                                           *)
LEMMA UpdateStays ==
  ASSUME IInv, AInv, UNCHANGED <<mem, log, gone>>, write' = write,
         \A k \in Inputs : mem[k].state # "absent" /\ k \in old => k \in old',
         Len(chat) \in Nat, Len(chat') \in Nat, Len(chat) <= Len(chat'),
         chat' = chat \/ write = None \/ write.op \in {"enqueue", "delete"},
         write # None /\ write.op \in {"start", "map"} => turn' = turn,
         write # None /\ write.op = "recover" => up' = up /\ turn' = turn
  PROVE  UpdateIs'
<1> SUFFICES ASSUME write # None PROVE UpdateIs'
  BY DEF UpdateIs
<1> DEFINE i == write.input
           next == write.next
<1>1. Changes(write.op, i, next)
  BY DEF AInv, UpdateIs
<1>2. Newly(next)' = Newly(next)
  BY DEF Newly
<1>3. CASE /\ write.op = "enqueue" /\ i \in Inputs /\ mem[i] = Absent
           /\ \E n \in 0..Len(chat) :
                next = [mem EXCEPT ![i] = [state |-> "waiting", native |-> 0, at |-> n]]
           /\ \A k \in Inputs \ gone :
                Key[k] = Key[i] /\ mem[k].state # "absent" => k \in old
  <2>1. PICK n \in 0..Len(chat) :
          next = [mem EXCEPT ![i] = [state |-> "waiting", native |-> 0, at |-> n]]
    BY <1>3
  <2>2. n \in 0..Len(chat')
    OBVIOUS
  <2>3. \A k \in Inputs \ gone :
          Key[k] = Key[i] /\ mem[k].state # "absent" => k \in old'
    BY <1>3
  <2>4. Changes(write.op, i, next)'
    BY <1>3, <2>1, <2>2, <2>3 DEF Changes
  <2> QED
    BY <1>2, <2>4 DEF UpdateIs, AInv
<1>4. CASE /\ write.op = "delete" /\ i \in Inputs /\ Waiting(i)
           /\ next = [mem EXCEPT ![i] = Absent]
  <2>1. Changes(write.op, i, next)'
    BY <1>4 DEF Changes, Waiting
  <2> QED
    BY <1>2, <2>1 DEF UpdateIs, AInv
<1>5. CASE write.op \in {"start", "map", "recover"}
  <2>1. chat' = chat /\ turn' = turn /\ (write.op = "recover" => up' = up)
    BY <1>5
  <2>2. Matches' = Matches /\ \A f : Mapped(f)' = Mapped(f)
    BY <2>1 DEF Matches, Mapped, Fits, Claimed, Orphans, Unmapped
  <2>3. Changes(write.op, i, next)'
    BY <1>1, <1>5, <2>1, <2>2 DEF Changes, Waiting, At
  <2> QED
    BY <1>2, <2>3 DEF UpdateIs, AInv
<1> QED
  BY <1>1, <1>3, <1>4, <1>5 DEF Changes

LEMMA SameChanges ==
  ASSUME UNCHANGED <<mem, chat, turn, up, old, gone>>, NEW op, NEW i, NEW next,
         Changes(op, i, next)
  PROVE  Changes(op, i, next)'
<1>1. Matches' = Matches /\ \A f : Mapped(f)' = Mapped(f)
  BY DEF Matches, Mapped, Fits, Claimed, Orphans, Unmapped
<1> QED
  BY <1>1 DEF Changes, Waiting, At

(* A new update.                                                           *)
LEMMA BeginIs ==
  ASSUME UNCHANGED <<mem, log>>, NEW op, NEW i, NEW next, Begin(op, i, next),
         Changes(op, i, next)'
  PROVE  UpdateIs'
<1>1. /\ write' = [op |-> op, input |-> i, next |-> next,
                   stage |-> IF Newly(next) = {} THEN "file" ELSE "log"]
      /\ write'.op = op /\ write'.input = i /\ write'.next = next
      /\ write'.stage = "file" => Newly(next) = {}
  BY DEF Begin
<1>2. Newly(next)' = Newly(next)
  BY DEF Newly
<1> QED
  BY <1>1, <1>2 DEF UpdateIs

(* Steps that leave the queue and its disk, and give no turn a message.    *)
LEMMA TurnOnly ==
  ASSUME IInv, AInv, UNCHANGED <<mem, file, log, chat, gone, old>>,
         up # "down", up' # "down", TurnHolds', UpdateIs',
         turn' # None /\ turn'.at \in {"starting", "saved", "maps"}
           => /\ turn # None /\ turn'.input = turn.input
              /\ turn'.at = turn.at \/ (turn.at = "saved" /\ turn'.at = "maps")
  PROVE  AInv'
<1>1. Held' = Held
  BY DEF Held
<1>2. Disk(Held, file, log, gone)' /\ ItemsTrue' /\ KeysOnce(Held, gone)'
  BY <1>1 DEF AInv, Disk, Unsettled, ItemsTrue, ItemTrue, KeysOnce
<1>3. PICK g \in [1..Len(chat) -> Inputs] :
        Answers(Held, g, chat, gone) /\ TurnAnswers(g, turn, Len(chat))
  BY DEF AInv, Covered
<1>4. TurnAnswers(g, turn', Len(chat))
  BY <1>3 DEF TurnAnswers
<1>5. Covered'
  BY <1>1, <1>3, <1>4 DEF Covered
<1> QED
  BY <1>2, <1>5 DEF AInv

(* An update begins, or nothing changes.                                   *)
LEMMA BegunAsks ==
  ASSUME IInv, AInv, UNCHANGED <<mem, file, log, chat, turn, up, old, gone>>,
         up # "down", UpdateIs'
  PROVE  AInv'
<1>1. TurnHolds'
  BY DEF AInv, TurnHolds, Unmapped
<1> QED
  BY <1>1, TurnOnly

LEMMA SameQueue ==
  ASSUME IInv, AInv, UNCHANGED <<mem, file, log, write, chat, turn, up, old, gone>>
  PROVE  AInv'
<1>1. Held' = Held
  BY DEF Held, Loaded
<1>2. Disk(Held, file, log, gone)' /\ ItemsTrue' /\ KeysOnce(Held, gone)'
  BY <1>1 DEF AInv, Disk, Unsettled, ItemsTrue, ItemTrue, KeysOnce
<1>3. Covered' /\ TurnHolds'
  BY <1>1 DEF AInv, Covered, TurnHolds, Unmapped, Lost
<1>4. UpdateIs'
  <2>1. Len(chat) \in Nat
    BY LenProperties DEF IInv, QueueTypeOK
  <2> QED
    BY <2>1, UpdateStays
<1> QED
  BY <1>2, <1>3, <1>4 DEF AInv

(* The process ended with the disk of a queue.                             *)
LEMMA CrashInto ==
  ASSUME IInv', NEW q \in [Inputs -> Items],
         \E g \in [1..Len(chat) -> Inputs] : Answers(q, g, chat, gone),
         \A i \in Inputs : ItemTrue(i, q[i], chat) /\ ItemTrue(i, log'[i], chat),
         chat \in Seq(Inputs), log' \in [Inputs -> Items],
         Disk(q, file', log', gone'), KeysOnce(q, gone), gone \subseteq gone',
         up' = "down", mem' = Lost, turn' = None, write' = None,
         UNCHANGED <<chat, old>>
  PROVE  AInv'
<1> DEFINE r == Load(file', log')
<1>1. Held' = r
  BY DEF Held, Loaded, Load
<1>2. /\ r \in [Inputs -> Items] /\ Disk(r, file', log', gone')
      /\ \A i \in Inputs : \/ r[i] = q[i]
                           \/ /\ i \in gone' /\ q[i] = Absent
                              /\ Settled(r[i]) /\ r[i] = log'[i]
  BY DiskLoad
<1> HIDE DEF r
<1>3. ItemsTrue'
  <2>1. \A i \in Inputs : ItemTrue(i, r[i], chat)
    BY <1>2
  <2> QED
    BY <1>1, <2>1 DEF ItemsTrue
<1>4. KeysOnce(Held, gone)'
  <2>1. \A i \in Inputs \ gone' : r[i] = q[i]
    BY <1>2
  <2> QED
    BY <1>1, <2>1 DEF KeysOnce
<1>5. Covered'
  <2>1. PICK g \in [1..Len(chat) -> Inputs] : Answers(q, g, chat, gone)
    OBVIOUS
  <2>2. Answers(q, g, chat, gone')
    BY <2>1 DEF Answers
  <2>3. \A i \in Inputs : Settled(r[i]) => Text[chat[r[i].native]] = Text[i]
    BY <1>2 DEF ItemTrue, Settled
  <2>4. \A i \in Inputs : \/ r[i] = q[i]
                          \/ /\ i \in gone' /\ q[i] = Absent /\ Settled(r[i])
                             /\ Text[chat[r[i].native]] = Text[i]
    BY <1>2, <2>3
  <2>5. \E h \in [1..Len(chat) -> Inputs] : Answers(r, h, chat, gone')
    BY <1>2, <2>2, <2>4, StaleAnswers
  <2> QED
    BY <1>1, <2>5 DEF Covered, TurnAnswers
<1>6. Disk(Held, file, log, gone)'
  BY <1>1, <1>2 DEF Disk, Unsettled
<1>7. TurnHolds' /\ UpdateIs'
  BY DEF TurnHolds, UpdateIs, Lost
<1> QED
  BY <1>3, <1>4, <1>5, <1>6, <1>7 DEF AInv

LEMMA CrashAsks == ASSUME IInv, AInv, IInv', Crash PROVE AInv'
<1>1. /\ up # "down" /\ up' = "down" /\ mem' = Lost
      /\ write' = None /\ turn' = None /\ UNCHANGED <<chat, old>>
      /\ mem \in [Inputs -> Items] /\ chat \in Seq(Inputs)
      /\ log' \in [Inputs -> Items]
  BY DEF Crash, IInv, QueueTypeOK
<1>2. /\ Disk(mem, file, log, gone) /\ KeysOnce(mem, gone)
      /\ \A i \in Inputs : ItemTrue(i, mem[i], chat) /\ ItemTrue(i, log[i], chat)
      /\ \E g \in [1..Len(chat) -> Inputs] : Answers(mem, g, chat, gone)
  BY <1>1, HeldUp DEF AInv, ItemsTrue, Covered
<1>3. CASE UNCHANGED <<file, log, gone>>
  BY <1>1, <1>2, <1>3, CrashInto
<1>4. CASE /\ write # None /\ write.stage = "log"
           /\ \E S \in SUBSET Newly(write.next) : log' = Logged(S, write.next)
           /\ UNCHANGED <<file, gone>>
  <2>1. PICK S \in SUBSET Newly(write.next) : log' = Logged(S, write.next)
    BY <1>4
  <2>2. /\ Disk(mem, file', log', gone')
        /\ \A i \in Inputs : ItemTrue(i, log'[i], chat)
    BY <1>4, <2>1, LogKeeps
  <2> QED
    BY <1>1, <1>2, <1>4, <2>2, CrashInto
<1>5. CASE /\ write # None /\ write.stage = "file"
           /\ file' = Unsettled(write.next)
           /\ gone' = IF write.op = "delete" THEN gone \cup {write.input} ELSE gone
           /\ UNCHANGED log
  <2> DEFINE q == write.next
  <2>1. q \in [Inputs -> Items]
    BY <1>5 DEF IInv, QueueTypeOK, Updates
  <2>2. Disk(q, file', log', gone') /\ gone \subseteq gone'
    BY <1>5, FileKeeps
  <2>3. KeysOnce(q, gone)
    BY <1>5, NextKeys
  <2>4. \A i \in Inputs : ItemTrue(i, q[i], chat) /\ ItemTrue(i, log'[i], chat)
    BY <1>2, <1>5, NextFacts
  <2>5. \E g \in [1..Len(chat) -> Inputs] : Answers(q, g, chat, gone)
    BY <1>5, NextAnswers
  <2> HIDE DEF q
  <2> QED
    BY <1>1, <2>1, <2>2, <2>3, <2>4, <2>5, CrashInto
<1> QED
  BY <1>3, <1>4, <1>5 DEF Crash

LEMMA BootAsks == ASSUME IInv, AInv, IInv', Boot PROVE AInv'
<1>1. /\ up = "down" /\ up' = "starting" /\ mem' = Loaded
      /\ UNCHANGED <<file, log, write, chat, turn, old, gone>>
      /\ write = None /\ turn = None
  BY DEF Boot, IInv, UpdateKeeps, TurnAwaits
<1>2. Held' = Held
  BY <1>1 DEF Held
<1>3. Disk(Held, file, log, gone)' /\ ItemsTrue' /\ KeysOnce(Held, gone)'
  BY <1>1, <1>2 DEF AInv, Disk, Unsettled, ItemsTrue, ItemTrue, KeysOnce
<1>4. Covered'
  BY <1>1, <1>2 DEF AInv, Covered
<1> QED
  BY <1>1, <1>3, <1>4 DEF AInv, TurnHolds, UpdateIs

LEMMA AppendLogAsks == ASSUME IInv, AInv, IInv', AppendLog PROVE AInv'
<1>1. /\ write # None /\ write.stage = "log"
      /\ log' = Logged(Newly(write.next), write.next)
      /\ write' = [write EXCEPT !.stage = "file"]
      /\ UNCHANGED <<mem, file, chat, turn, up, old, gone>>
      /\ write \in Updates /\ up # "down"
  BY DEF AppendLog, IInv, QueueTypeOK, UpdateKeeps
<1>2. write'.op = write.op /\ write'.input = write.input /\ write'.next = write.next
  BY <1>1 DEF Updates
<1>3. Held = mem /\ Held' = mem
  BY <1>1 DEF Held
<1>4. /\ Disk(mem, file, log', gone)
      /\ \A i \in Inputs : ItemTrue(i, log'[i], chat)
  BY <1>1, LogKeeps
<1>5. Disk(Held, file, log, gone)' /\ ItemsTrue'
  BY <1>1, <1>3, <1>4 DEF Disk, Unsettled, ItemsTrue, AInv, ItemTrue
<1>6. Covered' /\ KeysOnce(Held, gone)' /\ TurnHolds'
  BY <1>1, <1>3 DEF AInv, Covered, KeysOnce, TurnHolds, Unmapped
<1>7. UpdateIs'
  <2>1. Changes(write.op, write.input, write.next)'
    <3>1. PICK op, i, next : write.op = op /\ write.input = i /\ write.next = next
      OBVIOUS
    <3>2. Changes(op, i, next)
      BY <1>1, <3>1 DEF AInv, UpdateIs
    <3>3. Changes(op, i, next)'
      BY <1>1, <3>2, SameChanges
    <3> QED
      BY <1>2, <3>1, <3>3
  <2>2. Newly(write.next)' = Newly(write.next)
    BY <1>1, <1>2 DEF Newly
  <2>3. \A i \in Newly(write.next) : log'[i] = write.next[i]
    BY <1>1 DEF Logged, Newly
  <2> QED
    BY <1>2, <2>1, <2>2, <2>3 DEF UpdateIs
<1> QED
  BY <1>5, <1>6, <1>7 DEF AInv

LEMMA ReplaceFileAsks == ASSUME IInv, AInv, IInv', ReplaceFile PROVE AInv'
<1>1. /\ write # None /\ write.stage = "file" /\ write' = None
      /\ file' = Unsettled(write.next) /\ mem' = write.next
      /\ gone' = IF write.op = "delete" THEN gone \cup {write.input} ELSE gone
      /\ up' = IF write.op = "recover" THEN "up" ELSE up
      /\ UNCHANGED <<log, chat, old>>
      /\ up # "down" /\ write \in Updates /\ mem \in [Inputs -> Items]
      /\ turn = None \/ turn \in Turns
  BY DEF ReplaceFile, Resumes, IInv, QueueTypeOK, UpdateKeeps
<1>2. /\ write.op \in {"enqueue", "delete"} => turn' = turn
      /\ write.op = "start" => turn' = [turn EXCEPT !.at = "starting"]
      /\ write.op = "map" => turn' = [turn EXCEPT !.at = "answering"]
      /\ write.op = "recover" => turn' = None
      /\ write.op \in {"enqueue", "delete", "start", "map", "recover"}
  BY <1>1 DEF ReplaceFile, Resumes, Advance, Updates
<1>3. /\ write.op \in {"start", "map"} => turn \in Turns /\ turn # None
      /\ up # "up" => turn = None
  BY <1>1, QueueAssumption DEF IInv, TurnAwaits, AInv, TurnHolds
<1>4. Held' = write.next
  BY <1>1 DEF Held
<1>5. Disk(Held, file, log, gone)'
  <2>1. Disk(write.next, file', log, gone')
    BY <1>1, FileKeeps
  <2> QED
    BY <1>1, <1>4, <2>1 DEF Disk, Unsettled
<1>6. ItemsTrue'
  <2>1. \A i \in Inputs : ItemTrue(i, write.next[i], chat) /\ ItemTrue(i, log[i], chat)
    BY <1>1, NextFacts DEF AInv, ItemsTrue
  <2> QED
    BY <1>1, <1>4, <2>1 DEF ItemsTrue
<1>7. KeysOnce(Held, gone)'
  BY <1>1, <1>4, NextKeys DEF KeysOnce
<1>8. Covered'
  <2>1. PICK g \in [1..Len(chat) -> Inputs] :
          /\ Answers(write.next, g, chat, gone)
          /\ write.op \in {"enqueue", "delete"} => TurnAnswers(g, turn, Len(chat))
          /\ write.op = "start" => \A m \in 1..Len(chat) : g[m] # turn.input
    BY <1>1, NextAnswers
  <2>2. Answers(write.next, g, chat, gone')
    BY <1>1, <2>1 DEF Answers
  <2>3. TurnAnswers(g, turn', Len(chat))
    <3>1. CASE write.op \in {"enqueue", "delete"}
      BY <1>2, <2>1, <3>1
    <3>2. CASE write.op = "start"
      <4>1. turn'.at = "starting" /\ turn'.input = turn.input
        BY <1>2, <1>3, <3>2 DEF Turns
      <4> QED
        BY <2>1, <3>2, <4>1 DEF TurnAnswers
    <3>3. CASE write.op = "map"
      <4>1. turn'.at = "answering"
        BY <1>2, <1>3, <3>3 DEF Turns
      <4> QED
        BY <4>1 DEF TurnAnswers
    <3>4. CASE write.op = "recover"
      BY <1>2, <3>4 DEF TurnAnswers
    <3> QED
      BY <1>2, <3>1, <3>2, <3>3, <3>4
  <2> QED
    BY <1>1, <1>4, <2>2, <2>3 DEF Covered
<1>9. TurnHolds'
  <2>1. up' # "up" => turn' = None
    BY <1>1, <1>2, <1>3, QueueAssumption
  <2>2. Changes(write.op, write.input, write.next)
    BY <1>1 DEF AInv, UpdateIs
  <2>3. ASSUME turn' # None, turn'.at \in {"starting", "saved", "maps"}
        PROVE  Unmapped(turn.input)'
    <3>1. CASE write.op \in {"enqueue", "delete"}
      <4>1. turn \in Turns /\ mem[turn.input].state = "started" /\ mem[turn.input].native = 0
        BY <1>1, <1>2, <2>3, <3>1 DEF AInv, TurnHolds, Unmapped
      <4>2. turn.input # write.input
        BY <2>2, <3>1, <4>1, AbsentItem DEF Changes, Waiting
      <4>3. write.next[turn.input] = mem[turn.input]
        <5>1. turn.input \in Inputs
          BY <4>1 DEF Turns
        <5>2. CASE write.op = "enqueue"
          <6>1. \E n \in 0..Len(chat) :
                  write.next = [mem EXCEPT ![write.input] =
                                  [state |-> "waiting", native |-> 0, at |-> n]]
            BY <2>2, <5>2 DEF Changes
          <6> QED
            BY <1>1, <4>2, <5>1, <6>1
        <5>3. CASE write.op = "delete"
          <6>1. write.next = [mem EXCEPT ![write.input] = Absent]
            BY <2>2, <5>3 DEF Changes
          <6> QED
            BY <1>1, <4>2, <5>1, <6>1
        <5> QED
          BY <3>1, <5>2, <5>3
      <4>4. turn' = turn
        BY <1>2, <3>1
      <4> QED
        BY <1>1, <4>1, <4>3, <4>4 DEF Unmapped
    <3>2. CASE write.op = "start"
      <4>1. /\ turn.input \in Inputs /\ Waiting(turn.input)
            /\ write.next = [mem EXCEPT ![turn.input].state = "started"]
            /\ turn'.input = turn.input
        BY <1>2, <1>3, <2>2, <3>2 DEF Changes, Turns
      <4>2. mem[turn.input] \in Items /\ mem[turn.input].native = 0
        BY <1>1, <4>1, HeldUp DEF AInv, ItemsTrue, ItemTrue, Waiting
      <4> QED
        BY <1>1, <4>1, <4>2 DEF Unmapped, Items
    <3>3. CASE write.op \in {"map", "recover"}
      BY <1>2, <1>3, <2>3, <3>3 DEF Turns
    <3> QED
      BY <1>2, <3>1, <3>2, <3>3
  <2> QED
    BY <1>1, <2>1, <2>3 DEF TurnHolds
<1> QED
  BY <1>1, <1>5, <1>6, <1>7, <1>8, <1>9 DEF AInv, UpdateIs

LEMMA SaveMessageAsks == ASSUME IInv, AInv, IInv', SaveMessage PROVE AInv'
<1> DEFINE i == turn.input
<1>1. /\ turn # None /\ turn.at = "starting" /\ turn \in Turns /\ i \in Inputs
      /\ up # "down" /\ chat' = Append(chat, i)
      /\ turn' = [turn EXCEPT !.at = "saved"]
      /\ UNCHANGED <<mem, file, log, write, up, old, gone>>
      /\ mem \in [Inputs -> Items] /\ chat \in Seq(Inputs)
  BY DEF SaveMessage, At, Advance, TurnUnchanged, IInv, QueueTypeOK, TurnAwaits, Turns
<1>2. /\ Len(chat) \in Nat /\ Len(chat') = Len(chat) + 1
      /\ \A m \in 1..Len(chat) : chat'[m] = chat[m]
  BY <1>1, LenProperties, AppendProperties
<1>3. turn'.at = "saved" /\ turn'.input = i /\ turn' # None
  BY <1>1, QueueAssumption DEF Turns
<1>4. Held = mem /\ Held' = mem
  BY <1>1 DEF Held
<1>5. Unmapped(i) /\ Unmapped(i)'
  BY <1>1 DEF AInv, TurnHolds, Unmapped
<1>6. Disk(Held, file, log, gone)' /\ KeysOnce(Held, gone)'
  BY <1>1, <1>4 DEF AInv, Disk, Unsettled, KeysOnce
<1>7. ItemsTrue'
  <2>1. ASSUME NEW k, NEW item \in Items, ItemTrue(k, item, chat)
        PROVE  ItemTrue(k, item, chat')
    <3>1. item.at \in Nat
      BY DEF Items
    <3> QED
      BY <1>2, <2>1, <3>1 DEF ItemTrue
  <2>2. \A k \in Inputs : ItemTrue(k, mem[k], chat) /\ ItemTrue(k, log[k], chat)
    BY <1>4 DEF AInv, ItemsTrue
  <2>3. \A k \in Inputs : mem[k] \in Items /\ log[k] \in Items
    BY <1>1 DEF IInv, QueueTypeOK
  <2>4. \A k \in Inputs : ItemTrue(k, mem[k], chat') /\ ItemTrue(k, log[k], chat')
    BY <2>1, <2>2, <2>3
  <2> QED
    BY <1>1, <1>4, <2>4 DEF ItemsTrue
<1>8. Covered'
  <2>1. PICK g \in [1..Len(chat) -> Inputs] :
          Answers(mem, g, chat, gone) /\ TurnAnswers(g, turn, Len(chat))
    BY <1>4 DEF AInv, Covered
  <2>2. \A m \in 1..Len(chat) : g[m] # i
    BY <1>1, <2>1 DEF TurnAnswers
  <2>3. /\ mem[i].state = "started" /\ mem[i].native = 0 /\ mem[i].at <= Len(chat)
        /\ \A k \in Inputs : mem[k].native <= Len(chat)
    <3>1. \A k \in Inputs : ItemTrue(k, mem[k], chat)
      BY <1>4 DEF AInv, ItemsTrue
    <3>2. mem[i].at <= Len(chat)
      BY <1>1, <1>5, <3>1 DEF ItemTrue, Settled, Unmapped
    <3> QED
      BY <1>2, <1>5, <3>1, <3>2 DEF ItemTrue, Unmapped
  <2> HIDE DEF i
  <2>4. SavedFor(i, mem, Append(chat, i), gone)
    BY <1>1, <2>1, <2>2, <2>3, SaveAnswers
  <2>5. PICK h \in [1..Len(chat') -> Inputs] :
          Answers(mem, h, chat', gone) /\ Len(chat') # 0 /\ h[Len(chat')] = i
    BY <1>1, <2>4 DEF SavedFor
  <2>6. TurnAnswers(h, turn', Len(chat'))
    BY <1>3, <2>5 DEF TurnAnswers
  <2> QED
    BY <1>1, <1>4, <2>5, <2>6 DEF Covered
<1>9. TurnHolds'
  <2>1. up = "up"
    BY <1>1 DEF AInv, TurnHolds
  <2> QED
    BY <1>1, <1>3, <1>5, <2>1 DEF TurnHolds
<1>10. UpdateIs'
  <2>1. write # None => write.op \in {"enqueue", "delete"}
    <3>1. write # None => Changes(write.op, write.input, write.next)
      BY DEF AInv, UpdateIs
    <3>2. up = "up"
      BY <1>1 DEF AInv, TurnHolds
    <3>3. write # None => write.op \notin {"start", "map"}
      BY <1>1 DEF IInv, TurnAwaits
    <3> QED
      BY <1>1, <3>1, <3>2, <3>3 DEF Changes, At
  <2> QED
    BY <1>1, <1>2, <2>1, UpdateStays
<1> QED
  BY <1>6, <1>7, <1>8, <1>9, <1>10 DEF AInv

(* The turn goes on by steps that no update waits for.                     *)
LEMMA TurnGoes ==
  ASSUME IInv, AInv, UNCHANGED <<mem, file, log, chat, gone, old>>, write' = write,
         up = "up", up' = "up",
         turn = None \/ turn.at \notin {"starts", "maps", "failed"},
         turn' # None => turn'.at \notin {"starting", "saved", "maps"}
  PROVE  AInv'
<1>1. write # None => write.op \notin {"start", "map", "recover"}
  <2>1. write # None => Changes(write.op, write.input, write.next)
    BY DEF AInv, UpdateIs
  <2>2. write # None => write.op \notin {"start", "map"}
    BY QueueAssumption DEF IInv, TurnAwaits
  <2> QED
    BY <2>1, <2>2 DEF Changes, At
<1>2. Len(chat) \in Nat
  BY LenProperties DEF IInv, QueueTypeOK
<1>3. UpdateIs'
  BY <1>1, <1>2, UpdateStays
<1>4. TurnHolds'
  BY DEF TurnHolds
<1> QED
  BY <1>3, <1>4, TurnOnly

LEMMA AsksNext == ASSUME IInv, AInv, IInv', [QueueNext]_queueVars PROVE AInv'
<1>0. /\ mem \in [Inputs -> Items] /\ chat \in Seq(Inputs) /\ Len(chat) \in Nat
      /\ up \in {"up", "down", "starting"}
      /\ turn = None \/ turn \in Turns
      /\ turn # None => up # "down"
      /\ up # "up" => turn = None
  BY LenProperties DEF IInv, AInv, QueueTypeOK, TurnAwaits, TurnHolds
<1>1. CASE UNCHANGED queueVars
  BY <1>0, <1>1, SameQueue DEF queueVars
<1>2. ASSUME NEW i \in Inputs, Enqueue(i) PROVE AInv'
  <2> DEFINE next == [mem EXCEPT ![i] = [state |-> "waiting", native |-> 0,
                                         at |-> Len(chat)]]
  <2>1. /\ up = "up" /\ mem[i] = Absent /\ ~Known(Key[i]) /\ Begin("enqueue", i, next)
        /\ UNCHANGED <<mem, file, log, chat, turn, up, old, gone>>
    BY <1>2 DEF Enqueue
  <2>2. \A k \in Inputs \ gone : Key[k] = Key[i] /\ mem[k].state # "absent" => k \in old
    BY <2>1 DEF Known, Young
  <2>3. PICK q : q = next
    OBVIOUS
  <2>4. Changes("enqueue", i, q)
    <3>1. Len(chat) \in 0..Len(chat)
      BY <1>0
    <3>2. \E n \in 0..Len(chat) :
            q = [mem EXCEPT ![i] = [state |-> "waiting", native |-> 0, at |-> n]]
      BY <2>3, <3>1
    <3> QED
      BY <2>1, <2>2, <3>2 DEF Changes
  <2>5. Changes("enqueue", i, q)'
    BY <2>1, <2>4, SameChanges
  <2>6. UpdateIs'
    BY <2>1, <2>3, <2>5, BeginIs
  <2> QED
    BY <1>0, <2>1, <2>6, BegunAsks
<1>3. ASSUME NEW i \in Inputs, Receipt(Key[i]) PROVE AInv'
  BY <1>0, <1>3, SameQueue DEF Receipt
<1>4. ASSUME NEW i \in Inputs, Delete(i) PROVE AInv'
  <2> DEFINE next == [mem EXCEPT ![i] = Absent]
  <2>1. /\ up = "up" /\ Waiting(i) /\ Begin("delete", i, next)
        /\ UNCHANGED <<mem, file, log, chat, turn, up, old, gone>>
    BY <1>4 DEF Delete
  <2>2. PICK q : q = next
    OBVIOUS
  <2>3. Changes("delete", i, q)
    BY <2>1, <2>2 DEF Changes
  <2>4. UpdateIs'
    BY <2>1, <2>2, <2>3, SameChanges, BeginIs
  <2> QED
    BY <1>0, <2>1, <2>4, BegunAsks
<1>5. ASSUME NEW i \in Inputs, Claim(i) PROVE AInv'
  <2>1. /\ up = "up" /\ turn = None /\ turn' = [input |-> i, at |-> "claimed"]
        /\ UNCHANGED <<mem, file, log, write, chat, up, old, gone>>
    BY <1>5 DEF Claim, TurnUnchanged
  <2>2. turn'.at \notin {"starting", "saved", "maps"}
    BY <2>1
  <2> QED
    BY <2>1, <2>2, TurnGoes
<1>6. CASE Start
  <2>0. /\ turn # None /\ turn \in Turns /\ turn.at = "claimed" /\ up = "up"
        /\ UNCHANGED <<mem, file, log, chat, up, old, gone>>
    BY <1>0, <1>6 DEF Start, At, TurnUnchanged
  <2>1. CASE Waiting(turn.input)
    <3> DEFINE next == [mem EXCEPT ![turn.input].state = "started"]
    <3>1. /\ Begin("start", turn.input, next)
          /\ turn' \in Turns /\ turn'.at = "starts" /\ turn'.input = turn.input
      BY <1>6, <2>0, <2>1 DEF Start, Advance, Turns
    <3>2. turn' # None
      BY <3>1, QueueAssumption
    <3>3. PICK i, q : i = turn.input /\ q = next
      OBVIOUS
    <3>4. Changes("start", i, q)'
      BY <2>0, <2>1, <3>1, <3>2, <3>3 DEF Changes, Waiting
    <3>5. UpdateIs'
      BY <2>0, <3>1, <3>3, <3>4, BeginIs
    <3>6. TurnHolds'
      BY <2>0, <3>1 DEF TurnHolds
    <3> QED
      BY <2>0, <3>1, <3>5, <3>6, TurnOnly
  <2>2. CASE ~Waiting(turn.input)
    <3>1. /\ turn' \in {None, [turn EXCEPT !.at = "failed"]}
          /\ write' = write
      BY <1>6, <2>2 DEF Start
    <3>2. turn' # None => turn'.at = "failed"
      BY <2>0, <3>1 DEF Turns
    <3> QED
      BY <2>0, <3>1, <3>2, TurnGoes
  <2> QED
    BY <2>1, <2>2
<1>7. CASE SaveMessage
  BY <1>7, SaveMessageAsks
<1>8. CASE Map
  <2> DEFINE next == [mem EXCEPT ![turn.input].native = Len(chat)]
  <2>0. /\ turn # None /\ turn \in Turns /\ turn.at = "saved" /\ up = "up"
        /\ UNCHANGED <<mem, file, log, chat, up, old, gone>>
        /\ Begin("map", turn.input, next)
        /\ turn' = [turn EXCEPT !.at = "maps"]
    BY <1>0, <1>8 DEF Map, At, TurnUnchanged, Advance
  <2>1. turn' \in Turns /\ turn'.at = "maps" /\ turn'.input = turn.input
    BY <2>0 DEF Turns
  <2>2. turn' # None
    BY <2>1, QueueAssumption
  <2>3. PICK i, q : i = turn.input /\ q = next
    OBVIOUS
  <2>4. Changes("map", i, q)'
    BY <2>0, <2>1, <2>2, <2>3 DEF Changes
  <2>5. UpdateIs'
    BY <2>0, <2>3, <2>4, BeginIs
  <2>6. TurnHolds'
    BY <2>0, <2>1 DEF TurnHolds, AInv, Unmapped
  <2> QED
    BY <2>0, <2>1, <2>5, <2>6, TurnOnly
<1>9. CASE Finish
  <2>1. /\ turn # None /\ turn.at = "answering" /\ up = "up" /\ turn' = None
        /\ UNCHANGED <<mem, file, log, write, chat, up, old, gone>>
    BY <1>0, <1>9 DEF Finish, At, TurnUnchanged
  <2> QED
    BY <2>1, TurnGoes
<1>10. CASE Recover
  <2>0. /\ up = "starting" \/ At("failed")
        /\ write = None /\ up # "down"
        /\ UNCHANGED <<mem, file, log, chat, old, gone>>
    BY <1>0, <1>10 DEF Recover, At
  <2>1. CASE Orphans = {}
    <3>1. up' = "up" /\ turn' = None /\ write' = None
      BY <1>10, <2>0, <2>1 DEF Recover
    <3> QED
      BY <2>0, <3>1, TurnOnly DEF TurnHolds, UpdateIs
  <2>2. CASE Orphans # {}
    <3>1. PICK f \in Matches : Begin("recover", None, Mapped(f))
      BY <1>10, <2>2 DEF Recover
    <3>2. UNCHANGED <<up, turn>>
      BY <1>10, <2>2 DEF Recover
    <3>3. PICK q : q = Mapped(f)
      OBVIOUS
    <3>4. Changes("recover", None, q)
      BY <2>0, <3>1, <3>3 DEF Changes
    <3>5. Changes("recover", None, q)'
      BY <2>0, <3>2, <3>4, SameChanges
    <3>6. UpdateIs'
      BY <2>0, <3>1, <3>3, <3>5, BeginIs
    <3> QED
      BY <1>0, <2>0, <3>2, <3>6, BegunAsks
  <2> QED
    BY <2>1, <2>2
<1>11. CASE TurnFails
  <2>1. /\ turn # None /\ turn \in Turns /\ up = "up"
        /\ turn.at \in {"starting", "saved"}
        /\ turn' = [turn EXCEPT !.at = "failed"]
        /\ UNCHANGED <<mem, file, log, write, chat, up, old, gone>>
    BY <1>0, <1>11 DEF TurnFails, At, Advance
  <2>2. turn'.at = "failed"
    BY <2>1 DEF Turns
  <2> QED
    BY <2>1, <2>2, TurnGoes
<1>12. CASE WriteFails
  <2>1. /\ up # "down" /\ write # None /\ write' = None /\ up' = up
        /\ UNCHANGED <<mem, file, log, chat, old, gone>>
    BY <1>12 DEF WriteFails, IInv, UpdateKeeps
  <2>2. \/ turn' = turn \/ turn' = None
        \/ turn # None /\ turn \in Turns /\ turn' = [turn EXCEPT !.at = "failed"]
    <3>1. write.op \in {"start", "map"} => turn \in Turns
      BY <2>1 DEF IInv, TurnAwaits
    <3>2. CASE write.op \in {"start", "map"}
      BY <1>12, <3>1, <3>2, QueueAssumption DEF WriteFails, Advance
    <3>3. CASE write.op = "recover"
      BY <1>12, <3>3 DEF WriteFails
    <3>4. CASE write.op \notin {"start", "map", "recover"}
      BY <1>12, <3>4 DEF WriteFails
    <3> QED
      BY <3>2, <3>3, <3>4
  <2>3. turn' = turn \/ turn' = None \/ (turn' # None /\ turn'.at = "failed" /\ turn # None)
    BY <2>2 DEF Turns
  <2>4. TurnHolds'
    BY <1>0, <2>1, <2>3 DEF TurnHolds, AInv, Unmapped
  <2>5. UpdateIs'
    BY <2>1 DEF UpdateIs
  <2> QED
    BY <2>1, <2>3, <2>4, <2>5, TurnOnly
<1>13. CASE DayPasses
  <2>1. /\ old' = {i \in Inputs : Held[i] # Absent}
        /\ UNCHANGED <<mem, file, log, write, chat, turn, up, gone>>
    BY <1>13 DEF DayPasses
  <2>2. Held' = Held
    BY <2>1 DEF Held, Loaded
  <2>3. \A k \in Inputs : Held[k].state # "absent" => k \in old'
    BY <2>1, AbsentItem
  <2>4. Disk(Held, file, log, gone)' /\ ItemsTrue' /\ Covered' /\ TurnHolds'
    BY <2>1, <2>2 DEF AInv, Disk, Unsettled, ItemsTrue, ItemTrue, Covered, TurnHolds, Unmapped
  <2>5. KeysOnce(Held, gone)'
    BY <2>1, <2>2, <2>3 DEF KeysOnce
  <2>6. UpdateIs'
    <3>1. CASE write = None
      BY <2>1, <3>1 DEF UpdateIs
    <3>2. CASE write # None
      <4>1. \A k \in Inputs : mem[k].state # "absent" => k \in old'
        BY <2>3, <3>2, HeldUp DEF IInv, UpdateKeeps
      <4> QED
        BY <1>0, <2>1, <4>1, UpdateStays
    <3> QED
      BY <3>1, <3>2
  <2> QED
    BY <2>4, <2>5, <2>6 DEF AInv
<1> QED
  BY <1>1, <1>2, <1>3, <1>4, <1>5, <1>6, <1>7, <1>8, <1>9, <1>10, <1>11, <1>12,
     <1>13, AppendLogAsks, ReplaceFileAsks, CrashAsks, BootAsks
  DEF QueueNext, WriteStep, TurnStep

LEMMA AsksInit == ASSUME QueueInit PROVE AInv
<1>1. /\ mem = [i \in Inputs |-> Absent] /\ file = mem /\ log = mem
      /\ write = None /\ chat = <<>> /\ turn = None /\ up = "up" /\ Held = mem
      /\ Len(chat) = 0
  BY EmptySeq DEF QueueInit, Held
<1>2. /\ Absent.native = 0 /\ Absent.at = 0 /\ Absent.state = "absent"
      /\ ~Settled(Absent)
  BY AbsentItem DEF Absent
<1>3. Disk(Held, file, log, gone)
  BY <1>1, <1>2 DEF Disk, Unsettled
<1>4. ItemsTrue
  BY <1>1, <1>2 DEF ItemsTrue, ItemTrue
<1>5. TurnHolds /\ UpdateIs /\ KeysOnce(Held, gone)
  BY <1>1, <1>2 DEF TurnHolds, UpdateIs, KeysOnce
<1>6. Covered
  <2> DEFINE g == [m \in 1..Len(chat) |-> mem]
  <2>1. \A m \in 1..Len(chat) : FALSE
    BY <1>1
  <2>2. g \in [1..Len(chat) -> Inputs]
    BY <2>1
  <2>3. Answers(Held, g, chat, gone)
    BY <1>1, <1>2, <2>1 DEF Answers
  <2>4. TurnAnswers(g, turn, Len(chat))
    BY <1>1 DEF TurnAnswers
  <2> QED
    BY <2>2, <2>3, <2>4 DEF Covered
<1> QED
  BY <1>3, <1>4, <1>5, <1>6 DEF AInv

(* As many inputs started as messages ask the same: each has its own.      *)
LEMMA AskedOnceHolds == ASSUME IInv, AInv PROVE AskedOnce
<1>1. PICK g \in [1..Len(chat) -> Inputs] : Answers(Held, g, chat, gone)
  BY DEF AInv, Covered
<1>2. ASSUME NEW i \in Inputs
      PROVE  Cardinality({m \in 1..Len(chat) : Text[chat[m]] = Text[i]})
               <= Cardinality({k \in Inputs : /\ Text[k] = Text[i]
                                              /\ Held[k].state = "started"})
  <2> DEFINE M == {m \in 1..Len(chat) : Text[chat[m]] = Text[i]}
             K == {k \in Inputs : Text[k] = Text[i] /\ Held[k].state = "started"}
             h == [m \in M |-> g[m]]
  <2>1. IsFiniteSet(K)
    <3>1. K \in SUBSET Inputs
      OBVIOUS
    <3> HIDE DEF K
    <3> QED
      BY <3>1, QueueAssumption, FS_Subset
  <2>2. \A m \in M : g[m] \in K
    BY <1>1 DEF Answers
  <2>3. h \in Injection(M, K)
    <3>1. \A m, n \in M : g[m] = g[n] => m = n
      BY <1>1 DEF Answers
    <3> HIDE DEF M, K
    <3>2. h \in [M -> K] /\ \A m \in M : h[m] = g[m]
      BY <2>2
    <3> HIDE DEF h
    <3> QED
      BY <3>1, <3>2 DEF Injection, IsInjective
  <2> HIDE DEF M, K, h
  <2>4. Cardinality(M) <= Cardinality(K)
    BY <2>1, <2>3, FS_Injection
  <2> QED
    BY <2>4 DEF M, K
<1>3. ASSUME NEW i \in Inputs \ gone, NEW k \in Inputs \ gone,
             mem[i].native = mem[k].native, mem[i].native # 0
      PROVE  i = k
  <2>1. CASE up = "down"
    BY <1>3, <2>1 DEF AInv, TurnHolds, Lost, Absent
  <2>2. CASE up # "down"
    <3>1. Held = mem
      BY <2>2, HeldUp
    <3> QED
      BY <1>1, <1>3, <3>1 DEF Answers
  <2> QED
    BY <2>1, <2>2
<1> QED
  BY <1>2, <1>3 DEF AskedOnce

LEMMA OncePerKeyHolds == ASSUME IInv, AInv PROVE OncePerKey
<1> SUFFICES ASSUME NEW i \in Inputs \ gone, NEW k \in Inputs \ gone,
                    Young(i), Young(k), Key[i] = Key[k]
             PROVE  i = k
  BY DEF OncePerKey
<1>1. up # "down"
  BY DEF AInv, TurnHolds, Lost, Absent, Young
<1> QED
  BY <1>1, HeldUp DEF AInv, KeysOnce, Young

-----------------------------------------------------------------------------
(* Memory, the files, the update and the turn are of their types, whatever *)
(* crashes and fails.                                                      *)
THEOREM TypeCorrect == QueueSpec => []QueueTypeOK
<1>1. IInv => QueueTypeOK
  BY DEF IInv
<1> QED
  BY InitInv, NextInv, <1>1, PTL DEF QueueSpec

(* An accepted input is in the queue file or in the settled log until its  *)
(* owner deletes it: the log is appended to before the file lets go, and   *)
(* memory never forgets what the disk must hold.                           *)
THEOREM NothingLost == QueueSpec => []NotLost
<1>1. IInv => NotLost
  BY DEF IInv
<1> QED
  BY InitInv, NextInv, <1>1, PTL DEF QueueSpec

LEMMA AsksAlways == QueueSpec => [](IInv /\ AInv)
<1>1. QueueInit => IInv /\ AInv
  BY InitInv, AsksInit
<1>2. IInv /\ AInv /\ [QueueNext]_queueVars => IInv' /\ AInv'
  BY NextInv, AsksNext
<1> QED
  BY <1>1, <1>2, PTL DEF QueueSpec

(* No input is asked twice, whatever crashes, fails, is asked in the same  *)
(* words or deleted: each message in the chat is one of a started input of *)
(* its own, and only inputs whose owner deleted them share one.            *)
THEOREM NeverAskedTwice == QueueSpec => []AskedOnce
<1> QED
  BY AsksAlways, AskedOnceHolds, PTL

(* A key is queued once a day, through crashes and failed writes, unless   *)
(* its owner deletes what it queued.                                       *)
THEOREM KeyQueuedOnce == QueueSpec => []OncePerKey
<1> QED
  BY AsksAlways, OncePerKeyHolds, PTL
=============================================================================
