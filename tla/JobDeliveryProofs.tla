------------------------- MODULE JobDeliveryProofs -------------------------
(***************************************************************************)
(* Proofs about JobDelivery: every step of it is one of the queue or none  *)
(* to it, its types, that a job the gateway may forget is told, and that   *)
(* what is told is asked once, for any jobs, inputs and troubles.          *)
(***************************************************************************)
EXTENDS JobDelivery, InputQueueProofs

Calls == [job : Jobs, awaited : BOOLEAN, seq : 0..MaxSeq, final : BOOLEAN,
          at : {"store", "tell", "queue", "note", "ask"}]
Rows == [Jobs -> [seq : 1..MaxSeq, ended : BOOLEAN, notified : 0..MaxSeq]]
Records == [Jobs -> [seq : 0..MaxSeq, final : BOOLEAN, continued : BOOLEAN]]
IsTold(j) == \E i \in accepted : Key[i] = j

(* The update of the queue that a call at "queue" waits for is its own.    *)
Queues(j) == write # None /\ write.op = "enqueue" /\ Key[write.input] = j

(* What a call says of its job was so: no later change, no other end.      *)
SaysTrue(c) == /\ c.seq <= job[c.job].seq
               /\ c.final => job[c.job].ended
               /\ c.seq = job[c.job].seq /\ job[c.job].ended => c.final

(* How far a call is, the record and the queue are with it.                *)
HasDone(c) ==
  /\ c.at \in {"tell", "queue", "note"} /\ c.final => record[c.job].final
  /\ c.at \in {"queue", "note"} => record[c.job].final
  /\ c.at = "queue" => Queues(c.job)
  /\ c.at = "note" => IsTold(c.job)

CallsInv == /\ \A c \in calls : SaysTrue(c) /\ HasDone(c)
            /\ \A c, d \in calls : c.at = "queue" /\ d.at = "queue" => c = d
            /\ up # "up" => calls = {}
RecordsTrue == \A j \in Jobs : /\ job[j].notified <= job[j].seq
                               /\ record[j].final => job[j].ended

DInv == IInv /\ DeliveryTypeOK /\ CallsInv /\ RecordsTrue /\ ForgottenIsTold

-----------------------------------------------------------------------------
(* Steps that only end calls, besides what they do to the queue.           *)
LEMMA FewerCalls ==
  ASSUME DInv, IInv', UNCHANGED <<job, record>>, accepted \subseteq accepted',
         calls' \subseteq calls, up' # "up" => calls' = {},
         \A c \in calls' : c.at = "queue" => Queues(c.job)'
  PROVE  DInv'
<1>1. DeliveryTypeOK'
  BY DEF DInv, DeliveryTypeOK, IInv
<1>2. ASSUME NEW j, IsTold(j) PROVE IsTold(j)'
  BY <1>2 DEF IsTold
<1>3. CallsInv'
  <2>1. ASSUME NEW c \in calls' PROVE SaysTrue(c)' /\ HasDone(c)'
    BY <1>2 DEF DInv, CallsInv, SaysTrue, HasDone
  <2> QED
    BY <2>1 DEF DInv, CallsInv
<1>4. ForgottenIsTold'
  BY <1>2 DEF DInv, ForgottenIsTold, IsTold
<1> QED
  BY <1>1, <1>3, <1>4 DEF DInv, RecordsTrue

(* Steps of one call, which goes on, is new, or ends: what it marks of its *)
(* job and of its record is so.                                            *)
LEMMA OneCall ==
  ASSUME DInv, IInv', up = "up", up' = "up", accepted \subseteq accepted',
         NEW c \in Calls, NEW d \in Calls, d.job = c.job,
         \/ calls' = (calls \ {c}) \cup {d}
         \/ calls' = calls \ {c},
         d \in calls' /\ d \notin calls =>
            /\ SaysTrue(d)' /\ HasDone(d)'
            /\ d.at = "queue" => \A e \in calls \ {c} : e.at # "queue",
         \A e \in calls : e \in calls' /\ e.at = "queue" => Queues(e.job)',
         job' \in Rows, record' \in Records,
         \A j \in Jobs : /\ job'[j].seq = job[j].seq /\ job'[j].ended = job[j].ended
                         /\ j # c.job => job'[j] = job[j] /\ record'[j] = record[j],
         record[c.job].final => record'[c.job].final,
         record'[c.job].final => job[c.job].ended,
         record'[c.job].continued => record'[c.job].final /\ IsTold(c.job)',
         job'[c.job].notified <= job[c.job].seq,
         job[c.job].ended /\ job'[c.job].notified = job[c.job].seq
           => record'[c.job].continued
  PROVE  DInv'
<1>0. job \in Rows /\ record \in Records /\ calls \subseteq Calls /\ c.job \in Jobs
  BY DEF DInv, DeliveryTypeOK, Calls, Rows, Records
<1>2. calls' \subseteq Calls
  BY <1>0
<1>3. DeliveryTypeOK'
  BY <1>2 DEF DeliveryTypeOK, IInv, Calls, Rows, Records
<1>4. ASSUME NEW j, IsTold(j) PROVE IsTold(j)'
  BY <1>4 DEF IsTold
<1>5. ASSUME NEW e \in calls, e \in calls', e.at = "queue" => Queues(e.job)'
      PROVE  SaysTrue(e)' /\ HasDone(e)'
  <2>1. e.job \in Jobs /\ SaysTrue(e) /\ HasDone(e)
    BY <1>0 DEF DInv, CallsInv, Calls
  <2>2. SaysTrue(e)'
    BY <2>1 DEF SaysTrue
  <2>3. record[e.job].final => record'[e.job].final
    BY <2>1
  <2> QED
    BY <1>4, <1>5, <2>1, <2>2, <2>3 DEF HasDone
<1>6. CallsInv'
  <2>1. ASSUME NEW e \in calls' PROVE SaysTrue(e)' /\ HasDone(e)'
    <3>1. CASE e \in calls
      BY <1>5, <3>1
    <3>2. CASE e \notin calls
      <4>1. e = d
        BY <3>2
      <4> QED
        BY <3>2, <4>1
    <3> QED
      BY <3>1, <3>2
  <2>2. \A e, f \in calls' : e.at = "queue" /\ f.at = "queue" => e = f
    BY DEF DInv, CallsInv
  <2> QED
    BY <2>1, <2>2 DEF CallsInv
<1>7. RecordsTrue'
  BY <1>0 DEF DInv, RecordsTrue
<1>8. ForgottenIsTold'
  <2>1. ASSUME NEW j \in Jobs
        PROVE  /\ job'[j].ended /\ job'[j].notified = job'[j].seq => record'[j].continued
               /\ record'[j].continued => /\ record'[j].final /\ job'[j].ended
                                          /\ IsTold(j)'
    BY <1>0, <1>4 DEF DInv, ForgottenIsTold, IsTold
  <2> QED
    BY <2>1 DEF ForgottenIsTold, IsTold
<1> QED
  BY <1>3, <1>6, <1>7, <1>8 DEF DInv
-----------------------------------------------------------------------------
(* The queue in the composition: each step of it takes one of the queue's, *)
(* or leaves it, but for the troubles it counts.                           *)
LEMMA QueueSteps ==
  ASSUME Next
  PROVE  \/ QueueNext
         \/ /\ UNCHANGED <<mem, file, log, write, chat, turn, up, old, accepted, gone>>
            /\ UNCHANGED troubles \/ Trouble
<1>1. ASSUME NEW j \in Jobs, Change(j) \/ Send(j) PROVE UNCHANGED queueVars
  BY <1>1 DEF Change, Send
<1>2. ASSUME NEW c \in calls, CallStep(c)
      PROVE  QueueNext \/ UNCHANGED queueVars
  <2>1. Store(c) \/ Note(c) \/ AskGateway(c) => UNCHANGED queueVars
    BY DEF Store, Note, AskGateway
  <2>2. ASSUME Tell(c) PROVE QueueNext \/ UNCHANGED queueVars
    <3>1. CASE Receipt(c.job)
      <4>1. \E i \in Inputs : Key[i] = c.job
        BY <3>1 DEF Receipt, Known
      <4> QED
        BY <3>1, <4>1 DEF QueueNext
    <3>2. CASE \E i \in Inputs : Enqueue(i)
      BY <3>2 DEF QueueNext
    <3> QED
      BY <2>2, <3>1, <3>2 DEF Tell
  <2> QED
    BY <1>2, <2>1, <2>2 DEF CallStep
<1>3. ASSUME NEW c \in calls, CallFails(c) \/ LoseCall(c)
      PROVE  /\ UNCHANGED <<mem, file, log, write, chat, turn, up, old, accepted, gone>>
             /\ Trouble
  BY <1>3 DEF CallFails, LoseCall
<1>4. ASSUME NEW i \in Inputs, Ask(i) \/ Delete(i) \/ Claim(i) PROVE QueueNext
  BY <1>4 DEF Ask, QueueNext
<1>5. ASSUME \/ Running \/ NotWritten \/ EnvironmentCrash \/ EnvironmentUp
             \/ TurnFails \/ Boot \/ DayPasses
      PROVE  QueueNext
  BY <1>5 DEF Running, Written, NotWritten, EnvironmentCrash, EnvironmentUp, TurnStep,
              QueueNext
<1> QED
  BY <1>1, <1>2, <1>3, <1>4, <1>5 DEF Next, queueVars

LEMMA QueueInv == ASSUME IInv, [Next]_vars PROVE IInv'
<1>1. CASE QueueNext
  BY <1>1, NextInv
<1>2. CASE /\ UNCHANGED <<mem, file, log, write, chat, turn, up, old, accepted, gone>>
           /\ UNCHANGED troubles \/ Trouble
  <2>1. troubles' \in 0..MaxTroubles
    BY <1>2, QueueAssumption DEF IInv, QueueTypeOK, Trouble
  <2>2. QueueTypeOK'
    BY <1>2, <2>1 DEF IInv, QueueTypeOK
  <2> QED
    BY <1>2, <2>2 DEF IInv, TurnAwaits, UpdateKeeps, Newly, FileUnsettled,
                      MemoryOnDisk, NotLost
<1> QED
  BY <1>1, <1>2, QueueSteps DEF vars, queueVars

LEMMA QueueAsks == ASSUME IInv, AInv, [Next]_vars PROVE AInv'
<1>1. IInv'
  BY QueueInv
<1>2. CASE QueueNext
  BY <1>1, <1>2, AsksNext
<1>3. CASE UNCHANGED <<mem, file, log, write, chat, turn, up, old, accepted, gone>>
  BY <1>3, SameQueue
<1> QED
  BY <1>2, <1>3, QueueSteps DEF vars, queueVars

Ends(c) ==
  /\ up' = "up" /\ accepted \subseteq accepted' /\ calls' = calls \ {c}
  /\ \A e \in calls : e.at = "queue" => Queues(e.job)'
  /\ job' \in Rows /\ record' \in Records
  /\ \A j \in Jobs : /\ job'[j].seq = job[j].seq /\ job'[j].ended = job[j].ended
                     /\ j # c.job => job'[j] = job[j] /\ record'[j] = record[j]
  /\ record[c.job].final => record'[c.job].final
  /\ record'[c.job].final => job[c.job].ended
  /\ record'[c.job].continued => record'[c.job].final /\ IsTold(c.job)'
  /\ job'[c.job].notified <= job[c.job].seq
  /\ job[c.job].ended /\ job'[c.job].notified = job[c.job].seq
       => record'[c.job].continued

LEMMA CallEnds ==
  ASSUME DInv, IInv', up = "up", NEW c \in Calls, Ends(c)
  PROVE  DInv'
<1>1. PICK d \in Calls : d = c
  OBVIOUS
<1>2. d.job = c.job /\ d \notin calls' /\ calls' = calls \ {c}
  BY <1>1 DEF Ends
<1> QED
  BY <1>2, OneCall DEF Ends

LEMMA AcceptedStays == ASSUME [Next]_vars PROVE accepted \subseteq accepted'
<1>1. ASSUME QueueNext PROVE accepted \subseteq accepted'
  BY <1>1 DEF QueueNext, Enqueue, Receipt, Delete, Claim, WriteStep, AppendLog,
     ReplaceFile, Resumes, TurnStep, Start, SaveMessage, Map, Finish, Recover,
     TurnUnchanged, TurnFails, WriteFails, Crash, Boot, DayPasses
<1> QED
  BY <1>1, QueueSteps DEF vars, queueVars

(* Only the update a call waits for stands while it waits.                 *)
LEMMA NothingBegins ==
  ASSUME DInv, write = None, NEW c \in calls PROVE c.at # "queue"
BY DEF DInv, CallsInv, HasDone, Queues

LEMMA WaitsOn ==
  ASSUME DInv, write' = write, NEW c \in calls, c.at = "queue" PROVE Queues(c.job)'
BY DEF DInv, CallsInv, HasDone, Queues

-----------------------------------------------------------------------------
(* The gateway's steps.                                                    *)
LEMMA ChangeStep ==
  ASSUME DInv, IInv', NEW j \in Jobs, Change(j) PROVE DInv'
<1>1. /\ ~job[j].ended /\ job[j].seq < MaxSeq
      /\ UNCHANGED <<queueVars, record, calls>>
      /\ job \in Rows /\ record \in Records /\ calls \subseteq Calls
  BY DEF Change, DInv, DeliveryTypeOK, Calls, Rows, Records
<1>2. PICK ends \in BOOLEAN :
        job' = [job EXCEPT ![j].seq = @ + 1, ![j].ended = ends]
  BY DEF Change
<1>3. /\ job' \in Rows
      /\ \A k \in Jobs \ {j} : job'[k] = job[k]
      /\ job'[j].seq = job[j].seq + 1 /\ job'[j].ended = ends
      /\ job'[j].notified = job[j].notified
  <2>1. /\ job[j].seq + 1 \in 1..MaxSeq
        /\ job[j] \in [seq : 1..MaxSeq, ended : BOOLEAN, notified : 0..MaxSeq]
    BY <1>1, DeliveryAssumption DEF Rows
  <2> DEFINE row == [job[j] EXCEPT !.seq = @ + 1, !.ended = ends]
  <2>2. /\ row \in [seq : 1..MaxSeq, ended : BOOLEAN, notified : 0..MaxSeq]
        /\ row.seq = job[j].seq + 1 /\ row.ended = ends
        /\ row.notified = job[j].notified
    BY <2>1
  <2>3. job' = [job EXCEPT ![j] = row]
    BY <1>1, <1>2 DEF Rows
  <2> HIDE DEF row
  <2> QED
    BY <1>1, <2>2, <2>3 DEF Rows
<1>4. DeliveryTypeOK'
  BY <1>1, <1>3 DEF DeliveryTypeOK, DInv, IInv, Rows, Records, queueVars
<1>5. CallsInv'
  <2>1. ASSUME NEW c \in calls PROVE SaysTrue(c)' /\ HasDone(c)'
    <3>1. c \in Calls /\ SaysTrue(c) /\ HasDone(c)
      BY <1>1 DEF DInv, CallsInv
    <3>2. SaysTrue(c)'
      BY <1>1, <1>3, <3>1 DEF SaysTrue, Calls, Rows
    <3>3. HasDone(c)'
      BY <1>1, <3>1 DEF HasDone, Queues, IsTold, queueVars
    <3> QED
      BY <3>2, <3>3
  <2> QED
    BY <1>1, <2>1 DEF DInv, CallsInv, queueVars
<1>6. RecordsTrue' /\ ForgottenIsTold'
  BY <1>1, <1>3 DEF DInv, RecordsTrue, ForgottenIsTold, Rows, Records, queueVars
<1> QED
  BY <1>4, <1>5, <1>6 DEF DInv

LEMMA SendStep ==
  ASSUME DInv, IInv', NEW j \in Jobs, Send(j) PROVE DInv'
<1>1. /\ up = "up" /\ UNCHANGED <<queueVars, job, record>>
      /\ job \in Rows /\ record \in Records
  BY DEF Send, DInv, DeliveryTypeOK, Rows, Records
<1>2. PICK c \in Calls : /\ calls' = calls \cup {c} /\ c.job = j /\ c.at = "store"
                        /\ c.seq = job[j].seq /\ c.final = job[j].ended
  <2> DEFINE d == [job |-> j, at |-> "store", awaited |-> TRUE,
                   seq |-> job[j].seq, final |-> job[j].ended]
  <2>1. job[j].seq \in 0..MaxSeq /\ job[j].ended \in BOOLEAN
    BY <1>1, DeliveryAssumption DEF Rows
  <2>2. d \in Calls
    BY <2>1 DEF Calls
  <2>3. /\ calls' = calls \cup {d} /\ d.job = j /\ d.at = "store"
        /\ d.seq = job[j].seq /\ d.final = job[j].ended
    BY DEF Send
  <2> QED
    BY <2>2, <2>3
<1>s. SaysTrue(c)' /\ HasDone(c)'
  BY <1>1, <1>2 DEF SaysTrue, HasDone, Rows
<1>3. calls' = (calls \ {c}) \cup {c} /\ up' = "up" /\ accepted' = accepted
      /\ write' = write
  BY <1>1, <1>2 DEF queueVars
<1>4. \A e \in calls : e.at = "queue" => Queues(e.job)'
  BY <1>3, WaitsOn
<1>5. /\ record[j].final => job[j].ended
      /\ record[j].continued => record[j].final /\ IsTold(j)'
      /\ job[j].notified <= job[j].seq
      /\ job[j].ended /\ job[j].notified = job[j].seq => record[j].continued
  BY <1>3 DEF DInv, RecordsTrue, ForgottenIsTold, IsTold
<1>6. /\ job' \in Rows /\ record' \in Records
      /\ job' = job /\ record' = record /\ accepted \subseteq accepted'
  BY <1>1, <1>3
<1> QED
  BY <1>1, <1>2, <1>s, <1>3, <1>4, <1>5, <1>6, OneCall

-----------------------------------------------------------------------------
(* The steps of a call.                                                    *)

(* A call that ends with success marks what it said, and no more.          *)
LEMMA Marked ==
  ASSUME DInv, NEW c \in calls, Succeeds(c)
  PROVE  /\ job' \in Rows
         /\ \A j \in Jobs : /\ job'[j].seq = job[j].seq /\ job'[j].ended = job[j].ended
                            /\ j # c.job => job'[j] = job[j]
         /\ job'[c.job].notified <= job[c.job].seq
         /\ job[c.job].ended /\ job'[c.job].notified = job[c.job].seq
              => record[c.job].continued \/ c.final
<1>1. /\ job \in Rows /\ c \in Calls /\ SaysTrue(c) /\ c.job \in Jobs
      /\ job[c.job].notified <= job[c.job].seq
      /\ job[c.job].ended /\ job[c.job].notified = job[c.job].seq
           => record[c.job].continued
  BY DEF DInv, DeliveryTypeOK, Calls, Rows, CallsInv, RecordsTrue, ForgottenIsTold
<1>2. CASE job' = job
  BY <1>1, <1>2
<1>3. CASE job' = Answered(c)
  <2> DEFINE n == IF job[c.job].notified < c.seq THEN c.seq ELSE job[c.job].notified
  <2>1. n \in 0..MaxSeq
    BY <1>1 DEF Calls, Rows
  <2>2. job' = [job EXCEPT ![c.job].notified = n]
    BY <1>1, <1>3 DEF Answered, Rows
  <2>3. /\ n <= job[c.job].seq
        /\ job[c.job].ended /\ n = job[c.job].seq => record[c.job].continued \/ c.final
    BY <1>1 DEF SaysTrue
  <2> HIDE DEF n
  <2> QED
    BY <1>1, <2>1, <2>2, <2>3 DEF Rows
<1> QED
  BY <1>2, <1>3 DEF Succeeds

(* What every step of a call starts from.                                  *)
LEMMA CallFacts ==
  ASSUME DInv, NEW c \in calls
  PROVE  /\ c \in Calls /\ c.job \in Jobs /\ SaysTrue(c) /\ HasDone(c)
         /\ job \in Rows /\ record \in Records
         /\ job[c.job].notified <= job[c.job].seq
         /\ record[c.job].final => job[c.job].ended
         /\ job[c.job].ended /\ job[c.job].notified = job[c.job].seq
              => record[c.job].continued
         /\ record[c.job].continued => record[c.job].final /\ IsTold(c.job)
BY DEF DInv, DeliveryTypeOK, Calls, Rows, Records, CallsInv, RecordsTrue,
       ForgottenIsTold, IsTold

LEMMA StoreStep ==
  ASSUME DInv, IInv', NEW c \in calls, Store(c) PROVE DInv'
<1>1. /\ up = "up" /\ c.at = "store" /\ UNCHANGED queueVars
      /\ record' = [record EXCEPT ![c.job] = Stored(@, c)]
  BY DEF Store
<1>2. /\ up' = "up" /\ accepted' = accepted /\ write' = write
  BY <1>1 DEF queueVars
<1>3. \A e \in calls : e.at = "queue" => Queues(e.job)'
  BY <1>2, WaitsOn
<1>4. IsTold(c.job) => IsTold(c.job)'
  BY <1>2 DEF IsTold
<1>5. /\ record' \in Records
      /\ \A j \in Jobs : j # c.job => record'[j] = record[j]
      /\ record'[c.job].final = (record[c.job].final \/ c.final)
      /\ record'[c.job].continued = record[c.job].continued
  <2> DEFINE r == Stored(record[c.job], c)
  <2>1. /\ record \in Records /\ c.job \in Jobs
        /\ c.seq \in 0..MaxSeq /\ c.final \in BOOLEAN
    BY CallFacts DEF Calls
  <2>2. /\ record[c.job].final \in BOOLEAN
        /\ record[c.job] \in [seq : 0..MaxSeq, final : BOOLEAN,
                              continued : BOOLEAN]
    BY <2>1 DEF Records
  <2>3. /\ r \in [seq : 0..MaxSeq, final : BOOLEAN, continued : BOOLEAN]
        /\ r.final = (record[c.job].final \/ c.final)
        /\ r.continued = record[c.job].continued
    BY <2>1, <2>2 DEF Stored
  <2>4. record' = [record EXCEPT ![c.job] = r]
    BY <1>1
  <2> HIDE DEF r
  <2> QED
    BY <2>1, <2>3, <2>4 DEF Records
<1>6. /\ record[c.job].final => record'[c.job].final
      /\ record'[c.job].final => job[c.job].ended
      /\ record'[c.job].continued => record'[c.job].final /\ IsTold(c.job)'
  BY <1>4, <1>5, CallFacts DEF SaysTrue
<1>7. CASE record[c.job].final /\ ~c.final
  <2>1. Succeeds(c)
    BY <1>7 DEF Store
  <2>2. calls' = calls \ {c}
    BY <2>1 DEF Succeeds
  <2>3. /\ job' \in Rows
        /\ \A j \in Jobs : /\ job'[j].seq = job[j].seq /\ job'[j].ended = job[j].ended
                           /\ j # c.job => job'[j] = job[j]
        /\ job'[c.job].notified <= job[c.job].seq
        /\ job[c.job].ended /\ job'[c.job].notified = job[c.job].seq
             => record'[c.job].continued
    BY <1>5, <1>7, <2>1, Marked
  <2>4. c \in Calls /\ c \in calls
    BY CallFacts
  <2>5. Ends(c)
    BY <1>2, <1>3, <1>5, <1>6, <2>2, <2>3 DEF Ends
  <2> QED
    BY <1>1, <2>4, <2>5, CallEnds
<1>8. CASE ~(record[c.job].final /\ ~c.final)
  <2> DEFINE d == [c EXCEPT !.at = "tell"]
  <2>1. /\ d \in Calls /\ d.job = c.job /\ d.at = "tell" /\ d.seq = c.seq
        /\ d.final = c.final
    BY CallFacts DEF Calls
  <2>2. calls' = (calls \ {c}) \cup {d} /\ job' = job
    BY <1>8 DEF Store, Goes
  <2> HIDE DEF d
  <2>3. SaysTrue(d)' /\ HasDone(d)'
    <3>1. SaysTrue(d)'
      BY <2>1, <2>2, CallFacts DEF SaysTrue
    <3>2. d.final => record'[d.job].final
      <4>1. record[c.job].final \in BOOLEAN /\ c.final \in BOOLEAN
        BY CallFacts DEF Records, Calls
      <4> QED
        BY <1>5, <2>1, <4>1
    <3> QED
      BY <2>1, <3>1, <3>2 DEF HasDone
  <2> QED
    BY <1>1, <1>2, <1>3, <1>5, <1>6, <2>1, <2>2, <2>3, CallFacts, OneCall
<1> QED
  BY <1>7, <1>8

LEMMA NoteStep ==
  ASSUME DInv, IInv', NEW c \in calls, Note(c) PROVE DInv'
<1>1. /\ up = "up" /\ c.at = "note" /\ UNCHANGED queueVars /\ Succeeds(c)
      /\ record' = [record EXCEPT ![c.job].continued = TRUE]
      /\ calls' = calls \ {c}
  BY DEF Note, Succeeds
<1>2. /\ up' = "up" /\ accepted' = accepted /\ write' = write
  BY <1>1 DEF queueVars
<1>3. \A e \in calls : e.at = "queue" => Queues(e.job)'
  BY <1>2, WaitsOn
<1>4. /\ c \in Calls /\ c.job \in Jobs /\ record \in Records
      /\ record[c.job].final /\ job[c.job].ended /\ IsTold(c.job)
  BY <1>1, CallFacts DEF HasDone
<1>5. /\ record' \in Records
      /\ \A j \in Jobs : j # c.job => record'[j] = record[j]
      /\ record'[c.job].final /\ record'[c.job].continued
  BY <1>1, <1>4 DEF Records
<1>6. IsTold(c.job)'
  BY <1>2, <1>4 DEF IsTold
<1>7. /\ job' \in Rows
      /\ \A j \in Jobs : /\ job'[j].seq = job[j].seq /\ job'[j].ended = job[j].ended
                         /\ j # c.job => job'[j] = job[j]
      /\ job'[c.job].notified <= job[c.job].seq
  BY <1>1, Marked
<1>8. Ends(c)
  BY <1>1, <1>2, <1>3, <1>4, <1>5, <1>6, <1>7 DEF Ends
<1> QED
  BY <1>1, <1>4, <1>8, CallEnds

(* Steps of a call that leave job and record as they are.                  *)
LEMMA GoesOn ==
  ASSUME DInv, IInv', up = "up", up' = "up", accepted \subseteq accepted',
         UNCHANGED <<job, record>>, NEW c \in calls, NEW d \in Calls,
         d.job = c.job, calls' = (calls \ {c}) \cup {d} \/ calls' = calls \ {c},
         d \in calls' /\ d \notin calls =>
            /\ SaysTrue(d) /\ HasDone(d)'
            /\ d.at = "queue" => \A e \in calls \ {c} : e.at # "queue",
         \A e \in calls : e \in calls' /\ e.at = "queue" => Queues(e.job)'
  PROVE  DInv'
<1>1. SaysTrue(d) => SaysTrue(d)'
  BY DEF SaysTrue
<1>2. IsTold(c.job) => IsTold(c.job)'
  BY DEF IsTold
<1>3. /\ c \in Calls /\ job' \in Rows /\ record' \in Records /\ c.job \in Jobs
      /\ job[c.job].notified <= job[c.job].seq
      /\ record[c.job].final => job[c.job].ended
      /\ job[c.job].ended /\ job[c.job].notified = job[c.job].seq
              => record[c.job].continued
      /\ record[c.job].continued => record[c.job].final /\ IsTold(c.job)'
  BY <1>2, CallFacts
<1> QED
  BY <1>1, <1>3, OneCall

LEMMA AskStep ==
  ASSUME DInv, IInv', NEW c \in calls, AskGateway(c) PROVE DInv'
<1>1. /\ up = "up" /\ UNCHANGED <<queueVars, job, record>>
      /\ up' = "up" /\ accepted' = accepted /\ write' = write
  BY DEF AskGateway, queueVars
<1>2. c \in Calls /\ c.job \in Jobs /\ job \in Rows
  BY CallFacts
<1>3. PICK d \in Calls : /\ calls' = (calls \ {c}) \cup {d}
                        /\ d.job = c.job /\ d.at = "store"
                        /\ d.seq = job[c.job].seq /\ d.final = job[c.job].ended
  <2> DEFINE d == [c EXCEPT !.at = "store", !.seq = job[c.job].seq,
                            !.final = job[c.job].ended]
  <2>1. job[c.job].seq \in 0..MaxSeq /\ job[c.job].ended \in BOOLEAN
    BY <1>2, DeliveryAssumption DEF Rows
  <2>2. d \in Calls
    BY <1>2, <2>1 DEF Calls
  <2>3. /\ calls' = (calls \ {c}) \cup {d} /\ d.job = c.job /\ d.at = "store"
        /\ d.seq = job[c.job].seq /\ d.final = job[c.job].ended
    BY <1>2 DEF AskGateway, Calls
  <2> QED
    BY <2>2, <2>3
<1>4. SaysTrue(d) /\ HasDone(d)'
  BY <1>2, <1>3 DEF SaysTrue, HasDone, Rows
<1>5. \A e \in calls : e.at = "queue" => Queues(e.job)'
  BY <1>1, WaitsOn
<1> QED
  BY <1>1, <1>3, <1>4, <1>5, GoesOn

LEMMA TellStep ==
  ASSUME DInv, IInv', NEW c \in calls, Tell(c), [Next]_vars PROVE DInv'
<1>0. /\ up = "up" /\ c.at = "tell" /\ c \in Calls /\ c.job \in Jobs
      /\ accepted \subseteq accepted' /\ SaysTrue(c) /\ HasDone(c)
      /\ record' = record /\ record \in Records
  BY CallFacts, AcceptedStays DEF Tell
<1>1. CASE /\ ~record[c.job].final \/ record[c.job].continued
           /\ Succeeds(c) /\ UNCHANGED <<queueVars, record>>
  <2>1. up' = "up" /\ write' = write /\ accepted' = accepted /\ calls' = calls \ {c}
    BY <1>0, <1>1 DEF queueVars, Succeeds
  <2>2. c.final => record[c.job].continued
    BY <1>0, <1>1 DEF HasDone
  <2>3. /\ job' \in Rows
        /\ \A j \in Jobs : /\ job'[j].seq = job[j].seq /\ job'[j].ended = job[j].ended
                           /\ j # c.job => job'[j] = job[j]
        /\ job'[c.job].notified <= job[c.job].seq
        /\ job[c.job].ended /\ job'[c.job].notified = job[c.job].seq
             => record[c.job].continued
    BY <1>1, <2>2, Marked
  <2>4. \A e \in calls : e.at = "queue" => Queues(e.job)'
    BY <2>1, WaitsOn
  <2>5. /\ record[c.job].final => job[c.job].ended
        /\ record[c.job].continued => record[c.job].final /\ IsTold(c.job)'
    BY <2>1, CallFacts DEF IsTold
  <2>6. Ends(c)
    BY <1>0, <2>1, <2>3, <2>4, <2>5 DEF Ends
  <2> QED
    BY <1>0, <2>6, CallEnds
<1>2. CASE /\ record[c.job].final /\ ~record[c.job].continued
           /\ Receipt(c.job) /\ Goes(c, "note")
  <2> DEFINE d == [c EXCEPT !.at = "note"]
  <2>1. /\ d \in Calls /\ d.job = c.job /\ d.at = "note" /\ d.seq = c.seq
        /\ d.final = c.final
    BY <1>0 DEF Calls
  <2>2. /\ calls' = (calls \ {c}) \cup {d} /\ job' = job
        /\ up' = "up" /\ write' = write
    BY <1>2 DEF Goes, Receipt
  <2> HIDE DEF d
  <2>3. IsTold(c.job)'
    BY <1>2 DEF Receipt, Known, IsTold, Young
  <2>4. SaysTrue(d) /\ HasDone(d)'
    BY <1>0, <1>2, <2>1, <2>3 DEF SaysTrue, HasDone
  <2>5. \A e \in calls : e.at = "queue" => Queues(e.job)'
    BY <2>2, WaitsOn
  <2> QED
    BY <1>0, <2>1, <2>2, <2>4, <2>5, GoesOn
<1>3. CASE /\ record[c.job].final /\ ~record[c.job].continued
           /\ \E i \in Inputs : Key[i] = c.job /\ Enqueue(i)
           /\ Goes(c, "queue")
  <2>0. PICK i \in Inputs : Key[i] = c.job /\ Enqueue(i)
    BY <1>3
  <2> DEFINE d == [c EXCEPT !.at = "queue"]
  <2>1. /\ d \in Calls /\ d.job = c.job /\ d.at = "queue" /\ d.seq = c.seq
        /\ d.final = c.final
    BY <1>0 DEF Calls
  <2>2. calls' = (calls \ {c}) \cup {d} /\ job' = job /\ up' = "up" /\ write = None
    BY <1>0, <1>3, <2>0 DEF Goes, Enqueue, Begin
  <2> HIDE DEF d
  <2>3. write' \in Updates /\ write'.op = "enqueue" /\ write'.input = i
    <3> DEFINE next == [mem EXCEPT ![i] = [state |-> "waiting", native |-> 0,
                                           at |-> Len(chat)]]
    <3>1. mem \in [Inputs -> Items] /\ Len(chat) \in Nat
      BY LenProperties DEF DInv, IInv, QueueTypeOK
    <3>2. next \in [Inputs -> Items]
      BY <3>1 DEF Items
    <3>3. Begin("enqueue", i, next)
      BY <2>0 DEF Enqueue
    <3> HIDE DEF next
    <3> QED
      BY <3>2, <3>3 DEF Begin, Updates
  <2>4. Queues(c.job)'
    BY <2>0, <2>3, QueueAssumption DEF Queues
  <2>5. SaysTrue(d) /\ HasDone(d)'
    BY <1>0, <1>3, <2>1, <2>4 DEF SaysTrue, HasDone
  <2>6. \A e \in calls : e.at # "queue"
    BY <2>2, NothingBegins
  <2> QED
    BY <1>0, <2>1, <2>2, <2>5, <2>6, GoesOn
<1> QED
  BY <1>1, <1>2, <1>3 DEF Tell

-----------------------------------------------------------------------------
(* The steps of the queue and of failures.                                 *)
LEMMA LoseStep ==
  ASSUME DInv, IInv', NEW c \in calls, LoseCall(c) PROVE DInv'
<1>1. /\ write' = write /\ up' = up /\ accepted' = accepted
      /\ UNCHANGED <<job, record>>
  BY DEF LoseCall
<1>2. c \in Calls /\ SaysTrue(c) /\ HasDone(c)
  BY CallFacts
<1>3. up = "up"
  BY DEF DInv, CallsInv
<1>4. \A e \in calls : e.at = "queue" => Queues(e.job)'
  BY <1>1, WaitsOn
<1>5. CASE calls' \subseteq calls
  BY <1>1, <1>3, <1>4, <1>5, FewerCalls
<1>6. CASE calls' = (calls \ {c}) \cup {[c EXCEPT !.awaited = FALSE]}
  <2> DEFINE d == [c EXCEPT !.awaited = FALSE]
  <2>1. /\ d \in Calls /\ d.job = c.job /\ d.at = c.at /\ d.seq = c.seq
        /\ d.final = c.final /\ calls' = (calls \ {c}) \cup {d}
    BY <1>2, <1>6 DEF Calls
  <2> HIDE DEF d
  <2>2. SaysTrue(d) /\ HasDone(d)'
    BY <1>1, <1>2, <2>1 DEF SaysTrue, HasDone, Queues, IsTold
  <2>3. d.at = "queue" => \A e \in calls \ {c} : e.at # "queue"
    BY <2>1 DEF DInv, CallsInv
  <2> QED
    BY <1>1, <1>3, <1>4, <2>1, <2>2, <2>3, GoesOn
<1> QED
  BY <1>5, <1>6 DEF LoseCall

LEMMA WrittenStep ==
  ASSUME DInv, IInv', up = "up", Written, accepted \subseteq accepted' PROVE DInv'
<1>1. write \in Updates /\ UNCHANGED record
  BY DEF Written, WriteStep, AppendLog, ReplaceFile, DInv, IInv, QueueTypeOK
<1>2. up' = "up"
  BY DEF Written, WriteStep, AppendLog, ReplaceFile, Resumes
<1>3. CASE AppendLog
  <2>1. write.stage = "log" /\ write' = [write EXCEPT !.stage = "file"]
    BY <1>3 DEF AppendLog
  <2>2. /\ write' \in Updates /\ write'.op = write.op /\ write'.input = write.input
        /\ UNCHANGED <<job, calls>>
    BY <1>1, <2>1 DEF Updates, Written
  <2>3. \A c \in calls : c.at = "queue" => Queues(c.job)'
    BY <2>2, QueueAssumption DEF DInv, CallsInv, HasDone, Queues
  <2> QED
    BY <1>1, <1>2, <2>2, <2>3, FewerCalls
<1>4. CASE ReplaceFile
  <2>1. /\ write # None /\ write.stage = "file"
        /\ accepted' = IF write.op = "enqueue" THEN accepted \cup {write.input}
                       ELSE accepted
    BY <1>4 DEF ReplaceFile, Resumes
  <2>2. CASE \E c \in calls : Telling(c)
    <3>1. PICK c \in calls : c = CHOOSE d \in calls : Telling(d)
      BY <2>2
    <3>2. /\ Telling(c) /\ Goes(c, "note")
      BY <2>1, <2>2, <3>1 DEF Written
    <3>3. /\ c \in Calls /\ c.at = "queue" /\ SaysTrue(c) /\ HasDone(c)
          /\ write.op = "enqueue" /\ Key[write.input] = c.job
      BY <3>2, CallFacts DEF Telling
    <3> DEFINE d == [c EXCEPT !.at = "note"]
    <3>4. /\ d \in Calls /\ d.job = c.job /\ d.at = "note" /\ d.seq = c.seq
          /\ d.final = c.final /\ calls' = (calls \ {c}) \cup {d} /\ job' = job
      BY <3>2, <3>3 DEF Calls, Goes
    <3> HIDE DEF d
    <3>5. IsTold(c.job)'
      BY <2>1, <3>3 DEF IsTold
    <3>6. SaysTrue(d) /\ HasDone(d)'
      BY <1>1, <3>3, <3>4, <3>5 DEF SaysTrue, HasDone
    <3>7. \A e \in calls : e \in calls' => e.at # "queue"
      BY <3>3, <3>4 DEF DInv, CallsInv
    <3> QED
      BY <1>1, <1>2, <3>4, <3>6, <3>7, GoesOn
  <2>3. CASE ~ \E c \in calls : Telling(c)
    <3>1. UNCHANGED <<job, calls>>
      BY <2>3 DEF Written
    <3>2. \A c \in calls : c.at # "queue"
      BY <2>3 DEF DInv, CallsInv, HasDone, Queues, Telling
    <3> QED
      BY <1>1, <1>2, <3>1, <3>2, FewerCalls
  <2> QED
    BY <2>2, <2>3
<1> QED
  BY <1>3, <1>4 DEF Written, WriteStep

LEMMA NotWrittenStep ==
  ASSUME DInv, IInv', NotWritten, accepted \subseteq accepted' PROVE DInv'
<1>1. UNCHANGED <<job, record>> /\ calls' \subseteq calls /\ up' = up
  BY DEF NotWritten, WriteFails, Fails
<1>2. \A c \in calls' : c.at # "queue"
  <2>1. CASE \E c \in calls : Telling(c)
    <3>1. PICK c \in calls : c = CHOOSE d \in calls : Telling(d)
      BY <2>1
    <3>2. Telling(c) /\ calls' = calls \ {c}
      BY <2>1, <3>1 DEF NotWritten, Fails
    <3> QED
      BY <3>2 DEF DInv, CallsInv, Telling
  <2>2. CASE ~ \E c \in calls : Telling(c)
    BY <1>1, <2>2 DEF DInv, CallsInv, HasDone, Queues, Telling
  <2> QED
    BY <2>1, <2>2
<1>3. up' # "up" => calls' = {}
  BY <1>1 DEF DInv, CallsInv
<1> QED
  BY <1>1, <1>2, <1>3, FewerCalls

LEMMA UpStep ==
  ASSUME DInv, IInv', EnvironmentUp, accepted \subseteq accepted' PROVE DInv'
<1>1. calls = {} /\ UNCHANGED <<job, record>>
  BY DEF DInv, CallsInv, EnvironmentUp
<1>2. CASE up' # "up"
  <2>1. calls' = {}
    BY <1>1, <1>2 DEF EnvironmentUp
  <2> QED
    BY <1>1, <2>1, FewerCalls
<1>3. CASE up' = "up"
  <2>1. calls' = {Check(j) : j \in {k \in Jobs : ~record[k].continued}}
    BY <1>3 DEF EnvironmentUp
  <2>2. job \in Rows /\ record \in Records
    BY DEF DInv, DeliveryTypeOK, Rows, Records
  <2>3. ASSUME NEW c \in calls'
        PROVE  c \in Calls /\ SaysTrue(c) /\ HasDone(c)' /\ c.at # "queue"
    <3>1. PICK j \in Jobs : c = Check(j)
      BY <2>1
    <3>2. /\ c \in Calls /\ c.job = j /\ c.seq = 0 /\ c.final = FALSE
          /\ c.at \in {"tell", "ask"}
      BY <3>1, DeliveryAssumption DEF Check, Calls
    <3> QED
      BY <2>2, <3>2 DEF SaysTrue, HasDone, Rows
  <2>4. DeliveryTypeOK'
    BY <1>1, <2>2, <2>3 DEF DeliveryTypeOK, IInv, Calls, Rows, Records
  <2>5. CallsInv'
    BY <1>1, <1>3, <2>3 DEF CallsInv, SaysTrue
  <2>6. RecordsTrue' /\ ForgottenIsTold'
    BY <1>1 DEF DInv, RecordsTrue, ForgottenIsTold
  <2> QED
    BY <2>4, <2>5, <2>6 DEF DInv
<1> QED
  BY <1>2, <1>3

(* Every other step leaves the calls, or begins an update: no call waits.  *)
LEMMA QuietStep ==
  ASSUME DInv, IInv', UNCHANGED deliveryVars, accepted \subseteq accepted',
         write' = write \/ write = None, up' = up \/ up = "down"
  PROVE  DInv'
<1>1. \A c \in calls : c.at = "queue" => Queues(c.job)'
  BY WaitsOn, NothingBegins
<1>2. up' # "up" => calls' = {}
  BY DEF DInv, CallsInv, deliveryVars
<1> QED
  BY <1>1, <1>2, FewerCalls DEF deliveryVars

LEMMA DeliveryNext == DInv /\ [Next]_vars => DInv'
<1> SUFFICES ASSUME DInv, [Next]_vars PROVE DInv'
  OBVIOUS
<1>0. IInv' /\ accepted \subseteq accepted'
  BY QueueInv, AcceptedStays DEF DInv
<1>1. CASE UNCHANGED vars
  BY <1>0, <1>1, QuietStep DEF vars, queueVars, deliveryVars
<1>2. ASSUME NEW j \in Jobs, Change(j) \/ Send(j) PROVE DInv'
  BY <1>0, <1>2, ChangeStep, SendStep
<1>3. ASSUME NEW c \in calls, CallStep(c) PROVE DInv'
  BY <1>0, <1>3, StoreStep, TellStep, NoteStep, AskStep DEF CallStep
<1>4. ASSUME NEW c \in calls, CallFails(c) PROVE DInv'
  <2>1. /\ UNCHANGED <<job, record>> /\ calls' \subseteq calls
        /\ write' = write /\ up' = up
    BY <1>4 DEF CallFails, Fails
  <2>2. \A e \in calls' : e.at = "queue" => Queues(e.job)'
    BY <2>1, WaitsOn
  <2>3. up' # "up" => calls' = {}
    BY <2>1 DEF DInv, CallsInv
  <2> QED
    BY <1>0, <2>1, <2>2, <2>3, FewerCalls
<1>5. ASSUME NEW c \in calls, LoseCall(c) PROVE DInv'
  BY <1>0, <1>5, LoseStep
<1>6. ASSUME NEW i \in Inputs, Ask(i) PROVE DInv'
  BY <1>0, <1>6, QuietStep DEF Ask, Enqueue, Receipt, Begin
<1>7. ASSUME NEW i \in Inputs, (Delete(i) \/ Claim(i)) /\ UNCHANGED deliveryVars
      PROVE  DInv'
  BY <1>0, <1>7, QuietStep DEF Delete, Claim, Begin, TurnUnchanged
<1>8. CASE Running
  <2>1. CASE Written
    BY <1>0, <1>8, <2>1, WrittenStep DEF Running
  <2>2. CASE TurnStep /\ UNCHANGED deliveryVars
    <3>1. write' = write \/ write = None
      BY <2>2 DEF TurnStep, Start, SaveMessage, Map, Finish, Recover, Begin
    <3>2. up' = up
      BY <1>8, <2>2 DEF Running, TurnStep, Start, SaveMessage, Map, Finish, Recover,
                        TurnUnchanged
    <3> QED
      BY <1>0, <2>2, <3>1, <3>2, QuietStep
  <2> QED
    BY <1>8, <2>1, <2>2 DEF Running
<1>9. CASE NotWritten
  BY <1>0, <1>9, NotWrittenStep
<1>10. CASE EnvironmentCrash
  <2>1. calls' = {} /\ UNCHANGED <<job, record>>
    BY <1>10 DEF EnvironmentCrash
  <2> QED
    BY <1>0, <2>1, FewerCalls
<1>11. CASE EnvironmentUp
  BY <1>0, <1>11, UpStep
<1>12. CASE (TurnFails \/ Boot \/ DayPasses) /\ UNCHANGED deliveryVars
  BY <1>0, <1>12, QuietStep DEF TurnFails, Boot, DayPasses
<1> QED
  BY <1>1, <1>2, <1>3, <1>4, <1>5, <1>6, <1>7, <1>8, <1>9, <1>10, <1>11, <1>12 DEF Next

LEMMA DeliveryInit == Init => DInv
<1> SUFFICES ASSUME Init PROVE DInv
  OBVIOUS
<1>1. IInv
  BY InitInv DEF Init
<1>2. /\ job = [j \in Jobs |-> [seq |-> 1, ended |-> FALSE, notified |-> 0]]
      /\ record = [j \in Jobs |-> [seq |-> 0, final |-> FALSE, continued |-> FALSE]]
      /\ calls = {}
  BY DEF Init
<1>3. DeliveryTypeOK
  BY <1>1, <1>2, DeliveryAssumption DEF DeliveryTypeOK, IInv
<1> QED
  BY <1>1, <1>2, <1>3 DEF DInv, CallsInv, RecordsTrue, ForgottenIsTold

-----------------------------------------------------------------------------
(* Rows, records and calls, and the queue's own state, are of their types. *)
THEOREM DeliveryTypes == Spec => []DeliveryTypeOK
<1>1. DInv => DeliveryTypeOK
  BY DEF DInv
<1> QED
  BY DeliveryInit, DeliveryNext, <1>1, PTL DEF Spec

(* When the gateway may forget a job, having marked its last change as     *)
(* sent, the environment has the end for good and the conversation's queue *)
(* has accepted the input that tells it, for any changes, calls lost and   *)
(* crashes: a call marks only what it said, and says only what was so.     *)
THEOREM Told == Spec => []ForgottenIsTold
<1>1. DInv => ForgottenIsTold
  BY DEF DInv
<1> QED
  BY DeliveryInit, DeliveryNext, <1>1, PTL DEF Spec

(* What the queue promises of itself it keeps under the gateway's calls.   *)
THEOREM StillNothingLost == Spec => []NotLost
<1>1. DInv => NotLost
  BY DEF DInv, IInv
<1> QED
  BY DeliveryInit, DeliveryNext, <1>1, PTL DEF Spec

LEMMA QueueAsksAlways == Spec => [](IInv /\ AInv)
<1>1. Init => IInv /\ AInv
  BY InitInv, AsksInit DEF Init
<1>2. IInv /\ AInv /\ [Next]_vars => IInv' /\ AInv'
  BY QueueInv, QueueAsks
<1> QED
  BY <1>1, <1>2, PTL DEF Spec

(* The end of a job that is told again, by a repeated call, a check at the *)
(* next start or after a lost answer, is one input and one message: no     *)
(* input is asked twice under the gateway's calls either.                  *)
THEOREM StillAskedOnce == Spec => []AskedOnce
<1> QED
  BY QueueAsksAlways, AskedOnceHolds, PTL

(* And a job's end is queued once a day, whatever calls tell it.           *)
THEOREM StillOncePerKey == Spec => []OncePerKey
<1> QED
  BY QueueAsksAlways, OncePerKeyHolds, PTL
=============================================================================
