---------------------------- MODULE JobDelivery ----------------------------
(***************************************************************************)
(* How a conversation hears that a job it sent to a computer ended.  The   *)
(* gateway numbers a job's changes and sends the latest to the environment *)
(* until it has it (sendLatest of runners.ts); the environment writes it   *)
(* to the job's record (runner-jobs/files.ts), queues the job's end as an  *)
(* input, and notes that it did (continueRunnerJob of runtime.ts).  A      *)
(* starting environment asks for what it missed (reconcileRunnerJobs).     *)
(***************************************************************************)
EXTENDS InputQueue

CONSTANTS Jobs,      \* the jobs, which are the keys of the inputs that tell
                     \* their ends
          MaxSeq     \* bound: how often a job changes

ASSUME DeliveryAssumption == MaxSeq \in Nat \ {0}

VARIABLES job,       \* the gateway's row of each job
          record,    \* the environment's record of each job
          calls      \* the calls, and the environment's own checks, that run
                     \* there

deliveryVars == <<job, record, calls>>
vars == <<queueVars, deliveryVars>>

-----------------------------------------------------------------------------
(* The gateway.                                                            *)

Change(j) ==
  /\ ~job[j].ended /\ job[j].seq < MaxSeq
  /\ \E ends \in BOOLEAN :
       /\ job[j].seq + 1 = MaxSeq => ends
       /\ job' = [job EXCEPT ![j].seq = @ + 1, ![j].ended = ends]
  /\ UNCHANGED <<queueVars, record, calls>>

(* sendLatest, to where it waits for the environment: at the change, on a  *)
(* tick, when the bot is ready, and again after each answer.               *)
Sending(j) == \E c \in calls : c.job = j /\ c.awaited
Send(j) ==
  /\ up = "up"
  /\ ~Sending(j) /\ job[j].notified < job[j].seq
  /\ calls' = calls \cup {[job |-> j, at |-> "store", awaited |-> TRUE,
                           seq |-> job[j].seq, final |-> job[j].ended]}
  /\ UNCHANGED <<queueVars, job, record>>

(* Mutant: what is marked is the job's latest change.                      *)
Answered_Latest(c) == [job EXCEPT ![c.job].notified = job[c.job].seq]

(* Mutant: what is marked is the change after.                             *)
Answered_Next(c) == [job EXCEPT ![c.job].notified = c.seq + 1]

(* The environment has it: the change that was read before is marked.      *)
Answered(c) == [job EXCEPT ![c.job].notified = IF @ < c.seq THEN c.seq ELSE @]

Succeeds(c) == /\ calls' = calls \ {c}
               /\ job' = IF c.awaited THEN Answered(c) ELSE job
Fails(c) == calls' = calls \ {c} /\ UNCHANGED job
Goes(c, at) == /\ calls' = (calls \ {c}) \cup {[c EXCEPT !.at = at]}
               /\ UNCHANGED job

(* The gateway gives a call up, or starts again: the call may not have     *)
(* arrived, or is handled after all.                                       *)
LoseCall(c) ==
  /\ Trouble
  /\ c.awaited
  /\ calls' \in {(calls \ {c}) \cup {[c EXCEPT !.awaited = FALSE]},
                 IF c.at = "store" THEN calls \ {c} ELSE calls}
  /\ calls' # calls
  /\ UNCHANGED <<mem, file, log, write, chat, turn, up, old, accepted, gone,
                 job, record>>

-----------------------------------------------------------------------------
(* The environment.                                                        *)

(* Mutant: a late state moves a job that ended.                            *)
Stored_Any(r, c) == [r EXCEPT !.seq = c.seq, !.final = c.final]

(* state: a job that ended stays ended.                                    *)
Stored(r, c) == IF r.final /\ ~c.final THEN r
                ELSE [r EXCEPT !.seq = c.seq, !.final = c.final]
Store(c) ==
  LET j == c.job
  IN  /\ up = "up" /\ c.at = "store"
      /\ record' = [record EXCEPT ![j] = Stored(@, c)]
      /\ IF record[j].final /\ ~c.final THEN Succeeds(c) ELSE Goes(c, "tell")
      /\ UNCHANGED queueVars

(* continueRunnerJob, to the input's place in the queue: the record is     *)
(* read again; an end that was told is not told again.                     *)
Tell(c) ==
  LET j == c.job
  IN  /\ up = "up" /\ c.at = "tell"
      /\ \/ /\ ~record[j].final \/ record[j].continued
            /\ Succeeds(c)
            /\ UNCHANGED <<queueVars, record>>
         \/ /\ record[j].final /\ ~record[j].continued
            /\ \/ Receipt(j) /\ Goes(c, "note")
               \/ (\E i \in Inputs : Key[i] = j /\ Enqueue(i)) /\ Goes(c, "queue")
            /\ UNCHANGED record

(* The record says that the conversation was told.                         *)
Note(c) ==
  /\ up = "up" /\ c.at = "note"
  /\ record' = [record EXCEPT ![c.job].continued = TRUE]
  /\ Succeeds(c)
  /\ UNCHANGED queueVars

(* The update of the queue that a call waits for ends, or fails.           *)
Telling(c) == /\ c.at = "queue"
              /\ write # None /\ write.op = "enqueue" /\ Key[write.input] = c.job
Written ==
  /\ WriteStep
  /\ IF write.stage = "file" /\ \E c \in calls : Telling(c)
     THEN Goes(CHOOSE c \in calls : Telling(c), "note")
     ELSE UNCHANGED <<job, calls>>
  /\ UNCHANGED record
NotWritten ==
  /\ WriteFails
  /\ IF \E c \in calls : Telling(c)
     THEN Fails(CHOOSE c \in calls : Telling(c))
     ELSE UNCHANGED <<job, calls>>
  /\ UNCHANGED record

(* The owner, a routine or another bot sends an input of its own, or again. *)
Ask(i) == /\ Key[i] \notin Jobs
          /\ Enqueue(i) \/ Receipt(Key[i])
          /\ UNCHANGED deliveryVars

(* Its calls end with the process, and the gateway hears that.             *)
EnvironmentCrash ==
  /\ Crash
  /\ calls' = {}
  /\ UNCHANGED <<job, record>>

(* reconcileRunnerJobs: once it is up, the environment looks at every job  *)
(* whose end was not told: it tells what it knows, or asks the gateway.    *)
Check(j) == [job |-> j, at |-> IF record[j].final THEN "tell" ELSE "ask",
             awaited |-> FALSE, seq |-> 0, final |-> FALSE]
EnvironmentUp ==
  /\ up = "starting"
  /\ \/ Recover
     \/ WriteStep
  /\ calls' = IF up' = "up"
              THEN {Check(j) : j \in {k \in Jobs : ~record[k].continued}}
              ELSE calls
  /\ UNCHANGED <<job, record>>
AskGateway(c) ==
  /\ up = "up" /\ c.at = "ask"
  /\ calls' = (calls \ {c})
              \cup {[c EXCEPT !.at = "store", !.seq = job[c.job].seq,
                              !.final = job[c.job].ended]}
  /\ UNCHANGED <<queueVars, job, record>>

(* A call's write of the record fails, or the gateway does not answer.     *)
CallFails(c) ==
  /\ Trouble
  /\ c.at # "queue"
  /\ Fails(c)
  /\ UNCHANGED <<mem, file, log, write, chat, turn, up, old, accepted, gone,
                 record>>

-----------------------------------------------------------------------------

Init == /\ QueueInit
        /\ job = [j \in Jobs |-> [seq |-> 1, ended |-> FALSE, notified |-> 0]]
        /\ record = [j \in Jobs |-> [seq |-> 0, final |-> FALSE,
                                     continued |-> FALSE]]
        /\ calls = {}

CallStep(c) == Store(c) \/ Tell(c) \/ Note(c) \/ AskGateway(c)
Running == /\ up = "up"
           /\ \/ Written
              \/ TurnStep /\ UNCHANGED deliveryVars

Next == \/ \E j \in Jobs : Change(j) \/ Send(j)
        \/ \E c \in calls : CallStep(c) \/ CallFails(c) \/ LoseCall(c)
        \/ \E i \in Inputs : \/ Ask(i)
                             \/ (Delete(i) \/ Claim(i)) /\ UNCHANGED deliveryVars
        \/ Running
        \/ NotWritten
        \/ EnvironmentCrash
        \/ EnvironmentUp
        \/ (TurnFails \/ Boot \/ DayPasses) /\ UNCHANGED deliveryVars

(* The event loops go on, a tick sends what was not sent, and a stopped    *)
(* environment is started again.                                           *)
Fairness == /\ \A j \in Jobs : /\ WF_vars(Send(j))
                               /\ WF_vars(\E c \in calls : c.job = j /\ CallStep(c))
            /\ WF_vars(Running)
            /\ WF_vars(EnvironmentUp)
            /\ WF_vars(Boot /\ UNCHANGED deliveryVars)
            /\ WF_vars(\E i \in Inputs : Claim(i) /\ UNCHANGED deliveryVars)

Spec == Init /\ [][Next]_vars /\ Fairness

-----------------------------------------------------------------------------
(* Properties.                                                             *)

(* The state of the delivery and of the queue is of its type.              *)
DeliveryTypeOK ==
  /\ QueueTypeOK
  /\ job \in [Jobs -> [seq : 1..MaxSeq, ended : BOOLEAN, notified : 0..MaxSeq]]
  /\ record \in [Jobs -> [seq : 0..MaxSeq, final : BOOLEAN,
                          continued : BOOLEAN]]
  /\ \A c \in calls : c \in [job : Jobs, awaited : BOOLEAN, seq : 0..MaxSeq,
                             final : BOOLEAN,
                             at : {"store", "tell", "queue", "note", "ask"}]

(* The gateway may forget a job that ended once it counts its last change  *)
(* as sent: the environment then has the end for good, and the             *)
(* conversation's queue has had it.                                        *)
ForgottenIsTold ==
  \A j \in Jobs :
    /\ job[j].ended /\ job[j].notified = job[j].seq => record[j].continued
    /\ record[j].continued =>
         /\ record[j].final /\ job[j].ended
         /\ \E i \in accepted : Key[i] = j

(* A job that ends is told to its conversation, which hears it: its input  *)
(* gets its message in the chat, unless its owner deletes it, or its turn  *)
(* failed and the queue could not be written to take it back.              *)
Stranded(i) == up = "up" /\ turn = None /\ write = None /\ Unmapped(i)
Heard(j) == \E i \in Inputs : /\ Key[i] = j
                              /\ \/ \E m \in 1..Len(chat) : chat[m] = i
                                 \/ i \in gone
                                 \/ Stranded(i)
EndsAreHeard == \A j \in Jobs : job[j].ended ~> Heard(j)
=============================================================================
