------------------------- MODULE RunnerSystemProofs -------------------------
(***************************************************************************)
(* Proofs about RunnerSystem, for any jobs, computers, bounds and troubles. *)
(*                                                                         *)
(* The system implements its parts: the gateway in it is the broker of     *)
(* RunnerBroker, the computer the worker of RunnerWorker.  And it keeps    *)
(* what only both together can promise: a command starts once, on one      *)
(* computer, and success is real.  The argument follows a job over the     *)
(* network: what the gateway said yes to is settled there before the       *)
(* computer hears of it.                                                   *)
(***************************************************************************)
EXTENDS RunnerSystem, RunnerBrokerProofs, FiniteSetTheorems, SequenceTheorems, TLAPS

-----------------------------------------------------------------------------
(* The gateway of the system is the broker.                                *)

\* A report counts only for the jobs that the gateway gave to the computer.
LEMMA ReportOfHeld ==
    ASSUME NEW d \in Devices, NEW offers \in Offers, NEW capable \in BOOLEAN, NEW held,
           Report(d, offers, capable, held)
    PROVE  \E h \in SUBSET JobsOn(d) : Report(d, offers, capable, h)
<1> DEFINE h == held \cap JobsOn(d)
<1>1. NoLongerHeld(d, held) = NoLongerHeld(d, h)
    BY DEF NoLongerHeld, JobsOn, OnRunner, Active
<1>2. Report(d, offers, capable, h)
    BY <1>1 DEF Report
<1> QED BY <1>2

\* Time, tick() and the broker's own loops are steps of the broker.
LEMMA GatewayMoves == GatewayStep => [Next]_vars
<1> SUFFICES ASSUME GatewayStep PROVE [Next]_vars
    OBVIOUS
<1> USE SystemAssumption DEF Next, GatewayNext
<1>1. CASE HandlerStep
    BY <1>1 DEF HandlerStep, ScheduleStep
<1>2. CASE TimerStep \/ TimeStep \/ Restart
    BY <1>2 DEF TimerStep, TimeStep
<1>3. CASE CloseStep
    BY <1>3 DEF CloseStep, DeviceNext
<1> QED BY <1>1, <1>2, <1>3 DEF GatewayStep

\* Computers other than the modelled one do to the broker what a computer may.
LEMMA OthersMove == OtherComputers => [Next]_vars
    BY DEF OtherComputers, Next, DeviceNext, JobNext, GatewayNext, ScheduleStep

\* So do the bots and the owner.
LEMMA BotAndOwnerMove == BotStep \/ OwnerStep => [Next]_vars
    BY SystemAssumption DEF BotStep, OwnerStep, Next, DeviceNext, JobNext, GatewayNext

\* A stream that opens or ends is a step of the broker; an event read is none.
LEMMA StreamMoves == StreamStep => [Next]_vars
    BY SystemAssumption
    DEF StreamStep, Open, Connected, Lose, Drop, DropUnread, Receive, ReceiveLate, Still,
        Next, DeviceNext

\* A report counts for the broker once, when it is handled.
LEMMA ReportMoves == ReportStep => [Next]_vars
<1> SUFFICES ASSUME ReportHandled PROVE [Next]_vars
    BY DEF ReportStep, SendReport, ReportAnswered, ReportFailed
<1>1. PICK r \in sent, capable \in BOOLEAN :
          Report(Runner, IF r.accepting THEN Slots ELSE 0, capable, r.jobs)
    BY DEF ReportHandled
<1>2. (IF r.accepting THEN Slots ELSE 0) \in Offers
    BY SystemAssumption, BoundsAssumption DEF Offers
<1>3. \E h \in SUBSET JobsOn(Runner) :
          Report(Runner, IF r.accepting THEN Slots ELSE 0, capable, h)
    BY <1>1, <1>2, ReportOfHeld, SystemAssumption
<1> QED BY <1>2, <1>3, SystemAssumption DEF Next, DeviceNext

\* So does each attempt of a call; losing an answer is no step of the broker.
LEMMA CallMoves ==
    ASSUME NEW j \in Jobs, CallStep(j) \/ CommandStep(j) \/ JobStep(j)
    PROVE  [Next]_vars
<1> USE SystemAssumption DEF Next, JobNext
<1>1. CASE AcceptHandled(j)
    BY <1>1 DEF AcceptHandled, Refused
<1>2. CASE ProgressHandled(j)
    BY <1>2 DEF ProgressHandled, Refused
<1>3. CASE FinishHandled(j)
    BY <1>3 DEF FinishHandled, Refused
<1>4. CASE OwedHandled(j)
    BY <1>4 DEF OwedHandled
<1>5. CASE AnswerLost(j) \/ OwedLost(j) \/ CommandStep(j) \/ JobStep(j)
    BY <1>5 DEF AnswerLost, OwedLost, CommandStep, JobStep
<1> QED BY <1>1, <1>2, <1>3, <1>4, <1>5 DEF CallStep, CallHandled

\* And a request that nobody waits for any more.
LEMMA LateMoves ==
    ASSUME NEW r \in Requests, LateHandled(r)
    PROVE  [Next]_vars
<1>1. r.job \in Jobs /\ r.zero \in BOOLEAN
    BY DEF Requests
<1> QED BY <1>1, SystemAssumption DEF LateHandled, Next, JobNext

\* The app starts and ends without the broker, but for the streams it had.
LEMMA AppMoves == AppStep \/ Ends => [Next]_vars
    BY DEF AppStep, AppStart, Alone, Still, FindsUnlinked, DropBot, Ends

-----------------------------------------------------------------------------
(* The computer of the system is the worker.                               *)

\* What travels names jobs: the worker's own, and those of the gateway.
TravelsTyped ==
    /\ \A r \in sent : r.jobs \subseteq Jobs
    /\ \A S \in answer : S \subseteq Jobs
    /\ inbox \in Seq(Events)
    /\ late \subseteq Requests

\* So every step of the system is a step of the broker, or none of the gateway's.
LEMMA BrokerMoves == TravelsTyped /\ SystemNext => [Next]_vars
    BY GatewayMoves, OthersMove, BotAndOwnerMove, StreamMoves, ReportMoves, AppMoves, CallMoves,
       LateMoves
    DEF SystemNext, TravelsTyped

\* The events sent at once are a sequence of events.
LEMMA EventsInSequence ==
    ASSUME NEW type \in {"job", "cancel"}, NEW S \in SUBSET Jobs
    PROVE  SetToSeq({[type |-> type, job |-> j] : j \in S}) \in Seq(Events)
<1> DEFINE T == {[type |-> type, job |-> j] : j \in S}
           f == [j \in S |-> [type |-> type, job |-> j]]
<1>1. IsFiniteSet(S)
    BY JobsAssumption, FS_Subset
<1>2. f \in Surjection(S, T)
    BY DEF Surjection
<1>3. IsFiniteSet(T)
    BY <1>1, <1>2, FS_Surjection
<1>4. Cardinality(T) \in Nat /\ ExistsBijection(1..Cardinality(T), T)
    BY <1>3, FS_CardinalityType
<1>5. PICK g : g \in [1..Cardinality(T) -> T] /\ IsInjective(g)
    BY <1>4 DEF ExistsBijection, Bijection, Injection
<1>6. SetToSeq(T) \in [1..Cardinality(T) -> T]
    BY <1>5 DEF SetToSeq
<1>7. T \subseteq Events
    BY DEF Events
<1>8. SetToSeq(T) \in Seq(T)
    BY <1>4, <1>6, SeqDef
<1> QED BY <1>7, <1>8, SeqMonotonic

\* What the gateway sends keeps the events on their way a sequence of events.
LEMMA SendTyped ==
    ASSUME TravelsTyped, NEW type \in {"job", "cancel"}, NEW S \in SUBSET Jobs, Send(type, S)
    PROVE  inbox' \in Seq(Events)
<1> DEFINE new == SetToSeq({[type |-> type, job |-> j] : j \in S})
<1>1. new \in Seq(Events)
    BY EventsInSequence
<1>2. inbox \o new \in Seq(Events)
    BY <1>1, ConcatProperties DEF TravelsTyped
<1> QED BY <1>2 DEF Send, TravelsTyped

\* A request outlives its worker only if it was on its way.
LEMMA LateStep == SystemNext => late' \subseteq late \cup OnTheWay
<1> SUFFICES ASSUME SystemNext PROVE late' \subseteq late \cup OnTheWay
    OBVIOUS
<1> USE DEF netVars
<1>0. \A S : S \subseteq OnTheWay /\ Outlive(S) => late' \subseteq late \cup OnTheWay
    BY DEF Outlive
<1>1. CASE GatewayStep \/ BotStep \/ OtherComputers \/ OwnerStep
    BY <1>1 DEF GatewayStep, HandlerStep, TimerStep, TimeStep, CloseStep, BotStep, OtherComputers,
        OwnerStep, Sends, Cut, Quiet
<1>2. CASE StreamStep \/ ReportStep
    BY <1>2 DEF StreamStep, Open, Connected, Lose, Drop, DropUnread, Receive, ReceiveLate, Still, Quiet,
        ReportStep, SendReport, ReportHandled, ReportAnswered, ReportFailed
<1>3. CASE AppStep \/ Ends
    BY <1>0, <1>3 DEF AppStep, AppStart, Alone, Still, FindsUnlinked, DropBot, Ends
<1>4. ASSUME NEW j \in Jobs, CallStep(j) \/ CommandStep(j) PROVE late' \subseteq late \cup OnTheWay
    BY <1>0, <1>4 DEF CallStep, CallHandled, AnswerLost, Of, OwedHandled, OwedLost, CommandStep
<1>5. ASSUME NEW j \in Jobs, JobStep(j) PROVE late' \subseteq late \cup OnTheWay
    BY <1>0, <1>5 DEF JobStep, WorkerCallStep, GivesUp, Of, WorkerOwnStep
<1>6. ASSUME NEW r \in late, LateHandled(r) PROVE late' \subseteq late \cup OnTheWay
    BY <1>6 DEF LateHandled
<1> QED BY <1>1, <1>2, <1>3, <1>4, <1>5, <1>6 DEF SystemNext

\* Every step of the system does.
LEMMA TravelsStep == TravelsTyped /\ [SystemNext]_allVars => TravelsTyped'
<1> SUFFICES ASSUME TravelsTyped, [SystemNext]_allVars PROVE TravelsTyped'
    OBVIOUS
<1> USE DEF workerVars, netVars, TravelsTyped
<1>0. late' \subseteq Requests
    BY LateStep DEF OnTheWay, allVars
<1>1. CASE UNCHANGED allVars
    BY <1>1 DEF allVars
<1>2. CASE GatewayStep \/ BotStep
  <2>1. \/ UNCHANGED inbox
        \/ \E type \in {"job", "cancel"}, S \in SUBSET Jobs : Send(type, S)
    <3>1. \/ UNCHANGED inbox
          \/ Send("cancel", OnRunnerOf(doomed))
          \/ \E j \in Jobs : Send("job", {j}) \/ Send("cancel", OnRunnerOf({j}))
      BY <1>2 DEF GatewayStep, HandlerStep, TimerStep, TimeStep, CloseStep, BotStep, Sends,
          Cut, Quiet
    <3>2. \A S : OnRunnerOf(S) \in SUBSET Jobs
      BY DEF OnRunnerOf
    <3>3. \A j \in Jobs : {j} \in SUBSET Jobs
      OBVIOUS
    <3> QED BY <3>1, <3>2, <3>3
  <2>2. inbox' \in Seq(Events)
    BY <2>1, SendTyped
  <2> QED BY <1>0, <1>2, <2>2 DEF GatewayStep, HandlerStep, TimerStep, TimeStep, CloseStep, BotStep,
        Sends, Cut, Quiet
<1>3. CASE OtherComputers \/ OwnerStep
    BY <1>0, <1>3 DEF OtherComputers, OwnerStep, Quiet
<1>4. CASE StreamStep
  <2>1. inbox # <<>> => Tail(inbox) \in Seq(Events)
    BY HeadTailProperties
  <2> QED BY <1>0, <1>4, <2>1, EmptySeq DEF StreamStep, Open, Connected, Lose, Drop, DropUnread, Receive, ReceiveLate, Still,
        Quiet, W!Connect, W!Disconnect, W!HandleCancel, W!HandleJob, W!jobVars, W!reportVars
<1>5. CASE ReportStep
    BY <1>0, <1>5 DEF ReportStep, SendReport, ReportHandled, ReportAnswered, ReportFailed, MustStop,
        W!SendReport, W!ReportAnswered, W!ReportFailed, W!Held, W!jobVars
<1>6. CASE AppStep \/ Ends
    BY <1>0, <1>6, EmptySeq DEF AppStep, AppStart, Alone, Still, FindsUnlinked, DropBot, Ends, W!Boot, W!Started, W!TurnOn, W!TurnOff, W!Quit,
        W!RemoveBot, W!Exit, W!Crash, W!Down, W!jobVars, W!reportVars
<1>7. ASSUME NEW j \in Jobs, CallStep(j) \/ CommandStep(j) PROVE TravelsTyped'
    BY <1>0, <1>7 DEF CallStep, CallHandled, AnswerLost, OwedHandled, OwedLost, CommandStep,
        W!OwedDone, W!CommandStarts, W!CommandEnds, W!jobVars, W!reportVars
<1>8. ASSUME NEW j \in Jobs, JobStep(j) PROVE TravelsTyped'
  <2>1. CASE WorkerCallStep(j)
    BY <1>0, <1>8, <2>1 DEF JobStep, WorkerCallStep, W!AcceptOk, W!AcceptFailed, W!Progressed,
        W!Finished, W!Fails, W!Stopped, W!Returns, W!jobVars, W!reportVars
  <2>2. CASE WorkerOwnStep(j)
    BY <1>0, <1>8, <2>2 DEF JobStep, WorkerOwnStep, W!Fails, W!Stopped, W!Returns, W!Written,
        W!Uploaded, W!Removed, W!Cleared, W!jobVars, W!reportVars
  <2> QED BY <1>8, <2>1, <2>2 DEF JobStep
<1>9. ASSUME NEW r \in late, LateHandled(r) PROVE TravelsTyped'
    BY <1>0, <1>9 DEF LateHandled
<1> QED BY <1>1, <1>2, <1>3, <1>4, <1>5, <1>6, <1>7, <1>8, <1>9 DEF SystemNext

\* What is shown of the broker alone holds of the gateway of the system: each step
\* of the system is a step of the broker, or none of the gateway's.
THEOREM GatewayIsBroker == SystemSpec => ImplementsBroker
<1>1. SystemInit => Init /\ TravelsTyped
    BY DEF SystemInit, W!Init, TravelsTyped
<1>2. TravelsTyped /\ [SystemNext]_allVars => [Next]_vars
    BY BrokerMoves DEF allVars
<1> QED BY <1>1, <1>2, TravelsStep, PTL DEF SystemSpec, ImplementsBroker, Spec

\* Every step of the system is a step of the worker, or none of its own.
LEMMA WorkerMoves == TravelsTyped /\ SystemNext => [W!Next]_W!workerVars
<1> SUFFICES ASSUME TravelsTyped, SystemNext PROVE [W!Next]_W!workerVars
    OBVIOUS
<1> USE DEF workerVars, W!workerVars, W!Next
<1>1. CASE GatewayStep \/ BotStep \/ OtherComputers \/ OwnerStep
    BY <1>1 DEF GatewayStep, HandlerStep, TimerStep, TimeStep, CloseStep, BotStep, OtherComputers,
        OwnerStep, Sends, Cut, Quiet
<1>2. CASE Receive
  <2>1. Head(inbox) \in Events
    BY <1>2, HeadTailProperties DEF Receive, TravelsTyped
  <2>2. Head(inbox).job \in Jobs
    BY <2>1 DEF Events
  <2> QED BY <1>2, <2>2 DEF Receive
<1>3. CASE StreamStep /\ ~Receive
    BY <1>3 DEF StreamStep, Open, Connected, Lose, Drop, DropUnread, ReceiveLate, Quiet, W!AppStep
<1>4. CASE ReportStep
    BY <1>4 DEF ReportStep, SendReport, ReportHandled, ReportAnswered, ReportFailed, TravelsTyped,
        W!ReportStep
<1>5. CASE AppStep \/ Ends
    BY <1>5 DEF AppStep, AppStart, FindsUnlinked, DropBot, Ends, W!AppStep
<1>6. ASSUME NEW j \in Jobs, CallStep(j) \/ CommandStep(j) \/ JobStep(j)
      PROVE  [W!Next]_W!workerVars
    BY <1>6 DEF CallStep, CallHandled, AnswerLost, OwedHandled, OwedLost, CommandStep, JobStep,
        WorkerCallStep, WorkerOwnStep, W!JobStep
<1>7. ASSUME NEW r \in late, LateHandled(r) PROVE [W!Next]_W!workerVars
    BY <1>7 DEF LateHandled
<1> QED BY <1>1, <1>2, <1>3, <1>4, <1>5, <1>6, <1>7 DEF SystemNext

\* What is shown of the worker alone, whatever the server answers it, holds of the
\* computer of the system.
THEOREM ComputerIsWorker == SystemSpec => ImplementsWorker
<1>1. SystemInit => W!Init /\ TravelsTyped
    BY DEF SystemInit, W!Init, TravelsTyped
<1>2. TravelsTyped /\ [SystemNext]_allVars => [W!Next]_W!workerVars
    BY WorkerMoves DEF allVars, workerVars, W!workerVars
<1> QED BY <1>1, <1>2, TravelsStep, PTL DEF SystemSpec, ImplementsWorker, W!Spec

-----------------------------------------------------------------------------
(* The gateway's side: what is settled, and where success comes from.       *)

\* The gateway has let j run: on Runner if it still runs.
Settled(j) ==
    /\ state[j] \in OnRunner \cup Final \cup {"gone"}
    /\ state[j] \in OnRunner => on[j] = Runner

\* A deleted row never comes back: ids are not used again.
LEMMA GoneStays ==
    ASSUME IInv, [Next]_vars, NEW i \in Jobs, state[i] = "gone"
    PROVE  state'[i] = "gone"
<1> USE DEF IInv
<1>1. CASE UNCHANGED state
    BY <1>1
<1>2. ASSUME NEW d \in Devices, DeviceNext(d) PROVE state'[i] = "gone"
  <2>1. CASE \E offers \in Offers, capable \in BOOLEAN, held \in SUBSET JobsOn(d) :
                Report(d, offers, capable, held)
    BY <2>1 DEF Report, NoLongerHeld, OnRunner, EndJobs
  <2>2. CASE \E b \in Bots : LinkDevice(b, d) \/ UnlinkDevice(b, d)
    BY <2>2 DEF LinkDevice, UnlinkDevice, rows
  <2>3. CASE \/ MarkRevoked(d) \/ RevokeDevice(d) \/ OpenStream(d) \/ DropStream(d)
             \/ CloseEvent(d)
    BY <2>3 DEF MarkRevoked, RevokeDevice, OpenStream, DropStream, CloseEvent, rows
  <2> QED BY <1>2, <2>1, <2>2, <2>3 DEF DeviceNext
<1>3. ASSUME NEW j \in Jobs, JobNext(j) PROVE state'[i] = "gone"
  <2>1. CASE \E r \in 0..MaxMint : Submit(j, r)
    BY <2>1 DEF Submit, TypeOK
  <2>2. CASE CancelQueued(j) \/ CancelAssigned(j) \/ CancelRunning(j)
    BY <2>2 DEF CancelQueued, CancelAssigned, CancelRunning, EndJobs
  <2>3. CASE \E d \in Devices : Accept(j, d) \/ Progress(j, d)
    BY <2>3 DEF Accept, Progress, TypeOK
  <2>4. CASE \E d \in Devices, ok \in BOOLEAN : Finish(j, d, ok)
    BY <2>4 DEF Finish, EndJobs, OnRunner
  <2> QED BY <1>3, <2>1, <2>2, <2>3, <2>4 DEF JobNext
<1>4. CASE GatewayNext
  <2>1. CASE \E b \in Bots : BotPurged(b)
    BY <2>1 DEF BotPurged, EndJobs, All
  <2>2. CASE EndDropped
    BY <2>2 DEF EndDropped, EndJobs, Bookkeeping, Unfinal, Active
  <2>3. CASE ScheduleStep
    BY <2>3 DEF ScheduleStep, PassOver, Assign, AssignUnsent, Oldest, Bookkeeping, Queued, TypeOK, rows
  <2>4. CASE \E forgot \in SUBSET Old : Tick(forgot)
    BY <2>4 DEF Tick, Unaccepted, Overstayed, LostJobs, Expired, Queued, Unfinal, Active
  <2>5. CASE TimePasses \/ Restart
    BY <2>5 DEF TimePasses, Restart, Start
  <2> QED BY <1>4, <2>1, <2>2, <2>3, <2>4, <2>5 DEF GatewayNext
<1> QED BY <1>1, <1>2, <1>3, <1>4 DEF Next, vars

\* No step of the gateway unsettles a job.
LEMMA SettledStays ==
    ASSUME IInv, [Next]_vars, NEW i \in Jobs, Settled(i)
    PROVE  Settled(i)'
<1>1. StaysTaken(i)
    BY OnceStep
<1>2. state[i] = "gone" => state'[i] = "gone"
    BY GoneStays
<1> QED BY <1>1, <1>2 DEF Settled, StaysTaken, OnRunner, Final

Success(i) == state[i] = "succeeded" /\ on[i] = Runner

\* The gateway's own steps, and what bots and the owner do, end no job well.
LEMMA GatewayEndsBadly ==
    ASSUME IInv, NEW i \in Jobs, GatewayStep \/ BotStep \/ OwnerStep, Success(i)'
    PROVE  Success(i)
<1> USE DEF IInv, Success
<1>1. CASE HandlerStep
  <2>1. CASE EndDropped
    BY <2>1 DEF EndDropped, EndJobs
  <2>2. CASE \E j \in Jobs : PassOver(j) \/ Assign(j, Runner) \/ AssignUnsent(j, Runner)
    BY <2>2 DEF PassOver, Assign, AssignUnsent, TypeOK, rows
  <2> QED BY <1>1, <2>1, <2>2 DEF HandlerStep
<1>2. CASE TimerStep
    BY <1>2 DEF TimerStep, Tick
<1>3. CASE TimeStep \/ CloseStep \/ Restart
    BY <1>3 DEF TimeStep, CloseStep, TimePasses, CloseEvent, Restart, Start, TypeOK, rows
<1>4. CASE BotStep
  <2>1. CASE \E j \in Jobs, r \in 0..MaxMint : Submit(j, r)
    <3>1. PICK j \in Jobs : state' = [state EXCEPT ![j] = "queued"] /\ on' = on
      BY <2>1 DEF Submit
    <3> QED BY <3>1 DEF TypeOK
  <2>2. CASE \E j \in Jobs : CancelQueued(j) \/ CancelAssigned(j) \/ CancelRunning(j)
    BY <2>2 DEF CancelQueued, CancelAssigned, CancelRunning, EndJobs, All
  <2> QED BY <1>4, <2>1, <2>2 DEF BotStep
<1>5. CASE OwnerStep
  <2>1. CASE \E b \in Bots : LinkDevice(b, Runner) \/ UnlinkDevice(b, Runner)
    BY <2>1 DEF LinkDevice, UnlinkDevice, rows
  <2>2. CASE \E b \in Bots : BotPurged(b)
    BY <2>2 DEF BotPurged, EndJobs, All, DeleteRows
  <2> QED BY <1>5, <2>1, <2>2 DEF OwnerStep
<1> QED BY <1>1, <1>2, <1>3, <1>4, <1>5 DEF GatewayStep

\* Another computer ends only its own jobs.
LEMMA OthersEndTheirOwn ==
    ASSUME IInv, NEW i \in Jobs, OtherComputers, Success(i)'
    PROVE  Success(i)
<1> USE DEF IInv, Success
<1>1. PICK d \in Devices \ {Runner} :
        \/ \E b \in Bots : LinkDevice(b, d) \/ UnlinkDevice(b, d)
        \/ OpenStream(d) \/ CloseEvent(d) \/ RevokeDevice(d) \/ DropStream(d) \/ MarkRevoked(d)
        \/ \E offers \in Offers, capable \in BOOLEAN, held \in SUBSET JobsOn(d) :
              Report(d, offers, capable, held)
        \/ \E j \in Jobs : \/ Assign(j, d) \/ AssignUnsent(j, d)
                           \/ Accept(j, d) \/ Progress(j, d)
                           \/ \E ok \in BOOLEAN : Finish(j, d, ok)
    BY DEF OtherComputers
<1>2. CASE \/ \E b \in Bots : LinkDevice(b, d) \/ UnlinkDevice(b, d)
           \/ OpenStream(d) \/ CloseEvent(d) \/ RevokeDevice(d) \/ DropStream(d)
           \/ MarkRevoked(d)
    BY <1>2 DEF LinkDevice, UnlinkDevice, OpenStream, CloseEvent, RevokeDevice, DropStream,
        MarkRevoked, rows
<1>3. CASE \E offers \in Offers, capable \in BOOLEAN, held \in SUBSET JobsOn(d) :
              Report(d, offers, capable, held)
    BY <1>3 DEF Report, EndJobs, All
<1>4. ASSUME NEW j \in Jobs, Assign(j, d) \/ AssignUnsent(j, d) \/ Accept(j, d) \/ Progress(j, d)
      PROVE  Success(i)
    BY <1>4 DEF Assign, AssignUnsent, Accept, Progress, TypeOK, rows
<1>5. ASSUME NEW j \in Jobs, NEW ok \in BOOLEAN, Finish(j, d, ok) PROVE Success(i)
    BY <1>5 DEF Finish, Owned, EndJobs
<1> QED BY <1>1, <1>2, <1>3, <1>4, <1>5

\* Runner's calls end a job well only with the result of a command.
LEMMA CallsEndWell ==
    ASSUME IInv, NEW i \in Jobs, NEW j \in Jobs, CallStep(j), Success(i)'
    PROVE  Success(i) \/ outcome[i] = "zero"
<1> USE DEF IInv, Success
<1>1. CASE AcceptHandled(j) \/ ProgressHandled(j)
    BY <1>1 DEF AcceptHandled, ProgressHandled, Refused, Accept, Progress, TypeOK, vars
<1>2. CASE FinishHandled(j)
    BY <1>2 DEF FinishHandled, Refused, Finish, FinishedAs, EndJobs, All, vars
<1>3. CASE OwedHandled(j)
    BY <1>3 DEF OwedHandled, Finish, FinishedAs, EndJobs, All, vars
<1>4. CASE AnswerLost(j) \/ OwedLost(j)
    BY <1>4 DEF AnswerLost, OwedLost, vars
<1> QED BY <1>1, <1>2, <1>3, <1>4 DEF CallStep, CallHandled

\* So does a request that nobody waits for.
LEMMA LateEndsWell ==
    ASSUME IInv, NEW i \in Jobs, NEW r \in Requests, LateHandled(r), Success(i)'
    PROVE  Success(i) \/ (r.job = i /\ r.zero)
<1> USE DEF IInv, Success
<1>1. CASE Accept(r.job, Runner) \/ Progress(r.job, Runner)
    BY <1>1 DEF Accept, Progress, TypeOK
<1>2. CASE Finish(r.job, Runner, r.zero)
    BY <1>2 DEF Finish, FinishedAs, EndJobs, All
<1>3. CASE UNCHANGED vars
    BY <1>3 DEF vars
<1> QED BY <1>1, <1>2, <1>3 DEF LateHandled

\* A command that exited with zero, of whose job the gateway may still hear.
ZeroOnTheWay(i) == \/ outcome[i] = "zero"
                   \/ \E r \in late : r.job = i /\ r.zero

\* So does everything that happens between the two.
LEMMA SuccessComesFromZero ==
    ASSUME IInv, TravelsTyped, SystemNext, NEW i \in Jobs, Success(i)'
    PROVE  Success(i) \/ (ZeroOnTheWay(i) /\ UNCHANGED ran)
<1> USE DEF Success
<1>1. CASE GatewayStep \/ BotStep \/ OwnerStep
    BY <1>1, GatewayEndsBadly
<1>2. CASE OtherComputers
    BY <1>2, OthersEndTheirOwn
<1>3. CASE StreamStep
    BY <1>3 DEF StreamStep, Open, Connected, Lose, Drop, DropUnread, Receive, ReceiveLate, Still,
        OpenStream, DropStream, vars, rows
<1>4. CASE ReportStep
  <2>1. CASE ReportHandled
    BY <2>1 DEF ReportHandled, Report, EndJobs, All
  <2> QED BY <1>4, <2>1 DEF ReportStep, SendReport, ReportAnswered, ReportFailed, vars
<1>5. CASE AppStep \/ Ends
    BY <1>5 DEF AppStep, AppStart, Alone, Still, FindsUnlinked, DropBot, Ends, vars
<1>6. ASSUME NEW j \in Jobs, CallStep(j) PROVE Success(i) \/ (ZeroOnTheWay(i) /\ UNCHANGED ran)
    BY <1>6, CallsEndWell DEF CallStep, CallHandled, AnswerLost, OwedHandled, OwedLost, ZeroOnTheWay
<1>7. ASSUME NEW j \in Jobs, CommandStep(j) \/ JobStep(j) PROVE Success(i)
    BY <1>7 DEF CommandStep, JobStep, vars
<1>8. ASSUME NEW r \in late, LateHandled(r) PROVE Success(i) \/ (ZeroOnTheWay(i) /\ UNCHANGED ran)
    BY <1>8, LateEndsWell DEF TravelsTyped, ZeroOnTheWay, LateHandled
<1> QED BY <1>1, <1>2, <1>3, <1>4, <1>5, <1>6, <1>7, <1>8 DEF SystemNext
-----------------------------------------------------------------------------
(* Types of the network and of the jobs the computer holds.                *)

JobsTyped == run \in [Jobs -> W!Phases] /\ outcome \in [Jobs -> W!Outcomes]

LEMMA JobsTypedStep == JobsTyped /\ [W!Next]_W!workerVars => JobsTyped'
<1> SUFFICES ASSUME JobsTyped, [W!Next]_W!workerVars PROVE JobsTyped'
    OBVIOUS
<1> USE DEF JobsTyped, W!jobVars, W!Phases, W!Accepted, W!Outcomes, W!Exits
<1>1. CASE UNCHANGED W!workerVars
    BY <1>1 DEF W!workerVars
<1>2. CASE W!AppStep
    BY <1>2 DEF W!AppStep, W!Boot, W!Started, W!TurnOn, W!TurnOff, W!Quit, W!Exit, W!Crash, W!Down,
        W!Connect, W!Disconnect, W!RemoveBot
<1>3. CASE W!ReportStep
    BY <1>3 DEF W!ReportStep, W!SendReport, W!ReportFailed, W!ReportAnswered
<1>4. ASSUME NEW j \in Jobs, W!OwedDone(j) \/ W!HandleJob(j) \/ W!HandleCancel(j) PROVE JobsTyped'
    BY <1>4 DEF W!OwedDone, W!HandleJob, W!HandleCancel
<1>5. ASSUME NEW j \in Jobs, W!JobStep(j) PROVE JobsTyped'
  <2>1. CASE W!Written(j) \/ W!AcceptOk(j) \/ W!AcceptFailed(j) \/ W!CommandStarts(j) \/ W!Progressed(j)
    BY <2>1 DEF W!Written, W!AcceptOk, W!AcceptFailed, W!CommandStarts, W!Progressed
  <2>2. CASE \E exit \in W!Exits : W!CommandEnds(j, exit)
    BY <2>2 DEF W!CommandEnds
  <2>3. CASE W!Uploaded(j) \/ W!Stopped(j) \/ W!Fails(j)
    BY <2>3 DEF W!Uploaded, W!Stopped, W!Fails, W!Returns
  <2>4. CASE W!Finished(j) \/ W!Removed(j) \/ W!Cleared(j)
    BY <2>4 DEF W!Finished, W!Removed, W!Cleared
  <2> QED BY <1>5, <2>1, <2>2, <2>3, <2>4 DEF W!JobStep
<1> QED BY <1>1, <1>2, <1>3, <1>4, <1>5 DEF W!Next

\* Troubles are counted up to their bound.
LEMMA TroublesBounded ==
    ASSUME troubles \in 0..MaxTroubles, SystemNext
    PROVE  troubles' \in 0..MaxTroubles
<1>1. ASSUME NEW kind, Trouble(kind) PROVE troubles' \in 0..MaxTroubles
    BY <1>1, SystemAssumption DEF Trouble
<1>2. CASE GatewayStep \/ OtherComputers \/ BotStep \/ OwnerStep
    BY <1>1, <1>2 DEF GatewayStep, HandlerStep, TimerStep, TimeStep, CloseStep, OtherComputers,
        BotStep, OwnerStep, Smoothly
<1>3. CASE StreamStep \/ ReportStep
    BY <1>1, <1>3 DEF StreamStep, Open, Connected, Lose, Drop, DropUnread, Receive, ReceiveLate,
        ReportStep, SendReport, ReportHandled, ReportAnswered, ReportFailed, Smoothly
<1>4. CASE AppStep \/ Ends
    BY <1>1, <1>4 DEF AppStep, AppStart, Ends, Smoothly
<1>7. ASSUME NEW r \in late, LateHandled(r) PROVE troubles' \in 0..MaxTroubles
    BY <1>7 DEF LateHandled
<1>5. ASSUME NEW j \in Jobs, CallStep(j) \/ CommandStep(j) PROVE troubles' \in 0..MaxTroubles
    BY <1>1, <1>5 DEF CallStep, CallHandled, AnswerLost, OwedHandled, OwedLost, CommandStep
<1>6. ASSUME NEW j \in Jobs, JobStep(j) PROVE troubles' \in 0..MaxTroubles
  <2>1. Smoothly \/ \E kind \in TroubleKinds : Trouble(kind)
    BY <1>6 DEF JobStep, WorkerCallStep, GivesUp, WorkerOwnStep, TroubleKinds
  <2> QED BY <1>1, <2>1 DEF Smoothly
<1> QED BY <1>2, <1>3, <1>4, <1>5, <1>6, <1>7 DEF SystemNext

\* At most MaxInbox events are on their way.
LEMMA InboxBounded ==
    ASSUME inbox \in Seq(Events), Len(inbox) <= MaxInbox, SystemNext
    PROVE  Len(inbox') <= MaxInbox
<1>1. inbox' = <<>> => Len(inbox') <= MaxInbox
    BY SystemAssumption
<1>2. inbox # <<>> /\ inbox' = Tail(inbox) => Len(inbox') <= MaxInbox
    BY HeadTailProperties, LenProperties, SystemAssumption
<1>3. CASE GatewayStep \/ OtherComputers \/ BotStep \/ OwnerStep
    BY <1>3 DEF GatewayStep, HandlerStep, TimerStep, TimeStep, CloseStep, OtherComputers, BotStep,
        OwnerStep, Sends, Send, Cut, Quiet, netVars
<1>4. CASE StreamStep
    BY <1>1, <1>2, <1>4 DEF StreamStep, Open, Connected, Lose, Drop, DropUnread, Receive, ReceiveLate,
        Quiet, netVars
<1>5. CASE ReportStep
    BY <1>5 DEF ReportStep, SendReport, ReportHandled, ReportAnswered, ReportFailed, netVars
<1>6. CASE AppStep \/ Ends
    BY <1>1, <1>6 DEF AppStep, AppStart, Alone, FindsUnlinked, DropBot, Ends, netVars
<1>8. ASSUME NEW r \in late, LateHandled(r) PROVE UNCHANGED inbox
    BY <1>8 DEF LateHandled
<1>7. ASSUME NEW j \in Jobs, CallStep(j) \/ CommandStep(j) \/ JobStep(j) PROVE UNCHANGED inbox
    BY <1>7 DEF CallStep, CallHandled, AnswerLost, OwedHandled, OwedLost, CommandStep, JobStep, netVars
<1> QED BY <1>3, <1>4, <1>5, <1>6, <1>7, <1>8 DEF SystemNext

LEMMA SystemTypeStep ==
    ASSUME SystemTypeOK, TravelsTyped, TravelsTyped', SystemNext
    PROVE  SystemTypeOK'
<1>1. /\ troubles' \in 0..MaxTroubles /\ inbox' \in Seq(Events) /\ Len(inbox') <= MaxInbox
      /\ late' \subseteq Requests
    BY TroublesBounded, InboxBounded DEF SystemTypeOK, TravelsTyped
<1> DEFINE Rest == /\ attached \in Streams
                   /\ call \in [Jobs -> Answers]
                   /\ answer = {} \/ \E S \in SUBSET Jobs : answer = {S}
                   /\ unlinked \subseteq Bots
                   /\ ran \in [Jobs -> Commands]
<1> SUFFICES Rest'
    BY <1>1 DEF SystemTypeOK
<1>2. Rest
    BY DEF SystemTypeOK
<1> HIDE DEF Rest
<1>3. CASE GatewayStep \/ OtherComputers \/ BotStep \/ OwnerStep
    BY <1>2, <1>3 DEF Rest, GatewayStep, HandlerStep, TimerStep, TimeStep, CloseStep, OtherComputers,
        BotStep, OwnerStep, Sends, Cut, Quiet, netVars, Streams
<1>4. CASE StreamStep
    BY <1>2, <1>4 DEF Rest, StreamStep, Open, Connected, Lose, Drop, DropUnread, Receive, ReceiveLate,
        Still, Quiet, netVars, Streams
<1>5. CASE ReportStep
  <2>1. CASE ReportHandled
    <3>1. PICK r \in sent : answer' = {MustStop(r.jobs)}
      BY <2>1 DEF ReportHandled
    <3>2. MustStop(r.jobs) \in SUBSET Jobs
      BY <3>1 DEF MustStop, TravelsTyped
    <3> QED BY <1>2, <2>1, <3>1, <3>2 DEF Rest, ReportHandled
  <2> QED BY <1>2, <1>5, <2>1 DEF Rest, ReportStep, SendReport, ReportAnswered, ReportFailed, netVars
<1>6. CASE AppStep \/ Ends
    BY <1>2, <1>6 DEF Rest, AppStep, AppStart, Alone, Still, FindsUnlinked, DropBot, Ends, netVars,
        Streams, Answers
<1>7. ASSUME NEW j \in Jobs, CallStep(j) PROVE Rest'
    BY <1>2, <1>7 DEF Rest, CallStep, CallHandled, AcceptHandled, ProgressHandled, FinishHandled,
        Refused, Answered, AnswerLost, OwedHandled, OwedLost, netVars, Answers
<1>8. ASSUME NEW j \in Jobs, CommandStep(j) PROVE Rest'
    BY <1>2, <1>8 DEF Rest, CommandStep, Ran, netVars, Commands, W!Exits
<1>9. ASSUME NEW j \in Jobs, JobStep(j) PROVE Rest'
    BY <1>2, <1>9 DEF Rest, JobStep, WorkerCallStep, OnAnswer, GivesUp, Answered, WorkerOwnStep, Answers
<1>10. ASSUME NEW r \in late, LateHandled(r) PROVE Rest'
    BY <1>2, <1>10 DEF Rest, LateHandled
<1> QED BY <1>3, <1>4, <1>5, <1>6, <1>7, <1>8, <1>9, <1>10 DEF SystemNext

-----------------------------------------------------------------------------
(* A job on its way through the network.                                   *)

\* An answer waits only for a call.  A yes to accept comes before the command, and
\* the job is settled from then on, whatever becomes of the computer.  A result on
\* its way is that of its command, also one that nobody waits for.
Followed(j) ==
    /\ call[j] # "none" => run[j] \in Calling
    /\ run[j] = "accepting" /\ call[j] = "ok" => Settled(j) /\ ran[j] = "no"
    /\ run[j] = "preparing" => Settled(j) /\ ran[j] = "no"
    /\ run[j] = "running" => ran[j] = "started"
    /\ ran[j] # "no" => Settled(j)
    /\ ZeroOnTheWay(j) => ran[j] = "zero"
    /\ Success(j) => ran[j] = "zero"

\* What is on its way when its worker lets go of it is as it was sent.
LEMMA ZeroLeaves ==
    ASSUME SystemNext, NEW i \in Jobs, outcome'[i] = "zero" => outcome[i] = "zero"
    PROVE  ZeroOnTheWay(i)' => ZeroOnTheWay(i)
<1>1. \A r \in late' : r.zero => r \in late \/ outcome[r.job] = "zero"
    BY LateStep DEF OnTheWay
<1> QED BY <1>1 DEF ZeroOnTheWay

\* A step that moves neither the jobs nor the calls of the computer keeps this.
LEMMA FollowedAlone ==
    ASSUME IInv, TravelsTyped, [Next]_vars, SystemNext, NEW i \in Jobs, Followed(i),
           UNCHANGED <<run, outcome, ran, call>>
    PROVE  Followed(i)'
<1>1. Settled(i) => Settled(i)'
    BY SettledStays
<1>2. Success(i)' => Success(i) \/ ZeroOnTheWay(i)
    BY SuccessComesFromZero
<1>3. ZeroOnTheWay(i)' => ZeroOnTheWay(i)
    BY ZeroLeaves
<1> QED BY <1>1, <1>2, <1>3 DEF Followed

LEMMA FollowedStep ==
    ASSUME IInv, [Next]_vars, SystemTypeOK, JobsTyped, TravelsTyped, SystemNext,
           \A j \in Jobs : Followed(j), NEW i \in Jobs
    PROVE  Followed(i)'
<1> USE DEF JobsTyped, SystemTypeOK
<1>1. Followed(i)
    OBVIOUS
<1>2. Settled(i) => Settled(i)'
    BY SettledStays
<1>3. Success(i)' => Success(i) \/ (ZeroOnTheWay(i) /\ UNCHANGED ran)
    BY SuccessComesFromZero
<1>0. (outcome'[i] = "zero" => outcome[i] = "zero") => (ZeroOnTheWay(i)' => ZeroOnTheWay(i))
    BY ZeroLeaves
<1>4. CASE UNCHANGED <<run, outcome, ran, call>>
    BY <1>1, <1>4, FollowedAlone
<1>5. CASE GatewayStep \/ OtherComputers \/ BotStep \/ OwnerStep
  <2>1. UNCHANGED <<run, outcome, ran, call>>
    BY <1>5 DEF GatewayStep, HandlerStep, TimerStep, TimeStep, CloseStep, OtherComputers, BotStep,
        OwnerStep, Sends, Cut, Quiet, netVars, workerVars
  <2> QED BY <1>4, <2>1
<1>6. CASE StreamStep
  <2>1. CASE Receive /\ ~UNCHANGED <<run, outcome, ran, call>>
    <3>1. PICK j : W!HandleJob(j) /\ UNCHANGED <<vars, ran, call>>
      BY <2>1 DEF Receive, W!HandleCancel, workerVars
    <3>2. UNCHANGED outcome /\ (run'[i] = run[i] \/ (run[i] = "none" /\ run'[i] = "writing"))
      BY <3>1 DEF W!HandleJob, W!TakesJob, W!Held
    <3>3. UNCHANGED <<Settled(i), Success(i)>>
      BY <3>1 DEF Settled, Success, vars
    <3> QED BY <1>0, <1>1, <3>1, <3>2, <3>3 DEF Followed, Calling
  <2>2. CASE ~Receive
    <3>1. UNCHANGED <<run, outcome, ran, call>>
      BY <1>6, <2>2 DEF StreamStep, Open, Connected, Lose, Drop, DropUnread, ReceiveLate, Still, Quiet,
          netVars, workerVars, W!Connect, W!Disconnect, W!jobVars
    <3> QED BY <1>4, <3>1
  <2> QED BY <1>4, <2>1, <2>2
<1>7. CASE ReportStep
  <2>1. UNCHANGED <<run, outcome, ran, call>>
    BY <1>7 DEF ReportStep, SendReport, ReportHandled, ReportAnswered, ReportFailed, netVars, workerVars,
        W!SendReport, W!ReportAnswered, W!ReportFailed, W!jobVars
  <2> QED BY <1>4, <2>1
<1>8. CASE AppStep
  <2>1. UNCHANGED <<run, outcome, ran, call>>
    BY <1>8 DEF AppStep, AppStart, Alone, Still, netVars, W!Boot, W!Started, W!TurnOff, W!TurnOn, W!Quit,
        FindsUnlinked, DropBot, W!RemoveBot, W!jobVars, workerVars
  <2> QED BY <1>4, <2>1
<1>9. CASE Ends
  <2>1. run'[i] = "none" /\ outcome'[i] = "none" /\ call'[i] = "none" /\ UNCHANGED <<vars, ran>>
    BY <1>9 DEF Ends, W!Exit, W!Crash, W!Down
  <2>2. UNCHANGED <<Settled(i), Success(i)>>
    BY <2>1 DEF Settled, Success, vars
  <2> QED BY <1>0, <1>1, <2>1, <2>2 DEF Followed
<1>10. ASSUME NEW j \in Jobs, CallStep(j) PROVE Followed(i)'
  <2>1. UNCHANGED <<run, outcome, ran>>
    BY <1>10 DEF CallStep, CallHandled, AnswerLost, OwedHandled, OwedLost, W!OwedDone, W!jobVars,
        workerVars, netVars
  <2>2. CASE AcceptHandled(j) /\ call'[j] = "ok" /\ i = j
    <3>1. state[i] = "assigned" /\ Accept(i, Runner)
      BY <2>2 DEF AcceptHandled, Refused, Answered
    <3>2. Settled(i)'
      BY <3>1 DEF Accept, Owned, Settled, OnRunner, IInv, TypeOK, rows
    <3>3. ran[i] = "no"
      BY <1>1, <3>1 DEF Followed, Settled, OnRunner, Final
    <3> QED BY <1>0, <1>1, <1>2, <1>3, <2>1, <2>2, <3>2, <3>3 DEF Followed, AcceptHandled, Attempt, Calling
  <2>3. CASE ~(AcceptHandled(j) /\ call'[j] = "ok" /\ i = j)
    <3>1. \/ call'[i] = call[i]
          \/ call'[i] = "none"
          \/ run[i] \in Calling /\ (run[i] = "accepting" => call'[i] # "ok")
      BY <1>10, <2>3 DEF CallStep, CallHandled, AcceptHandled, ProgressHandled, FinishHandled, Attempt,
          Refused, Answered, AnswerLost, OwedHandled, OwedLost, netVars, Calling
    <3> QED BY <1>0, <1>1, <1>2, <1>3, <2>1, <3>1 DEF Followed
  <2> QED BY <2>2, <2>3
<1>11. ASSUME NEW j \in Jobs, CommandStep(j) PROVE Followed(i)'
  <2>1. UNCHANGED <<vars, call>>
    BY <1>11 DEF CommandStep, netVars
  <2>2. UNCHANGED <<Settled(i), Success(i)>>
    BY <2>1 DEF Settled, Success, vars
  <2>5. UNCHANGED late
    BY <1>11 DEF CommandStep, netVars
  <2>3. CASE W!CommandStarts(j) /\ Ran(j, "started")
    BY <1>1, <2>1, <2>2, <2>3, <2>5 DEF W!CommandStarts, Ran, Followed, Calling, ZeroOnTheWay
  <2>4. ASSUME NEW exit \in W!Exits, W!CommandEnds(j, exit), Ran(j, exit) PROVE Followed(i)'
    BY <1>1, <2>1, <2>2, <2>4, <2>5 DEF W!CommandEnds, W!Exits, Ran, Followed, Calling, ZeroOnTheWay
  <2> QED BY <1>11, <2>3, <2>4 DEF CommandStep
<1>12. ASSUME NEW j \in Jobs, JobStep(j) PROVE Followed(i)'
  <2>1. UNCHANGED <<vars, ran>>
    BY <1>12 DEF JobStep
  <2>2. UNCHANGED <<Settled(i), Success(i)>>
    BY <2>1 DEF Settled, Success, vars
  <2>3. CASE WorkerCallStep(j)
    BY <1>0, <1>1, <2>1, <2>2, <2>3 DEF WorkerCallStep, OnAnswer, GivesUp, Answered, W!AcceptOk, W!AcceptFailed,
        W!Progressed, W!Finished, W!Fails, W!Stopped, W!Returns, Followed, Calling
  <2>4. CASE WorkerOwnStep(j)
    BY <1>0, <1>1, <2>1, <2>2, <2>4 DEF WorkerOwnStep, W!Written, W!Uploaded, W!Removed, W!Cleared, W!Stopped,
        W!Fails, W!Returns, W!jobVars, Followed, Calling
  <2> QED BY <1>12, <2>3, <2>4 DEF JobStep
<1>13. ASSUME NEW r \in late, LateHandled(r) PROVE Followed(i)'
  <2>1. UNCHANGED <<run, outcome, ran, call>>
    BY <1>13 DEF LateHandled, workerVars
  <2> QED BY <1>4, <2>1
<1> QED BY <1>5, <1>6, <1>7, <1>8, <1>9, <1>10, <1>11, <1>12, <1>13 DEF SystemNext

-----------------------------------------------------------------------------
(* Theorems.                                                               *)

SystemInv ==
    /\ IInv
    /\ SystemTypeOK /\ TravelsTyped /\ JobsTyped
    /\ \A j \in Jobs : Followed(j)

LEMMA SystemInvInit == SystemInit => SystemInv
<1> SUFFICES ASSUME SystemInit PROVE SystemInv
    OBVIOUS
<1>1. IInv
    BY InitInv DEF SystemInit
<1>2. SystemTypeOK /\ TravelsTyped /\ JobsTyped
    BY SystemAssumption, EmptySeq DEF SystemInit, SystemTypeOK, Streams, Answers, Commands, TravelsTyped,
        JobsTyped, W!Init, W!Phases, W!Outcomes
<1>3. \A j \in Jobs : Followed(j)
    BY DEF SystemInit, W!Init, Init, Followed, ZeroOnTheWay, Success
<1> QED BY <1>1, <1>2, <1>3 DEF SystemInv

LEMMA SystemInvStep == SystemInv /\ [SystemNext]_allVars => SystemInv'
<1> SUFFICES ASSUME SystemInv, [SystemNext]_allVars PROVE SystemInv'
    OBVIOUS
<1>1. CASE UNCHANGED allVars
  <2>1. UNCHANGED vars
    BY <1>1 DEF allVars
  <2>2. IInv'
    BY <2>1, InvStep DEF SystemInv
  <2>3. (SystemTypeOK /\ TravelsTyped /\ JobsTyped)'
    BY <1>1 DEF SystemInv, allVars, workerVars, netVars, SystemTypeOK, TravelsTyped, JobsTyped
  <2>4. ASSUME NEW i \in Jobs PROVE Followed(i)'
    <3>1. UNCHANGED <<Settled(i), Success(i)>>
      BY <2>1 DEF Settled, Success, vars
    <3> QED BY <1>1, <3>1 DEF SystemInv, allVars, workerVars, netVars, Followed, ZeroOnTheWay
  <2> QED BY <2>2, <2>3, <2>4 DEF SystemInv
<1>2. CASE SystemNext
  <2>1. [Next]_vars
    BY <1>2, BrokerMoves DEF SystemInv
  <2>2. IInv'
    BY <2>1, InvStep DEF SystemInv
  <2>3. TravelsTyped' /\ JobsTyped'
    BY <1>2, TravelsStep, WorkerMoves, JobsTypedStep DEF SystemInv
  <2>4. SystemTypeOK'
    BY <1>2, <2>3, SystemTypeStep DEF SystemInv
  <2>5. \A i \in Jobs : Followed(i)'
    BY <1>2, <2>1, FollowedStep DEF SystemInv
  <2> QED BY <2>2, <2>3, <2>4, <2>5 DEF SystemInv
<1> QED BY <1>1, <1>2

LEMMA SystemInvariance == SystemSpec => []SystemInv
    BY SystemInvInit, SystemInvStep, PTL DEF SystemSpec

\* Every event, call, answer and report between the two is well typed and bounded.
THEOREM SystemTypes == SystemSpec => []SystemTypeOK
<1>1. SystemInv => SystemTypeOK
    BY DEF SystemInv
<1> QED BY <1>1, SystemInvariance, PTL

\* However often a call is made again, a job comes back or either side restarts,
\* no computer starts the command of a job twice.
THEOREM StartsOnce == SystemSpec => CommandStartsOnce
<1>1. SystemInv => [\A j \in Jobs : run[j] = "preparing" /\ run'[j] = "running"
                                    => ran[j] = "no"]_allVars
    BY DEF SystemInv, Followed
<1> QED BY <1>1, SystemInvariance, PTL DEF CommandStartsOnce

\* A job whose command ever started is never again one that waits for a computer.
THEOREM NeverWaitsAgain == SystemSpec => []StartedIsNotWaiting
<1>1. SystemInv => StartedIsNotWaiting
    BY DEF SystemInv, Followed, Settled, StartedIsNotWaiting, OnRunner, Final
<1> QED BY <1>1, SystemInvariance, PTL

\* Nor does any other computer ever have it.
THEOREM NoSecondComputer == SystemSpec => []OneComputer
<1>1. SystemInv => OneComputer
    BY DEF SystemInv, Followed, Settled, OneComputer, Active, OnRunner, Final
<1> QED BY <1>1, SystemInvariance, PTL

\* A job of the computer succeeds only if its command exited with zero.
THEOREM SuccessHappened == SystemSpec => []SuccessIsReal
<1>1. SystemInv => SuccessIsReal
    BY DEF SystemInv, Followed, Success, SuccessIsReal
<1> QED BY <1>1, SystemInvariance, PTL
=============================================================================
