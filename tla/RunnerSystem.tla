---------------------------- MODULE RunnerSystem ----------------------------
(***************************************************************************)
(* The broker (RunnerBroker) and the worker of one computer, Runner          *)
(* (RunnerWorker), over the network between them: the event stream that      *)
(* carries jobs and cancellations (bot-gateway events.ts, desktop            *)
(* fleet/client/events.ts) and the calls of runner/api.ts.  Other computers *)
(* stay as free as RunnerBroker leaves them.                               *)
(*                                                                         *)
(* A call is handled once by the gateway for each attempt; its answer may   *)
(* be lost, and the worker then calls again, or gives up.  An attempt that  *)
(* the worker no longer waits for may still be handled, later.              *)
(***************************************************************************)
EXTENDS RunnerBroker, Sequences, SequencesExt

CONSTANTS
    Runner,          \* the computer whose worker is modelled
    Slots,           \* its setting: jobs at once
    MaxInbox,        \* bound: events on their way
    MaxTroubles,     \* bound: troubles of the kinds in Troubles
    Troubles         \* the kinds a run explores

\* What may come between a job and its end: a stream that breaks, an answer that
\* is lost, a job or call that is out of time, a crash of the worker's app, a
\* restart of the gateway, a transfer or execution that fails, and what the
\* owner does.  "delayed": a request is handled though nobody waits for it any
\* more; it comes with another trouble and is not counted.
TroubleKinds == {"stream", "answer", "late", "crash", "restart", "failure",
                 "cancel", "unlink", "revoke", "purge", "switch", "quit", "delayed"}

ASSUME SystemAssumption ==
    /\ Runner \in Devices
    /\ Slots \in 1..MaxSlots
    /\ MaxInbox \in Nat /\ MaxTroubles \in Nat
    /\ Troubles \subseteq TroubleKinds

VARIABLES
    app, enabled, connected, run, outcome, cancelled, forgotten, clearing,
    disk, owed, due, sent, told,
    attached,   \* "newest": the worker's app reads the newest stream
    inbox,      \* the events on that stream it has not read
    call,       \* the attempt of each job's current call: its answer, if any
    answer,     \* the answer to the report in flight, as a set of at most one
    late,       \* the requests on their way that nobody waits for any more
    unlinked,   \* the bots the gateway told the app it is not linked to
    ran,        \* ghost: how far each job's command ever came
    troubles

W == INSTANCE RunnerWorker

workerVars == <<app, enabled, connected, run, outcome, cancelled, forgotten,
                clearing, disk, owed, due, sent, told>>
netVars == <<attached, inbox, call, answer, late, unlinked>>
allVars == <<vars, workerVars, netVars, ran, troubles>>

Streams == {"no", "newest", "stale"}
Answers == {"none", "ok", "refused"}
Commands == {"no", "started", "zero", "failed"}
Events == [type : {"job", "cancel"}, job : Jobs]
Calling == {"accepting", "progress", "finishing"}
Requests == [job : Jobs, phase : Calling, zero : BOOLEAN]

SystemTypeOK ==
    /\ attached \in Streams
    /\ inbox \in Seq(Events) /\ Len(inbox) <= MaxInbox
    /\ call \in [Jobs -> Answers]
    /\ answer = {} \/ \E S \in SUBSET Jobs : answer = {S}
    /\ late \subseteq Requests /\ unlinked \subseteq Bots
    /\ ran \in [Jobs -> Commands]
    /\ troubles \in 0..MaxTroubles

SystemInit ==
    /\ Init /\ W!Init
    /\ attached = "no" /\ inbox = <<>>
    /\ call = [j \in Jobs |-> "none"]
    /\ answer = {} /\ late = {} /\ unlinked = {}
    /\ ran = [j \in Jobs |-> "no"]
    /\ troubles = 0

Trouble(kind) == /\ kind \in Troubles /\ troubles < MaxTroubles
                 /\ troubles' = troubles + 1
Smoothly == UNCHANGED troubles

-----------------------------------------------------------------------------
(* Steps of the gateway that no call of Runner asked for.                  *)

Send_Unbounded(type, S) ==
    inbox' = IF attached = "newest"
             THEN inbox \o SetToSeq({[type |-> type, job |-> j] : j \in S})
             ELSE inbox

\* sendToRunner(): the event goes to the newest stream, whoever reads it.
Send(type, S) ==
    /\ inbox' = IF attached = "newest"
                THEN inbox \o SetToSeq({[type |-> type, job |-> j] : j \in S})
                ELSE inbox
    /\ Len(inbox') <= MaxInbox
Quiet == UNCHANGED <<workerVars, netVars, ran>>
Sends(type, S) ==
    /\ Send(type, S)
    /\ UNCHANGED <<workerVars, attached, call, answer, late, unlinked, ran>>

\* A stream the gateway destroys or leaves behind is read to its end.
Cut == /\ attached' = IF attached = "newest" THEN "stale" ELSE attached
       /\ UNCHANGED <<workerVars, inbox, call, answer, late, unlinked, ran>>

OnRunnerOf(S) == {j \in Jobs : j \in S /\ on[j] = Runner}

\* A started handler goes on: dropLink() and schedule().
HandlerStep ==
    /\ \/ EndDropped /\ Sends("cancel", OnRunnerOf(doomed))
       \/ \E j \in Jobs :
             \/ PassOver(j) /\ Quiet
             \/ Assign(j, Runner) /\ Sends("job", {j})
             \/ AssignUnsent(j, Runner) /\ Cut
    /\ Smoothly

TimerStep == (\E forgot \in SUBSET Old : Tick(forgot)) /\ Quiet /\ Smoothly
TimeStep == TimePasses /\ Quiet /\ Smoothly
CloseStep == CloseEvent(Runner) /\ Quiet /\ Smoothly

GatewayStep ==
    \/ HandlerStep \/ TimerStep \/ TimeStep \/ CloseStep
    \/ Restart /\ Cut /\ Trouble("restart")

OtherComputers ==
    /\ \E d \in Devices \ {Runner} :
          \/ /\ \/ \E b \in Bots : LinkDevice(b, d)
                \/ OpenStream(d) \/ CloseEvent(d) \/ RevokeDevice(d)
                \/ \E offers \in Offers, capable \in BOOLEAN, held \in SUBSET JobsOn(d) :
                      Report(d, offers, capable, held)
                \/ \E j \in Jobs :
                      \/ Assign(j, d) \/ AssignUnsent(j, d)
                      \/ Accept(j, d) \/ Progress(j, d)
                      \/ \E ok \in BOOLEAN : Finish(j, d, ok)
             /\ Smoothly
          \/ (\E b \in Bots : UnlinkDevice(b, d)) /\ Trouble("unlink")
          \/ DropStream(d) /\ Trouble("stream")
          \/ MarkRevoked(d) /\ Trouble("revoke")
    /\ Quiet

\* The bot submits its jobs; bot or owner cancel them.
BotStep ==
    \/ (\E j \in Jobs, r \in 0..MaxMint : Submit(j, r)) /\ Quiet /\ Smoothly
    \/ /\ Trouble("cancel")
       /\ \E j \in Jobs :
             \/ CancelQueued(j) /\ Quiet
             \/ (CancelAssigned(j) \/ CancelRunning(j)) /\ Sends("cancel", OnRunnerOf({j}))

OwnerStep ==
    /\ \E b \in Bots :
          \/ LinkDevice(b, Runner) /\ Smoothly
          \/ UnlinkDevice(b, Runner) /\ Trouble("unlink")
          \/ BotPurged(b) /\ Trouble("purge")
    /\ Quiet

-----------------------------------------------------------------------------
(* The stream of Runner.                                                   *)

Still == UNCHANGED <<vars, call, answer, late, unlinked, ran>>

\* The app opens a stream with runners=1 while the runner is on.
Open ==
    /\ attached = "no" /\ enabled /\ app \in {"starting", "up"}
    /\ OpenStream(Runner)
    /\ attached' = "newest" /\ inbox' = <<>>
    /\ UNCHANGED <<workerVars, call, answer, late, unlinked, ran, troubles>>

Connected ==
    /\ attached # "no" /\ W!Connect
    /\ UNCHANGED <<netVars, troubles, vars, ran>>

\* The app's side of its stream ends: the network's doing, or the gateway's.
Lose ==
    /\ attached # "no"
    /\ IF attached = "newest" THEN Trouble("stream") ELSE Smoothly
    /\ attached' = "no" /\ inbox' = <<>>
    /\ IF connected THEN W!Disconnect ELSE UNCHANGED workerVars
    /\ Still

\* The gateway's side of a stream ends: what was sent is still read.
Drop ==
    /\ DropStream(Runner)
    /\ Trouble("stream")
    /\ attached' \in IF live[Runner] = 1 /\ attached = "newest" THEN {"stale"}
                     ELSE IF attached = "newest" THEN {"newest", "stale"}
                     ELSE {attached}
    /\ UNCHANGED <<workerVars, inbox, call, answer, late, unlinked, ran>>

\* A stream nobody reads any more closes.
DropUnread ==
    /\ live[Runner] > (IF attached = "newest" THEN 1 ELSE 0)
    /\ DropStream(Runner) /\ Quiet /\ Smoothly

Receive ==
    /\ inbox # <<>>
    /\ inbox' = Tail(inbox)
    /\ LET e == Head(inbox) IN
       IF e.type = "cancel" THEN W!HandleCancel(e.job)
       ELSE \/ W!HandleJob(e.job)
            \/ ~W!TakesJob(e.job) /\ UNCHANGED workerVars
    /\ UNCHANGED <<vars, attached, call, answer, late, unlinked, ran, troubles>>

\* The job came after its accept timeout by this computer's clock.
ReceiveLate ==
    /\ inbox # <<>> /\ Head(inbox).type = "job"
    /\ Trouble("late")
    /\ inbox' = Tail(inbox)
    /\ UNCHANGED <<workerVars, vars, attached, call, answer, late, unlinked, ran>>

-----------------------------------------------------------------------------
(* The report of Runner.                                                   *)

SendReport ==
    /\ W!SendReport
    /\ UNCHANGED <<vars, netVars, ran, troubles>>

\* What the gateway tells a reporting computer to stop.
MustStop(S) == {j \in S : on[j] # Runner \/ state[j] \notin Active}
ReportHandled ==
    /\ answer = {}
    /\ \E r \in sent, capable \in BOOLEAN :
          /\ Report(Runner, IF r.accepting THEN Slots ELSE 0, capable, r.jobs)
          /\ answer' = {MustStop(r.jobs)}
    /\ UNCHANGED <<workerVars, attached, inbox, call, late, unlinked, ran, troubles>>

ReportAnswered_Drops ==
    /\ \E S \in answer : run' = [j \in Jobs |-> IF j \in S THEN "none" ELSE run[j]]
    /\ answer' = {} /\ sent' = {}
    /\ UNCHANGED <<vars, attached, inbox, call, late, unlinked, ran, troubles, app,
                   enabled, connected, outcome, cancelled, forgotten, clearing,
                   disk, owed, due, told>>
ReportAnswered ==
    /\ \E S \in answer : W!ReportAnswered(S)
    /\ answer' = {}
    /\ UNCHANGED <<vars, attached, inbox, call, late, unlinked, ran, troubles>>

\* Refused without an open stream, or the request or its answer is lost.
ReportFailed ==
    /\ IF StreamOpen(Runner) /\ Runner \notin revoked THEN Trouble("answer")
       ELSE answer = {} /\ Smoothly
    /\ W!ReportFailed
    /\ answer' = {}
    /\ UNCHANGED <<vars, attached, inbox, call, late, unlinked, ran>>

-----------------------------------------------------------------------------
(* The calls of a job Runner holds, and of those a restart left.           *)

Attempt(j, phase) == run[j] = phase /\ call[j] = "none"
Answered(j, a) == call' = [call EXCEPT ![j] = a]
Refused_Ends(j) ==
    /\ Idle /\ Answered(j, "refused")
    /\ state' = [state EXCEPT ![j] = IF state[j] = "queued" THEN "lost" ELSE state[j]]
    /\ UNCHANGED <<computers, presences, timers, handling, on, wants,
                   cancelRequested, queueDeadline, retained, restarts>>
Refused(j) == Idle /\ Answered(j, "refused") /\ UNCHANGED vars

AcceptHandled_Again(j) ==
    /\ Attempt(j, "accepting")
    /\ IF Owned(j, Runner) /\ state[j] = "assigned"
       THEN Accept(j, Runner) /\ Answered(j, "ok")
       ELSE IF Owned(j, Runner) /\ state[j] \in OnRunner
            THEN Idle /\ Answered(j, "ok") /\ UNCHANGED vars ELSE Refused(j)
AcceptHandled_Sure(j) ==
    /\ Attempt(j, "accepting")
    /\ IF state[j] = "assigned" THEN Accept(j, on[j]) /\ Answered(j, "ok") ELSE Refused(j)
AcceptHandled(j) ==
    /\ Attempt(j, "accepting")
    /\ IF Owned(j, Runner) /\ state[j] = "assigned"
       THEN Accept(j, Runner) /\ Answered(j, "ok") ELSE Refused(j)
ProgressHandled(j) ==
    /\ Attempt(j, "progress")
    /\ IF Owned(j, Runner) /\ state[j] = "running"
       THEN Progress(j, Runner) /\ Answered(j, "ok") ELSE Refused(j)
FinishHandled(j) ==
    /\ Attempt(j, "finishing")
    /\ IF Owned(j, Runner) /\ state[j] \in OnRunner
       THEN Finish(j, Runner, outcome[j] = "zero") /\ Answered(j, "ok") ELSE Refused(j)
CallHandled(j) ==
    /\ AcceptHandled(j) \/ ProgressHandled(j) \/ FinishHandled(j)
    /\ UNCHANGED <<workerVars, attached, inbox, answer, late, unlinked, ran, troubles>>

\* What is on its way and was not handled: a call of each job, and the results
\* of jobs start() found.
OnTheWay == {r \in Requests :
                \/ /\ call[r.job] = "none" /\ run[r.job] = r.phase
                   /\ r.zero <=> outcome[r.job] = "zero"
                \/ r.job \in owed /\ r.phase = "finishing" /\ ~r.zero}
Of(j) == {r \in OnTheWay : r.job = j /\ r.phase = run[j]}
Outlive(S) == \/ UNCHANGED late
              \/ "delayed" \in Troubles /\ \E T \in SUBSET S : late' = late \cup T

\* The answer is lost, or its attempt fails at the computer only: the worker
\* calls again.
AnswerLost(j) ==
    /\ call[j] # "none" \/ Of(j) # {}
    /\ Trouble("answer")
    /\ Answered(j, "none") /\ Outlive(Of(j))
    /\ UNCHANGED <<vars, workerVars, attached, inbox, answer, unlinked, ran>>

\* The gateway handles a request that nobody waits for.
LateHandled(r) ==
    /\ late' = late \ {r}
    /\ \/ r.phase = "accepting" /\ Accept(r.job, Runner)
       \/ r.phase = "progress" /\ Progress(r.job, Runner)
       \/ r.phase = "finishing" /\ Finish(r.job, Runner, r.zero)
       \/ Idle /\ UNCHANGED vars
    /\ UNCHANGED <<workerVars, attached, inbox, call, answer, unlinked, ran, troubles>>

OwedHandled_Zero(j) ==
    /\ j \in owed /\ W!OwedDone(j)
    /\ IF Owned(j, Runner) /\ state[j] \in OnRunner
       THEN Finish(j, Runner, TRUE) ELSE Idle /\ UNCHANGED vars
    /\ UNCHANGED <<netVars, ran, troubles>>

\* start() sends a result for a job it found; nobody waits for the answer.
OwedHandled(j) ==
    /\ j \in owed /\ W!OwedDone(j)
    /\ IF Owned(j, Runner) /\ state[j] \in OnRunner
       THEN Finish(j, Runner, FALSE) ELSE Idle /\ UNCHANGED vars
    /\ UNCHANGED <<netVars, ran, troubles>>

\* An app that starts without the network sends none.
OwedLost(j) ==
    /\ j \in owed /\ W!OwedDone(j)
    /\ UNCHANGED <<vars, netVars, ran, troubles>>

\* The worker acts on the answer of its call, if the step waits for one.
OnAnswer(j, a) == call[j] = a /\ Answered(j, "none")
\* A call ends without an answer: the time for it is over, or an attempt to send
\* a result fails while the app quits.
GivesUp(j) == /\ Trouble("late") \/ (app = "quitting" /\ Trouble("answer"))
              /\ Answered(j, "none") /\ Outlive(Of(j))

WorkerCallStep_OkOnly(j) ==
    \/ /\ \/ OnAnswer(j, "ok") /\ (W!AcceptOk(j) \/ W!Progressed(j) \/ W!Finished(j))
          \/ OnAnswer(j, "refused") /\ W!AcceptFailed(j)
          \/ OnAnswer(j, "refused") /\ run[j] = "progress" /\ (W!Fails(j) \/ W!Stopped(j))
       /\ Smoothly /\ UNCHANGED late
    \/ GivesUp(j) /\ (W!AcceptFailed(j) \/ W!Finished(j))
WorkerCallStep(j) ==
    \/ /\ \/ OnAnswer(j, "ok") /\ (W!AcceptOk(j) \/ W!Progressed(j))
          \/ OnAnswer(j, "refused") /\ W!AcceptFailed(j)
          \/ OnAnswer(j, "refused") /\ run[j] = "progress" /\ (W!Fails(j) \/ W!Stopped(j))
          \/ (OnAnswer(j, "ok") \/ OnAnswer(j, "refused")) /\ W!Finished(j)
       /\ Smoothly /\ UNCHANGED late
    \/ /\ GivesUp(j)
       /\ \/ W!AcceptFailed(j) \/ W!Finished(j)
          \/ run[j] = "progress" /\ W!Fails(j)

\* A stop interrupts the wait between two attempts, not an attempt.
WorkerOwnStep(j) ==
    /\ \/ /\ \/ W!Written(j) \/ W!Uploaded(j) \/ W!Removed(j) \/ W!Cleared(j)
             \/ call[j] = "none" /\ W!Stopped(j)
          /\ Smoothly
       \/ run[j] # "progress" /\ W!Fails(j) /\ Trouble("failure")
    /\ UNCHANGED <<call, late>>

Ran(j, how) == ran' = [ran EXCEPT ![j] = how]
CommandStep(j) ==
    /\ \/ W!CommandStarts(j) /\ Ran(j, "started")
       \/ \E exit \in W!Exits : W!CommandEnds(j, exit) /\ Ran(j, exit)
    /\ UNCHANGED <<vars, netVars, troubles>>

JobStep(j) ==
    /\ WorkerCallStep(j) \/ WorkerOwnStep(j)
    /\ UNCHANGED <<vars, attached, inbox, answer, unlinked, ran>>

-----------------------------------------------------------------------------
(* Runner's app.                                                           *)

Alone == UNCHANGED <<vars, netVars, ran>>

AppStart == (W!Boot \/ W!Started) /\ Alone /\ Smoothly

\* dropIfUnlinked() asks the gateway about a bot that has jobs here, and stops
\* them when the answer is there, whatever was linked meanwhile.
FindsUnlinked(b) ==
    /\ app \in {"up", "quitting"}
    /\ \E j \in W!Held : BotOf[j] = b
    /\ b \notin unlinked /\ ~Linked(b, Runner)
    /\ unlinked' = unlinked \cup {b}
    /\ UNCHANGED <<vars, workerVars, attached, inbox, call, answer, late, ran>>

DropBot(b) ==
    /\ b \in unlinked /\ unlinked' = unlinked \ {b}
    /\ IF \E j \in W!Held : BotOf[j] = b THEN W!RemoveBot(b) ELSE UNCHANGED workerVars
    /\ UNCHANGED <<vars, attached, inbox, call, answer, late, ran>>

AppStep ==
    \/ AppStart
    \/ /\ W!TurnOff /\ Trouble("switch")
       /\ attached' = "no" /\ inbox' = <<>>
       /\ Still
    \/ (~enabled /\ W!TurnOn) /\ Alone /\ Smoothly
    \/ W!Quit /\ Trouble("quit") /\ Alone
    \/ (\E b \in Bots : FindsUnlinked(b) \/ DropBot(b)) /\ Smoothly

\* The process ends: events go with it, and nobody waits for its calls.
Ends ==
    /\ \/ W!Exit /\ Smoothly
       \/ W!Crash /\ Trouble("crash")
    /\ attached' = "no" /\ inbox' = <<>>
    /\ call' = [j \in Jobs |-> "none"]
    /\ answer' = {} /\ unlinked' = {}
    /\ Outlive(OnTheWay)
    /\ UNCHANGED <<vars, ran>>

-----------------------------------------------------------------------------
StreamStep == Open \/ Connected \/ Lose \/ Drop \/ DropUnread \/ Receive \/ ReceiveLate
ReportStep == SendReport \/ ReportHandled \/ ReportAnswered \/ ReportFailed
CallStep(j) == CallHandled(j) \/ AnswerLost(j) \/ OwedHandled(j) \/ OwedLost(j)

SystemNext ==
    \/ GatewayStep \/ OtherComputers \/ BotStep \/ OwnerStep
    \/ StreamStep \/ ReportStep \/ AppStep \/ Ends
    \/ \E j \in Jobs : CallStep(j) \/ CommandStep(j) \/ JobStep(j)
    \/ \E r \in late : LateHandled(r)

SystemSpec == SystemInit /\ [][SystemNext]_allVars

\* The gateway's event loop, as in RunnerBroker; both event loops answer what
\* reaches them, and the app reconnects.  Every command has a time limit.
SystemFairness ==
    /\ WF_allVars(HandlerStep)
    /\ SF_allVars(TimerStep) /\ SF_allVars(TimeStep) /\ SF_allVars(CloseStep)
    /\ SF_allVars(Open) /\ WF_allVars(Connected) /\ WF_allVars(attached = "stale" /\ Lose)
    /\ WF_allVars(DropUnread) /\ WF_allVars(Receive)
    /\ WF_allVars(SendReport) /\ SF_allVars(ReportHandled)
    /\ WF_allVars(ReportAnswered) /\ WF_allVars(ReportFailed)
    /\ \A j \in Jobs : /\ SF_allVars(CallHandled(j)) /\ SF_allVars(OwedHandled(j))
                     /\ WF_allVars(JobStep(j)) /\ WF_allVars(CommandStep(j))
    /\ WF_allVars(AppStart)
FairSystemSpec == SystemSpec /\ SystemFairness

-----------------------------------------------------------------------------
(* Properties.                                                             *)

\* The system's gateway is the broker, and its computer is the worker: what is
\* shown of either alone holds of the two together.
ImplementsBroker == Spec
ImplementsWorker == W!Spec

\* "Job: one command run once on one runner."  Lost answers, requeued jobs that
\* come back to the same computer, and restarts of either side never start the
\* command of a job again.
CommandStartsOnce ==
    [][\A j \in Jobs : run[j] = "preparing" /\ run'[j] = "running" => ran[j] = "no"]_allVars

\* A job whose command started is not one that waits for a computer.
StartedIsNotWaiting ==
    \A j \in Jobs : ran[j] # "no" => state[j] \notin {"none", "queued", "assigned"}

\* However late a computer answers a job that was given to it and to others
\* since, a job whose command it started is no other computer's.
OneComputer ==
    \A j \in Jobs : ran[j] # "no" /\ state[j] \in Active => on[j] = Runner

\* The bot hears of success only if the command exited with zero, whatever
\* results of other attempts and of restarts are still on their way.
SuccessIsReal ==
    \A j \in Jobs : state[j] = "succeeded" /\ on[j] = Runner => ran[j] = "zero"

\* A job that a computer accepted ends, also if the app crashes meanwhile.
AcceptedJobsEnd ==
    \A j \in Jobs : state[j] \in OnRunner ~> state[j] \notin OnRunner

\* What the gateway ended, the computer lets go of.
EndedJobsLeave ==
    \A j \in Jobs : j \in W!Held /\ state[j] \notin Active ~> j \notin W!Held

\* "a job the gateway gave it that it no longer holds, once it was running, is
\* lost" (runners.ts, report): only such a job.
HeldIsNotLost ==
    [][\A j \in Jobs : state[j] \in OnRunner /\ on[j] = Runner /\ state'[j] = "lost"
            /\ presence'[Runner] # Absent => j \notin W!Held]_allVars

\* "After the command ends, whatever its exit code, the files [...] come back"
\* (bot-fleet.md): when no transfer fails, a command that exited with zero does
\* not end as a failed job.
ZeroIsNotFailed ==
    \A j \in Jobs : state[j] = "failed" /\ on[j] = Runner => ran[j] # "zero"
=============================================================================
