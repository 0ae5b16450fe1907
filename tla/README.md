# Maestrly, modelled in TLA+

This directory models and checks the parts of Maestrly where several processes
must agree: a gateway on a server, the paired computers of its owner, the bots
in their environments, the hosts a conversation moves between, and the network
and the crashes between them. It has
TLA+ modules translated from the source, small instances that TLC explores
completely, and proofs that TLAPS checks for every value of the constants.

`PROJECT.json` lists the components, the runs, the lines of the source each
definition stands for (`map`), a slip of the code for every checked property
that the property catches (`mutants`), the hazards, the findings and the
theorems. Line numbers below are of files under `src/`.

- [The system](#the-system)
- [The modules](#the-modules)
- [The runs](#the-runs)
- [Bounds](#bounds), [abstractions](#abstractions), [fairness](#fairness)
- [The proofs](#the-proofs)
- [Where code and documentation disagree](#where-code-and-documentation-disagree)
- [Not modelled](#not-modelled)

## The system

Maestrly is a desktop application (Electron, `apps/desktop`) in which a person
works with coding agents, a mobile client (`apps/mobile`), and a *bot fleet*:
a server (`apps/bot-gateway`) that keeps bots running in containers
("environments"; their code is `apps/desktop/src/main/fleet/instance`), to
which the owner's computers are paired. What is distributed, and what this
project is about, is mostly in the fleet; the one saga between desktops and
remote hosts, the move of a conversation, is here too.

| Component | State it keeps | Operations | Interacts by | What is hard | What makes it correct |
|---|---|---|---|---|---|
| Runner broker, `bot-gateway/src/runners.ts` | tables of jobs, links and computers (SQLite); presence, deadlines and open streams in memory | link, unlink, revoke, submit, cancel, accept, progress, finish, report, schedule, tick, start | events on a computer's stream, calls of computers and bots, a timer, a second process (CLI) that revokes | deadlines that pass together, late and repeated calls, close events after the fact, restarts that lose every timer, several transactions in one handler | a job runs at most once, on a computer that is linked to its bot; it ends; its bot is never told two different ends; slots and the order of the queue are respected |
| Runner worker, `desktop/src/main/runner/worker.ts`, driven by `fleet/client/runner-host.ts` | jobs held, with their phase; the state file; the report due or in flight | take, write, accept, run, send the result, let go, report, stop, start, quit | the stream's events, calls to the gateway with retries, the operating system | reports in flight while jobs come and go, retries of calls that were handled, quitting in the middle, crashes | what it accepted is on disk; no more jobs than slots; the gateway hears of every change; a command never starts twice |
| Runner network, `runner/api.ts`, `bot-gateway/src/events.ts`, `fleet/client/events.ts` | streams, events on their way, calls and their answers | open, lose, drop, send, call, answer | between the two above | a stream half dead, events lost with it, answers lost after the call was handled | the two sides agree in the end on who has which job |
| Job transfers, `runner-transfers.ts`, `runner/upload.ts`, `runner/outputs.ts`, `log-pump.ts` | open requests; offsets of uploads and logs | stream files, resume, complete | HTTP bodies relayed by the gateway | resumed offsets, an abort on either side | bytes arrive once and in order |
| Runner notifications, `runners.ts` 549-640 | per job and link the last sequence number sent and the one to send | deliver, sendLatest, retry | calls to an environment | a change while a send is awaited; an environment that is down | the environment hears of every job's end, and the end is kept until it did |
| Environment runner jobs, `fleet/instance/runner-jobs`, `runtime.ts` | a record per job, its outputs | submit, watch, end, continue the conversation | calls to the gateway, the input queue | a result that enters the conversation twice or never, over crashes | each end is told to the conversation once |
| Input queue, `fleet/instance/queue.ts` | a queue file and a settled log | add, start, settle, drop, reconcile | chats of the environment | two files that a crash leaves apart | an input is answered once, or is known to have failed |
| Routines, `bot-gateway/src/routines.ts` | routines and their runs; next due times | create, edit, pause, delete, fire, run finished | a timer, calls to environments | a routine edited while it fires | no edit is undone, no run is lost or doubled |
| Conversation move, `desktop/src/main/conversation-move` | a journal of moves on both hosts, leases | prepare, copy, release, commit, continue, roll back | calls between two hosts | crashes at every step of a saga | the conversation lives on exactly one host |
| Host transfers, `desktop/src/main/host-transfers` | a queue of resumable transfers | queue, run, pause, cancel, retry, recover | files and HTTP | a cancellation that meets the publication of the file | a transfer has one end, and the file agrees with it |
| Background compaction, `chat/background-compaction` | jobs that summarise a conversation | schedule, run, activate, discard | the conversation's turns | the conversation moves on meanwhile | a summary replaces only what it summarises |
| Subscription failover, `chat/subscription-failover` | accounts and their limits | choose, exhaust, recover | providers | several turns at once | a turn uses an account that can serve it |

The other parts (gateway lifecycle and Docker, peers, proxies, memory and
artifacts, the fleet client and installer, chat and its providers, subagents,
MCP and plugins, git, windows, renderer, mobile, packages, deployment) are
listed in `PROJECT.json` with the reason why each is left out: they drive
external programs, relay bytes, or hold user interface state.

The job of a runner is the core. A bot submits a command; the gateway queues
it, gives it to a computer linked to the bot that is present and has a free
slot, by an event on that computer's stream; the computer writes the job to
its state file, accepts it by a call, fetches the inputs, runs the command,
announces progress, sends the outputs back and finishes. Computers report what
they hold, and the gateway compares. Either side may restart at any point, a
stream may break, an answer may be lost, and the owner may cancel, unlink,
revoke, switch off or delete.

From there the end of a job goes on to the conversation that asked for it: the
gateway numbers a job's changes and sends the latest to the environment until it
has it; the environment writes its record of the job, queues an input that
tells the end, and notes that it did. The input queue turns inputs, those of
owners, routines and other bots too, into turns of a chat. Routines are one
source of inputs: prompts that the gateway sends when they are due. The move of
a conversation stands apart: a coordinator walks a journal through its phases
and calls an endpoint on each of the two hosts.

## The modules

    RunnerJob           the job a bot is promised (abstract)
        ^ refines (ImplementsJob; theorem Implementation)
    RunnerBroker        the gateway's broker  <----- RunnerBrokerProofs
        ^ EXTENDS, refines (ImplementsBroker)
    RunnerSystem        broker + network + worker <----- RunnerSystemProofs
        v INSTANCE, refines (ImplementsWorker)
    RunnerWorker        the worker of one computer  <----- RunnerWorkerProofs
    InputQueue          a conversation's inputs, and the turn that answers them
        ^ EXTENDS                             <----- InputQueueProofs
    JobDelivery         a job's end, from the gateway to the conversation
                                              <----- JobDeliveryProofs
    Routines            the gateway's routines and their runs <----- RoutinesProofs
    MoveRegister        where a conversation lives (abstract)
        ^ refines (ImplementsRegister; theorem MovesWhole)
    ConversationMove    the saga of two hosts <----- ConversationMoveProofs,
                                                  ConversationHomeProofs
    MC*                 constants for TLC

### RunnerBroker

State and code:

| Variables | Code |
|---|---|
| `state`, `on`, `wants`, `cancelRequested`, `queueDeadline`, `retained` | the row of a job (`store.ts`): state, runner, the runner asked for, `cancel_requested`, the deadline in the queue, the time an ended row is kept |
| `links`, `minted`, `known` | runner links of bots, the ids given to them in order, and the computers whose capabilities are stored |
| `bots`, `revoked` | rows of bots and `devices.revoked_at` |
| `presence`, `lostAt` | `presence` and `lostAt` of the class `Runners`; `Absent` is no entry |
| `acceptBy`, `cancelBy`, `skips` | the maps of the same names: when an acceptance or a cancellation is overdue, and which runner a job skips until when |
| `live`, `closing` | streams with `runners=1` of a computer that `events.ts` can still write to, and those that are destroyed but whose close event has not run |
| `todo`, `doomed` | the local variables of a running handler: the jobs `schedule()` has not looked at, and those `dropLink()` has yet to end |

Every method that changes state is one action, with the `schedule()` that ends
it: the handler sets `todo` to the queue as it is then, and `ScheduleStep`
takes the jobs one at a time, because a send may destroy a stream and change
what the next job can have. A handler is synchronous, so no other handler runs
before `todo` and `doomed` are empty (`Idle`), but the network, another
process and the end of the gateway may come between (`DropStream`,
`MarkRevoked`, `Start`). `tick()` is one action: it runs in one synchronous
pass over maps that only it and the handlers change. Its order of cases is the
order in which it looks.

Deadlines are countdowns: `Off` when there is none, 0 when it has passed and
`tick()` has yet to act. `TimePasses` lowers them all by one.

`RestartMidDrop` is a restart between the deletion of a link and the end of its
jobs. `Spec` leaves it out and `CrashSpec` has it, because one property fails
with it (see below).

`RunnerJob` is what `submit`, `get` and the notifications tell a bot: a job
waits, is run by at most one computer, and ends once. Queued and assigned are
one phase there. `ImplementsJob` says that the broker implements it.

### RunnerWorker

`run` is how far `run()`, `accept()`, `process()` and `finish()` of
`worker.ts` came for each job it holds: `writing` its state file, `accepting`,
`preparing` inputs, `running`, calling `progress`, `uploading`, `finishing`,
and `leaving` (its folder is being deleted). `outcome` is what `process()`
returned. `cancelled` is an aborted job, `forgotten` one the gateway expects
nothing of. `disk` is the state file, `owed` the results that `start()` sends
for the jobs it found there, `due` and `sent` the report to make and the one
in flight. `app` and `enabled` are the application and its saved setting.

The gateway's answers and events are free here: a job may come, be refused or
be cancelled at any time, and a report may be answered with any jobs to stop.

### RunnerSystem

It extends the broker, instantiates the worker of one computer (`Runner`), and
adds the network: `attached` is whether the app reads the newest stream the
gateway writes to, a stale one, or none; `inbox` holds the events on it;
`call` says whether the current attempt of a job's call was handled, and how;
`answer` is the answer to the report in flight. Each system action is a
broker's action, a worker's action or both, with what becomes of the network:
the gateway handles a call (`AcceptHandled`, `ProgressHandled`,
`FinishHandled`, `ReportHandled`, `OwedHandled`), then the worker reads the
answer (`WorkerCallStep`, `ReportAnswered`), or it is lost (`AnswerLost`) and
the worker calls again as `retry()` does. Other computers, when there are any,
behave as freely as in the broker alone. `late` holds the requests of calls that
the worker gave up, or whose app died, before the gateway handled them: with the
trouble kind "delayed" each may be handled at any later time, or never
(`LateHandled`). `unlinked` holds the bots of which the gateway told the app that
they are not linked: `dropIfUnlinked()` (`runner-host.ts` 375-393) awaits that
answer before it stops the bot's jobs, and the bot may be linked again by then
(`FindsUnlinked`, `DropBot`). `ran` is a ghost: how far a job's command ever came,
whatever anyone remembers of it.

In this module and in the four below, what goes wrong is a *trouble* of one of some kind; a run says
how many happen in all, and for `RunnerSystem` which of the `TroubleKinds`.

### InputQueue

| Variables | Code |
|---|---|
| `mem` | `items` and `settled` of the class in `queue.ts`: per input, whether it waits or started, the message its turn saved (`native`), and how much the chat held when it came (`at`) |
| `file`, `log` | the queue file, and the settled log beside it: of each input, the last line counts |
| `write` | the running `update()`: its result, and whether it has still to append to the log (407) or to replace the file (408-427). Updates run one after another |
| `chat` | the user messages of the chat, as the input whose turn saved each |
| `turn` | the local state of `runTurn()` (`runtime.ts` 2181-2321): claimed, its start being written, started, message saved, message being noted, answering, or failed |
| `up` | the environment's process: down, starting (it loads and reconciles), up |
| `old` | inputs that came more than a day ago, whose keys `enqueue()` ignores |
| `accepted`, `gone` | ghosts: inputs whose senders got a receipt, and inputs deleted by their owner |

Every update is two steps, `AppendLog` (when it settles inputs) and
`ReplaceFile`, and memory follows the file, so a crash or a full disk may come
between any two. `Resumes` is what awaited the update. `Recover` is
`reconcileQueue()` with `reconcile()`, at the start and after a failed turn: it
gives a started input without a message the first that asks the same, came no
earlier and is nobody's, or makes it wait again. `Matches` is the outcome for
any order in which the queue lists its inputs, one taking after another.
`DayPasses` ages every key at once.

### JobDelivery

It extends `InputQueue`: the end of a job is queued there. `job` is the
gateway's row (`seq`, ended, and `notified`, the last number marked by
`markRunnerJobNotified`); `record` the environment's record of the job (`seq`,
`final`, `continued`); `calls` what runs in the environment: calls of
`sendLatest()`, whose answer the gateway still awaits or gave up, and the
environment's own checks after its start (`reconcileRunnerJobs`). A call
stores the state (`Store`), queues the end unless it was told (`Tell`), waits
for the queue's update (`Written`, `NotWritten`), and writes `continued`
(`Note`). A call that the gateway gave up may run on (`LoseCall`).

### Routines

| Variables | Code |
|---|---|
| `routines`, `runs` | the rows of `store.ts`: whether a routine is on, its schedule and its `nextRunAt`; the status of each run and the time of its call (`deliveredAt`) |
| `pending` | `pendingFinishes`: finishes heard before their run was known |
| `todo` | the rows `tick()` read and has still to look at |
| `fires` | the running `fire()`s, with the row each read: a tick's (slot 0) and those asked for by hand |
| `ticked`, `up`, `now` | the timer of this time fired; the process; the time |
| `inputs`, `heard` | ghosts: what bots accepted, and how the run of each input was left by its latest turn, as far as the gateway heard since it started |

A `fire()` reads a row, awaits the bot, and saves the row it read with its next
time (`Save`), so ticks, manual runs and the owner overlap with it. `Accept` is
the bot: a key it knows is the input it came with. `CallFails` is a refused
call or a lost receipt. `FinishRun` may come before the receipt, after it, or
more than once. `FinishTurn` is a turn that carries a `runId`: the owner's message
in the conversation of a run, after which the run is as that turn left it
(`routines.ts` 422-439), whatever it was before. `Crash` may fall between the
insertion of a run and the save of its routine.

### ConversationMove and MoveRegister

| Variables | Code |
|---|---|
| `move` | the coordinator's journal (`store.ts`): phase, status, hosts, the fingerprint of the preview (`print`) and the package (`pkg`) |
| `source`, `target` | the two endpoints' journals (`endpoint-store.ts`) |
| `copy` | each host's rows of the conversation: how much it holds, and its folder |
| `leases` | `leases.ts`: held in memory, restored at a start for active endpoints |
| `turns` | the hosts where a turn that ran when the source was frozen still runs: a lease keeps new work out and does not stop what is there |
| `handlers` | the calls that run at the hosts; each is several steps where the code awaits. `id` tells the call the coordinator waits for from those it gave up (`lost`) |
| `broken` | a ghost: one of the moments was met that nothing protects (below) |

The phases, the call of each and the phase that follows are the functions
`CallOf` and `After`. A call that fails leaves the move in its phase, to be
continued or rolled back by a person (`Continue`, `Rollback`), whether or not a
call that was lost still runs at its host: `resolve()` (`service.ts` 449-461) does
not ask. A restart ends a host's handlers and leases. `Write` is anybody who works
on a copy that no lease holds, or whose turn the freeze has not stopped: what is
said in a conversation and what changes in its folder is one count, its version.
Each `await` inside a handler that something else can come between is the end of a
step: the freeze quiesces, checks, and thaws when it cannot go on; an import undoes
what an earlier one left, unpacks, makes the worktree and its lease, inserts the
rows, and only then writes its journal; a discard undoes, and deletes its staging.
A step that fails (`StepFails`) leaves what the steps before it did.

`MoveRegister` is what all this promises: a conversation has one home, grows
there, and changes homes whole. `ImplementsRegister` maps the host the
conversation `Lives` on to `home`.

The code keeps that promise up to three kinds of moments, and `broken` says that
one was met: a person resolves a move of which a freeze, an export, an import or a
release that was given up still runs (`Unsettled`, number 8 below); a person
continues a move whose source is frozen while the turn its freeze could not stop
runs on (`TurnGoesOn`, number 18); a source's host stops between "releasing" and the
deletion of the conversation (`LettingGo`, number 9). A late prepare, verification,
commit, discard or thaw is not among them, nor is any restart, failing step or lost
call by itself: the properties say that those do no harm, in any order. That each
part of `broken` is needed was checked with TLC: without any one of the four calls
`OneUsableCopy` is violated, and without `TurnGoesOn` `ImplementsRegister` is.

## The runs

| Run | Instance | Properties |
|---|---|---|
| `broker_jobs` | two jobs of two bots, one computer with one slot, one restart; 680 thousand states | `TypeOK`, `ActiveHasLink`, `NoJobStranded`, `TimersMatchStates`, `CancelIsKept`, `RunsAtMostOnce`, `AssignedWithinSlots`, `NoOvertaking`, `ImplementsJob` |
| `broker_live` | one job, two streams of its computer at once, one restart, fair; 12 thousand states | `QueuedMovesOn`, `OfflineJobsEnd`, `RevokedLosesAll`, `CancelEnds` |
| `worker_two` | two jobs, one slot, any answers, quits and crashes; 930 thousand states | `TypeOK`, `AcceptedOnDisk`, `SlotsRespected`, `ReportsAreCurrent` |
| `system_one` | one job, one computer and one trouble of any kind, requests that are handled late, or two computers; 580 thousand states | `SystemTypeOK`, `StartedIsNotWaiting`, `SuccessIsReal`, `OneComputer`, `CommandStartsOnce` |
| `system_live` | one job, one computer, one crash, fair; 34 thousand states | `AcceptedJobsEnd`, `EndedJobsLeave`, `ImplementsBroker`, `ImplementsWorker` |
| `job_ends` | one job, two inputs that may tell its end and one that asks the same, two troubles of any kind, fair; 360 thousand states | `DeliveryTypeOK`, `NotLost`, `AskedOnce`, `OncePerKey`, `ForgottenIsTold`, `EndsAreHeard` |
| `routines` | one routine of either schedule, a manual run, two troubles; 1.7 million states | `RoutinesTypeOK`, `OncePerDue`, `FinishReachesRun` |
| `move_saga` | two hosts, two moves, two troubles, fair, up to the first `broken` state; 230 thousand states | `MoveTypeOK`, `OneUsableCopy`, `LeftOnlyIfArrived`, `ImplementsRegister`, `MovesGetThrough` |
| `system_report` | an answer is lost | `HeldIsNotLost` is violated |
| `system_progress` | an answer is lost | `ZeroIsNotFailed` is violated |
| `move_late` | one call is lost, and the move is continued while it runs | `CopiesStayHeld` is violated |
| `broker_crash_revoke` | a restart in the middle of `revokeDevice()` | `RevokedLosesAll` is violated |

What they show:

- `broker_jobs`: whatever the order of links, streams, reports, deadlines and
  calls, a job is with a computer only while that computer is linked to its
  bot (`ActiveHasLink`) and never forgotten there (`NoJobStranded`); the
  memory-only timers agree with the durable states (`TimersMatchStates`); a
  cancellation is never overtaken by a success (`CancelIsKept`); what one
  computer accepted no other gets (`RunsAtMostOnce`); slots shared by bots are
  not oversubscribed (`AssignedWithinSlots`), and no younger job takes what an
  older one waits for (`NoOvertaking`).
- `broker_live`: no job circles for ever between assignment and the queue
  (`QueuedMovesOn`); the jobs of a computer that stays away end
  (`OfflineJobsEnd`), also when it opened the next stream before the close
  event of the last; revocation and cancellation reach every job.
- `worker_two`: however writes, reports and results of two jobs interleave, a
  job the gateway can have accepted is in the state file (`AcceptedOnDisk`),
  the work at hand fits the slots (`SlotsRespected`), and once no report is
  due or in flight the gateway was told the truth (`ReportsAreCurrent`).
- `system_one`: with the network between them, a command is never started a
  second time (`CommandStartsOnce`), a job whose command started never waits
  for a computer again (`StartedIsNotWaiting`), and success means that the
  command exited with zero (`SuccessIsReal`), although results of an earlier
  run of the app and of other attempts may still be on their way, and accepts,
  announcements and results may be handled long after nobody waits for them. Where
  a second computer may get the job after an accept timeout, a job whose command
  one computer started is never active on the other (`OneComputer`).
- `system_live`: with a crash of the app as the only trouble, accepted jobs end and
  ended jobs are let go of, and every step
  of the composed system is a step of the broker alone and of the worker
  alone, so what is shown or proved of either holds of both together.
- `job_ends`: with any two of a lost call, a crash, a failed write, a failed
  turn, a deletion and a day, an input whose sender got a receipt is in one of
  the two files (`NotLost`); no input is asked twice, although a recovery
  recognises its message by what it says: there are no more messages that ask
  something than started inputs that ask it, and none is taken for two inputs
  (`AskedOnce`); a key is queued once a day (`OncePerKey`). The last two except
  what an owner deleted, see number 15 below. When the gateway counts the end of
  a job as sent, and may delete the job, the environment has the end for good and the conversation's
  queue took it (`ForgottenIsTold`), and in the end the conversation hears it
  (`EndsAreHeard`, but for the state of number 10 below).
- `routines`: a due time reaches its bot at most once, although a `fire()`
  saves an old row over a newer one and a crash makes it fire again: the key
  with the due time is what saves it (`OncePerDue`). What the gateway heard of
  an input, or of the latest turn of its run's own conversation, shows in the run,
  in whichever order they come (`FinishReachesRun`, but for the runs of number 16
  below).
- `move_saga`: up to the first moment that nothing protects (`broken`), whatever step
  fails, whatever call is lost, whichever host stops, and however the move is then
  resolved, the conversation lives on exactly one host and any other copy is locked
  (`OneUsableCopy`); the source lets go only of what arrived (`LeftOnlyIfArrived`);
  to whoever works on it, a move is one change of home with nothing lost
  (`ImplementsRegister`); a verified move completes, and one that turned back gets
  back (`MovesGetThrough`). The conversation starts at the remote host, so that calls
  of both roles get lost: the first move's source is remote, the second's target.
- `move_late`: one of these moments with its consequence. The lost call is an import,
  the move is continued, and a copy is left that nothing holds.

Every run but the violations ends with the whole state space explored. All
say `CHECK_DEADLOCK FALSE`: when every job is deleted, every id used up and
every allowed trouble spent, nothing is left to do.

## Bounds

| Constant | Value | Why it is enough |
|---|---|---|
| `Jobs`, `Bots`, `Devices` | 1-2 jobs, 1-2 bots, 1-2 computers | two jobs meet in the queue, in the slots and in the state file; two bots share a computer's slots; two computers take over from each other. The proofs have no such bound |
| `MaxSlots`, `Slots` | 1 | one slot is what two jobs compete for |
| `AcceptTimeout`, `LostGrace`, `QueueTimeout`, `SkipTime`, `Retention` | 0, 0-1, 1, 0-1, 0 | countdowns: only their order of passing matters, and a timer may pass at any later time anyway, as `tick()` may come late. 0 lets a deadline pass at once, 1 makes another deadline pass first. `AcceptTimeout <= LostGrace`, as the code's limits are (10 s and 2 min) |
| `MaxMint` | 1-2 | runner ids ever given: with 2 a computer that was unlinked gets a new id |
| `MaxLinks`, `MaxActive` | 1-2 | the limits of the protocol, small enough to be reached |
| `MaxStreams` | 1, 2 in `broker_live` | an old stream and the one that replaces it |
| `MaxRestarts` | 0-1 | a second restart finds what the first may find: the durable rows and nothing else |
| `CONSTRAINT Searched` | in `system_one` | the second computer links itself first, stays online, and is there only where no trouble was spent; the job asks for any computer (`broker_jobs` has jobs that ask for one), its row stays until its bot is deleted, its time in the queue stops when it is accepted (nothing reads it then), and the search ends where the job ended and its computer let it go. Without it the run with one computer has 1.2 million states, and the same properties hold |
| `MaxInbox` | 1 | events on their way to one computer: the next is sent when the last was read, or when nobody reads them. The order of two events in one stream is not explored |
| `Troubles`, `MaxTroubles` | all kinds, one in all | each trouble at every moment of the job's life. A request that is handled late comes with the loss of its call, and is not counted. In `system_live`, a crash. What two independent troubles do together is not explored by `RunnerSystem`; `RunnerBroker` and `RunnerWorker` do not bound them |

| `Inputs`, `Jobs`, `MaxSeq` of `JobDelivery` | 3 inputs, 1 job, 2 | two inputs with the job's key, so that an end could be queued twice, and one more that asks the same words (the proofs take any finite set); a state and an end of the job |
| `MaxTroubles` of `JobDelivery` | 2 | a crash in a recovery, a lost call and a crash, a failed write of a failed turn. With a third, a day could pass between two crashes |
| `Every`, `Late`, `Patience`, `Keep`, `Day` | 2, 1, 1, 2, 3 | ticks of 15 seconds, scaled: a call may last one tick, a run may be late by one, and a bot's key outlives both, as in the code (15 s, 15 min, 24 h). `Keep` outlives a call, and not a call after a late run (5 min). The proofs need only `Late + Patience < Day` |
| `MaxTime`, `MaxManual`, `MaxTroubles` of `Routines` | 4, 1, 2 | two due times, one of which a crash, an edit or an old save may bring back |
| `RoutineIds` | 1 | rows are apart; what other routines do to one is delay the tick, which `todo` read once already allows |
| `Hosts`, `Ops` | 2, 2 | a move there and back, or two prepared at once |
| `MaxMessages`, `MaxTroubles` of `ConversationMove` | 1, 2 | one change before, during or after the move; a trouble in the move and one in its recovery |
| `First`, `Here` | the remote host, this computer | only a remote host's calls can be lost |
| `CONSTRAINT Unbroken` | in `move_saga` | states after the first `broken` one are not explored: there every property of the run holds by its condition. Without the constraint the same properties hold (1.3 million states, with troubles that stop at `broken`) |

Timeouts are not troubles: deadlines of the gateway pass whenever time does.

## Abstractions

- A job's command, files, image and requirements are left out but for `Meets`,
  the computers that can run it. It is constant: in the code capabilities are
  stored with each report.
- `offers` of a report is the slots, 0 when the computer accepts no jobs or
  cannot tell what it is (the probe of its capabilities failed).
- Progress, transfers and the command take any time; a transfer ends or fails.
- A write of the state file takes what is held when it begins and is one step:
  nothing reads the file before the app starts again. A write that fails is
  not modelled: `persist()` swallows it, and by its comment it costs the
  report after a restart; neither is the failing first write of `start()`,
  listed as a hazard.
- `retry()` gives a call up after a time by the computer's own clock: here a
  call may be given up at any time, as a trouble. An attempt whose answer was lost
  and that the gateway had not handled stays in `late`; one that a later attempt
  of the same call overtakes is handled as late as any other.
- The results that `start()` sends for jobs of an earlier run of the app may be
  lost at any time, without a trouble: an app may start without the network.
- A worker serves one server, and one stream of it at a time.
- The history, usage and logs of jobs, and what the views show, decide nothing.
- `InputQueue` is one conversation of a bot. Its other lanes, stopped inputs,
  holds, pauses, attachments, editing, the order among waiting inputs, and what
  is forgotten when a conversation is truncated are left out. The clock
  tolerance of `reconcile()` (a second) is left out: an input takes no message
  that was there when it came.
- `JobDelivery` starts with jobs that the bot submitted. The sweep of old
  records, logs and outputs are left out.
- `Routines` keeps every finish until it expires; the code drops the oldest of
  more than 100 (`routines.ts` 444).
- In `Routines` "completed" stands for "cancelled" too: a run keeps both
  (`routines.ts` 463). That a finish of the prompt itself, heard again after a later
  turn failed, is applied once more (463-464) is modelled as the code does it: `heard`
  follows. A turn with a `runId` that finishes before its run is stored is kept
  under an input of its own, which no run has (440-443); it does not count as heard.
- `Routines` leaves out creation, the reasons why a bot cannot take a prompt (it
  may always be unable to: `Skip`), pruning and pins of old runs, reports, and
  runs in the bot's own conversation. A prompt that arrives after its call was
  given up is `Accept` followed by `CallFails`.
- `ConversationMove` leaves out the bundle's bytes and digests (a package is the
  version it was read at), Git's own failures beyond "this step fails", and how
  a target finds the project.
- Revocation of `Runner` itself is in `RunnerBroker` and not in `RunnerSystem`,
  whose worker would lose its token.

## Fairness

`FairSpec` of the broker: a handler that started goes on (weak fairness of
`EndDropped` and `ScheduleStep`: synchronous code in one process). `tick()`
runs by an interval, time passes, close events run, and revoked computers are
swept every ten seconds (`server.ts` 175-182): these need strong fairness,
because each waits for `Idle`, which requests that keep arriving make false
again and again. Nothing is assumed of computers, bots or owners: they may stop
for ever. No bound of the model is needed for progress.

`FairSystemSpec` adds the other event loop: what reaches either side is handled
(strong where the gateway must be idle), the app reconnects
(`fleet/client/events.ts` 46-73, with back-off), a started app finishes
starting, and a job's own steps go on: each call has a time limit, each command
has one (`timeoutMinutes`), and a transfer ends or fails. It assumes neither
that the owner turns the runner on again nor that the app is opened again.

`JobDelivery` and `ConversationMove` need weak fairness only. Of the first: event
loops go on, the gateway's tick sends again what was not sent (`Send`), a
waiting input is claimed, and an environment that stopped is started again
(the gateway restarts its container). Of the second: hosts and coordinator go
on, and a person who finds a move in the recovery list resolves it the way it
can still go, which past the verification is `Continue`, and once it turned
back `Rollback`; while both are open nothing is assumed. Troubles are bounded,
so neither needs a fairness against them. Nothing live is said of `Routines`,
whose runs depend on their bots.

## The proofs

`RunnerBrokerProofs` holds for any finite sets of jobs, bots and computers, and
any timeouts with `AcceptTimeout <= LostGrace`:

| Theorem | States |
|---|---|
| `TypeCorrect` | `TypeOK` |
| `JobsNeedLinks` | `ActiveHasLink` |
| `NothingStranded` | `NoJobStranded` |
| `TimersAgree` | `TimersMatchStates` |
| `CancelHolds` | `CancelIsKept` |
| `RunsOnce` | `RunsAtMostOnce` |
| `SlotsKept` | `AssignedWithinSlots` |
| `QueueInOrder` | `NoOvertaking` (when `SkipTime # 0`) |
| `Implementation` | `ImplementsJob` |

The inductive invariant `IInv` is the conjunction of `TypeOK`, `Bookkeeping`,
`StreamsBounded`, `ActiveHasLink`, `NoJobStranded`, `TimersMatchStates` and
`CancelIsKept`. None of the invariants is inductive alone: that a computer's
job is not stranded needs to know that a present computer has a stream open or
closing, whose close event will start the grace period; that timers agree
needs to know which jobs have a computer at all. `Bookkeeping` says that a job
has a computer exactly from its assignment on, and which rows `todo` and
`doomed` may hold; `StreamsBounded` that open and closing streams together stay
within the bound. Each action has one step in the proof that `IInv` is
preserved. `Implementation` needs one more invariant, `AcceptsInTime`: a job
that waits to be accepted has an accept deadline no later than the end of its
computer's grace period, so that `tick()` requeues it and does not call it
lost. This is where `AcceptTimeout <= LostGrace` is used.

`RunnerWorkerProofs` holds for any finite set of jobs and any number of slots:

| Theorem | States |
|---|---|
| `TypeCorrect` | `TypeOK` |
| `OnDisk` | `AcceptedOnDisk` |
| `SlotsKept` | `SlotsRespected` |
| `ToldTheTruth` | `ReportsAreCurrent` |

Its `IInv` joins three invariants to `TypeOK` and `AcceptedOnDisk`.
`Bookkeeping`: an app that does not run holds nothing, and which jobs have an
outcome. `BusyBounded`: the jobs that take up a slot, those still to be accepted
included, are at most the slots; `SlotsRespected` leaves these out and cannot
survive an acceptance alone. `ReportsCover`: while no further report is due, the
one in flight, or else the last one answered, names every job the computer
accepted and none that is gone; that the last answered report is current could
not survive its own answer, since jobs come and go while it travels.

`RunnerSystemProofs` holds for every instance of `RunnerSystem`: any jobs,
computers, bounds, and kinds and number of troubles:

| Theorem | States |
|---|---|
| `GatewayIsBroker` | `ImplementsBroker` |
| `ComputerIsWorker` | `ImplementsWorker` |
| `SystemTypes` | `SystemTypeOK` |
| `StartsOnce` | `CommandStartsOnce` |
| `NeverWaitsAgain` | `StartedIsNotWaiting` |
| `NoSecondComputer` | `OneComputer` |
| `SuccessHappened` | `SuccessIsReal` |

The first two say that every theorem about `RunnerBroker` and `RunnerWorker`
holds of the system too. Each is by cases on the steps of the system; the second
needs that events on their way name jobs (`TravelsTyped`), since the worker takes
what it reads. The others are what only both sides together can promise. None of
them is inductive, as the gateway's state and the computer's differ while
a call is on its way. `Followed` relates them through the call and through the
requests nobody waits for (`ZeroOnTheWay`): a late result of zero is of a command
that exited with zero. A yes to accept is
given only while the job is assigned to this computer, so it is `Settled` at the
gateway before the command starts, and the job had no command before; a zero that
the computer will report is a zero its command had. `SettledStays` takes the rest
from the broker alone (`OnceStep`): what one computer accepted never queues or
moves again. `SuccessComesFromZero` shows that of all steps of the system only the
result of a command can turn a job of the computer into a success, in particular
no result that a restart owes and no other computer's.

`InputQueueProofs` holds for any finite set of inputs, any keys and texts and
any number of troubles:

| Theorem | States |
|---|---|
| `TypeCorrect` | `QueueTypeOK` |
| `NothingLost` | `NotLost` |
| `NeverAskedTwice` | `AskedOnce` |
| `KeyQueuedOnce` | `OncePerKey` |

`NotLost` is not inductive: a crash leaves what is on disk, and that depends on
what the update in progress has written. `UpdateKeeps` says that an update takes
from the queue only what it deletes and has logged what it settles before the
file goes; `MemoryOnDisk` that what memory holds is on disk and what was
accepted is in memory; `FileUnsettled` that the file holds no settled input; and
`TurnAwaits` that a turn waits for the update it asked for.

For the other two, `AInv` says what queue, disk and chat are to each other.
`Disk`: the file is the queue without its settled inputs, and the log holds
those as they are, beside old lines of inputs that no longer settle anything;
an input that is not deleted has a line only while it is queued
(`DiskLoad`: so a start finds the queue it lost, and possibly deleted inputs).
`ItemsTrue`, `TurnHolds` and `UpdateIs` say that an input's message asks what
the input asks, that the input of a turn has no message yet, and which queues an
update may write. `Covered` is the heart: every message of the chat has a
started input *of its own* that asks it, which holds the message, or may still
get it from a recovery. A turn adds one message and one such input. A recovery
gives out messages by their text, not by whose they were, so the assignment is
made anew: by `AllTaken` every message that was nobody's is taken by somebody,
since those that may take it are at least as many as the messages before it
(`OneLess` is the counting), and only inputs left without one are asked again.
`KeysOnce` is `OncePerKey` of what memory and disk hold.

`JobDeliveryProofs` holds for any jobs too:

| Theorem | States |
|---|---|
| `DeliveryTypes` | `DeliveryTypeOK` |
| `Told` | `ForgottenIsTold` |
| `StillNothingLost` | `NotLost` |
| `StillAskedOnce` | `AskedOnce` |
| `StillOncePerKey` | `OncePerKey` |

Its lemma `QueueSteps` says that each step is a step of the queue or leaves it,
which carries the queue's invariants over. `CallsInv` says that what a call
brings of its job was so (`SaysTrue`: no later number than the row's, no other
end) and that record and queue are as far as the call is (`HasDone`);
`RecordsTrue` that nobody is ahead of the gateway's row. `ForgottenIsTold` needs
them, since a late call must not mark what it did not bring.

`RoutinesProofs` holds for any routines, times and troubles with
`Late + Patience < Day`:

| Theorem | States |
|---|---|
| `TypeCorrect` | `RoutinesTypeOK` |
| `DueOnce` | `OncePerDue` |
| `FinishReached` | `FinishReachesRun` |

`Timely` says that a running call is younger than `Patience` and, if scheduled,
was due no longer than `Late` before; `KeysTellDue` that what a bot accepted of a
due time has that time in its key and came within `Late + Patience` of it. So
when a due time fires again in time, the bot still knows its key.

`FinishReachesRun` is carried by `FinishInv`. `PendingHeard`: a kept finish is of
an input without a run, is no older than the input, and is what was last heard
of it while no finish of the input can have expired (`Fresh`). `HeardKept`: what
was heard of such an input is kept. `RunsShow`: a run shows what was heard, and
"delivered" if nothing was, without which a finish could meet a run that already
completed. A receipt comes at most `Patience` after its call, so the input of an
`InTime` run is `Fresh` when the run is inserted.

`ConversationMoveProofs` holds for any hosts, moves, messages and troubles:

| Theorem | States |
|---|---|
| `TypeCorrect` | `MoveTypeOK` |

Liveness is only model-checked (`QueuedMovesOn`, `OfflineJobsEnd`,
`RevokedLosesAll`, `CancelEnds`, `AcceptedJobsEnd`, `EndedJobsLeave`,
`EndsAreHeard`, `MovesGetThrough`), as fairness and `ENABLED` are beyond the
prover. Every other property of a run that passes is a theorem, under the
assumptions named above.

## Where code and documentation disagree

With a run that shows it:

1. `system_report`. `report()` takes a report for what the computer holds now
   (`runners.ts` 203-207). A report made before a job was taken, sent or
   handled late, may follow that job's accept: the job ends as lost while the
   computer runs it.
2. `system_progress`. The worker repeats `progress()` when the answer is lost
   (`worker.ts` 688), but the gateway refuses a job that is already finishing
   (`runners.ts` 374). A command that exited with zero ends as failed, and its
   outputs do not come back.
3. `broker_crash_revoke`. A gateway that dies inside `revokeDevice()`
   (`runners.ts` 172-180), after the links are deleted and before the jobs
   ended, leaves the jobs running: the next sweep deletes the grace period that
   `start()` set and finds no link to drop.

Seen while modelling; number 8 has a run too:

4. The cancel deadline `cancelBy` is in memory only. After a restart a running
   job whose cancellation was requested has no deadline, and `start()`
   (534-547) does not set one: while its computer is present it runs as long as
   it likes. `CancelEnds` is therefore stated up to the next restart.
5. `runner.cancel` is sent once, on the newest stream. When it is lost with the
   stream, the next report does not stop the job either: `report()` names only
   jobs that ended or are another computer's (line 200), and one whose
   cancellation is requested is neither until the grace period ends it, when
   nothing is sent. The command may run to its end after its job was cancelled
   (`docs/bot-fleet.md` 1328: "A job stops when you cancel it").
6. `stop()` of the worker promises that "the jobs stay written to disk"
   (`worker.ts` 519-521), but `run()` asks whether the app quits before it waits
   for `finish()` (line 571): when the app quits during that wait the job
   leaves the state file without a result, and no start reports it.
7. `begin()` of `runner-host.ts` keeps the promise of `worker.start()`; if that
   rejected once, the runner never reports until the app restarts.
8. `move_late`. A call of a move that is lost fails at the desktop
  (`remote-endpoint.ts` 16-25) while its handler goes on at the host, and `resolve()`
  (`service.ts` 449-461) does not wait for it, although the documentation
  (`docs/remote-workspaces.md` 172) says: "the conversation stays held on both
  machines". What TLC finds when a move is resolved while the handler still runs:
  - an import: a second import undoes the first and lets its lease go, and the first
    goes on to insert its rows. The target has a copy that nothing holds. An import
    that is late in its undoing takes a target that was verified since back to
    "workspace-ready".
  - a freeze: the freeze that is called again finds the journal and returns at once
    (`source.ts` 199-204), the move goes on to its verification, and the first freeze
    then fails and writes "thawed" (191). `releaseSource` throws "stale" (318) from
    then on, and the move can no longer be undone: it is stuck.
  - an export: it writes "exported" (307) whatever happened since, also when the source was
    thawed or let the conversation go.
  - a release: it deletes a copy that came back with a later move.
9. A source host that stops between "releasing" and the deletion of the
   conversation (`source.ts` 321) starts with a conversation that no lease holds:
   leases come back only for frozen and exported endpoints, although the comment
   at the start (`main/index.ts` 1333) says: "a conversation an unfinished move
   holds stays leased". What is said there until the move goes on is deleted with it.
   `broken` marks these states; the register promises nothing of them.
10. A turn fails, and the write that takes its input back fails too
   (`runtime.ts` 2320): the input stays started without a message until the next
   recovery, although the comment (2297) says: "The input stays queued: it starts
   again later". `Stranded`
   is this state, which `EndsAreHeard` excepts.
11. A late state of a job that has not ended moves its record back
   (`runner-jobs/files.ts` 98-104 protects ends only). Nothing is lost: the end
   still comes.
12. `fire()` saves the row it read before it awaited the bot (`routines.ts` 662).
   An edit or a pause made meanwhile is undone, a deleted routine is back, and a
   due time may be due again. `OncePerDue` says what still holds.
13. When the receipt of a prompt is lost, the routine's last outcome is "failed" and
   no run is stored, although the bot runs the prompt.
14. A crash of the gateway loses `pendingFinishes`: the due time that fires again
   gets the input it had, and the run stored for it stays "delivered", as its
   finish was told before. `heard` counts from the last start.

15. An input its owner deleted may be back after a restart. A recovery appends a
   settled line of an input to the log and the write of the file fails; another
   input that asks the same and stands before it in the queue starts and fails, and
   its recovery gets the message, so that the first waits again, with its line still
   in the log. The owner deletes it (`queue.ts` 512-524
   writes no line), and at the next start `load()` (297-322), in which the file
   wins only for inputs it has, takes the line for a settled input. `AskedOnce` and
   `OncePerKey` therefore speak of inputs that are not `gone`. The input is not
   asked again.
16. The finish of a run may be lost without a restart. The receipt of a scheduled
   prompt is lost, and a manual run that read the routine before saves its old row:
   the due time is due again, up to 15 minutes late when other bots keep the tick
   waiting (`routines.ts` 578). The bot knows its key and the run is inserted, but
   a finish heard meanwhile is kept for 5 minutes only (457): the run stays
   "delivered". `InTime` leaves these runs out; without it TLC finds one.
17. An accept that the worker gave up (`worker.ts` 592-600), or whose app died, may
   reach the gateway later and be handled: the job is the computer's there, while
   the computer holds nothing of it. The next report ends it as lost. When the app
   dies and starts again, the result it owes for the job and its first, empty report
   may both come before the late accept: the job then stays "running" at the gateway
   until something makes the computer report again. With "delayed" among the troubles
   of `system_live` TLC finds this as a violation of `AcceptedJobsEnd`.
18. A freeze that cannot stop the turn thaws (`source.ts` 221-226), and the thawing
   may fail itself (`dropMoveRefs`, `removeMoveStaging`): the journal stays "frozen"
   with the lease, and the turn runs on. When the move is continued, the repeated
   freeze returns at once (199-204) without stopping or checking anything. What the
   turn says after the export is deleted with the source.

## Not modelled

Every component without a module has its reason in `PROJECT.json`. The largest,
the chat service, its providers, the renderer, the lifecycle of containers and
the mobile client, drive programs outside the repository or hold the state of a
user interface; a model of them would restate assignments.

Candidates that do have states worth checking, in the order in which they would
be next: host transfers (`host-transfers/engine.ts`: a cancellation that meets the
publication of a file), background compaction, subscription failover, and
messages between peers. They are left out because the work went into how deep
the present components go: each has its faults, its composition where one
exists, and its proofs.

Proofs that would be next: for the environment's runner jobs, that a recovery and a
call that the gateway gave up agree on a record.
