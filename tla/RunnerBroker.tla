---------------------------- MODULE RunnerBroker ----------------------------
(***************************************************************************)
(* The gateway's runner broker (apps/bot-gateway/src/runners.ts): it queues *)
(* the jobs of bots, sends each to the stream of one linked computer, and   *)
(* follows it until it ends.  The tables of store.ts are durable; presence, *)
(* timers and open streams are lost when the gateway restarts.              *)
(*                                                                         *)
(* A handler is synchronous: while `doomed` or `todo` is not empty the      *)
(* handler that filled it is still running, and only its own steps, another *)
(* process, the network or a crash can move.  `todo` holds the jobs         *)
(* schedule() has not looked at yet, `doomed` those dropLink() must end.    *)
(*                                                                         *)
(* Deadlines are kept as the time left (Off when there is none), so time    *)
(* has no bound; 0 is a deadline that passed and that tick() will apply.    *)
(* Job ids are numbers in the order of submission, the order (createdAt,    *)
(* id) in which the queue is served.                                        *)
(*                                                                         *)
(* Name_Variant is Name with one slip of the code; nothing here uses it.    *)
(***************************************************************************)
EXTENDS Integers, FiniteSets

CONSTANTS
    Jobs,            \* job ids
    Bots,
    Devices,         \* the owner's paired computers
    NoDevice,        \* a job no computer has
    Absent,          \* a computer that has not reported on an open stream
    BotOf,           \* the bot that submits each job
    Meets,           \* the computers whose capabilities meet each job
    MaxSlots,        \* FLEET_RUNNER_LIMITS.slotsMax
    AcceptTimeout, SkipTime, LostGrace, QueueTimeout, Retention,
    MaxActive,       \* FLEET_RUNNER_LIMITS.activeJobsPerBotMax
    MaxLinks,        \* FLEET_RUNNER_LIMITS.linksPerBotMax
    MaxMint,         \* bound: runner ids ever minted
    MaxStreams,      \* bound: streams of one computer open or closing at once
    MaxRestarts      \* bound: gateway restarts

ASSUME JobsAssumption ==
    /\ Jobs \subseteq Nat
    /\ IsFiniteSet(Jobs)
    /\ IsFiniteSet(Devices)
    /\ BotOf \in [Jobs -> Bots]
    /\ Meets \in [Jobs -> SUBSET Devices]
ASSUME NoDeviceAssumption == NoDevice \notin Devices
ASSUME BoundsAssumption ==
    /\ MaxSlots \in Nat /\ MaxActive \in Nat /\ MaxLinks \in Nat
    /\ MaxMint \in Nat /\ MaxStreams \in Nat /\ MaxRestarts \in Nat
ASSUME TimesAssumption ==
    /\ AcceptTimeout \in Nat /\ SkipTime \in Nat /\ LostGrace \in Nat
    /\ QueueTimeout \in Nat /\ Retention \in Nat
    /\ AcceptTimeout <= LostGrace

Off == -1                       \* no deadline
Timer(n) == -1..n
\* What a computer last reported: the slots it offers, 0 when it accepts no
\* jobs or states no capabilities.
Offers == 0..MaxSlots
ASSUME AbsentAssumption == Absent \notin Offers

Active == {"assigned", "running", "finishing"}
OnRunner == {"running", "finishing"}
Final == {"succeeded", "failed", "cancelled", "expired", "lost"}
Unfinal == {"queued"} \cup Active
\* "none": not submitted; "gone": the row was deleted.
JobStates == {"none", "gone"} \cup Unfinal \cup Final

VARIABLES
    \* durable
    bots, revoked, links, minted, known,
    state, on, wants, cancelRequested, queueDeadline, retained,
    \* in memory
    presence, live, closing, acceptBy, cancelBy, lostAt, skips,
    todo, doomed, restarts

computers == <<bots, revoked, links, minted, known>>
rows == <<state, on, wants, cancelRequested, queueDeadline, retained>>
presences == <<presence, live, closing, lostAt>>
timers == <<acceptBy, cancelBy, skips>>
handling == <<todo, doomed>>
vars == <<bots, revoked, links, minted, known, state, on, wants,
          cancelRequested, queueDeadline, retained, presence, live, closing,
          acceptBy, cancelBy, lostAt, skips, todo, doomed, restarts>>

TypeOK ==
    /\ bots \in SUBSET Bots
    /\ revoked \in SUBSET Devices
    /\ links \in [Bots -> [Devices -> 0..MaxMint]]
    /\ minted \in 0..MaxMint
    /\ known \in SUBSET Devices
    /\ state \in [Jobs -> JobStates]
    /\ on \in [Jobs -> Devices \cup {NoDevice}]
    /\ wants \in [Jobs -> 0..MaxMint]
    /\ cancelRequested \in [Jobs -> BOOLEAN]
    /\ queueDeadline \in [Jobs -> 0..QueueTimeout]
    /\ retained \in [Jobs -> 0..Retention]
    /\ presence \in [Devices -> Offers \cup {Absent}]
    /\ live \in [Devices -> 0..MaxStreams]
    /\ closing \in [Devices -> 0..MaxStreams]
    /\ acceptBy \in [Jobs -> Timer(AcceptTimeout)]
    /\ cancelBy \in [Jobs -> Timer(LostGrace)]
    /\ lostAt \in [Devices -> Timer(LostGrace)]
    /\ skips \in [Jobs -> [Devices -> 0..SkipTime]]
    /\ todo \in SUBSET Jobs
    /\ doomed \in SUBSET Jobs
    /\ restarts \in 0..MaxRestarts

-----------------------------------------------------------------------------
NoSkips == [d \in Devices |-> 0]
Idle == todo = {} /\ doomed = {}

Linked(b, d) == links[b][d] # 0
\* active(): the links of a bot whose computer is not revoked.
ActiveLinks(b) == {d \in Devices : Linked(b, d) /\ d \notin revoked}
StreamOpen(d) == live[d] > 0
Online_Reported(d) == presence[d] \in Offers \ {0}
Online(d) == StreamOpen(d) /\ presence[d] \in Offers \ {0}
\* busy(): the jobs of a computer, whatever their bot.
JobsOn(d) == {j \in Jobs : on[j] = d /\ state[j] \in Active}
Free_Accepted(d) ==
    presence[d] - Cardinality({j \in Jobs : on[j] = d /\ state[j] \in OnRunner})
Free(d) == presence[d] - Cardinality(JobsOn(d))
Queued == {j \in Jobs : state[j] = "queued"}
UnfinalOf(b) == {j \in Jobs : BotOf[j] = b /\ state[j] \in Unfinal}

EndJobs_KeepsAcceptBy(S, final) ==
    /\ state' = [j \in Jobs |-> IF j \in S THEN final[j] ELSE state[j]]
    /\ queueDeadline' = [j \in Jobs |-> IF j \in S THEN 0 ELSE queueDeadline[j]]
    /\ retained' = [j \in Jobs |-> IF j \in S THEN Retention ELSE retained[j]]
    /\ cancelBy' = [j \in Jobs |-> IF j \in S THEN Off ELSE cancelBy[j]]
    /\ skips' = [j \in Jobs |-> IF j \in S THEN NoSkips ELSE skips[j]]
    /\ UNCHANGED acceptBy

\* end(): the jobs of S reach their final states and lose every timer.
EndJobs(S, final) ==
    /\ state' = [j \in Jobs |-> IF j \in S THEN final[j] ELSE state[j]]
    /\ queueDeadline' = [j \in Jobs |-> IF j \in S THEN 0 ELSE queueDeadline[j]]
    /\ retained' = [j \in Jobs |-> IF j \in S THEN Retention ELSE retained[j]]
    /\ acceptBy' = [j \in Jobs |-> IF j \in S THEN Off ELSE acceptBy[j]]
    /\ cancelBy' = [j \in Jobs |-> IF j \in S THEN Off ELSE cancelBy[j]]
    /\ skips' = [j \in Jobs |-> IF j \in S THEN NoSkips ELSE skips[j]]
All(final) == [j \in Jobs |-> final]

\* The rows of the jobs of S go: nothing is left of them but their state.
DeleteRows(S) ==
    /\ on' = [j \in Jobs |-> IF j \in S THEN NoDevice ELSE on[j]]
    /\ wants' = [j \in Jobs |-> IF j \in S THEN 0 ELSE wants[j]]
    /\ cancelRequested' = [j \in Jobs |-> j \notin S /\ cancelRequested[j]]

\* schedule() starts: it serves the jobs queued now.
Schedule == todo' = {j \in Jobs : state'[j] = "queued"}

Init ==
    /\ bots = Bots
    /\ revoked = {}
    /\ links = [b \in Bots |-> [d \in Devices |-> 0]]
    /\ minted = 0
    /\ known = {}
    /\ state = [j \in Jobs |-> "none"]
    /\ on = [j \in Jobs |-> NoDevice]
    /\ wants = [j \in Jobs |-> 0]
    /\ cancelRequested = [j \in Jobs |-> FALSE]
    /\ queueDeadline = [j \in Jobs |-> 0]
    /\ retained = [j \in Jobs |-> 0]
    /\ presence = [d \in Devices |-> Absent]
    /\ live = [d \in Devices |-> 0]
    /\ closing = [d \in Devices |-> 0]
    /\ acceptBy = [j \in Jobs |-> Off]
    /\ cancelBy = [j \in Jobs |-> Off]
    /\ lostAt = [d \in Devices |-> Off]
    /\ skips = [j \in Jobs |-> NoSkips]
    /\ todo = {}
    /\ doomed = {}
    /\ restarts = 0

-----------------------------------------------------------------------------
(* Links of computers to bots.                                             *)

\* A computer links itself to a bot, or renames the link it has.
LinkDevice(b, d) ==
    /\ Idle /\ b \in bots /\ d \notin revoked
    /\ \/ /\ Linked(b, d)
          /\ UNCHANGED <<links, minted>>
       \/ /\ ~Linked(b, d)
          /\ Cardinality({e \in Devices : Linked(b, e)}) < MaxLinks
          /\ minted < MaxMint
          /\ minted' = minted + 1
          /\ links' = [links EXCEPT ![b][d] = minted + 1]
    /\ todo' = Queued
    /\ UNCHANGED <<rows, presences, timers, bots, revoked, known, doomed,
                   restarts>>

Dropped_QueuedOnly(b, d) ==
    {j \in Jobs : BotOf[j] = b /\ state[j] = "queued" /\ wants[j] = links[b][d]}
Dropped_Ended(b, d) ==
    {j \in Jobs : /\ BotOf[j] = b
                  /\ \/ on[j] = d
                     \/ state[j] = "queued" /\ wants[j] = links[b][d]}

\* dropLink(): the bot's jobs on the computer, and those queued for it alone.
Dropped(b, d) ==
    {j \in Jobs : /\ BotOf[j] = b
                  /\ state[j] \in Unfinal
                  /\ \/ on[j] = d
                     \/ state[j] = "queued" /\ wants[j] = links[b][d]}

\* The link goes in a transaction of its own; its jobs end next (EndDropped).
UnlinkDevice(b, d) ==
    /\ Idle /\ Linked(b, d)
    /\ links' = [links EXCEPT ![b][d] = 0]
    /\ doomed' = Dropped(b, d)
    /\ UNCHANGED <<rows, presences, timers, bots, revoked, minted, known, todo,
                   restarts>>

\* The rest of dropLink(): a job a computer had is cancelled, a queued one fails.
EndDropped ==
    /\ doomed # {}
    /\ EndJobs(doomed, [j \in Jobs |-> IF on[j] = NoDevice THEN "failed"
                                                           ELSE "cancelled"])
    /\ doomed' = {}
    /\ UNCHANGED <<computers, presences, on, wants, cancelRequested, todo,
                   restarts>>

\* devices.revoked_at is set, by a route or by another process (the CLI).
MarkRevoked(d) ==
    /\ d \notin revoked
    /\ revoked' = revoked \cup {d}
    /\ UNCHANGED <<rows, presences, timers, handling, bots, links, minted,
                   known, restarts>>

\* server.ts revokeDevice(), by the route and by the sweep every ten seconds.
RevokeDevice(d) ==
    /\ Idle /\ d \in revoked
    /\ live' = [live EXCEPT ![d] = 0]
    /\ closing' = [closing EXCEPT ![d] = closing[d] + live[d]]
    /\ links' = [b \in Bots |-> [links[b] EXCEPT ![d] = 0]]
    /\ presence' = [presence EXCEPT ![d] = Absent]
    /\ lostAt' = [lostAt EXCEPT ![d] = Off]
    /\ doomed' = UNION {Dropped(b, d) : b \in {c \in Bots : Linked(c, d)}}
    /\ UNCHANGED <<rows, timers, bots, revoked, minted, known, todo, restarts>>

\* A bot's rows are deleted with it; botPurged() drops what waits on its jobs.
BotPurged(b) ==
    /\ Idle /\ b \in bots
    /\ bots' = bots \ {b}
    /\ links' = [links EXCEPT ![b] = [d \in Devices |-> 0]]
    /\ LET its == {j \in Jobs : BotOf[j] = b /\ state[j] # "none"} IN
       /\ EndJobs(its, All("gone"))
       /\ DeleteRows(its)
    /\ UNCHANGED <<presences, handling, revoked, minted, known, restarts>>

-----------------------------------------------------------------------------
(* Streams and reports of computers.                                       *)

WentOffline_NoGrace(d) ==
    /\ presence' = [presence EXCEPT ![d] = Absent]
    /\ UNCHANGED lostAt

\* deviceChanged() of a computer whose last runner stream is not open.
WentOffline(d) ==
    /\ presence' = [presence EXCEPT ![d] = Absent]
    /\ lostAt' = IF JobsOn(d) # {} THEN [lostAt EXCEPT ![d] = LostGrace] ELSE lostAt

\* A computer opens a stream with runners=1; it takes no job before it reports.
OpenStream(d) ==
    /\ Idle /\ d \notin revoked
    /\ live[d] + closing[d] < MaxStreams
    /\ live' = [live EXCEPT ![d] = live[d] + 1]
    /\ UNCHANGED <<computers, rows, timers, handling, presence, closing,
                   lostAt, restarts>>

\* The socket is destroyed: its close event has not run yet.
DropStream(d) ==
    /\ StreamOpen(d)
    /\ live' = [live EXCEPT ![d] = live[d] - 1]
    /\ closing' = [closing EXCEPT ![d] = closing[d] + 1]
    /\ UNCHANGED <<computers, rows, timers, handling, presence, lostAt,
                   restarts>>

\* The close event: the computer is offline unless another stream is open.
CloseEvent(d) ==
    /\ Idle /\ closing[d] > 0
    /\ closing' = [closing EXCEPT ![d] = closing[d] - 1]
    /\ IF StreamOpen(d) THEN UNCHANGED <<presence, lostAt>> ELSE WentOffline(d)
    /\ UNCHANGED <<computers, rows, timers, handling, live, restarts>>

\* Running jobs of a reporting computer that it does not hold.
NoLongerHeld(d, held) ==
    {j \in Jobs : on[j] = d /\ state[j] \in OnRunner /\ j \notin held}

\* report(): `capable` when it states capabilities, which are then stored.
Report(d, offers, capable, held) ==
    /\ Idle /\ d \notin revoked /\ StreamOpen(d)
    /\ offers > 0 => capable
    /\ presence' = [presence EXCEPT ![d] = offers]
    /\ known' = IF capable THEN known \cup {d} ELSE known
    /\ lostAt' = [lostAt EXCEPT ![d] = Off]
    /\ EndJobs(NoLongerHeld(d, held), All("lost"))
    /\ Schedule
    /\ UNCHANGED <<bots, revoked, links, minted, on, wants, cancelRequested,
                   live, closing, doomed, restarts>>

-----------------------------------------------------------------------------
(* Jobs: the bot's side.                                                   *)

\* The runner ids of a bot's active links that a submission may ask for.
RunnerIds(b) == {links[b][d] : d \in ActiveLinks(b)}

\* submit() of a new id that is not refused; r = 0 asks for no one runner.
Submit(j, r) ==
    LET b == BotOf[j]
        eligible == {d \in ActiveLinks(b) : r = 0 \/ links[b][d] = r}
    IN
    /\ Idle /\ b \in bots
    /\ state[j] = "none"
    /\ \A i \in Jobs : i < j => state[i] # "none" \/ BotOf[i] \notin bots
    /\ r \in {0} \cup RunnerIds(b)
    /\ eligible # {}
    /\ \E d \in eligible : d \notin known \/ d \in Meets[j]
    /\ Cardinality(UnfinalOf(b)) < MaxActive
    /\ state' = [state EXCEPT ![j] = "queued"]
    /\ wants' = [wants EXCEPT ![j] = r]
    /\ queueDeadline' = [queueDeadline EXCEPT ![j] = QueueTimeout]
    /\ Schedule
    /\ UNCHANGED <<computers, presences, timers, on, cancelRequested, retained,
                   doomed, restarts>>

\* cancel(): a job no runner accepted ends at once; a running one is asked to.
CancelQueued(j) ==
    /\ Idle /\ state[j] = "queued"
    /\ EndJobs({j}, All("cancelled"))
    /\ UNCHANGED <<computers, presences, handling, on, wants, cancelRequested,
                   restarts>>

CancelAssigned(j) ==
    /\ Idle /\ state[j] = "assigned"
    /\ EndJobs({j}, All("cancelled"))
    /\ Schedule
    /\ UNCHANGED <<computers, presences, on, wants, cancelRequested, doomed,
                   restarts>>

CancelRunning(j) ==
    /\ Idle /\ state[j] \in OnRunner
    /\ cancelRequested' = [cancelRequested EXCEPT ![j] = TRUE]
    /\ cancelBy' = [cancelBy EXCEPT ![j] = LostGrace]
    /\ UNCHANGED <<computers, presences, handling, state, on, wants,
                   queueDeadline, retained, acceptBy, skips, restarts>>

-----------------------------------------------------------------------------
(* Jobs: the runner's side.  owned() lets only the assigned computer move a *)
(* job, and a revoked one has no token.                                     *)

Owned(j, d) == on[j] = d /\ d \notin revoked

Accept(j, d) ==
    /\ Idle /\ Owned(j, d) /\ state[j] = "assigned"
    /\ acceptBy' = [acceptBy EXCEPT ![j] = Off]
    /\ state' = [state EXCEPT ![j] = "running"]
    /\ UNCHANGED <<computers, presences, handling, on, wants, cancelRequested,
                   queueDeadline, retained, cancelBy, skips, restarts>>

Progress(j, d) ==
    /\ Idle /\ Owned(j, d) /\ state[j] = "running"
    /\ state' = [state EXCEPT ![j] = "finishing"]
    /\ UNCHANGED <<computers, presences, timers, handling, on, wants,
                   cancelRequested, queueDeadline, retained, restarts>>

\* A job cancelled meanwhile is cancelled whatever its exit code.
FinishedAs_ExitCode(j, ok) == IF ok THEN "succeeded" ELSE "failed"
FinishedAs(j, ok) ==
    IF cancelRequested[j] THEN "cancelled" ELSE IF ok THEN "succeeded" ELSE "failed"

Finish(j, d, ok) ==
    /\ Idle /\ Owned(j, d) /\ state[j] \in OnRunner
    /\ EndJobs({j}, All(FinishedAs(j, ok)))
    /\ Schedule
    /\ UNCHANGED <<computers, presences, on, wants, cancelRequested, doomed,
                   restarts>>

-----------------------------------------------------------------------------
(* schedule(): one step for each queued job, oldest first.                 *)

Candidates(j) ==
    {d \in ActiveLinks(BotOf[j]) :
        /\ wants[j] \in {0, links[BotOf[j]][d]}
        /\ Online(d)
        /\ skips[j][d] = 0
        /\ d \in Meets[j]
        /\ Free(d) > 0}

\* The most free slots, and the oldest link on a tie.
Best(j, d) ==
    /\ d \in Candidates(j)
    /\ \A e \in Candidates(j) :
          \/ Free(e) < Free(d)
          \/ Free(e) = Free(d) /\ links[BotOf[j]][d] <= links[BotOf[j]][e]

Oldest_Youngest(j) == j \in todo /\ \A i \in todo : i <= j
Oldest(j) == j \in todo /\ \A i \in todo : j <= i

\* assign(): the job goes to the runner's stream.
Assign(j, d) ==
    /\ doomed = {} /\ Oldest(j) /\ Best(j, d)
    /\ state' = [state EXCEPT ![j] = "assigned"]
    /\ on' = [on EXCEPT ![j] = d]
    /\ acceptBy' = [acceptBy EXCEPT ![j] = AcceptTimeout]
    /\ todo' = todo \ {j}
    /\ UNCHANGED <<computers, presences, wants, cancelRequested, queueDeadline,
                   retained, cancelBy, skips, doomed, restarts>>

\* assign() to a stream too far behind, which is destroyed: requeue().
AssignUnsent(j, d) ==
    /\ doomed = {} /\ Oldest(j) /\ Best(j, d)
    /\ live' = [live EXCEPT ![d] = live[d] - 1]
    /\ closing' = [closing EXCEPT ![d] = closing[d] + 1]
    /\ skips' = [skips EXCEPT ![j][d] = SkipTime]
    /\ todo' = todo \ {j}
    /\ UNCHANGED <<computers, rows, presence, acceptBy, cancelBy, lostAt,
                   doomed, restarts>>

PassOver(j) ==
    /\ doomed = {} /\ Oldest(j) /\ Candidates(j) = {}
    /\ todo' = todo \ {j}
    /\ UNCHANGED <<computers, rows, presences, timers, doomed, restarts>>

ScheduleStep ==
    \E j \in Jobs : \/ PassOver(j)
                    \/ \E d \in Devices : Assign(j, d) \/ AssignUnsent(j, d)

-----------------------------------------------------------------------------
(* Time and the timer.                                                     *)

Less(t) == IF t > 0 THEN t - 1 ELSE t

TimePasses ==
    /\ Idle
    /\ queueDeadline' = [j \in Jobs |-> Less(queueDeadline[j])]
    /\ retained' = [j \in Jobs |-> Less(retained[j])]
    /\ acceptBy' = [j \in Jobs |-> Less(acceptBy[j])]
    /\ cancelBy' = [j \in Jobs |-> Less(cancelBy[j])]
    /\ lostAt' = [d \in Devices |-> Less(lostAt[d])]
    /\ skips' = [j \in Jobs |-> [d \in Devices |-> Less(skips[j][d])]]
    /\ UNCHANGED <<computers, handling, state, on, wants, cancelRequested,
                   presence, live, closing, restarts>>

\* What tick() finds due, in the order in which it looks.
Unaccepted == {j \in Jobs : acceptBy[j] = 0 /\ state[j] = "assigned"}
Overstayed_Running == {j \in Jobs : cancelBy[j] = 0 /\ state[j] = "running"}
Overstayed == {j \in Jobs : cancelBy[j] = 0 /\ state[j] \in Unfinal}
LostDevices == {d \in Devices : lostAt[d] = 0 /\ presence[d] = Absent}
LostJobs_First == {j \in Jobs : on[j] \in LostDevices /\ state[j] \in Active} \ Overstayed
LostJobs == {j \in Jobs : on[j] \in LostDevices /\ state[j] \in Active}
                \ (Unaccepted \cup Overstayed)
Expired_QueuedOnly == {j \in Queued : queueDeadline[j] = 0}
Expired == {j \in Queued \cup Unaccepted : queueDeadline[j] = 0}
Old == {j \in Jobs : state[j] \in Final /\ retained[j] = 0}

\* tick(); `forgotten` are old jobs whose end their environment received.
Tick(forgotten) ==
    LET ended == Overstayed \cup LostJobs \cup Expired
    IN
    /\ Idle
    /\ forgotten \subseteq Old
    /\ state' = [j \in Jobs |->
          CASE j \in Overstayed -> "cancelled"
            [] j \in LostJobs -> IF cancelRequested[j] THEN "cancelled" ELSE "lost"
            [] j \in Expired -> "expired"
            [] j \in Unaccepted \ Expired -> "queued"
            [] j \in forgotten -> "gone"
            [] OTHER -> state[j]]
    /\ on' = [j \in Jobs |-> IF j \in Unaccepted \cup forgotten THEN NoDevice ELSE on[j]]
    /\ wants' = [j \in Jobs |-> IF j \in forgotten THEN 0 ELSE wants[j]]
    /\ cancelRequested' = [j \in Jobs |-> j \notin forgotten /\ cancelRequested[j]]
    /\ queueDeadline' = [j \in Jobs |-> IF j \in ended THEN 0 ELSE queueDeadline[j]]
    /\ retained' = [j \in Jobs |-> IF j \in ended THEN Retention ELSE retained[j]]
    /\ acceptBy' = [j \in Jobs |-> IF j \in ended \cup Unaccepted \/ acceptBy[j] = 0
                                   THEN Off ELSE acceptBy[j]]
    /\ cancelBy' = [j \in Jobs |-> IF j \in ended \/ cancelBy[j] = 0
                                   THEN Off ELSE cancelBy[j]]
    /\ lostAt' = [d \in Devices |-> IF lostAt[d] = 0 THEN Off ELSE lostAt[d]]
    /\ skips' = [j \in Jobs |->
          IF j \in ended THEN NoSkips
          ELSE IF j \in Unaccepted THEN [skips[j] EXCEPT ![on[j]] = SkipTime]
          ELSE skips[j]]
    /\ Schedule
    /\ UNCHANGED <<computers, presence, live, closing, doomed, restarts>>

-----------------------------------------------------------------------------
(* The gateway dies at any point and start() runs in its successor.        *)

Start_RequeuesAll ==
    /\ restarts < MaxRestarts
    /\ restarts' = restarts + 1
    /\ state' = [j \in Jobs |-> IF state[j] \in Active THEN "queued" ELSE state[j]]
    /\ on' = [j \in Jobs |-> IF state[j] \in Active THEN NoDevice ELSE on[j]]
    /\ presence' = [d \in Devices |-> Absent]
    /\ live' = [d \in Devices |-> 0]
    /\ closing' = [d \in Devices |-> 0]
    /\ acceptBy' = [j \in Jobs |-> Off]
    /\ cancelBy' = [j \in Jobs |-> Off]
    /\ skips' = [j \in Jobs |-> NoSkips]
    /\ lostAt' = [d \in Devices |->
          IF \E j \in Jobs : on[j] = d /\ state[j] \in OnRunner
          THEN LostGrace ELSE Off]
    /\ todo' = {}
    /\ doomed' = {}
    /\ UNCHANGED <<computers, wants, cancelRequested, queueDeadline, retained>>

Start ==
    /\ restarts < MaxRestarts
    /\ restarts' = restarts + 1
    /\ state' = [j \in Jobs |-> IF state[j] = "assigned" THEN "queued" ELSE state[j]]
    /\ on' = [j \in Jobs |-> IF state[j] = "assigned" THEN NoDevice ELSE on[j]]
    /\ presence' = [d \in Devices |-> Absent]
    /\ live' = [d \in Devices |-> 0]
    /\ closing' = [d \in Devices |-> 0]
    /\ acceptBy' = [j \in Jobs |-> Off]
    /\ cancelBy' = [j \in Jobs |-> Off]
    /\ skips' = [j \in Jobs |-> NoSkips]
    /\ lostAt' = [d \in Devices |->
          IF \E j \in Jobs : on[j] = d /\ state[j] \in OnRunner
          THEN LostGrace ELSE Off]
    /\ todo' = {}
    /\ doomed' = {}
    /\ UNCHANGED <<computers, wants, cancelRequested, queueDeadline, retained>>

\* A restart anywhere but between a link's deletion and the end of its jobs.
Restart == doomed = {} /\ Start

\* A restart between the two transactions of unlinkDevice() or revokeDevice().
RestartMidDrop == doomed # {} /\ Start

-----------------------------------------------------------------------------
DeviceNext(d) ==
    \/ \E b \in Bots : LinkDevice(b, d) \/ UnlinkDevice(b, d)
    \/ MarkRevoked(d) \/ RevokeDevice(d)
    \/ OpenStream(d) \/ DropStream(d) \/ CloseEvent(d)
    \/ \E offers \in Offers, capable \in BOOLEAN, held \in SUBSET JobsOn(d) :
          Report(d, offers, capable, held)

JobNext(j) ==
    \/ \E r \in 0..MaxMint : Submit(j, r)
    \/ CancelQueued(j) \/ CancelAssigned(j) \/ CancelRunning(j)
    \/ \E d \in Devices :
          \/ Accept(j, d) \/ Progress(j, d)
          \/ \E ok \in BOOLEAN : Finish(j, d, ok)

GatewayNext ==
    \/ \E b \in Bots : BotPurged(b)
    \/ EndDropped \/ ScheduleStep
    \/ TimePasses
    \/ \E forgotten \in SUBSET Old : Tick(forgotten)
    \/ Restart

Next ==
    \/ \E d \in Devices : DeviceNext(d)
    \/ \E j \in Jobs : JobNext(j)
    \/ GatewayNext

Spec == Init /\ [][Next]_vars

\* Node runs a started handler to its end; its event loop runs every due timer
\* and every pending close event, whatever requests keep arriving.
Fairness ==
    /\ WF_vars(EndDropped)
    /\ WF_vars(ScheduleStep)
    /\ SF_vars(\E forgotten \in SUBSET Old : Tick(forgotten))
    /\ SF_vars(TimePasses)
    /\ \A d \in Devices : SF_vars(CloseEvent(d)) /\ SF_vars(RevokeDevice(d))

FairSpec == Spec /\ Fairness

\* The same broker, whose gateway may also die in the middle of dropLink().
CrashSpec == Init /\ [][Next \/ RestartMidDrop]_vars /\ Fairness
-----------------------------------------------------------------------------
(* Properties.                                                             *)

\* A job is with a computer only while that computer runs jobs for its bot:
\* whatever removes the link (unlinking, removal, revocation) ends the job.
ActiveHasLink ==
    \A j \in Jobs : state[j] \in Active /\ j \notin doomed => Linked(BotOf[j], on[j])

\* A job that a computer has is never forgotten: the computer is present, or a
\* grace period runs at whose end tick() ends the job.
NoJobStranded ==
    \A j \in Jobs : state[j] \in Active /\ j \notin doomed =>
        presence[on[j]] # Absent \/ lostAt[on[j]] # Off

\* The memory-only timers agree with the durable states: an accept timeout
\* runs exactly for the jobs that wait to be accepted, a cancel timeout only
\* for jobs that run and were asked to stop, and only queued jobs skip runners.
TimersMatchStates ==
    /\ \A j \in Jobs : state[j] = "assigned" <=> acceptBy[j] # Off
    /\ \A j \in Jobs : cancelBy[j] # Off => state[j] \in OnRunner /\ cancelRequested[j]
    /\ \A d \in Devices : presence[d] # Absent => lostAt[d] = Off

\* A job asked to stop while it ran ends cancelled or lost: it never reports
\* success or failure, and never goes back to the queue.
CancelIsKept ==
    \A j \in Jobs : cancelRequested[j] => state[j] \in OnRunner \cup {"cancelled", "lost"}

\* The command of a job runs at most once: a job a runner accepted never
\* returns to the queue or moves to another computer, and its end is final.
StaysTaken(j) ==
    /\ state[j] \in OnRunner => state'[j] \in OnRunner \cup Final \cup {"gone"}
    /\ state[j] \in Final => state'[j] \in {state[j], "gone"}
    /\ state[j] \in OnRunner \cup Final /\ state'[j] # "gone" => on'[j] = on[j]
RunsAtMostOnce == [][\A j \in Jobs : StaysTaken(j)]_vars

\* A job is sent only to a computer that is linked to its bot, not revoked,
\* present, and left with no more active jobs than the slots it reported.
SentWithinSlots(j, d) ==
    state[j] = "queued" /\ state'[j] = "assigned" /\ on'[j] = d =>
        /\ d \in ActiveLinks(BotOf[j])
        /\ StreamOpen(d)
        /\ Cardinality(JobsOn(d)') <= presence[d]
AssignedWithinSlots == [][\A j \in Jobs, d \in Devices : SentWithinSlots(j, d)]_vars

\* A younger job never takes a runner that an older queued job could have
\* had, unless the older one skips runners because of a send or an acceptance
\* that failed.
Overtakes(j, i) ==
    /\ i < j
    /\ state[i] = "queued" /\ skips[i] = NoSkips
    /\ state[j] = "queued" /\ state'[j] = "assigned"
    /\ on'[j] \in Candidates(i)
NoOvertaking == [][\A i, j \in Jobs : ~Overtakes(j, i)]_vars

\* Every submitted job is accepted by a runner or ends: neither an endless
\* circle of assignments that nobody accepts nor a restart keeps it waiting.
QueuedMovesOn ==
    \A j \in Jobs : state[j] = "queued" ~> state[j] \notin {"queued", "assigned"}

\* The jobs of a computer that went offline for good all end.
OfflineJobsEnd ==
    \A d \in Devices : <>[](live[d] = 0) => <>[](JobsOn(d) = {})

\* A revoked computer ends up with no job and no link.
RevokedLosesAll ==
    \A d \in Devices :
        d \in revoked ~> JobsOn(d) = {} /\ \A b \in Bots : ~Linked(b, d)

\* "a running one once its runner stops it, or after the grace period"
\* (runners.ts, cancel): unless the gateway restarts, a cancelled job ends once
\* its owner stops asking.
CancelEnds ==
    \A j \in Jobs, r \in 0..MaxRestarts :
        <>[][~CancelRunning(j)]_vars =>
            (cancelBy[j] # Off /\ restarts = r ~> state[j] \notin Unfinal \/ restarts # r)

\* The broker implements the job a bot is promised (RunnerJob): in particular
\* a job no runner accepted is never reported lost, however the accept timeout
\* and the grace period of its computer interleave.
Job == INSTANCE RunnerJob WITH
    phase <- [j \in Jobs |-> IF state[j] \in {"queued", "assigned"} THEN "waiting"
                             ELSE IF state[j] \in OnRunner THEN "running" ELSE state[j]],
    holder <- [j \in Jobs |-> IF state[j] \in OnRunner THEN on[j] ELSE NoDevice],
    stop <- [j \in Jobs |-> cancelRequested[j] /\ state[j] \in OnRunner]
ImplementsJob == Job!Spec
=============================================================================
