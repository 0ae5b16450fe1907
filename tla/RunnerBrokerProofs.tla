------------------------- MODULE RunnerBrokerProofs -------------------------
(***************************************************************************)
(* Proofs about RunnerBroker, for any number of jobs, bots and computers    *)
(* and any length of the deadlines.                                         *)
(***************************************************************************)
EXTENDS RunnerBroker, FiniteSetTheorems, TLAPS

USE DEF computers, rows, presences, timers, handling

\* What the handlers rely on between two steps, none of which the code states:
\* only a job that a computer has names one, schedule() serves queued jobs,
\* dropLink() ends jobs that have not ended, and never do both run at once.
Bookkeeping ==
    /\ \A j \in Jobs : state[j] \in Active => on[j] \in Devices
    /\ \A j \in Jobs : state[j] \in {"none", "gone", "queued"} => on[j] = NoDevice
    /\ todo \subseteq Queued
    /\ doomed \subseteq {j \in Jobs : state[j] \in Unfinal}
    /\ todo = {} \/ doomed = {}

StreamsBounded == \A d \in Devices : live[d] + closing[d] <= MaxStreams

IInv ==
    /\ TypeOK
    /\ Bookkeeping
    /\ StreamsBounded
    /\ ActiveHasLink
    /\ NoJobStranded
    /\ TimersMatchStates
    /\ CancelIsKept

-----------------------------------------------------------------------------
(* Lemmas about the operators the actions are built from.                  *)

\* end() leaves every table and timer well typed.
LEMMA EndJobsType ==
    ASSUME TypeOK,
           NEW S \in SUBSET Jobs,
           NEW final, final \in [Jobs -> JobStates],
           EndJobs(S, final)
    PROVE  /\ state' \in [Jobs -> JobStates]
           /\ queueDeadline' \in [Jobs -> 0..QueueTimeout]
           /\ retained' \in [Jobs -> 0..Retention]
           /\ acceptBy' \in [Jobs -> Timer(AcceptTimeout)]
           /\ cancelBy' \in [Jobs -> Timer(LostGrace)]
           /\ skips' \in [Jobs -> [Devices -> 0..SkipTime]]
    BY TimesAssumption DEF TypeOK, EndJobs, NoSkips, Timer, Off

\* A countdown stays within the bounds of its timer.
LEMMA LessType ==
    ASSUME NEW n \in Nat, NEW t \in Timer(n)
    PROVE  /\ Less(t) \in Timer(n)
           /\ t # Off => Less(t) # Off
           /\ t = Off => Less(t) = Off
           /\ t \in 0..n => Less(t) \in 0..n
    BY DEF Less, Timer, Off

-----------------------------------------------------------------------------
(* Type correctness.                                                       *)

LEMMA InitType == Init => TypeOK
    BY JobsAssumption, BoundsAssumption, TimesAssumption
    DEF Init, TypeOK, Timer, Off, NoSkips, JobStates

LEMMA TypeStep == IInv /\ [Next]_vars => TypeOK'
<1> SUFFICES ASSUME TypeOK, Bookkeeping, StreamsBounded, [Next]_vars PROVE TypeOK'
    BY DEF IInv
<1> USE BoundsAssumption, TimesAssumption
<1>1. CASE UNCHANGED vars
    BY <1>1 DEF vars, TypeOK
<1>2. ASSUME NEW b \in Bots, NEW d \in Devices, LinkDevice(b, d) PROVE TypeOK'
  <2>1. links' \in [Bots -> [Devices -> 0..MaxMint]] /\ minted' \in 0..MaxMint
    <3>1. CASE UNCHANGED <<links, minted>>
      BY <3>1 DEF TypeOK
    <3>2. CASE /\ minted < MaxMint /\ minted' = minted + 1
               /\ links' = [links EXCEPT ![b][d] = minted + 1]
      <4>1. minted' \in 0..MaxMint
        BY <3>2 DEF TypeOK
      <4> QED BY <3>2, <4>1 DEF TypeOK
    <3> QED BY <1>2, <3>1, <3>2 DEF LinkDevice
  <2> QED BY <1>2, <2>1 DEF LinkDevice, TypeOK, Queued
<1>3. ASSUME NEW b \in Bots, NEW d \in Devices, UnlinkDevice(b, d) PROVE TypeOK'
    BY <1>3 DEF UnlinkDevice, TypeOK, Dropped
<1>4. ASSUME NEW d \in Devices, MarkRevoked(d) PROVE TypeOK'
    BY <1>4 DEF MarkRevoked, TypeOK
<1>5. ASSUME NEW d \in Devices, RevokeDevice(d) PROVE TypeOK'
  <2>1. doomed' \in SUBSET Jobs
    BY <1>5 DEF RevokeDevice, Dropped
  <2>2. closing' \in [Devices -> 0..MaxStreams] /\ live' \in [Devices -> 0..MaxStreams]
    BY <1>5 DEF RevokeDevice, TypeOK, StreamsBounded
  <2>3. links' \in [Bots -> [Devices -> 0..MaxMint]]
    BY <1>5 DEF RevokeDevice, TypeOK
  <2> QED BY <1>5, <2>1, <2>2, <2>3 DEF RevokeDevice, TypeOK, Timer, Off
<1>6. ASSUME NEW d \in Devices, OpenStream(d) \/ DropStream(d) \/ CloseEvent(d) PROVE TypeOK'
  <2>1. CASE OpenStream(d)
    BY <2>1 DEF OpenStream, TypeOK
  <2>2. CASE DropStream(d)
    BY <2>2 DEF DropStream, StreamOpen, TypeOK, StreamsBounded
  <2>3. CASE CloseEvent(d)
    <3>1. /\ presence' \in [Devices -> Offers \cup {Absent}]
          /\ lostAt' \in [Devices -> Timer(LostGrace)]
      <4>1. CASE StreamOpen(d)
        BY <2>3, <4>1 DEF CloseEvent, TypeOK
      <4>2. CASE ~StreamOpen(d) /\ JobsOn(d) = {}
        BY <2>3, <4>2 DEF CloseEvent, WentOffline, TypeOK
      <4>3. CASE ~StreamOpen(d) /\ JobsOn(d) # {}
        <5>1. /\ presence' = [presence EXCEPT ![d] = Absent]
              /\ lostAt' = [lostAt EXCEPT ![d] = LostGrace]
          BY <2>3, <4>3 DEF CloseEvent, WentOffline
        <5>2. LostGrace \in Timer(LostGrace)
          BY DEF Timer
        <5> QED BY <5>1, <5>2 DEF TypeOK
      <4> QED BY <4>1, <4>2, <4>3
    <3>2. closing' \in [Devices -> 0..MaxStreams]
      BY <2>3 DEF CloseEvent, TypeOK
    <3> QED BY <2>3, <3>1, <3>2 DEF CloseEvent, TypeOK
  <2> QED BY <1>6, <2>1, <2>2, <2>3
<1>7. ASSUME NEW d \in Devices, NEW offers \in Offers, NEW capable \in BOOLEAN,
             NEW held \in SUBSET JobsOn(d), Report(d, offers, capable, held)
      PROVE TypeOK'
  <2>1. EndJobs(NoLongerHeld(d, held), All("lost"))
    BY <1>7 DEF Report
  <2>2. NoLongerHeld(d, held) \in SUBSET Jobs /\ All("lost") \in [Jobs -> JobStates]
    BY DEF NoLongerHeld, All, JobStates, Final
  <2>3. todo' \in SUBSET Jobs
    BY <1>7 DEF Report, Schedule
  <2>4. /\ presence' \in [Devices -> Offers \cup {Absent}]
        /\ lostAt' \in [Devices -> Timer(LostGrace)]
        /\ known' \in SUBSET Devices
    BY <1>7 DEF Report, TypeOK, Timer, Off
  <2> QED BY <1>7, <2>1, <2>2, <2>3, <2>4, EndJobsType DEF Report, TypeOK
<1>8. ASSUME NEW j \in Jobs, NEW r \in 0..MaxMint, Submit(j, r) PROVE TypeOK'
    BY <1>8 DEF Submit, TypeOK, Schedule, JobStates, Unfinal
<1>9. ASSUME NEW j \in Jobs, CancelQueued(j) \/ CancelAssigned(j) PROVE TypeOK'
  <2>1. EndJobs({j}, All("cancelled")) /\ todo' \in SUBSET Jobs
    BY <1>9 DEF CancelQueued, CancelAssigned, TypeOK, Schedule
  <2>2. All("cancelled") \in [Jobs -> JobStates]
    BY DEF All, JobStates, Final
  <2> QED BY <1>9, <2>1, <2>2, EndJobsType DEF CancelQueued, CancelAssigned, TypeOK
<1>10. ASSUME NEW j \in Jobs, CancelRunning(j) PROVE TypeOK'
    BY <1>10 DEF CancelRunning, TypeOK, Timer
<1>11. ASSUME NEW j \in Jobs, NEW d \in Devices, Accept(j, d) \/ Progress(j, d) PROVE TypeOK'
  <2>1. "running" \in JobStates /\ "finishing" \in JobStates
    BY DEF JobStates, Unfinal, Active
  <2>2. Off \in Timer(AcceptTimeout)
    BY DEF Timer, Off
  <2>3. CASE Accept(j, d)
    BY <2>1, <2>2, <2>3 DEF Accept, TypeOK
  <2>4. CASE Progress(j, d)
    BY <2>1, <2>4 DEF Progress, TypeOK
  <2> QED BY <1>11, <2>3, <2>4
<1>12. ASSUME NEW j \in Jobs, NEW d \in Devices, NEW ok \in BOOLEAN, Finish(j, d, ok) PROVE TypeOK'
  <2> DEFINE end == IF cancelRequested[j] THEN "cancelled"
                    ELSE IF ok THEN "succeeded" ELSE "failed"
  <2>1. EndJobs({j}, All(end)) /\ todo' \in SUBSET Jobs
    BY <1>12 DEF Finish, FinishedAs, Schedule
  <2>2. All(end) \in [Jobs -> JobStates]
    BY DEF All, JobStates, Final
  <2> QED BY <1>12, <2>1, <2>2, EndJobsType DEF Finish, FinishedAs, TypeOK
<1>13. ASSUME NEW b \in Bots, BotPurged(b) PROVE TypeOK'
  <2> DEFINE its == {j \in Jobs : BotOf[j] = b /\ state[j] # "none"}
  <2>1. EndJobs(its, All("gone")) /\ DeleteRows(its)
    BY <1>13 DEF BotPurged
  <2>2. All("gone") \in [Jobs -> JobStates] /\ its \in SUBSET Jobs
    BY DEF All, JobStates
  <2>3. /\ on' \in [Jobs -> Devices \cup {NoDevice}]
        /\ wants' \in [Jobs -> 0..MaxMint]
        /\ cancelRequested' \in [Jobs -> BOOLEAN]
    BY <2>1 DEF DeleteRows, TypeOK
  <2>4. links' \in [Bots -> [Devices -> 0..MaxMint]]
    BY <1>13 DEF BotPurged, TypeOK
  <2> QED BY <1>13, <2>1, <2>2, <2>3, <2>4, EndJobsType DEF BotPurged, TypeOK
<1>14. CASE EndDropped
  <2> DEFINE ends == [j \in Jobs |-> IF on[j] = NoDevice THEN "failed" ELSE "cancelled"]
  <2>1. EndJobs(doomed, ends)
    BY <1>14 DEF EndDropped
  <2>2. ends \in [Jobs -> JobStates]
    BY DEF JobStates, Final
  <2>3. doomed \in SUBSET Jobs
    BY DEF TypeOK
  <2> QED BY <1>14, <2>1, <2>2, <2>3, EndJobsType DEF EndDropped, TypeOK
<1>15. ASSUME NEW j \in Jobs, PassOver(j) PROVE TypeOK'
    BY <1>15 DEF PassOver, TypeOK
<1>16. ASSUME NEW j \in Jobs, NEW d \in Devices, Assign(j, d) PROVE TypeOK'
    BY <1>16 DEF Assign, TypeOK, JobStates, Unfinal, Active, Timer
<1>17. ASSUME NEW j \in Jobs, NEW d \in Devices, AssignUnsent(j, d) PROVE TypeOK'
  <2>1. live[d] > 0
    BY <1>17 DEF AssignUnsent, Best, Candidates, Online, StreamOpen
  <2> QED BY <1>17, <2>1 DEF AssignUnsent, TypeOK, StreamsBounded
<1>18. CASE TimePasses
  <2>1. ASSUME NEW n \in Nat, NEW t \in 0..n PROVE Less(t) \in 0..n
    BY <2>1 DEF Less
  <2>2. /\ queueDeadline' \in [Jobs -> 0..QueueTimeout]
        /\ retained' \in [Jobs -> 0..Retention]
    BY <1>18, <2>1 DEF TimePasses, TypeOK
  <2>3. /\ acceptBy' \in [Jobs -> Timer(AcceptTimeout)]
        /\ cancelBy' \in [Jobs -> Timer(LostGrace)]
        /\ lostAt' \in [Devices -> Timer(LostGrace)]
    BY <1>18, LessType DEF TimePasses, TypeOK
  <2>4. skips' \in [Jobs -> [Devices -> 0..SkipTime]]
    BY <1>18, <2>1 DEF TimePasses, TypeOK
  <2> QED BY <1>18, <2>2, <2>3, <2>4 DEF TimePasses, TypeOK
<1>19. ASSUME NEW forgotten \in SUBSET Old, Tick(forgotten) PROVE TypeOK'
  <2>1. state' \in [Jobs -> JobStates]
    BY <1>19 DEF Tick, TypeOK, JobStates, Unfinal, Final
  <2>2. /\ on' \in [Jobs -> Devices \cup {NoDevice}]
        /\ wants' \in [Jobs -> 0..MaxMint]
        /\ cancelRequested' \in [Jobs -> BOOLEAN]
    BY <1>19 DEF Tick, TypeOK
  <2>3. /\ queueDeadline' \in [Jobs -> 0..QueueTimeout]
        /\ retained' \in [Jobs -> 0..Retention]
        /\ acceptBy' \in [Jobs -> Timer(AcceptTimeout)]
        /\ cancelBy' \in [Jobs -> Timer(LostGrace)]
        /\ lostAt' \in [Devices -> Timer(LostGrace)]
    BY <1>19 DEF Tick, TypeOK, Timer, Off
  <2>4. skips' \in [Jobs -> [Devices -> 0..SkipTime]]
    <3>1. ASSUME NEW j \in Jobs
          PROVE  /\ NoSkips \in [Devices -> 0..SkipTime]
                 /\ skips[j] \in [Devices -> 0..SkipTime]
                 /\ j \in Unaccepted =>
                      [skips[j] EXCEPT ![on[j]] = SkipTime] \in [Devices -> 0..SkipTime]
      <4>1. skips[j] \in [Devices -> 0..SkipTime]
        BY DEF TypeOK
      <4>2. j \in Unaccepted => on[j] \in Devices
        BY DEF Unaccepted, Bookkeeping, Active
      <4>3. NoSkips \in [Devices -> 0..SkipTime]
        BY DEF NoSkips
      <4> QED BY <4>1, <4>2, <4>3
    <3> DEFINE ended == Overstayed \cup LostJobs \cup Expired
    <3>2. skips' = [j \in Jobs |->
              IF j \in ended THEN NoSkips
              ELSE IF j \in Unaccepted THEN [skips[j] EXCEPT ![on[j]] = SkipTime]
              ELSE skips[j]]
      BY <1>19 DEF Tick
    <3> HIDE DEF ended
    <3> QED BY <3>1, <3>2
  <2>5. todo' \in SUBSET Jobs
    BY <1>19 DEF Tick, Schedule
  <2> QED BY <1>19, <2>1, <2>2, <2>3, <2>4, <2>5 DEF Tick, TypeOK
<1>20. CASE Start
    BY <1>20 DEF Start, TypeOK, JobStates, Unfinal, Timer, Off, NoSkips
<1> QED
    BY <1>1, <1>2, <1>3, <1>4, <1>5, <1>6, <1>7, <1>8, <1>9, <1>10, <1>11, <1>12,
       <1>13, <1>14, <1>15, <1>16, <1>17, <1>18, <1>19, <1>20
    DEF Next, DeviceNext, JobNext, GatewayNext, ScheduleStep, Restart

-----------------------------------------------------------------------------
(* Bookkeeping.                                                            *)

LEMMA BookkeepingStep == IInv /\ [Next]_vars => Bookkeeping'
<1> SUFFICES ASSUME TypeOK, Bookkeeping, TimersMatchStates, [Next]_vars PROVE Bookkeeping'
    BY DEF IInv
<1>1. CASE UNCHANGED vars
    BY <1>1 DEF vars, Bookkeeping, TypeOK, Queued, Idle, Active, OnRunner, Unfinal, Final
<1>2. ASSUME NEW b \in Bots, NEW d \in Devices, LinkDevice(b, d)
      PROVE  Bookkeeping'
    BY <1>2 DEF LinkDevice, Bookkeeping, TypeOK, Queued, Idle, Active, OnRunner, Unfinal, Final
<1>3. ASSUME NEW b \in Bots, NEW d \in Devices, UnlinkDevice(b, d)
      PROVE  Bookkeeping'
    BY <1>3 DEF UnlinkDevice, Bookkeeping, TypeOK, Queued, Idle, Active, OnRunner, Unfinal, Final, Dropped
<1>4. ASSUME NEW d \in Devices, MarkRevoked(d)
      PROVE  Bookkeeping'
    BY <1>4 DEF MarkRevoked, Bookkeeping, TypeOK, Queued, Idle, Active, OnRunner, Unfinal, Final
<1>5. ASSUME NEW d \in Devices, RevokeDevice(d)
      PROVE  Bookkeeping'
    BY <1>5 DEF RevokeDevice, Bookkeeping, TypeOK, Queued, Idle, Active, OnRunner, Unfinal, Final, Dropped
<1>6. ASSUME NEW d \in Devices, OpenStream(d)
      PROVE  Bookkeeping'
    BY <1>6 DEF OpenStream, Bookkeeping, TypeOK, Queued, Idle, Active, OnRunner, Unfinal, Final
<1>7. ASSUME NEW d \in Devices, DropStream(d)
      PROVE  Bookkeeping'
    BY <1>7 DEF DropStream, StreamOpen, Bookkeeping, TypeOK, Queued, Idle, Active, OnRunner, Unfinal, Final
<1>8. ASSUME NEW d \in Devices, CloseEvent(d)
      PROVE  Bookkeeping'
    BY <1>8 DEF CloseEvent, WentOffline, JobsOn, Bookkeeping, TypeOK, Queued, Idle, Active, OnRunner, Unfinal, Final
<1>9. ASSUME NEW d \in Devices, NEW offers \in Offers, NEW capable \in BOOLEAN,
             NEW held \in SUBSET JobsOn(d), Report(d, offers, capable, held)
      PROVE  Bookkeeping'
    BY <1>9 DEF Report, NoLongerHeld, EndJobs, All, Schedule, Bookkeeping, TypeOK, Queued, Idle, Active, OnRunner, Unfinal, Final
<1>10. ASSUME NEW j \in Jobs, NEW r \in 0..MaxMint, Submit(j, r)
      PROVE  Bookkeeping'
    BY <1>10 DEF Submit, Schedule, Bookkeeping, TypeOK, Queued, Idle, Active, OnRunner, Unfinal, Final
<1>11. ASSUME NEW j \in Jobs, CancelQueued(j)
      PROVE  Bookkeeping'
    BY <1>11 DEF CancelQueued, EndJobs, All, Bookkeeping, TypeOK, Queued, Idle, Active, OnRunner, Unfinal, Final
<1>12. ASSUME NEW j \in Jobs, CancelAssigned(j)
      PROVE  Bookkeeping'
    BY <1>12 DEF CancelAssigned, EndJobs, All, Schedule, Bookkeeping, TypeOK, Queued, Idle, Active, OnRunner, Unfinal, Final
<1>13. ASSUME NEW j \in Jobs, CancelRunning(j)
      PROVE  Bookkeeping'
    BY <1>13 DEF CancelRunning, Bookkeeping, TypeOK, Queued, Idle, Active, OnRunner, Unfinal, Final
<1>14. ASSUME NEW j \in Jobs, NEW d \in Devices, Accept(j, d)
      PROVE  Bookkeeping'
    BY <1>14 DEF Accept, Owned, Bookkeeping, TypeOK, Queued, Idle, Active, OnRunner, Unfinal, Final
<1>15. ASSUME NEW j \in Jobs, NEW d \in Devices, Progress(j, d)
      PROVE  Bookkeeping'
    BY <1>15 DEF Progress, Owned, Bookkeeping, TypeOK, Queued, Idle, Active, OnRunner, Unfinal, Final
<1>16. ASSUME NEW j \in Jobs, NEW d \in Devices, NEW ok \in BOOLEAN, Finish(j, d, ok)
      PROVE  Bookkeeping'
    BY <1>16 DEF Finish, FinishedAs, EndJobs, All, Schedule, Bookkeeping, TypeOK, Queued, Idle, Active, OnRunner, Unfinal, Final
<1>17. ASSUME NEW b \in Bots, BotPurged(b)
      PROVE  Bookkeeping'
    BY <1>17 DEF BotPurged, EndJobs, All, DeleteRows, Bookkeeping, TypeOK, Queued, Idle, Active, OnRunner, Unfinal, Final
<1>18. CASE EndDropped
    BY <1>18 DEF EndDropped, EndJobs, Bookkeeping, TypeOK, Queued, Idle, Active, OnRunner, Unfinal, Final
<1>19. ASSUME NEW j \in Jobs, PassOver(j)
      PROVE  Bookkeeping'
    BY <1>19 DEF PassOver, Bookkeeping, TypeOK, Queued, Idle, Active, OnRunner, Unfinal, Final
<1>20. ASSUME NEW j \in Jobs, NEW d \in Devices, Assign(j, d)
      PROVE  Bookkeeping'
    BY <1>20 DEF Assign, Oldest, Bookkeeping, TypeOK, Queued, Idle, Active, OnRunner, Unfinal, Final
<1>21. ASSUME NEW j \in Jobs, NEW d \in Devices, AssignUnsent(j, d)
      PROVE  Bookkeeping'
    BY <1>21 DEF AssignUnsent, Oldest, Bookkeeping, TypeOK, Queued, Idle, Active, OnRunner, Unfinal, Final
<1>22. CASE TimePasses
    BY <1>22 DEF TimePasses, Bookkeeping, TypeOK, Queued, Idle, Active, OnRunner, Unfinal, Final
<1>23. ASSUME NEW forgotten \in SUBSET Old, Tick(forgotten)
      PROVE  Bookkeeping'
    BY <1>23 DEF Tick, Schedule, Bookkeeping, TypeOK, Queued, Idle, Active, OnRunner, Unfinal, Final, Unaccepted, Overstayed, LostJobs, Expired, Old, LostDevices
<1>24. CASE Restart
    BY <1>24 DEF Restart, Start, Bookkeeping, TypeOK, Queued, Idle, Active, OnRunner, Unfinal, Final
<1> QED
    BY <1>1, <1>2, <1>3, <1>4, <1>5, <1>6, <1>7, <1>8, <1>9, <1>10, <1>11, <1>12, <1>13, <1>14, <1>15, <1>16, <1>17, <1>18, <1>19, <1>20, <1>21, <1>22, <1>23, <1>24
    DEF Next, DeviceNext, JobNext, GatewayNext, ScheduleStep

LEMMA StreamsStep == IInv /\ [Next]_vars => StreamsBounded'
<1> SUFFICES ASSUME TypeOK, StreamsBounded, [Next]_vars, NEW e \in Devices
             PROVE  live'[e] + closing'[e] <= MaxStreams
    BY DEF IInv, StreamsBounded
<1>1. live[e] \in 0..MaxStreams /\ closing[e] \in 0..MaxStreams
    BY DEF TypeOK
<1>2. live[e] + closing[e] <= MaxStreams
    BY DEF StreamsBounded
<1>3. CASE UNCHANGED <<live, closing>>
    BY <1>2, <1>3
<1>4. ASSUME NEW d \in Devices, OpenStream(d) PROVE live'[e] + closing'[e] <= MaxStreams
  <2>1. live' = [live EXCEPT ![d] = live[d] + 1] /\ closing' = closing
    BY <1>4 DEF OpenStream
  <2>2. live[d] + closing[d] < MaxStreams
    BY <1>4 DEF OpenStream
  <2>3. CASE e = d
    <3>1. live'[e] = live[e] + 1
      BY <2>1, <2>3 DEF TypeOK
    <3> QED BY <1>1, <2>1, <2>2, <2>3, <3>1, BoundsAssumption
  <2>4. CASE e # d
    BY <1>2, <2>1, <2>4 DEF TypeOK
  <2> QED BY <2>3, <2>4
<1>5. ASSUME NEW d \in Devices,
             /\ live' = [live EXCEPT ![d] = live[d] - 1]
             /\ closing' = [closing EXCEPT ![d] = closing[d] + 1]
      PROVE  live'[e] + closing'[e] <= MaxStreams
    BY <1>1, <1>2, <1>5 DEF TypeOK
<1>6. ASSUME NEW d \in Devices, CloseEvent(d) PROVE live'[e] + closing'[e] <= MaxStreams
    BY <1>1, <1>2, <1>6, BoundsAssumption DEF CloseEvent, TypeOK
<1>7. ASSUME NEW d \in Devices, RevokeDevice(d) PROVE live'[e] + closing'[e] <= MaxStreams
    BY <1>1, <1>2, <1>7 DEF RevokeDevice, TypeOK
<1>8. CASE Start
    BY <1>8, BoundsAssumption DEF Start
<1>9. ASSUME NEW d \in Devices, DeviceNext(d) PROVE live'[e] + closing'[e] <= MaxStreams
    BY <1>3, <1>4, <1>5, <1>6, <1>7, <1>9
    DEF DeviceNext, LinkDevice, UnlinkDevice, MarkRevoked, DropStream, Report
<1>10. ASSUME NEW j \in Jobs, JobNext(j) PROVE UNCHANGED <<live, closing>>
    BY <1>10 DEF JobNext, Submit, CancelQueued, CancelAssigned, CancelRunning, Accept,
                 Progress, Finish
<1>11. ASSUME GatewayNext PROVE live'[e] + closing'[e] <= MaxStreams
    BY <1>3, <1>5, <1>8, <1>11
    DEF GatewayNext, BotPurged, EndDropped, ScheduleStep, PassOver, Assign, AssignUnsent,
        TimePasses, Tick, Restart
<1> QED
    BY <1>3, <1>9, <1>10, <1>11 DEF Next, vars

-----------------------------------------------------------------------------
(* The timers agree with the states.                                       *)

LEMMA TimersStep == IInv /\ [Next]_vars => TimersMatchStates'
<1> SUFFICES ASSUME TypeOK, Bookkeeping, TimersMatchStates, CancelIsKept, [Next]_vars PROVE TimersMatchStates'
    BY DEF IInv
<1>1. CASE UNCHANGED vars
    BY <1>1 DEF vars, TimersMatchStates, TypeOK, Bookkeeping, Queued, Idle, OnRunner
<1>2. ASSUME NEW b \in Bots, NEW d \in Devices, LinkDevice(b, d)
      PROVE  TimersMatchStates'
    BY <1>2 DEF LinkDevice, TimersMatchStates, TypeOK, Bookkeeping, Queued, Idle, OnRunner
<1>3. ASSUME NEW b \in Bots, NEW d \in Devices, UnlinkDevice(b, d)
      PROVE  TimersMatchStates'
    BY <1>3 DEF UnlinkDevice, TimersMatchStates, TypeOK, Bookkeeping, Queued, Idle, OnRunner
<1>4. ASSUME NEW d \in Devices, MarkRevoked(d)
      PROVE  TimersMatchStates'
    BY <1>4 DEF MarkRevoked, TimersMatchStates, TypeOK, Bookkeeping, Queued, Idle, OnRunner
<1>5. ASSUME NEW d \in Devices, RevokeDevice(d)
      PROVE  TimersMatchStates'
    BY <1>5 DEF RevokeDevice, TimersMatchStates, TypeOK, Bookkeeping, Queued, Idle, OnRunner
<1>6. ASSUME NEW d \in Devices, OpenStream(d)
      PROVE  TimersMatchStates'
    BY <1>6 DEF OpenStream, TimersMatchStates, TypeOK, Bookkeeping, Queued, Idle, OnRunner
<1>7. ASSUME NEW d \in Devices, DropStream(d)
      PROVE  TimersMatchStates'
    BY <1>7 DEF DropStream, StreamOpen, TimersMatchStates, TypeOK, Bookkeeping, Queued, Idle, OnRunner
<1>8. ASSUME NEW d \in Devices, CloseEvent(d)
      PROVE  TimersMatchStates'
    BY <1>8 DEF CloseEvent, WentOffline, JobsOn, TimersMatchStates, TypeOK, Bookkeeping, Queued, Idle, OnRunner
<1>9. ASSUME NEW d \in Devices, NEW offers \in Offers, NEW capable \in BOOLEAN,
             NEW held \in SUBSET JobsOn(d), Report(d, offers, capable, held)
      PROVE  TimersMatchStates'
    BY <1>9 DEF Report, NoLongerHeld, EndJobs, All, Schedule, TimersMatchStates, TypeOK, Bookkeeping, Queued, Idle, OnRunner
<1>10. ASSUME NEW j \in Jobs, NEW r \in 0..MaxMint, Submit(j, r)
      PROVE  TimersMatchStates'
    BY <1>10 DEF Submit, Schedule, TimersMatchStates, TypeOK, Bookkeeping, Queued, Idle, OnRunner
<1>11. ASSUME NEW j \in Jobs, CancelQueued(j)
      PROVE  TimersMatchStates'
    BY <1>11 DEF CancelQueued, EndJobs, All, TimersMatchStates, TypeOK, Bookkeeping, Queued, Idle, OnRunner
<1>12. ASSUME NEW j \in Jobs, CancelAssigned(j)
      PROVE  TimersMatchStates'
    BY <1>12 DEF CancelAssigned, EndJobs, All, Schedule, TimersMatchStates, TypeOK, Bookkeeping, Queued, Idle, OnRunner
<1>13. ASSUME NEW j \in Jobs, CancelRunning(j)
      PROVE  TimersMatchStates'
    BY <1>13 DEF CancelRunning, TimersMatchStates, TypeOK, Bookkeeping, Queued, Idle, OnRunner
<1>14. ASSUME NEW j \in Jobs, NEW d \in Devices, Accept(j, d)
      PROVE  TimersMatchStates'
    BY <1>14 DEF Accept, Owned, TimersMatchStates, TypeOK, Bookkeeping, Queued, Idle, OnRunner
<1>15. ASSUME NEW j \in Jobs, NEW d \in Devices, Progress(j, d)
      PROVE  TimersMatchStates'
    BY <1>15 DEF Progress, Owned, TimersMatchStates, TypeOK, Bookkeeping, Queued, Idle, OnRunner
<1>16. ASSUME NEW j \in Jobs, NEW d \in Devices, NEW ok \in BOOLEAN, Finish(j, d, ok)
      PROVE  TimersMatchStates'
    BY <1>16 DEF Finish, FinishedAs, EndJobs, All, Schedule, TimersMatchStates, TypeOK, Bookkeeping, Queued, Idle, OnRunner
<1>17. ASSUME NEW b \in Bots, BotPurged(b)
      PROVE  TimersMatchStates'
    BY <1>17 DEF BotPurged, EndJobs, All, DeleteRows, TimersMatchStates, TypeOK, Bookkeeping, Queued, Idle, OnRunner
<1>18. CASE EndDropped
    BY <1>18 DEF EndDropped, EndJobs, TimersMatchStates, TypeOK, Bookkeeping, Queued, Idle, OnRunner, Unfinal, Final
<1>19. ASSUME NEW j \in Jobs, PassOver(j)
      PROVE  TimersMatchStates'
    BY <1>19 DEF PassOver, TimersMatchStates, TypeOK, Bookkeeping, Queued, Idle, OnRunner
<1>20. ASSUME NEW j \in Jobs, NEW d \in Devices, Assign(j, d)
      PROVE  TimersMatchStates'
    BY <1>20, TimesAssumption
    DEF Assign, Oldest, TimersMatchStates, TypeOK, Bookkeeping, Queued, OnRunner, Off
<1>21. ASSUME NEW j \in Jobs, NEW d \in Devices, AssignUnsent(j, d)
      PROVE  TimersMatchStates'
    BY <1>21 DEF AssignUnsent, Oldest, TimersMatchStates, TypeOK, Bookkeeping, Queued, Idle, OnRunner
<1>22. CASE TimePasses
  <2>1. ASSUME NEW j \in Jobs
        PROVE  /\ acceptBy'[j] = Off <=> acceptBy[j] = Off
               /\ cancelBy'[j] = Off <=> cancelBy[j] = Off
    BY <1>22, LessType, TimesAssumption DEF TimePasses, TypeOK
  <2>2. ASSUME NEW d \in Devices PROVE lostAt[d] = Off => lostAt'[d] = Off
    BY <1>22, LessType, TimesAssumption DEF TimePasses, TypeOK
  <2>3. UNCHANGED <<state, cancelRequested, presence>>
    BY <1>22 DEF TimePasses
  <2> QED BY <2>1, <2>2, <2>3 DEF TimersMatchStates
<1>23. ASSUME NEW forgotten \in SUBSET Old, Tick(forgotten)
      PROVE  TimersMatchStates'
    BY <1>23 DEF Tick, Schedule, TimersMatchStates, TypeOK, Bookkeeping, Queued, Idle, OnRunner, Unaccepted, Overstayed, LostJobs, Expired, Old, LostDevices, Final, Unfinal, Active
<1>24. CASE Restart
    BY <1>24 DEF Restart, Start, TimersMatchStates, TypeOK, Bookkeeping, Queued, Idle, OnRunner
<1> QED
    BY <1>1, <1>2, <1>3, <1>4, <1>5, <1>6, <1>7, <1>8, <1>9, <1>10, <1>11, <1>12, <1>13, <1>14, <1>15, <1>16, <1>17, <1>18, <1>19, <1>20, <1>21, <1>22, <1>23, <1>24
    DEF Next, DeviceNext, JobNext, GatewayNext, ScheduleStep

-----------------------------------------------------------------------------
(* The safety invariants.                                                  *)

\* A job that a computer still has after tick() is one tick() left alone.
LEMMA TickKeeps ==
    ASSUME TypeOK,
           NEW forgotten \in SUBSET Old, Tick(forgotten),
           NEW j \in Jobs, state'[j] \in Active
    PROVE  /\ state'[j] = state[j] /\ on'[j] = on[j]
           /\ j \notin LostJobs \cup Overstayed \cup Unaccepted
<1>1. j \notin Overstayed \cup LostJobs \cup Expired \cup Unaccepted \cup forgotten
    BY DEF Tick, Active
<1> QED BY <1>1 DEF Tick

\* Revoking a computer leaves none of its jobs to itself.
LEMMA RevokeDooms ==
    ASSUME TypeOK, Bookkeeping, ActiveHasLink,
           NEW d \in Devices, RevokeDevice(d),
           NEW j \in Jobs, state[j] \in Active, j \notin doomed'
    PROVE  on[j] # d
<1> SUFFICES ASSUME on[j] = d PROVE j \in doomed'
    OBVIOUS
<1>1. BotOf[j] \in Bots
    BY JobsAssumption
<1>2. Linked(BotOf[j], d)
    BY DEF ActiveHasLink, RevokeDevice, Idle
<1>3. j \in Dropped(BotOf[j], d)
    BY DEF Dropped, Unfinal
<1> QED BY <1>1, <1>2, <1>3 DEF RevokeDevice

LEMMA LinkStep == IInv /\ [Next]_vars => ActiveHasLink'
<1> SUFFICES ASSUME TypeOK, Bookkeeping, ActiveHasLink, [Next]_vars PROVE ActiveHasLink'
    BY DEF IInv
<1>1. CASE UNCHANGED vars
    BY <1>1 DEF vars, ActiveHasLink, TypeOK, Bookkeeping, Linked, Active, Queued, Idle
<1>2. ASSUME NEW b \in Bots, NEW d \in Devices, LinkDevice(b, d)
      PROVE  ActiveHasLink'
  <2>1. UNCHANGED <<state, on, doomed>>
    BY <1>2 DEF LinkDevice
  <2>2. CASE UNCHANGED links
    BY <2>1, <2>2 DEF ActiveHasLink, Linked
  <2>3. CASE links' = [links EXCEPT ![b][d] = minted + 1]
    <3>1. minted + 1 # 0
      BY DEF TypeOK
    <3> QED BY <2>1, <2>3, <3>1, JobsAssumption DEF ActiveHasLink, Linked, TypeOK, Bookkeeping
  <2> QED BY <1>2, <2>2, <2>3 DEF LinkDevice
<1>3. ASSUME NEW b \in Bots, NEW d \in Devices, UnlinkDevice(b, d)
      PROVE  ActiveHasLink'
    BY <1>3 DEF UnlinkDevice, ActiveHasLink, TypeOK, Bookkeeping, Linked, Active, Queued, Idle, Dropped, Unfinal
<1>4. ASSUME NEW d \in Devices, MarkRevoked(d)
      PROVE  ActiveHasLink'
    BY <1>4 DEF MarkRevoked, ActiveHasLink, TypeOK, Bookkeeping, Linked, Active, Queued, Idle
<1>5. ASSUME NEW d \in Devices, RevokeDevice(d)
      PROVE  ActiveHasLink'
  <2>1. ASSUME NEW j \in Jobs, state[j] \in Active, j \notin doomed'
        PROVE  Linked(BotOf[j], on[j])'
    <3>1. on[j] \in Devices /\ BotOf[j] \in Bots /\ doomed = {}
      BY <1>5, <2>1, JobsAssumption DEF Bookkeeping, RevokeDevice, Idle
    <3>2. on[j] # d
      BY <1>5, <2>1, RevokeDooms
    <3>3. links'[BotOf[j]][on[j]] = links[BotOf[j]][on[j]]
      BY <1>5, <3>1, <3>2 DEF RevokeDevice, TypeOK
    <3> QED BY <1>5, <2>1, <3>1, <3>3 DEF ActiveHasLink, Linked, RevokeDevice
  <2> QED BY <1>5, <2>1 DEF ActiveHasLink, RevokeDevice
<1>6. ASSUME NEW d \in Devices, OpenStream(d)
      PROVE  ActiveHasLink'
    BY <1>6 DEF OpenStream, ActiveHasLink, TypeOK, Bookkeeping, Linked, Active, Queued, Idle
<1>7. ASSUME NEW d \in Devices, DropStream(d)
      PROVE  ActiveHasLink'
    BY <1>7 DEF DropStream, StreamOpen, ActiveHasLink, TypeOK, Bookkeeping, Linked, Active, Queued, Idle
<1>8. ASSUME NEW d \in Devices, CloseEvent(d)
      PROVE  ActiveHasLink'
    BY <1>8 DEF CloseEvent, WentOffline, JobsOn, ActiveHasLink, TypeOK, Bookkeeping, Linked, Active, Queued, Idle
<1>9. ASSUME NEW d \in Devices, NEW offers \in Offers, NEW capable \in BOOLEAN,
             NEW held \in SUBSET JobsOn(d), Report(d, offers, capable, held)
      PROVE  ActiveHasLink'
    BY <1>9 DEF Report, NoLongerHeld, EndJobs, All, Schedule, ActiveHasLink, TypeOK, Bookkeeping, Linked, Active, Queued, Idle, Final
<1>10. ASSUME NEW j \in Jobs, NEW r \in 0..MaxMint, Submit(j, r)
      PROVE  ActiveHasLink'
    BY <1>10 DEF Submit, Schedule, ActiveHasLink, TypeOK, Bookkeeping, Linked, Active, Queued, Idle
<1>11. ASSUME NEW j \in Jobs, CancelQueued(j)
      PROVE  ActiveHasLink'
    BY <1>11 DEF CancelQueued, EndJobs, All, ActiveHasLink, TypeOK, Bookkeeping, Linked, Active, Queued, Idle
<1>12. ASSUME NEW j \in Jobs, CancelAssigned(j)
      PROVE  ActiveHasLink'
    BY <1>12 DEF CancelAssigned, EndJobs, All, Schedule, ActiveHasLink, TypeOK, Bookkeeping, Linked, Active, Queued, Idle
<1>13. ASSUME NEW j \in Jobs, CancelRunning(j)
      PROVE  ActiveHasLink'
    BY <1>13 DEF CancelRunning, ActiveHasLink, TypeOK, Bookkeeping, Linked, Active, Queued, Idle
<1>14. ASSUME NEW j \in Jobs, NEW d \in Devices, Accept(j, d)
      PROVE  ActiveHasLink'
    BY <1>14 DEF Accept, Owned, ActiveHasLink, TypeOK, Bookkeeping, Linked, Active, Queued, Idle, OnRunner
<1>15. ASSUME NEW j \in Jobs, NEW d \in Devices, Progress(j, d)
      PROVE  ActiveHasLink'
    BY <1>15 DEF Progress, Owned, ActiveHasLink, TypeOK, Bookkeeping, Linked, Active, Queued, Idle, OnRunner
<1>16. ASSUME NEW j \in Jobs, NEW d \in Devices, NEW ok \in BOOLEAN, Finish(j, d, ok)
      PROVE  ActiveHasLink'
    BY <1>16 DEF Finish, FinishedAs, EndJobs, All, Schedule, ActiveHasLink, TypeOK, Bookkeeping, Linked, Active, Queued, Idle, Final
<1>17. ASSUME NEW b \in Bots, BotPurged(b)
      PROVE  ActiveHasLink'
    BY <1>17 DEF BotPurged, EndJobs, All, DeleteRows, ActiveHasLink, TypeOK, Bookkeeping, Linked, Active, Queued, Idle
<1>18. CASE EndDropped
    BY <1>18 DEF EndDropped, EndJobs, ActiveHasLink, TypeOK, Bookkeeping, Linked, Active, Queued, Idle, Unfinal, Final
<1>19. ASSUME NEW j \in Jobs, PassOver(j)
      PROVE  ActiveHasLink'
    BY <1>19 DEF PassOver, ActiveHasLink, TypeOK, Bookkeeping, Linked, Active, Queued, Idle
<1>20. ASSUME NEW j \in Jobs, NEW d \in Devices, Assign(j, d)
      PROVE  ActiveHasLink'
    BY <1>20 DEF Assign, Oldest, ActiveHasLink, TypeOK, Bookkeeping, Linked, Active, Queued, Idle, Best, Candidates, ActiveLinks
<1>21. ASSUME NEW j \in Jobs, NEW d \in Devices, AssignUnsent(j, d)
      PROVE  ActiveHasLink'
    BY <1>21 DEF AssignUnsent, Oldest, ActiveHasLink, TypeOK, Bookkeeping, Linked, Active, Queued, Idle
<1>22. CASE TimePasses
    BY <1>22 DEF TimePasses, ActiveHasLink, TypeOK, Bookkeeping, Linked, Active, Queued, Idle
<1>23. ASSUME NEW forgotten \in SUBSET Old, Tick(forgotten)
      PROVE  ActiveHasLink'
  <2>1. UNCHANGED links
    BY <1>23 DEF Tick
  <2>2. ASSUME NEW j \in Jobs, state'[j] \in Active
        PROVE  state[j] \in Active /\ on'[j] = on[j]
    BY <1>23, <2>2, TickKeeps
  <2>3. doomed' = doomed
    BY <1>23 DEF Tick
  <2> QED BY <2>1, <2>2, <2>3 DEF ActiveHasLink, Linked, Active
<1>24. CASE Restart
    BY <1>24 DEF Restart, Start, ActiveHasLink, TypeOK, Bookkeeping, Linked, Active, Queued, Idle
<1> QED
    BY <1>1, <1>2, <1>3, <1>4, <1>5, <1>6, <1>7, <1>8, <1>9, <1>10, <1>11, <1>12, <1>13, <1>14, <1>15, <1>16, <1>17, <1>18, <1>19, <1>20, <1>21, <1>22, <1>23, <1>24
    DEF Next, DeviceNext, JobNext, GatewayNext, ScheduleStep

LEMMA StrandedStep == IInv /\ [Next]_vars => NoJobStranded'
<1> SUFFICES ASSUME TypeOK, Bookkeeping, ActiveHasLink, NoJobStranded, [Next]_vars PROVE NoJobStranded'
    BY DEF IInv
<1>1. CASE UNCHANGED vars
    BY <1>1 DEF vars, NoJobStranded, TypeOK, Bookkeeping, Active, Queued, Idle
<1>2. ASSUME NEW b \in Bots, NEW d \in Devices, LinkDevice(b, d)
      PROVE  NoJobStranded'
    BY <1>2 DEF LinkDevice, NoJobStranded, TypeOK, Bookkeeping, Active, Queued, Idle
<1>3. ASSUME NEW b \in Bots, NEW d \in Devices, UnlinkDevice(b, d)
      PROVE  NoJobStranded'
    BY <1>3 DEF UnlinkDevice, NoJobStranded, TypeOK, Bookkeeping, Active, Queued, Idle, Dropped, Unfinal
<1>4. ASSUME NEW d \in Devices, MarkRevoked(d)
      PROVE  NoJobStranded'
    BY <1>4 DEF MarkRevoked, NoJobStranded, TypeOK, Bookkeeping, Active, Queued, Idle
<1>5. ASSUME NEW d \in Devices, RevokeDevice(d)
      PROVE  NoJobStranded'
  <2>1. ASSUME NEW j \in Jobs, state[j] \in Active, j \notin doomed'
        PROVE  presence'[on[j]] # Absent \/ lostAt'[on[j]] # Off
    <3>1. on[j] \in Devices /\ doomed = {}
      BY <1>5, <2>1 DEF Bookkeeping, RevokeDevice, Idle
    <3>2. on[j] # d
      BY <1>5, <2>1, RevokeDooms
    <3> QED BY <1>5, <2>1, <3>1, <3>2 DEF RevokeDevice, NoJobStranded, TypeOK
  <2> QED BY <1>5, <2>1 DEF NoJobStranded, RevokeDevice
<1>6. ASSUME NEW d \in Devices, OpenStream(d)
      PROVE  NoJobStranded'
    BY <1>6 DEF OpenStream, NoJobStranded, TypeOK, Bookkeeping, Active, Queued, Idle
<1>7. ASSUME NEW d \in Devices, DropStream(d)
      PROVE  NoJobStranded'
    BY <1>7 DEF DropStream, StreamOpen, NoJobStranded, TypeOK, Bookkeeping, Active, Queued, Idle
<1>8. ASSUME NEW d \in Devices, CloseEvent(d)
      PROVE  NoJobStranded'
  <2>1. UNCHANGED <<state, on, doomed>>
    BY <1>8 DEF CloseEvent
  <2>2. CASE UNCHANGED <<presence, lostAt>>
    BY <2>1, <2>2 DEF NoJobStranded
  <2>3. CASE WentOffline(d)
    <3>1. ASSUME NEW j \in Jobs, state[j] \in Active, j \notin doomed
          PROVE  presence'[on[j]] # Absent \/ lostAt'[on[j]] # Off
      <4>1. on[j] \in Devices
        BY <3>1 DEF Bookkeeping
      <4>2. CASE on[j] = d
        <5>1. JobsOn(d) # {}
          BY <3>1, <4>2 DEF JobsOn
        <5>2. lostAt' = [lostAt EXCEPT ![d] = LostGrace]
          BY <2>3, <5>1 DEF WentOffline
        <5>3. lostAt'[d] = LostGrace
          BY <5>2 DEF TypeOK
        <5>4. LostGrace # Off
          BY TimesAssumption DEF Off
        <5> QED BY <4>2, <5>3, <5>4
      <4>3. CASE on[j] # d
        BY <2>3, <3>1, <4>1, <4>3 DEF NoJobStranded, WentOffline, TypeOK
      <4> QED BY <4>2, <4>3
    <3> QED BY <2>1, <3>1 DEF NoJobStranded
  <2> QED BY <1>8, <2>2, <2>3 DEF CloseEvent
<1>9. ASSUME NEW d \in Devices, NEW offers \in Offers, NEW capable \in BOOLEAN,
             NEW held \in SUBSET JobsOn(d), Report(d, offers, capable, held)
      PROVE  NoJobStranded'
    BY <1>9, AbsentAssumption DEF Report, NoLongerHeld, EndJobs, All, Schedule, NoJobStranded, TypeOK, Bookkeeping, Active, Queued, Idle, Final
<1>10. ASSUME NEW j \in Jobs, NEW r \in 0..MaxMint, Submit(j, r)
      PROVE  NoJobStranded'
    BY <1>10 DEF Submit, Schedule, NoJobStranded, TypeOK, Bookkeeping, Active, Queued, Idle
<1>11. ASSUME NEW j \in Jobs, CancelQueued(j)
      PROVE  NoJobStranded'
    BY <1>11 DEF CancelQueued, EndJobs, All, NoJobStranded, TypeOK, Bookkeeping, Active, Queued, Idle
<1>12. ASSUME NEW j \in Jobs, CancelAssigned(j)
      PROVE  NoJobStranded'
    BY <1>12 DEF CancelAssigned, EndJobs, All, Schedule, NoJobStranded, TypeOK, Bookkeeping, Active, Queued, Idle
<1>13. ASSUME NEW j \in Jobs, CancelRunning(j)
      PROVE  NoJobStranded'
    BY <1>13 DEF CancelRunning, NoJobStranded, TypeOK, Bookkeeping, Active, Queued, Idle
<1>14. ASSUME NEW j \in Jobs, NEW d \in Devices, Accept(j, d)
      PROVE  NoJobStranded'
    BY <1>14 DEF Accept, Owned, NoJobStranded, TypeOK, Bookkeeping, Active, Queued, Idle
<1>15. ASSUME NEW j \in Jobs, NEW d \in Devices, Progress(j, d)
      PROVE  NoJobStranded'
    BY <1>15 DEF Progress, Owned, NoJobStranded, TypeOK, Bookkeeping, Active, Queued, Idle
<1>16. ASSUME NEW j \in Jobs, NEW d \in Devices, NEW ok \in BOOLEAN, Finish(j, d, ok)
      PROVE  NoJobStranded'
    BY <1>16 DEF Finish, FinishedAs, EndJobs, All, Schedule, NoJobStranded, TypeOK, Bookkeeping, Active, Queued, Idle, Final
<1>17. ASSUME NEW b \in Bots, BotPurged(b)
      PROVE  NoJobStranded'
    BY <1>17 DEF BotPurged, EndJobs, All, DeleteRows, NoJobStranded, TypeOK, Bookkeeping, Active, Queued, Idle
<1>18. CASE EndDropped
    BY <1>18 DEF EndDropped, EndJobs, NoJobStranded, TypeOK, Bookkeeping, Active, Queued, Idle, Unfinal, Final
<1>19. ASSUME NEW j \in Jobs, PassOver(j)
      PROVE  NoJobStranded'
    BY <1>19 DEF PassOver, NoJobStranded, TypeOK, Bookkeeping, Active, Queued, Idle
<1>20. ASSUME NEW j \in Jobs, NEW d \in Devices, Assign(j, d)
      PROVE  NoJobStranded'
    BY <1>20, AbsentAssumption DEF Assign, Oldest, NoJobStranded, TypeOK, Bookkeeping, Active, Queued, Idle, Best, Candidates, ActiveLinks, Online
<1>21. ASSUME NEW j \in Jobs, NEW d \in Devices, AssignUnsent(j, d)
      PROVE  NoJobStranded'
    BY <1>21 DEF AssignUnsent, Oldest, NoJobStranded, TypeOK, Bookkeeping, Active, Queued, Idle
<1>22. CASE TimePasses
  <2>1. ASSUME NEW d \in Devices PROVE lostAt[d] # Off => lostAt'[d] # Off
    BY <1>22, LessType, TimesAssumption DEF TimePasses, TypeOK
  <2>2. UNCHANGED <<state, on, presence, doomed>>
    BY <1>22 DEF TimePasses
  <2> QED BY <2>1, <2>2 DEF NoJobStranded, Bookkeeping
<1>23. ASSUME NEW forgotten \in SUBSET Old, Tick(forgotten)
      PROVE  NoJobStranded'
  <2>1. ASSUME NEW j \in Jobs, state'[j] \in Active
        PROVE  presence'[on'[j]] # Absent \/ lostAt'[on'[j]] # Off
    <3>1. state[j] \in Active /\ on'[j] = on[j] /\ j \notin LostJobs \cup Overstayed \cup Unaccepted
      BY <1>23, <2>1, TickKeeps
    <3>2. on[j] \in Devices /\ on[j] \notin LostDevices
      BY <3>1 DEF Bookkeeping, LostJobs
    <3>3. presence[on[j]] # Absent \/ lostAt[on[j]] # Off
      BY <1>23, <3>1 DEF NoJobStranded, Tick, Idle
    <3>4. presence' = presence /\ (lostAt[on[j]] # 0 => lostAt'[on[j]] = lostAt[on[j]])
      BY <1>23, <3>2 DEF Tick
    <3> QED BY <3>1, <3>2, <3>3, <3>4 DEF LostDevices
  <2>2. doomed' = doomed
    BY <1>23 DEF Tick
  <2> QED BY <2>1, <2>2 DEF NoJobStranded, Active
<1>24. CASE Restart
  <2>1. ASSUME NEW j \in Jobs, state'[j] \in Active
        PROVE  lostAt'[on'[j]] = LostGrace
    <3>1. state[j] \in OnRunner /\ on'[j] = on[j]
      BY <1>24, <2>1 DEF Restart, Start, Active, OnRunner
    <3>2. on[j] \in Devices
      BY <3>1 DEF Bookkeeping, Active, OnRunner
    <3> QED BY <1>24, <3>1, <3>2 DEF Restart, Start
  <2>2. LostGrace # Off
    BY TimesAssumption DEF Off
  <2> QED BY <2>1, <2>2 DEF NoJobStranded, Active
<1> QED
    BY <1>1, <1>2, <1>3, <1>4, <1>5, <1>6, <1>7, <1>8, <1>9, <1>10, <1>11, <1>12, <1>13, <1>14, <1>15, <1>16, <1>17, <1>18, <1>19, <1>20, <1>21, <1>22, <1>23, <1>24
    DEF Next, DeviceNext, JobNext, GatewayNext, ScheduleStep

LEMMA CancelStep == IInv /\ [Next]_vars => CancelIsKept'
<1> SUFFICES ASSUME TypeOK, Bookkeeping, CancelIsKept, TimersMatchStates, [Next]_vars PROVE CancelIsKept'
    BY DEF IInv
<1>1. CASE UNCHANGED vars
    BY <1>1 DEF vars, CancelIsKept, TypeOK, Bookkeeping, TimersMatchStates, OnRunner, Queued, Idle
<1>2. ASSUME NEW b \in Bots, NEW d \in Devices, LinkDevice(b, d)
      PROVE  CancelIsKept'
    BY <1>2 DEF LinkDevice, CancelIsKept, TypeOK, Bookkeeping, TimersMatchStates, OnRunner, Queued, Idle
<1>3. ASSUME NEW b \in Bots, NEW d \in Devices, UnlinkDevice(b, d)
      PROVE  CancelIsKept'
    BY <1>3 DEF UnlinkDevice, CancelIsKept, TypeOK, Bookkeeping, TimersMatchStates, OnRunner, Queued, Idle
<1>4. ASSUME NEW d \in Devices, MarkRevoked(d)
      PROVE  CancelIsKept'
    BY <1>4 DEF MarkRevoked, CancelIsKept, TypeOK, Bookkeeping, TimersMatchStates, OnRunner, Queued, Idle
<1>5. ASSUME NEW d \in Devices, RevokeDevice(d)
      PROVE  CancelIsKept'
    BY <1>5 DEF RevokeDevice, CancelIsKept, TypeOK, Bookkeeping, TimersMatchStates, OnRunner, Queued, Idle
<1>6. ASSUME NEW d \in Devices, OpenStream(d)
      PROVE  CancelIsKept'
    BY <1>6 DEF OpenStream, CancelIsKept, TypeOK, Bookkeeping, TimersMatchStates, OnRunner, Queued, Idle
<1>7. ASSUME NEW d \in Devices, DropStream(d)
      PROVE  CancelIsKept'
    BY <1>7 DEF DropStream, StreamOpen, CancelIsKept, TypeOK, Bookkeeping, TimersMatchStates, OnRunner, Queued, Idle
<1>8. ASSUME NEW d \in Devices, CloseEvent(d)
      PROVE  CancelIsKept'
    BY <1>8 DEF CloseEvent, WentOffline, JobsOn, CancelIsKept, TypeOK, Bookkeeping, TimersMatchStates, OnRunner, Queued, Idle
<1>9. ASSUME NEW d \in Devices, NEW offers \in Offers, NEW capable \in BOOLEAN,
             NEW held \in SUBSET JobsOn(d), Report(d, offers, capable, held)
      PROVE  CancelIsKept'
    BY <1>9 DEF Report, NoLongerHeld, EndJobs, All, Schedule, CancelIsKept, TypeOK, Bookkeeping, TimersMatchStates, OnRunner, Queued, Idle
<1>10. ASSUME NEW j \in Jobs, NEW r \in 0..MaxMint, Submit(j, r)
      PROVE  CancelIsKept'
    BY <1>10 DEF Submit, Schedule, CancelIsKept, TypeOK, Bookkeeping, TimersMatchStates, OnRunner, Queued, Idle
<1>11. ASSUME NEW j \in Jobs, CancelQueued(j)
      PROVE  CancelIsKept'
    BY <1>11 DEF CancelQueued, EndJobs, All, CancelIsKept, TypeOK, Bookkeeping, TimersMatchStates, OnRunner, Queued, Idle
<1>12. ASSUME NEW j \in Jobs, CancelAssigned(j)
      PROVE  CancelIsKept'
    BY <1>12 DEF CancelAssigned, EndJobs, All, Schedule, CancelIsKept, TypeOK, Bookkeeping, TimersMatchStates, OnRunner, Queued, Idle
<1>13. ASSUME NEW j \in Jobs, CancelRunning(j)
      PROVE  CancelIsKept'
    BY <1>13 DEF CancelRunning, CancelIsKept, TypeOK, Bookkeeping, TimersMatchStates, OnRunner, Queued, Idle
<1>14. ASSUME NEW j \in Jobs, NEW d \in Devices, Accept(j, d)
      PROVE  CancelIsKept'
    BY <1>14 DEF Accept, Owned, CancelIsKept, TypeOK, Bookkeeping, TimersMatchStates, OnRunner, Queued, Idle
<1>15. ASSUME NEW j \in Jobs, NEW d \in Devices, Progress(j, d)
      PROVE  CancelIsKept'
    BY <1>15 DEF Progress, Owned, CancelIsKept, TypeOK, Bookkeeping, TimersMatchStates, OnRunner, Queued, Idle
<1>16. ASSUME NEW j \in Jobs, NEW d \in Devices, NEW ok \in BOOLEAN, Finish(j, d, ok)
      PROVE  CancelIsKept'
    BY <1>16 DEF Finish, FinishedAs, EndJobs, All, Schedule, CancelIsKept, TypeOK, Bookkeeping, TimersMatchStates, OnRunner, Queued, Idle
<1>17. ASSUME NEW b \in Bots, BotPurged(b)
      PROVE  CancelIsKept'
  <2> DEFINE its == {j \in Jobs : BotOf[j] = b /\ state[j] # "none"}
  <2>1. ASSUME NEW j \in Jobs, cancelRequested'[j]
        PROVE  cancelRequested[j] /\ state'[j] = state[j]
    BY <1>17, <2>1 DEF BotPurged, EndJobs, DeleteRows
  <2> QED BY <2>1 DEF CancelIsKept, OnRunner
<1>18. CASE EndDropped
  <2>1. ASSUME NEW j \in Jobs, cancelRequested[j], j \in doomed
        PROVE  state'[j] = "cancelled"
    <3>1. state[j] \in Unfinal /\ state[j] \in OnRunner \cup {"cancelled", "lost"}
      BY <2>1 DEF Bookkeeping, CancelIsKept
    <3>2. on[j] # NoDevice
      BY <3>1, NoDeviceAssumption DEF Bookkeeping, Unfinal, Active, OnRunner
    <3> QED BY <1>18, <2>1, <3>2 DEF EndDropped, EndJobs
  <2>2. ASSUME NEW j \in Jobs, j \notin doomed PROVE state'[j] = state[j]
    BY <1>18, <2>2 DEF EndDropped, EndJobs
  <2>3. cancelRequested' = cancelRequested
    BY <1>18 DEF EndDropped
  <2> QED BY <2>1, <2>2, <2>3 DEF CancelIsKept, OnRunner
<1>19. ASSUME NEW j \in Jobs, PassOver(j)
      PROVE  CancelIsKept'
    BY <1>19 DEF PassOver, CancelIsKept, TypeOK, Bookkeeping, TimersMatchStates, OnRunner, Queued, Idle
<1>20. ASSUME NEW j \in Jobs, NEW d \in Devices, Assign(j, d)
      PROVE  CancelIsKept'
    BY <1>20 DEF Assign, Oldest, CancelIsKept, TypeOK, Bookkeeping, TimersMatchStates, OnRunner, Queued, Idle
<1>21. ASSUME NEW j \in Jobs, NEW d \in Devices, AssignUnsent(j, d)
      PROVE  CancelIsKept'
    BY <1>21 DEF AssignUnsent, Oldest, CancelIsKept, TypeOK, Bookkeeping, TimersMatchStates, OnRunner, Queued, Idle
<1>22. CASE TimePasses
    BY <1>22 DEF TimePasses, CancelIsKept, TypeOK, Bookkeeping, TimersMatchStates, OnRunner, Queued, Idle
<1>23. ASSUME NEW forgotten \in SUBSET Old, Tick(forgotten)
      PROVE  CancelIsKept'
    BY <1>23 DEF Tick, Schedule, CancelIsKept, TypeOK, Bookkeeping, TimersMatchStates, OnRunner, Queued, Idle, Unaccepted, Overstayed, LostJobs, Expired, Old, LostDevices, Final, Unfinal, Active
<1>24. CASE Restart
    BY <1>24 DEF Restart, Start, CancelIsKept, TypeOK, Bookkeeping, TimersMatchStates, OnRunner, Queued, Idle
<1> QED
    BY <1>1, <1>2, <1>3, <1>4, <1>5, <1>6, <1>7, <1>8, <1>9, <1>10, <1>11, <1>12, <1>13, <1>14, <1>15, <1>16, <1>17, <1>18, <1>19, <1>20, <1>21, <1>22, <1>23, <1>24
    DEF Next, DeviceNext, JobNext, GatewayNext, ScheduleStep

-----------------------------------------------------------------------------
(* Action properties.                                                      *)

LEMMA OnceStep == IInv /\ [Next]_vars => \A j \in Jobs : StaysTaken(j)
<1> SUFFICES ASSUME TypeOK, Bookkeeping, TimersMatchStates, [Next]_vars, NEW i \in Jobs PROVE StaysTaken(i)
    BY DEF IInv
<1>1. CASE UNCHANGED vars
    BY <1>1 DEF vars, StaysTaken, TypeOK, Bookkeeping, Queued, OnRunner, Final
<1>2. ASSUME NEW b \in Bots, NEW d \in Devices, LinkDevice(b, d)
      PROVE  StaysTaken(i)
    BY <1>2 DEF LinkDevice, StaysTaken, TypeOK, Bookkeeping, Queued, OnRunner, Final
<1>3. ASSUME NEW b \in Bots, NEW d \in Devices, UnlinkDevice(b, d)
      PROVE  StaysTaken(i)
    BY <1>3 DEF UnlinkDevice, StaysTaken, TypeOK, Bookkeeping, Queued, OnRunner, Final
<1>4. ASSUME NEW d \in Devices, MarkRevoked(d)
      PROVE  StaysTaken(i)
    BY <1>4 DEF MarkRevoked, StaysTaken, TypeOK, Bookkeeping, Queued, OnRunner, Final
<1>5. ASSUME NEW d \in Devices, RevokeDevice(d)
      PROVE  StaysTaken(i)
    BY <1>5 DEF RevokeDevice, StaysTaken, TypeOK, Bookkeeping, Queued, OnRunner, Final
<1>6. ASSUME NEW d \in Devices, OpenStream(d)
      PROVE  StaysTaken(i)
    BY <1>6 DEF OpenStream, StaysTaken, TypeOK, Bookkeeping, Queued, OnRunner, Final
<1>7. ASSUME NEW d \in Devices, DropStream(d)
      PROVE  StaysTaken(i)
    BY <1>7 DEF DropStream, StreamOpen, StaysTaken, TypeOK, Bookkeeping, Queued, OnRunner, Final
<1>8. ASSUME NEW d \in Devices, CloseEvent(d)
      PROVE  StaysTaken(i)
    BY <1>8 DEF CloseEvent, WentOffline, JobsOn, StaysTaken, TypeOK, Bookkeeping, Queued, OnRunner, Final
<1>9. ASSUME NEW d \in Devices, NEW offers \in Offers, NEW capable \in BOOLEAN,
             NEW held \in SUBSET JobsOn(d), Report(d, offers, capable, held)
      PROVE  StaysTaken(i)
    BY <1>9 DEF Report, NoLongerHeld, EndJobs, All, Schedule, StaysTaken, TypeOK, Bookkeeping, Queued, OnRunner, Final
<1>10. ASSUME NEW j \in Jobs, NEW r \in 0..MaxMint, Submit(j, r)
      PROVE  StaysTaken(i)
    BY <1>10 DEF Submit, Schedule, StaysTaken, TypeOK, Bookkeeping, Queued, OnRunner, Final
<1>11. ASSUME NEW j \in Jobs, CancelQueued(j)
      PROVE  StaysTaken(i)
    BY <1>11 DEF CancelQueued, EndJobs, All, StaysTaken, TypeOK, Bookkeeping, Queued, OnRunner, Final
<1>12. ASSUME NEW j \in Jobs, CancelAssigned(j)
      PROVE  StaysTaken(i)
    BY <1>12 DEF CancelAssigned, EndJobs, All, Schedule, StaysTaken, TypeOK, Bookkeeping, Queued, OnRunner, Final
<1>13. ASSUME NEW j \in Jobs, CancelRunning(j)
      PROVE  StaysTaken(i)
    BY <1>13 DEF CancelRunning, StaysTaken, TypeOK, Bookkeeping, Queued, OnRunner, Final
<1>14. ASSUME NEW j \in Jobs, NEW d \in Devices, Accept(j, d)
      PROVE  StaysTaken(i)
    BY <1>14 DEF Accept, Owned, StaysTaken, TypeOK, Bookkeeping, Queued, OnRunner, Final
<1>15. ASSUME NEW j \in Jobs, NEW d \in Devices, Progress(j, d)
      PROVE  StaysTaken(i)
    BY <1>15 DEF Progress, Owned, StaysTaken, TypeOK, Bookkeeping, Queued, OnRunner, Final
<1>16. ASSUME NEW j \in Jobs, NEW d \in Devices, NEW ok \in BOOLEAN, Finish(j, d, ok)
      PROVE  StaysTaken(i)
    BY <1>16 DEF Finish, FinishedAs, EndJobs, All, Schedule, StaysTaken, TypeOK, Bookkeeping, Queued, OnRunner, Final
<1>17. ASSUME NEW b \in Bots, BotPurged(b)
      PROVE  StaysTaken(i)
    BY <1>17 DEF BotPurged, EndJobs, All, DeleteRows, StaysTaken, TypeOK, Bookkeeping, Queued, OnRunner, Final
<1>18. CASE EndDropped
    BY <1>18 DEF EndDropped, EndJobs, StaysTaken, TypeOK, Bookkeeping, Queued, OnRunner, Final, Unfinal, Active
<1>19. ASSUME NEW j \in Jobs, PassOver(j)
      PROVE  StaysTaken(i)
    BY <1>19 DEF PassOver, StaysTaken, TypeOK, Bookkeeping, Queued, OnRunner, Final
<1>20. ASSUME NEW j \in Jobs, NEW d \in Devices, Assign(j, d)
      PROVE  StaysTaken(i)
    BY <1>20 DEF Assign, Oldest, StaysTaken, TypeOK, Bookkeeping, Queued, OnRunner, Final
<1>21. ASSUME NEW j \in Jobs, NEW d \in Devices, AssignUnsent(j, d)
      PROVE  StaysTaken(i)
    BY <1>21 DEF AssignUnsent, Oldest, StaysTaken, TypeOK, Bookkeeping, Queued, OnRunner, Final
<1>22. CASE TimePasses
    BY <1>22 DEF TimePasses, StaysTaken, TypeOK, Bookkeeping, Queued, OnRunner, Final
<1>23. ASSUME NEW forgotten \in SUBSET Old, Tick(forgotten)
      PROVE  StaysTaken(i)
    BY <1>23 DEF Tick, Schedule, StaysTaken, TypeOK, Bookkeeping, Queued, OnRunner, Final, Unaccepted, Overstayed, LostJobs, Expired, Old, LostDevices, Active, Unfinal, TimersMatchStates
<1>24. CASE Start
    BY <1>24 DEF Start, StaysTaken, TypeOK, Bookkeeping, Queued, OnRunner, Final
<1> QED
    BY <1>1, <1>2, <1>3, <1>4, <1>5, <1>6, <1>7, <1>8, <1>9, <1>10, <1>11, <1>12, <1>13, <1>14, <1>15, <1>16, <1>17, <1>18, <1>19, <1>20, <1>21, <1>22, <1>23, <1>24
    DEF Next, DeviceNext, JobNext, GatewayNext, ScheduleStep, Restart

\* Only assign() moves a job from the queue to a computer.
LEMMA OnlyAssignSends ==
    ASSUME IInv, [Next]_vars,
           NEW i \in Jobs, state[i] = "queued", state'[i] = "assigned"
    PROVE  \E d \in Devices : Assign(i, d)
<1> USE DEF IInv
<1>1. ~UNCHANGED state
    OBVIOUS
<1>2. ASSUME NEW d \in Devices, DeviceNext(d) PROVE FALSE
    BY <1>1, <1>2
    DEF DeviceNext, LinkDevice, UnlinkDevice, MarkRevoked, RevokeDevice, OpenStream,
        DropStream, CloseEvent, Report, EndJobs, All
<1>3. ASSUME NEW j \in Jobs, JobNext(j) PROVE FALSE
  <2>1. CASE \E r \in 0..MaxMint : Submit(j, r)
    BY <2>1 DEF Submit, TypeOK
  <2>2. CASE CancelQueued(j) \/ CancelAssigned(j) \/ CancelRunning(j)
    BY <2>2 DEF CancelQueued, CancelAssigned, CancelRunning, EndJobs, All
  <2>3. CASE \E d \in Devices : Accept(j, d) \/ Progress(j, d)
    BY <2>3 DEF Accept, Progress, TypeOK
  <2>4. CASE \E d \in Devices, ok \in BOOLEAN : Finish(j, d, ok)
    BY <2>4 DEF Finish, FinishedAs, EndJobs, All
  <2> QED BY <1>3, <2>1, <2>2, <2>3, <2>4 DEF JobNext
<1>4. CASE GatewayNext
  <2>1. ~EndDropped /\ ~TimePasses /\ ~\E b \in Bots : BotPurged(b)
    BY <1>1 DEF EndDropped, TimePasses, BotPurged, EndJobs, All
  <2>2. ~(\E forgotten \in SUBSET Old : Tick(forgotten)) /\ ~Restart
    BY DEF Tick, Restart, Start
  <2>3. PICK j \in Jobs, d \in Devices : Assign(j, d)
    BY <1>1, <1>4, <2>1, <2>2 DEF GatewayNext, ScheduleStep, PassOver, AssignUnsent
  <2>4. j = i
    BY <2>3 DEF Assign, TypeOK
  <2> QED BY <2>3, <2>4
<1> QED BY <1>1, <1>2, <1>3, <1>4 DEF Next, vars

LEMMA SlotsStep ==
    IInv /\ [Next]_vars => \A j \in Jobs, d \in Devices : SentWithinSlots(j, d)
<1> SUFFICES ASSUME IInv, [Next]_vars, NEW j \in Jobs, NEW d \in Devices,
                    state[j] = "queued", state'[j] = "assigned", on'[j] = d
             PROVE  /\ d \in ActiveLinks(BotOf[j])
                    /\ StreamOpen(d)
                    /\ Cardinality(JobsOn(d)') <= presence[d]
    BY DEF SentWithinSlots
<1>1. Assign(j, d)
  <2>1. PICK e \in Devices : Assign(j, e)
    BY OnlyAssignSends
  <2>2. on'[j] = e
    BY <2>1 DEF Assign, IInv, TypeOK
  <2> QED BY <2>1, <2>2
<1>2. d \in Candidates(j)
    BY <1>1 DEF Assign, Best
<1>3. JobsOn(d)' = JobsOn(d) \cup {j} /\ j \notin JobsOn(d)
    BY <1>1 DEF Assign, JobsOn, Active, IInv, TypeOK
<1>4. IsFiniteSet(JobsOn(d))
    BY JobsAssumption, FS_Subset DEF JobsOn
<1>5. Cardinality(JobsOn(d)') = Cardinality(JobsOn(d)) + 1 /\ Cardinality(JobsOn(d)) \in Nat
    BY <1>3, <1>4, FS_AddElement, FS_CardinalityType
<1>6. presence[d] \in Nat /\ presence[d] - Cardinality(JobsOn(d)) > 0
    BY <1>2, BoundsAssumption DEF Candidates, Free, Online, Offers
<1>7. Cardinality(JobsOn(d)') <= presence[d]
    BY <1>5, <1>6
<1> QED BY <1>2, <1>7 DEF Candidates, Online

-----------------------------------------------------------------------------
(* No overtaking.  While schedule() runs, a queued job it has passed over    *)
(* finds no candidate any more: streams only close, computers are only      *)
(* revoked and slots only fill until it is done.                            *)

PassedOver == todo # {} =>
    \A i \in Queued \ todo : Candidates(i) = {} \/ skips[i] # NoSkips

LEMMA CandidatesShrink ==
    ASSUME TypeOK,
           UNCHANGED <<links, wants, presence>>,
           revoked \subseteq revoked',
           \A d \in Devices : StreamOpen(d)' => StreamOpen(d),
           \A d \in Devices : JobsOn(d) \subseteq JobsOn(d)',
           NEW i \in Jobs, skips'[i] = skips[i]
    PROVE  Candidates(i)' \subseteq Candidates(i)
<1> SUFFICES ASSUME NEW d \in Candidates(i)' PROVE d \in Candidates(i)
    OBVIOUS
<1>1. /\ d \in ActiveLinks(BotOf[i])
      /\ wants[i] \in {0, links[BotOf[i]][d]}
      /\ Online(d)
      /\ skips[i][d] = 0
      /\ d \in Meets[i]
    BY DEF Candidates, ActiveLinks, Linked, Online
<1>2. d \in Devices
    BY DEF Candidates, ActiveLinks
<1>3. IsFiniteSet(JobsOn(d)) /\ IsFiniteSet(JobsOn(d)')
    BY JobsAssumption, FS_Subset DEF JobsOn
<1>4. JobsOn(d) \subseteq JobsOn(d)'
    BY <1>2
<1>5. Cardinality(JobsOn(d)) <= Cardinality(JobsOn(d)')
    BY ONLY <1>3, <1>4, FS_Subset
<1>6. Cardinality(JobsOn(d)) \in Nat /\ Cardinality(JobsOn(d)') \in Nat
    BY <1>3, FS_CardinalityType
<1>7. presence[d] \in Nat
    BY <1>1, BoundsAssumption DEF Online, Offers
<1>8. presence[d] - Cardinality(JobsOn(d)') > 0
    BY DEF Candidates, Free
<1>9. Free(d) > 0
    BY <1>5, <1>6, <1>7, <1>8 DEF Free
<1> QED BY <1>1, <1>9 DEF Candidates

LEMMA PassedOverStep ==
    ASSUME SkipTime # 0
    PROVE  IInv /\ PassedOver /\ [Next]_vars => PassedOver'
<1> SUFFICES ASSUME IInv, PassedOver, [Next]_vars, todo' # {}, NEW i \in Queued', i \notin todo'
             PROVE  (Candidates(i) = {} \/ skips[i] # NoSkips)'
    BY DEF PassedOver
<1> USE DEF IInv
<1>0. i \in Jobs /\ state'[i] = "queued"
    BY DEF Queued
<1>1. ~(todo' = {j \in Jobs : state'[j] = "queued"})
    BY <1>0
<1>2. ASSUME todo # {}, i \notin todo, state[i] = "queued", skips'[i] = skips[i],
             UNCHANGED <<links, wants, presence>>,
             revoked \subseteq revoked',
             \A d \in Devices : StreamOpen(d)' => StreamOpen(d),
             \A d \in Devices : JobsOn(d) \subseteq JobsOn(d)'
      PROVE  (Candidates(i) = {} \/ skips[i] # NoSkips)'
  <2>1. Candidates(i) = {} \/ skips[i] # NoSkips
    BY <1>0, <1>2 DEF PassedOver, Queued
  <2>2. Candidates(i)' \subseteq Candidates(i)
    BY <1>0, <1>2, CandidatesShrink
  <2> QED BY <1>2, <2>1, <2>2 DEF NoSkips
<1>3. ASSUME Idle, UNCHANGED todo PROVE FALSE
    BY <1>3 DEF Idle
<1>4. CASE UNCHANGED vars
    BY <1>0, <1>2, <1>4 DEF vars, StreamOpen, JobsOn
<1>5. ASSUME NEW d \in Devices, MarkRevoked(d) PROVE (Candidates(i) = {} \/ skips[i] # NoSkips)'
    BY <1>0, <1>2, <1>5 DEF MarkRevoked, StreamOpen, JobsOn
<1>6. ASSUME NEW d \in Devices, DropStream(d) PROVE (Candidates(i) = {} \/ skips[i] # NoSkips)'
  <2>1. \A e \in Devices : StreamOpen(e)' => StreamOpen(e)
    BY <1>6 DEF DropStream, StreamOpen, TypeOK
  <2> QED BY <1>0, <1>2, <1>6, <2>1 DEF DropStream, JobsOn
<1>7. ASSUME NEW d \in Devices, DeviceNext(d) PROVE (Candidates(i) = {} \/ skips[i] # NoSkips)'
    BY <1>0, <1>1, <1>3, <1>5, <1>6, <1>7
    DEF DeviceNext, LinkDevice, UnlinkDevice, RevokeDevice, OpenStream, CloseEvent, Report,
        Schedule, Queued
<1>8. ASSUME NEW j \in Jobs, JobNext(j) PROVE FALSE
    BY <1>1, <1>3, <1>8
    DEF JobNext, Submit, CancelQueued, CancelAssigned, CancelRunning, Accept, Progress,
        Finish, Schedule
<1>9. ~EndDropped
    BY DEF EndDropped, Bookkeeping
<1>10. ASSUME NEW j \in Jobs, PassOver(j) PROVE (Candidates(i) = {} \/ skips[i] # NoSkips)'
  <2>1. CASE i = j
    <3>1. Candidates(i) = {} /\ skips'[i] = skips[i]
      BY <1>10, <2>1 DEF PassOver
    <3>2. Candidates(i)' \subseteq Candidates(i)
      BY <1>0, <1>10, <3>1, CandidatesShrink DEF PassOver, StreamOpen, JobsOn
    <3> QED BY <3>1, <3>2
  <2>2. CASE i # j
    BY <1>0, <1>2, <1>10, <2>2 DEF PassOver, StreamOpen, JobsOn
  <2> QED BY <2>1, <2>2
<1>11. ASSUME NEW j \in Jobs, NEW d \in Devices, Assign(j, d)
       PROVE  (Candidates(i) = {} \/ skips[i] # NoSkips)'
  <2>1. i # j
    BY <1>0, <1>11 DEF Assign, TypeOK
  <2>2. on[j] = NoDevice
    BY <1>11 DEF Assign, Oldest, Bookkeeping, Queued
  <2>3. \A e \in Devices : JobsOn(e) \subseteq JobsOn(e)'
    BY <1>11, <2>2, NoDeviceAssumption DEF Assign, JobsOn, TypeOK
  <2>4. todo # {} /\ i \notin todo /\ state[i] = "queued"
    BY <1>0, <1>11, <2>1 DEF Assign, TypeOK
  <2> QED BY <1>2, <1>11, <2>3, <2>4 DEF Assign, StreamOpen
<1>12. ASSUME NEW j \in Jobs, NEW d \in Devices, AssignUnsent(j, d)
       PROVE  (Candidates(i) = {} \/ skips[i] # NoSkips)'
  <2>1. CASE i = j
    <3>1. skips'[i][d] = SkipTime
      BY <1>0, <1>12, <2>1 DEF AssignUnsent, TypeOK
    <3> QED BY <3>1 DEF NoSkips
  <2>2. CASE i # j
    <3>1. todo # {} /\ i \notin todo /\ state[i] = "queued" /\ skips'[i] = skips[i]
      BY <1>0, <1>12, <2>2 DEF AssignUnsent, TypeOK
    <3>2. \A e \in Devices : StreamOpen(e)' => StreamOpen(e)
      BY <1>12 DEF AssignUnsent, Best, Candidates, Online, StreamOpen, TypeOK
    <3> QED BY <1>2, <1>12, <3>1, <3>2 DEF AssignUnsent, JobsOn
  <2> QED BY <2>1, <2>2
<1>13. ASSUME GatewayNext PROVE (Candidates(i) = {} \/ skips[i] # NoSkips)'
    BY <1>0, <1>1, <1>3, <1>9, <1>10, <1>11, <1>12, <1>13
    DEF GatewayNext, BotPurged, ScheduleStep, TimePasses, Tick, Schedule, Restart, Start
<1> QED BY <1>4, <1>7, <1>8, <1>13 DEF Next

LEMMA OvertakingStep ==
    IInv /\ PassedOver /\ [Next]_vars => \A i, j \in Jobs : ~Overtakes(j, i)
<1> SUFFICES ASSUME IInv, PassedOver, [Next]_vars, NEW i \in Jobs, NEW j \in Jobs, Overtakes(j, i)
             PROVE  FALSE
    OBVIOUS
<1>1. PICK d \in Devices : Assign(j, d)
    BY OnlyAssignSends DEF Overtakes
<1>2. on'[j] = d
    BY <1>1 DEF Assign, IInv, TypeOK
<1>3. i \notin todo
  <2>1. i \in Int /\ j \in Int /\ i < j
    BY JobsAssumption DEF Overtakes
  <2> QED BY <1>1, <2>1 DEF Assign, Oldest
<1>4. todo # {}
    BY <1>1 DEF Assign, Oldest
<1> QED BY <1>2, <1>3, <1>4 DEF Overtakes, PassedOver, Queued

-----------------------------------------------------------------------------
(* Theorems.                                                               *)

LEMMA InitInv == Init => IInv
<1> SUFFICES ASSUME Init PROVE IInv
    OBVIOUS
<1>1. TypeOK
    BY InitType
<1>2. Bookkeeping
    BY DEF Init, Bookkeeping, Active, Queued
<1>3. StreamsBounded
    BY BoundsAssumption DEF Init, StreamsBounded
<1>4. ActiveHasLink /\ NoJobStranded
    BY DEF Init, ActiveHasLink, NoJobStranded, Active
<1>5. TimersMatchStates /\ CancelIsKept
    BY DEF Init, TimersMatchStates, CancelIsKept
<1> QED BY <1>1, <1>2, <1>3, <1>4, <1>5 DEF IInv

LEMMA InvStep == IInv /\ [Next]_vars => IInv'
<1> SUFFICES ASSUME IInv, [Next]_vars PROVE IInv'
    OBVIOUS
<1>1. TypeOK' /\ Bookkeeping' /\ StreamsBounded'
    BY TypeStep, BookkeepingStep, StreamsStep
<1>2. ActiveHasLink' /\ NoJobStranded'
    BY LinkStep, StrandedStep
<1>3. TimersMatchStates' /\ CancelIsKept'
    BY TimersStep, CancelStep
<1> QED BY <1>1, <1>2, <1>3 DEF IInv

LEMMA Invariance == Spec => []IInv
    BY InitInv, InvStep, PTL DEF Spec

\* Every table and timer of the broker stays well typed: deadlines only count
\* down, and runner ids and streams stay within their bounds.
THEOREM TypeCorrect == Spec => []TypeOK
<1>1. IInv => TypeOK
    BY DEF IInv
<1> QED BY <1>1, Invariance, PTL

\* Whatever interleaving of links, revocations, reports, ticks and restarts: a
\* job is with a computer only while it is linked to the job's bot.
THEOREM JobsNeedLinks == Spec => []ActiveHasLink
<1>1. IInv => ActiveHasLink
    BY DEF IInv
<1> QED BY <1>1, Invariance, PTL

\* No job that a computer has is ever left without somebody watching it: its
\* computer is present or the grace period after which tick() ends it runs.
THEOREM NothingStranded == Spec => []NoJobStranded
<1>1. IInv => NoJobStranded
    BY DEF IInv
<1> QED BY <1>1, Invariance, PTL

\* The timers in memory always agree with the durable states.
THEOREM TimersAgree == Spec => []TimersMatchStates
<1>1. IInv => TimersMatchStates
    BY DEF IInv
<1> QED BY <1>1, Invariance, PTL

\* A job asked to stop never reports success or failure, nor queues again.
THEOREM CancelHolds == Spec => []CancelIsKept
<1>1. IInv => CancelIsKept
    BY DEF IInv
<1> QED BY <1>1, Invariance, PTL

\* The broker hands the command of a job to at most one runner that accepts
\* it, for good: no handler, timeout or restart runs it a second time.
THEOREM RunsOnce == Spec => RunsAtMostOnce
<1>1. IInv /\ [Next]_vars => [\A j \in Jobs : StaysTaken(j)]_vars
    BY OnceStep
<1> QED BY <1>1, Invariance, PTL DEF Spec, RunsAtMostOnce

\* A job is only ever sent to a computer linked to its bot that has a free
\* slot, counting the jobs of every bot it serves.
THEOREM SlotsKept == Spec => AssignedWithinSlots
<1>1. IInv /\ [Next]_vars => [\A j \in Jobs, d \in Devices : SentWithinSlots(j, d)]_vars
    BY SlotsStep
<1> QED BY <1>1, Invariance, PTL DEF Spec, AssignedWithinSlots

\* The queue is served in order: while an older job could go to a runner, no
\* younger one does (unless a send to some runner failed for the older one).
THEOREM QueueInOrder == ASSUME SkipTime # 0 PROVE Spec => NoOvertaking
<1>1. Init => PassedOver
    BY DEF Init, PassedOver
<1>2. IInv /\ PassedOver /\ [Next]_vars => PassedOver'
    BY PassedOverStep
<1>3. IInv /\ PassedOver /\ [Next]_vars => [\A i, j \in Jobs : ~Overtakes(j, i)]_vars
    BY OvertakingStep
<1> QED BY <1>1, <1>2, <1>3, Invariance, PTL DEF Spec, NoOvertaking
-----------------------------------------------------------------------------
(* The broker implements RunnerJob.                                        *)

\* The accept timeout of a job always runs out before its computer counts as
\* lost, so what tick() finds lost was accepted.
AcceptsInTime ==
    \A j \in Jobs : state[j] = "assigned" /\ lostAt[on[j]] # Off => acceptBy[j] <= lostAt[on[j]]

LEMMA AcceptsStep == IInv /\ AcceptsInTime /\ [Next]_vars => AcceptsInTime'
<1> SUFFICES ASSUME TypeOK, Bookkeeping, TimersMatchStates, AcceptsInTime, [Next]_vars PROVE AcceptsInTime'
    BY DEF IInv
<1>1. CASE UNCHANGED vars
    BY <1>1 DEF vars, AcceptsInTime, TypeOK, Bookkeeping, Off
<1>2. ASSUME NEW b \in Bots, NEW d \in Devices, LinkDevice(b, d)
      PROVE  AcceptsInTime'
    BY <1>2 DEF LinkDevice, AcceptsInTime, TypeOK, Bookkeeping, Off
<1>3. ASSUME NEW b \in Bots, NEW d \in Devices, UnlinkDevice(b, d)
      PROVE  AcceptsInTime'
    BY <1>3 DEF UnlinkDevice, AcceptsInTime, TypeOK, Bookkeeping, Off
<1>4. ASSUME NEW d \in Devices, MarkRevoked(d)
      PROVE  AcceptsInTime'
    BY <1>4 DEF MarkRevoked, AcceptsInTime, TypeOK, Bookkeeping, Off
<1>5. ASSUME NEW d \in Devices, RevokeDevice(d)
      PROVE  AcceptsInTime'
    BY <1>5 DEF RevokeDevice, AcceptsInTime, TypeOK, Bookkeeping, Off
<1>6. ASSUME NEW d \in Devices, OpenStream(d)
      PROVE  AcceptsInTime'
    BY <1>6 DEF OpenStream, AcceptsInTime, TypeOK, Bookkeeping, Off
<1>7. ASSUME NEW d \in Devices, DropStream(d)
      PROVE  AcceptsInTime'
    BY <1>7 DEF DropStream, StreamOpen, AcceptsInTime, TypeOK, Bookkeeping, Off
<1>8. ASSUME NEW d \in Devices, CloseEvent(d)
      PROVE  AcceptsInTime'
  <2>1. UNCHANGED <<state, on, acceptBy>>
    BY <1>8 DEF CloseEvent
  <2>2. CASE UNCHANGED lostAt
    BY <2>1, <2>2 DEF AcceptsInTime
  <2>3. CASE lostAt' = [lostAt EXCEPT ![d] = LostGrace]
    <3>1. ASSUME NEW j \in Jobs, state[j] = "assigned", lostAt'[on[j]] # Off
          PROVE  acceptBy[j] <= lostAt'[on[j]]
      <4>1. on[j] \in Devices
        BY <3>1 DEF Bookkeeping, Active
      <4>2. CASE on[j] = d
        <5>1. lostAt'[d] = LostGrace
          BY <2>3 DEF TypeOK
        <5>2. acceptBy[j] \in Timer(AcceptTimeout)
          BY DEF TypeOK
        <5> QED BY <4>2, <5>1, <5>2, TimesAssumption DEF Timer
      <4>3. CASE on[j] # d
        BY <2>3, <3>1, <4>1, <4>3 DEF AcceptsInTime, TypeOK
      <4> QED BY <4>2, <4>3
    <3> QED BY <2>1, <3>1 DEF AcceptsInTime
  <2> QED BY <1>8, <2>2, <2>3 DEF CloseEvent, WentOffline
<1>9. ASSUME NEW d \in Devices, NEW offers \in Offers, NEW capable \in BOOLEAN,
             NEW held \in SUBSET JobsOn(d), Report(d, offers, capable, held)
      PROVE  AcceptsInTime'
    BY <1>9 DEF Report, NoLongerHeld, EndJobs, All, Schedule, AcceptsInTime, TypeOK, Bookkeeping, Off, Final
<1>10. ASSUME NEW j \in Jobs, NEW r \in 0..MaxMint, Submit(j, r)
      PROVE  AcceptsInTime'
    BY <1>10 DEF Submit, Schedule, AcceptsInTime, TypeOK, Bookkeeping, Off
<1>11. ASSUME NEW j \in Jobs, CancelQueued(j)
      PROVE  AcceptsInTime'
    BY <1>11 DEF CancelQueued, EndJobs, All, AcceptsInTime, TypeOK, Bookkeeping, Off
<1>12. ASSUME NEW j \in Jobs, CancelAssigned(j)
      PROVE  AcceptsInTime'
    BY <1>12 DEF CancelAssigned, EndJobs, All, Schedule, AcceptsInTime, TypeOK, Bookkeeping, Off
<1>13. ASSUME NEW j \in Jobs, CancelRunning(j)
      PROVE  AcceptsInTime'
    BY <1>13 DEF CancelRunning, AcceptsInTime, TypeOK, Bookkeeping, Off
<1>14. ASSUME NEW j \in Jobs, NEW d \in Devices, Accept(j, d)
      PROVE  AcceptsInTime'
    BY <1>14 DEF Accept, Owned, AcceptsInTime, TypeOK, Bookkeeping, Off
<1>15. ASSUME NEW j \in Jobs, NEW d \in Devices, Progress(j, d)
      PROVE  AcceptsInTime'
    BY <1>15 DEF Progress, Owned, AcceptsInTime, TypeOK, Bookkeeping, Off
<1>16. ASSUME NEW j \in Jobs, NEW d \in Devices, NEW ok \in BOOLEAN, Finish(j, d, ok)
      PROVE  AcceptsInTime'
    BY <1>16 DEF Finish, FinishedAs, EndJobs, All, Schedule, AcceptsInTime, TypeOK, Bookkeeping, Off
<1>17. ASSUME NEW b \in Bots, BotPurged(b)
      PROVE  AcceptsInTime'
    BY <1>17 DEF BotPurged, EndJobs, All, DeleteRows, AcceptsInTime, TypeOK, Bookkeeping, Off
<1>18. CASE EndDropped
    BY <1>18 DEF EndDropped, EndJobs, AcceptsInTime, TypeOK, Bookkeeping, Off, Final
<1>19. ASSUME NEW j \in Jobs, PassOver(j)
      PROVE  AcceptsInTime'
    BY <1>19 DEF PassOver, AcceptsInTime, TypeOK, Bookkeeping, Off
<1>20. ASSUME NEW j \in Jobs, NEW d \in Devices, Assign(j, d)
      PROVE  AcceptsInTime'
    BY <1>20, AbsentAssumption DEF Assign, Oldest, AcceptsInTime, TypeOK, Bookkeeping, Off, Best, Candidates, Online, TimersMatchStates
<1>21. ASSUME NEW j \in Jobs, NEW d \in Devices, AssignUnsent(j, d)
      PROVE  AcceptsInTime'
    BY <1>21 DEF AssignUnsent, Oldest, AcceptsInTime, TypeOK, Bookkeeping, Off
<1>22. CASE TimePasses
  <2>1. ASSUME NEW j \in Jobs, state[j] = "assigned", lostAt'[on[j]] # Off
        PROVE  acceptBy'[j] <= lostAt'[on[j]]
    <3>1. on[j] \in Devices
      BY <2>1 DEF Bookkeeping, Active
    <3>2. acceptBy'[j] = Less(acceptBy[j]) /\ lostAt'[on[j]] = Less(lostAt[on[j]])
      BY <1>22, <3>1 DEF TimePasses
    <3>3. acceptBy[j] \in Timer(AcceptTimeout) /\ lostAt[on[j]] \in Timer(LostGrace)
      BY <3>1 DEF TypeOK
    <3>4. lostAt[on[j]] # Off
      BY <2>1, <3>2 DEF Less, Off
    <3>5. acceptBy[j] <= lostAt[on[j]]
      BY <2>1, <3>4 DEF AcceptsInTime
    <3> QED BY <3>2, <3>3, <3>4, <3>5, TimesAssumption DEF Less, Timer, Off
  <2>2. UNCHANGED <<state, on>>
    BY <1>22 DEF TimePasses
  <2> QED BY <2>1, <2>2 DEF AcceptsInTime
<1>23. ASSUME NEW forgotten \in SUBSET Old, Tick(forgotten)
      PROVE  AcceptsInTime'
    BY <1>23 DEF Tick, Schedule, AcceptsInTime, TypeOK, Bookkeeping, Off, Unaccepted, Overstayed, LostJobs, Expired, Old, LostDevices, Active, Unfinal, Final
<1>24. CASE Start
    BY <1>24 DEF Start, AcceptsInTime, TypeOK, Bookkeeping, Off
<1> QED
    BY <1>1, <1>2, <1>3, <1>4, <1>5, <1>6, <1>7, <1>8, <1>9, <1>10, <1>11, <1>12, <1>13, <1>14, <1>15, <1>16, <1>17, <1>18, <1>19, <1>20, <1>21, <1>22, <1>23, <1>24
    DEF Next, DeviceNext, JobNext, GatewayNext, ScheduleStep, Restart

LEMMA JobStepped == IInv /\ AcceptsInTime /\ [Next]_vars => \A j \in Jobs : Job!JobStep(j)
<1> SUFFICES ASSUME TypeOK, Bookkeeping, TimersMatchStates, CancelIsKept, AcceptsInTime, [Next]_vars, NEW i \in Jobs PROVE Job!JobStep(i)
    BY DEF IInv
<1>1. CASE UNCHANGED vars
    BY <1>1 DEF vars, Job!JobStep, Job!Stays, TypeOK, Bookkeeping, CancelIsKept, OnRunner
<1>2. ASSUME NEW b \in Bots, NEW d \in Devices, LinkDevice(b, d)
      PROVE  Job!JobStep(i)
    BY <1>2 DEF LinkDevice, Job!JobStep, Job!Stays, TypeOK, Bookkeeping, CancelIsKept, OnRunner
<1>3. ASSUME NEW b \in Bots, NEW d \in Devices, UnlinkDevice(b, d)
      PROVE  Job!JobStep(i)
    BY <1>3 DEF UnlinkDevice, Job!JobStep, Job!Stays, TypeOK, Bookkeeping, CancelIsKept, OnRunner
<1>4. ASSUME NEW d \in Devices, MarkRevoked(d)
      PROVE  Job!JobStep(i)
    BY <1>4 DEF MarkRevoked, Job!JobStep, Job!Stays, TypeOK, Bookkeeping, CancelIsKept, OnRunner
<1>5. ASSUME NEW d \in Devices, RevokeDevice(d)
      PROVE  Job!JobStep(i)
    BY <1>5 DEF RevokeDevice, Job!JobStep, Job!Stays, TypeOK, Bookkeeping, CancelIsKept, OnRunner
<1>6. ASSUME NEW d \in Devices, OpenStream(d)
      PROVE  Job!JobStep(i)
    BY <1>6 DEF OpenStream, Job!JobStep, Job!Stays, TypeOK, Bookkeeping, CancelIsKept, OnRunner
<1>7. ASSUME NEW d \in Devices, DropStream(d)
      PROVE  Job!JobStep(i)
    BY <1>7 DEF DropStream, StreamOpen, Job!JobStep, Job!Stays, TypeOK, Bookkeeping, CancelIsKept, OnRunner
<1>8. ASSUME NEW d \in Devices, CloseEvent(d)
      PROVE  Job!JobStep(i)
    BY <1>8 DEF CloseEvent, WentOffline, JobsOn, Job!JobStep, Job!Stays, TypeOK, Bookkeeping, CancelIsKept, OnRunner
<1>9. ASSUME NEW d \in Devices, NEW offers \in Offers, NEW capable \in BOOLEAN,
             NEW held \in SUBSET JobsOn(d), Report(d, offers, capable, held)
      PROVE  Job!JobStep(i)
    BY <1>9 DEF Report, NoLongerHeld, EndJobs, All, Schedule, Job!JobStep, Job!Stays, TypeOK, Bookkeeping, CancelIsKept, OnRunner, Job!EndTaken, Job!Released
<1>10. ASSUME NEW j \in Jobs, NEW r \in 0..MaxMint, Submit(j, r)
      PROVE  Job!JobStep(i)
    BY <1>10 DEF Submit, Schedule, Job!JobStep, Job!Stays, TypeOK, Bookkeeping, CancelIsKept, OnRunner, Job!Submit, Job!Released
<1>11. ASSUME NEW j \in Jobs, CancelQueued(j)
      PROVE  Job!JobStep(i)
    BY <1>11 DEF CancelQueued, EndJobs, All, Job!JobStep, Job!Stays, TypeOK, Bookkeeping, CancelIsKept, OnRunner, Job!EndUntaken, Job!Released
<1>12. ASSUME NEW j \in Jobs, CancelAssigned(j)
      PROVE  Job!JobStep(i)
    BY <1>12 DEF CancelAssigned, EndJobs, All, Schedule, Job!JobStep, Job!Stays, TypeOK, Bookkeeping, CancelIsKept, OnRunner, Job!EndUntaken, Job!Released
<1>13. ASSUME NEW j \in Jobs, CancelRunning(j)
      PROVE  Job!JobStep(i)
    BY <1>13 DEF CancelRunning, Job!JobStep, Job!Stays, TypeOK, Bookkeeping, CancelIsKept, OnRunner, Job!AskToStop
<1>14. ASSUME NEW j \in Jobs, NEW d \in Devices, Accept(j, d)
      PROVE  Job!JobStep(i)
    BY <1>14 DEF Accept, Owned, Job!JobStep, Job!Stays, TypeOK, Bookkeeping, CancelIsKept, OnRunner, Job!Take
<1>15. ASSUME NEW j \in Jobs, NEW d \in Devices, Progress(j, d)
      PROVE  Job!JobStep(i)
    BY <1>15 DEF Progress, Owned, Job!JobStep, Job!Stays, TypeOK, Bookkeeping, CancelIsKept, OnRunner
<1>16. ASSUME NEW j \in Jobs, NEW d \in Devices, NEW ok \in BOOLEAN, Finish(j, d, ok)
      PROVE  Job!JobStep(i)
    BY <1>16 DEF Finish, FinishedAs, EndJobs, All, Schedule, Job!JobStep, Job!Stays, TypeOK, Bookkeeping, CancelIsKept, OnRunner, Job!EndTaken, Job!Released
<1>17. ASSUME NEW b \in Bots, BotPurged(b)
      PROVE  Job!JobStep(i)
    BY <1>17 DEF BotPurged, EndJobs, All, DeleteRows, Job!JobStep, Job!Stays, TypeOK, Bookkeeping, CancelIsKept, OnRunner, Job!Forget, Job!Released
<1>18. CASE EndDropped
  <2>1. UNCHANGED <<cancelRequested, on>>
    BY <1>18 DEF EndDropped
  <2>2. CASE i \in doomed /\ state[i] \in OnRunner
    <3>1. on[i] # NoDevice
      BY <2>2, NoDeviceAssumption DEF Bookkeeping, Active, OnRunner
    <3>2. state'[i] = "cancelled"
      BY <1>18, <2>2, <3>1 DEF EndDropped, EndJobs
    <3> QED BY <2>2, <3>2 DEF Job!JobStep, Job!EndTaken, Job!Released, OnRunner
  <2>3. CASE i \in doomed /\ state[i] \notin OnRunner
    <3>1. state[i] \in {"queued", "assigned"}
      BY <2>3 DEF Bookkeeping, Unfinal, Active, OnRunner
    <3>2. state'[i] \in {"failed", "cancelled"}
      BY <1>18, <2>3 DEF EndDropped, EndJobs
    <3> QED BY <3>1, <3>2 DEF Job!JobStep, Job!EndUntaken, Job!Released, OnRunner
  <2>4. CASE i \notin doomed
    <3>1. state'[i] = state[i]
      BY <1>18, <2>4 DEF EndDropped, EndJobs
    <3> QED BY <2>1, <3>1 DEF Job!JobStep, Job!Stays
  <2> QED BY <2>2, <2>3, <2>4
<1>19. ASSUME NEW j \in Jobs, PassOver(j)
      PROVE  Job!JobStep(i)
    BY <1>19 DEF PassOver, Job!JobStep, Job!Stays, TypeOK, Bookkeeping, CancelIsKept, OnRunner
<1>20. ASSUME NEW j \in Jobs, NEW d \in Devices, Assign(j, d)
      PROVE  Job!JobStep(i)
  <2>1. UNCHANGED cancelRequested /\ state[j] = "queued"
    BY <1>20 DEF Assign, Oldest, Bookkeeping, Queued
  <2>2. CASE i = j
    <3>1. state'[i] = "assigned"
      BY <1>20, <2>2 DEF Assign, TypeOK
    <3> QED BY <2>1, <2>2, <3>1 DEF Job!JobStep, Job!Stays, OnRunner
  <2>3. CASE i # j
    <3>1. state'[i] = state[i] /\ on'[i] = on[i]
      BY <1>20, <2>3 DEF Assign, TypeOK
    <3> QED BY <2>1, <3>1 DEF Job!JobStep, Job!Stays
  <2> QED BY <2>2, <2>3
<1>21. ASSUME NEW j \in Jobs, NEW d \in Devices, AssignUnsent(j, d)
      PROVE  Job!JobStep(i)
    BY <1>21 DEF AssignUnsent, Oldest, Job!JobStep, Job!Stays, TypeOK, Bookkeeping, CancelIsKept, OnRunner
<1>22. CASE TimePasses
    BY <1>22 DEF TimePasses, Job!JobStep, Job!Stays, TypeOK, Bookkeeping, CancelIsKept, OnRunner
<1>23. ASSUME NEW forgotten \in SUBSET Old, Tick(forgotten)
      PROVE  Job!JobStep(i)
  <2> DEFINE ended == Overstayed \cup LostJobs \cup Expired
  <2> DEFINE after ==
        CASE i \in Overstayed -> "cancelled"
          [] i \in LostJobs -> IF cancelRequested[i] THEN "cancelled" ELSE "lost"
          [] i \in Expired -> "expired"
          [] i \in Unaccepted \ Expired -> "queued"
          [] i \in forgotten -> "gone"
          [] OTHER -> state[i]
  <2>a. state'[i] = after
    BY <1>23, Zenon DEF Tick
  <2>b. i \notin Overstayed \cap LostJobs /\ i \notin LostJobs \cap Unaccepted
    BY DEF LostJobs
  <2>c. i \in LostJobs => state[i] \in Active
    BY DEF LostJobs
  <2>d. i \in forgotten => state[i] \in Final
    BY <1>23 DEF Tick, Old
  <2>e. i \in Expired => i \in Queued \cup Unaccepted
    BY DEF Expired
  <2>f. i \in Overstayed => state[i] \in Unfinal
    BY DEF Overstayed
  <2>g. i \in Queued => state[i] = "queued"
    BY DEF Queued
  <2>h. i \in Unaccepted => state[i] = "assigned"
    BY DEF Unaccepted
  <2>p. i \in Overstayed => i \notin LostJobs \cup Expired \cup Unaccepted \cup forgotten
    BY <2>b, <2>d, <2>e, <2>f, <2>g, <2>h, TimesAssumption DEF Overstayed, TimersMatchStates, Off, OnRunner, Final
  <2>q. i \in LostJobs => i \notin Overstayed \cup Expired \cup Unaccepted \cup forgotten
    BY <2>b, <2>c, <2>d, <2>e, <2>g DEF Active, Final
  <2>r. i \in Expired \cup Unaccepted => i \notin forgotten
    BY <2>d, <2>e, <2>g, <2>h DEF Final
  <2>1. /\ i \in Overstayed => state'[i] = "cancelled"
        /\ i \in LostJobs => state'[i] = IF cancelRequested[i] THEN "cancelled" ELSE "lost"
        /\ i \notin Overstayed \cup LostJobs /\ i \in Expired => state'[i] = "expired"
        /\ i \notin Overstayed \cup LostJobs /\ i \in Unaccepted \ Expired => state'[i] = "queued"
    <3> HIDE DEF after
    <3>1. i \in Overstayed => after = "cancelled"
      BY <2>p DEF after
    <3>2. i \in LostJobs => after = IF cancelRequested[i] THEN "cancelled" ELSE "lost"
      BY <2>q DEF after
    <3>3. i \notin Overstayed \cup LostJobs /\ i \in Expired => after = "expired"
      BY <2>r DEF after
    <3>4. i \notin Overstayed \cup LostJobs /\ i \in Unaccepted \ Expired => after = "queued"
      BY <2>r DEF after
    <3> QED BY <2>a, <3>1, <3>2, <3>3, <3>4
  <2>2. CASE i \in Overstayed
    <3>1. state[i] \in OnRunner
      BY <2>2, TimesAssumption DEF Overstayed, TimersMatchStates, Off
    <3> QED BY <2>1, <2>2, <3>1 DEF Job!JobStep, Job!EndTaken, Job!Released, OnRunner
  <2>3. CASE i \in LostJobs
    <3>1. state[i] \in OnRunner
      <4>1. on[i] \in Devices /\ lostAt[on[i]] = 0 /\ state[i] \in Active /\ i \notin Unaccepted
        BY <2>3 DEF LostJobs, LostDevices
      <4>2. ASSUME state[i] = "assigned" PROVE FALSE
        <5>1. acceptBy[i] <= 0
          BY <4>1, <4>2 DEF AcceptsInTime, Off
        <5>2. acceptBy[i] \in Timer(AcceptTimeout) /\ acceptBy[i] # Off
          BY <4>2 DEF TimersMatchStates, TypeOK
        <5>3. acceptBy[i] = 0
          BY <5>1, <5>2, TimesAssumption DEF Timer, Off
        <5> QED BY <4>1, <4>2, <5>3 DEF Unaccepted
      <4> QED BY <4>1, <4>2 DEF Active, OnRunner
    <3>2. state'[i] \in {"cancelled", "lost"}
      BY <2>1, <2>3
    <3> QED BY <3>1, <3>2 DEF Job!JobStep, Job!EndTaken, Job!Released, OnRunner
  <2>4. CASE i \in Expired /\ i \notin Overstayed \cup LostJobs
    <3>1. state[i] \in {"queued", "assigned"}
      BY <2>4 DEF Expired, Queued, Unaccepted
    <3> QED BY <2>1, <2>4, <3>1 DEF Job!JobStep, Job!EndUntaken, Job!Released, OnRunner
  <2>5. CASE i \in Unaccepted \ Expired /\ i \notin Overstayed \cup LostJobs
    <3>1. state[i] = "assigned"
      BY <2>5 DEF Unaccepted
    <3> QED BY <2>1, <2>5, <3>1 DEF Job!JobStep, Job!Stays, OnRunner
  <2>6. CASE i \in forgotten /\ i \notin ended \cup Unaccepted
    <3>1. state'[i] = "gone" /\ state[i] \in Final
      BY <1>23, <2>6 DEF Tick, Old
    <3> QED BY <3>1 DEF Job!JobStep, Job!Forget, Job!Released, Final, OnRunner
  <2>7. CASE i \notin ended \cup Unaccepted \cup forgotten
    <3>1. state'[i] = state[i] /\ on'[i] = on[i] /\ cancelRequested'[i] = cancelRequested[i]
      BY <1>23, <2>7 DEF Tick, TypeOK
    <3> QED BY <3>1 DEF Job!JobStep, Job!Stays
  <2> QED BY <2>2, <2>3, <2>4, <2>5, <2>6, <2>7
<1>24. CASE Start
    BY <1>24 DEF Start, Job!JobStep, Job!Stays, TypeOK, Bookkeeping, CancelIsKept, OnRunner
<1> QED
    BY <1>1, <1>2, <1>3, <1>4, <1>5, <1>6, <1>7, <1>8, <1>9, <1>10, <1>11, <1>12, <1>13, <1>14, <1>15, <1>16, <1>17, <1>18, <1>19, <1>20, <1>21, <1>22, <1>23, <1>24
    DEF Next, DeviceNext, JobNext, GatewayNext, ScheduleStep, Restart

\* Every run of the broker is a run of RunnerJob: what a bot may rely on.
THEOREM Implementation == Spec => ImplementsJob
<1>1. Init => AcceptsInTime /\ Job!Init
    BY DEF Init, AcceptsInTime, Job!Init, OnRunner
<1>2. IInv /\ AcceptsInTime /\ [Next]_vars => AcceptsInTime'
    BY AcceptsStep
<1>3. IInv /\ AcceptsInTime /\ [Next]_vars => [Job!Next]_Job!vars
    BY JobStepped DEF Job!Next
<1> QED BY <1>1, <1>2, <1>3, Invariance, PTL DEF Spec, ImplementsJob, Job!Spec
=============================================================================
