---------------------------- MODULE RunnerWorker ----------------------------
(***************************************************************************)
(* The runner of one paired computer (apps/desktop/src/main/runner/worker.ts, *)
(* driven by fleet/client/runner-host.ts) and the one server it serves: it  *)
(* takes jobs while it has a free slot, writes the jobs it holds to disk,   *)
(* accepts each, runs its command, sends the result, and reports what it    *)
(* holds.  What the server answers is open here; RunnerSystem closes it     *)
(* with the broker.                                                        *)
(*                                                                         *)
(* A write of the state file takes the jobs held when it begins; it is one  *)
(* step, for nothing reads the file before a later start of the app.        *)
(***************************************************************************)
EXTENDS Naturals, FiniteSets

CONSTANTS
    Jobs,
    Bots,
    BotOf,           \* the bot of each job
    Slots            \* settings: jobs at once

ASSUME WorkerAssumption ==
    /\ IsFiniteSet(Jobs)
    /\ BotOf \in [Jobs -> Bots]
    /\ Slots \in Nat

VARIABLES
    app,         \* the app, and how far its worker is
    enabled,     \* "Run jobs for bots", a saved setting
    connected,   \* the server's stream is open and was announced
    run,         \* where each job it holds is; "none" when it holds none
    outcome,     \* how a held job ended, once it did
    cancelled,   \* held jobs stopped on request
    forgotten,   \* held jobs the server expects nothing of
    clearing,    \* jobs let go of whose removal is not written yet
    disk,        \* the state file: the jobs the next start finds
    owed,        \* restart results still being sent
    due,         \* a report is to be sent
    sent,        \* the report in flight, as a set of at most one
    told         \* ghost: the jobs of the last report answered while connected, until
                 \* the next is made

jobVars == <<run, outcome, cancelled, forgotten>>
reportVars == <<connected, due, sent, told>>
workerVars == <<app, enabled, connected, run, outcome, cancelled, forgotten,
                clearing, disk, owed, due, sent, told>>

\* "off": the app runs and never needed its worker; "starting": start() has
\* not returned; "quitting": stop() waits for the jobs' tasks.
AppStates == {"down", "off", "starting", "up", "quitting"}
Accepted == {"preparing", "running", "progress", "uploading", "finishing"}
Phases == {"none", "writing", "accepting", "leaving"} \cup Accepted
\* "failed": another exit code, a timeout, or an error on the way.
Exits == {"zero", "failed"}
Outcomes == {"none", "stopped"} \cup Exits
Reports == [jobs : SUBSET Jobs, accepting : BOOLEAN]

TypeOK ==
    /\ app \in AppStates
    /\ enabled \in BOOLEAN
    /\ connected \in BOOLEAN
    /\ run \in [Jobs -> Phases]
    /\ outcome \in [Jobs -> Outcomes]
    /\ cancelled \in SUBSET Jobs
    /\ forgotten \in SUBSET Jobs
    /\ clearing \in SUBSET Jobs
    /\ disk \in SUBSET Jobs
    /\ owed \in SUBSET Jobs
    /\ due \in BOOLEAN
    /\ sent = {} \/ \E r \in Reports : sent = {r}
    /\ told \in SUBSET Jobs

-----------------------------------------------------------------------------
Held == {j \in Jobs : run[j] # "none"}
Running == app \in {"up", "quitting"}

Busy_Accepted == {j \in Held \ forgotten :
                     run[j] \in {"preparing", "running", "progress", "uploading"}}

\* busySlots(): not the jobs whose result is on its way, nor those the server
\* let go of; one that was not accepted counts until it is gone.
Busy == {j \in Held \ forgotten :
            \/ run[j] \in {"writing", "accepting", "preparing", "running",
                           "progress", "uploading"}
            \/ run[j] = "leaving" /\ outcome[j] = "none"}

\* persist(): the state file holds the jobs held now.
Persist == disk' = Held

\* report() marks a report due; reportOnce() sends none while disconnected.
ReportDue == due' = connected

\* stopJob()
Stop(S) == cancelled' = cancelled \cup (S \cap Held)
Forget(S) == forgotten' = forgotten \cup (S \cap Held)

Init ==
    /\ app = "down" /\ enabled = FALSE /\ connected = FALSE
    /\ run = [j \in Jobs |-> "none"]
    /\ outcome = [j \in Jobs |-> "none"]
    /\ cancelled = {} /\ forgotten = {} /\ clearing = {}
    /\ disk = {} /\ owed = {}
    /\ due = FALSE /\ sent = {} /\ told = {}

-----------------------------------------------------------------------------
(* The app.                                                                *)

\* start(): the state file is emptied, and the result of each job the last run
\* left there is sent (owed).
Begin ==
    /\ app' = "starting"
    /\ owed' = disk
    /\ disk' = {}

Boot ==
    /\ app = "down"
    /\ IF enabled THEN Begin ELSE app' = "off" /\ UNCHANGED <<owed, disk>>
    /\ UNCHANGED <<jobVars, reportVars, enabled, clearing>>

\* start() goes on when every result was answered, or after ten seconds.
Started ==
    /\ app = "starting"
    /\ app' = "up"
    /\ UNCHANGED <<jobVars, reportVars, enabled, clearing, disk, owed>>

\* A restart result was answered, refused, or could not be sent.
OwedDone(j) ==
    /\ j \in owed
    /\ owed' = owed \ {j}
    /\ UNCHANGED <<jobVars, reportVars, enabled, app, clearing, disk>>

\* updateConfig(): turning the runner on begins, if this run did not yet.
TurnOn ==
    /\ app \in {"off", "starting", "up"} /\ ~enabled
    /\ enabled' = TRUE
    /\ IF app = "off" THEN Begin ELSE UNCHANGED <<app, owed, disk>>
    /\ UNCHANGED <<jobVars, reportVars, clearing>>

\* updateConfig(): turning it off stops its jobs and closes the runner stream.
TurnOff ==
    /\ app \in {"starting", "up"} /\ enabled
    /\ enabled' = FALSE
    /\ Stop(Jobs)
    /\ connected' = FALSE /\ due' = FALSE /\ told' = {}
    /\ UNCHANGED <<app, run, outcome, forgotten, clearing, disk, owed, sent>>

\* stop(): the app quits; no job is taken and no result computed any more.
Quit ==
    /\ app = "up"
    /\ app' = "quitting"
    /\ UNCHANGED <<jobVars, reportVars, enabled, clearing, disk, owed>>

\* The process ends: what is saved is left.
Down ==
    /\ app' = "down" /\ connected' = FALSE
    /\ run' = [j \in Jobs |-> "none"]
    /\ outcome' = [j \in Jobs |-> "none"]
    /\ cancelled' = {} /\ forgotten' = {} /\ clearing' = {} /\ owed' = {}
    /\ due' = FALSE /\ sent' = {} /\ told' = {}
    /\ UNCHANGED <<enabled, disk>>

\* The tasks of stop() settled: what is left ran into its aborted signal.
Exit ==
    /\ app = "quitting"
    /\ \A j \in Jobs : run[j] \notin {"writing", "finishing", "leaving"}
    /\ clearing = {}
    /\ Down

Crash == app # "down" /\ Down

-----------------------------------------------------------------------------
(* The server's stream and the reports.                                    *)

\* connected(): once start() returned.
Connect ==
    /\ app = "up" /\ enabled /\ ~connected
    /\ connected' = TRUE /\ due' = TRUE
    /\ UNCHANGED <<jobVars, enabled, app, clearing, disk, owed, sent, told>>

Disconnect ==
    /\ connected
    /\ connected' = FALSE /\ due' = FALSE /\ told' = {}
    /\ UNCHANGED <<jobVars, enabled, app, clearing, disk, owed, sent>>

SendReport_Second ==
    /\ Running /\ due
    /\ \E accepting \in {FALSE, enabled /\ app = "up"} :
          sent' = sent \cup {[jobs |-> Held \ forgotten, accepting |-> accepting]}
    /\ due' = FALSE /\ told' = {}
    /\ UNCHANGED <<jobVars, enabled, app, connected, clearing, disk, owed>>
SendReport_Dirty ==
    /\ Running /\ due
    /\ sent' = IF sent # {} THEN sent
               ELSE {[jobs |-> Held \ forgotten, accepting |-> enabled /\ app = "up"]}
    /\ due' = FALSE /\ told' = {}
    /\ UNCHANGED <<jobVars, enabled, app, connected, clearing, disk, owed>>

\* reportOnce(): one report at a time, of what is held when it is made.
\* A computer that cannot tell what it is takes no jobs.
SendReport ==
    /\ Running /\ due /\ sent = {}
    /\ \E accepting \in {FALSE, enabled /\ app = "up"} :
          sent' = {[jobs |-> Held \ forgotten, accepting |-> accepting]}
    /\ due' = FALSE /\ told' = {}
    /\ UNCHANGED <<jobVars, enabled, app, connected, clearing, disk, owed>>

\* The answer names the jobs to stop: nothing is expected of them.
ReportAnswered(stop) ==
    /\ Running
    /\ \E r \in sent : /\ stop \subseteq r.jobs
                       /\ told' = IF connected THEN r.jobs ELSE told
    /\ sent' = {}
    /\ Stop(stop) /\ Forget(stop)
    /\ UNCHANGED <<enabled, app, run, outcome, connected, clearing, disk, owed,
                   due>>

\* No answer: sent again after a pause, while connected.
ReportFailed ==
    /\ Running /\ sent # {}
    /\ sent' = {}
    /\ due' = (connected /\ app = "up")
    /\ UNCHANGED <<jobVars, enabled, app, connected, clearing, disk, owed, told>>

-----------------------------------------------------------------------------
(* Jobs.                                                                   *)

\* handleJob(): a job is taken when the computer accepts jobs and has a slot.
TakesJob(j) ==
    /\ app = "up" /\ enabled
    /\ j \notin Held
    /\ Cardinality(Busy) < Slots
HandleJob(j) ==
    /\ TakesJob(j)
    /\ run' = [run EXCEPT ![j] = "writing"]
    /\ UNCHANGED <<reportVars, enabled, app, outcome, cancelled, forgotten,
                   clearing, disk, owed>>

\* handleCancel(), and the owner's Cancel.
HandleCancel(j) ==
    /\ app \in {"starting", "up", "quitting"}
    /\ Stop({j})
    /\ UNCHANGED <<reportVars, enabled, app, run, outcome, forgotten, clearing,
                   disk, owed>>

Written_Others(j) ==
    /\ Running /\ run[j] = "writing"
    /\ disk' = {i \in Held : run[i] # "writing"}
    /\ run' = [run EXCEPT ![j] = "accepting"]
    /\ UNCHANGED <<reportVars, enabled, app, outcome, cancelled, forgotten,
                   clearing, owed>>

\* run(): the job is on disk before the server hears that it is accepted.
Written(j) ==
    /\ Running /\ run[j] = "writing"
    /\ Persist
    /\ run' = [run EXCEPT ![j] = "accepting"]
    /\ UNCHANGED <<reportVars, enabled, app, outcome, cancelled, forgotten,
                   clearing, owed>>

AcceptOk(j) ==
    /\ Running /\ run[j] = "accepting"
    /\ run' = [run EXCEPT ![j] = "preparing"]
    /\ ReportDue
    /\ UNCHANGED <<enabled, app, connected, outcome, cancelled, forgotten,
                   clearing, disk, owed, sent, told>>

\* Refused, or not answered in time: the job is not this computer's.
AcceptFailed(j) ==
    /\ app = "up" /\ run[j] = "accepting"
    /\ run' = [run EXCEPT ![j] = "leaving"]
    /\ UNCHANGED <<reportVars, enabled, app, outcome, cancelled, forgotten,
                   clearing, disk, owed>>

\* Its inputs are here and it was not stopped: the command starts.
CommandStarts(j) ==
    /\ app = "up" /\ run[j] = "preparing" /\ j \notin cancelled
    /\ run' = [run EXCEPT ![j] = "running"]
    /\ UNCHANGED <<reportVars, enabled, app, outcome, cancelled, forgotten,
                   clearing, disk, owed>>

CommandEnds(j, exit) ==
    /\ app = "up" /\ run[j] = "running" /\ j \notin cancelled
    /\ run' = [run EXCEPT ![j] = "progress"]
    /\ outcome' = [outcome EXCEPT ![j] = exit]
    /\ UNCHANGED <<reportVars, enabled, app, cancelled, forgotten, clearing,
                   disk, owed>>

Progressed(j) ==
    /\ app = "up" /\ run[j] = "progress"
    /\ run' = [run EXCEPT ![j] = "uploading"]
    /\ UNCHANGED <<reportVars, enabled, app, outcome, cancelled, forgotten,
                   clearing, disk, owed>>

\* execute() returned o: the result is sent, unless nobody expects one.
Returns(j, o) ==
    /\ app = "up"
    /\ outcome' = [outcome EXCEPT ![j] = o]
    /\ IF j \in forgotten
       THEN run' = [run EXCEPT ![j] = "leaving"]
       ELSE run' = [run EXCEPT ![j] = "finishing"]
    /\ UNCHANGED <<reportVars, app, enabled, cancelled, forgotten,
                   clearing, disk, owed>>

Uploaded_Succeeded(j) ==
    run[j] = "uploading" /\ outcome[j] = "zero" /\ Returns(j, outcome[j])
Uploaded(j) == run[j] = "uploading" /\ Returns(j, outcome[j])

\* failureOf(): a stop is not a failure.
Stopped(j) ==
    /\ run[j] \in {"preparing", "running", "progress", "uploading"}
    /\ j \in cancelled
    /\ Returns(j, "stopped")
Fails(j) ==
    /\ run[j] \in {"preparing", "running", "progress", "uploading"}
    /\ j \notin cancelled
    /\ Returns(j, "failed")

\* finish(): the result was answered, refused, or given up.
Finished(j) ==
    /\ Running /\ run[j] = "finishing"
    /\ run' = [run EXCEPT ![j] = "leaving"]
    /\ UNCHANGED <<reportVars, app, enabled, outcome, cancelled,
                   forgotten, clearing, disk, owed>>

\* The job's folder is gone: it is held no more.
Removed(j) ==
    /\ Running /\ run[j] = "leaving"
    /\ run' = [run EXCEPT ![j] = "none"]
    /\ outcome' = [outcome EXCEPT ![j] = "none"]
    /\ cancelled' = cancelled \ {j}
    /\ forgotten' = forgotten \ {j}
    /\ clearing' = clearing \cup {j}
    /\ UNCHANGED <<reportVars, enabled, app, disk, owed>>

Cleared(j) ==
    /\ Running /\ j \in clearing
    /\ Persist
    /\ clearing' = clearing \ {j}
    /\ ReportDue
    /\ UNCHANGED <<jobVars, enabled, app, connected, owed, sent, told>>

\* removeBot(): the jobs of a bot that is no longer linked stop.
RemoveBot(b) ==
    LET its == {j \in Held : BotOf[j] = b} IN
    /\ app \in {"up", "quitting"} /\ its # {}
    /\ Stop(its) /\ Forget(its)
    /\ UNCHANGED <<reportVars, app, enabled, run, outcome, clearing, disk, owed>>

-----------------------------------------------------------------------------
\* What a job does by itself once it was taken.
JobStep(j) ==
    \/ Written(j) \/ AcceptOk(j) \/ AcceptFailed(j)
    \/ CommandStarts(j) \/ \E exit \in Exits : CommandEnds(j, exit)
    \/ Progressed(j) \/ Uploaded(j) \/ Stopped(j) \/ Fails(j)
    \/ Finished(j) \/ Removed(j) \/ Cleared(j)

ReportStep ==
    \/ SendReport \/ ReportFailed
    \/ \E stop \in SUBSET Jobs : ReportAnswered(stop)

AppStep ==
    \/ Boot \/ Started \/ TurnOn \/ TurnOff \/ Quit \/ Exit \/ Crash
    \/ Connect \/ Disconnect
    \/ \E b \in Bots : RemoveBot(b)

Next ==
    \/ AppStep \/ ReportStep
    \/ \E j \in Jobs : OwedDone(j) \/ HandleJob(j) \/ HandleCancel(j) \/ JobStep(j)

Spec == Init /\ [][Next]_workerVars

-----------------------------------------------------------------------------
(* Properties.                                                             *)

\* Accepted by the server, and still this computer's to end.
Taken(j) == run[j] \in Accepted \/ (run[j] = "leaving" /\ outcome[j] # "none")

\* A job is on disk before the server can hear that it was accepted, until its
\* result is settled: whatever writes of other jobs come between, the next start
\* finds it.
AcceptedOnDisk ==
    \A j \in Jobs : run[j] = "accepting" \/ Taken(j) => j \in disk

\* However cancellations, results on their way and jobs let go of interleave
\* with new jobs, the jobs at work never outnumber the slots.
SlotsRespected ==
    Cardinality({j \in Held \ forgotten : run[j] \in Accepted \ {"finishing"}}) <= Slots

\* No change is lost between a report being made and answered: once no report
\* is due or in flight, the server was told of every job accepted here, and of
\* none that is gone.
ReportsAreCurrent ==
    connected /\ app = "up" /\ ~due /\ sent = {} =>
        /\ {j \in Jobs : Taken(j)} \ forgotten \subseteq told
        /\ told \subseteq Held \cup clearing
=============================================================================
