------------------------------ MODULE RunnerJob ------------------------------
(***************************************************************************)
(* What the runner broker promises a bot about a job, without queues,       *)
(* links, streams or timers: FleetRunnerJobState and cancelRequested as a   *)
(* bot reads them (packages/bot-fleet-protocol/src/domain.ts), with the     *)
(* computer that runs the job.  Queued and assigned are one phase here: no  *)
(* runner has taken the job, so its command has not started.                *)
(***************************************************************************)
CONSTANTS Jobs, Devices, NoDevice

VARIABLES phase, holder, stop

vars == <<phase, holder, stop>>

Outcomes == {"succeeded", "failed", "cancelled", "expired", "lost"}
Phases == {"none", "waiting", "running", "gone"} \cup Outcomes

Init ==
    /\ phase = [j \in Jobs |-> "none"]
    /\ holder = [j \in Jobs |-> NoDevice]
    /\ stop = [j \in Jobs |-> FALSE]

Stays(j) == phase'[j] = phase[j] /\ holder'[j] = holder[j] /\ stop'[j] = stop[j]

\* A job that no runner runs has no holder, and nobody to ask to stop.
Released(j) == holder'[j] = NoDevice /\ ~stop'[j]

Submit(j) == phase[j] = "none" /\ phase'[j] = "waiting" /\ Released(j)

Take(j, d) ==
    /\ phase[j] = "waiting" /\ phase'[j] = "running"
    /\ holder'[j] = d /\ ~stop'[j]

AskToStop(j) ==
    /\ phase[j] = "running" /\ phase'[j] = "running"
    /\ holder'[j] = holder[j] /\ stop'[j]

\* A job nobody took was cancelled, waited too long, or was for one runner
\* that is no longer the bot's; it cannot succeed, nor be lost.
EndUntaken(j) ==
    /\ phase[j] = "waiting" /\ phase'[j] \in {"cancelled", "expired", "failed"}
    /\ Released(j)

\* A taken job ends by its command, by a cancellation or with its runner; once
\* asked to stop it does not count as a success or a failure.
EndTaken(j) ==
    /\ phase[j] = "running"
    /\ phase'[j] \in {"cancelled", "lost"} \cup (IF stop[j] THEN {} ELSE {"succeeded", "failed"})
    /\ Released(j)

Forget(j) == phase[j] # "none" /\ phase'[j] = "gone" /\ Released(j)

JobStep(j) ==
    \/ Stays(j) \/ Submit(j) \/ AskToStop(j) \/ EndUntaken(j) \/ EndTaken(j) \/ Forget(j)
    \/ \E d \in Devices : Take(j, d)

\* One event of the gateway may move several jobs at once.
Next == \A j \in Jobs : JobStep(j)

Spec == Init /\ [][Next]_vars
=============================================================================
