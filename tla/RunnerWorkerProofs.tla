------------------------- MODULE RunnerWorkerProofs -------------------------
(***************************************************************************)
(* Proofs about RunnerWorker, for any number of jobs and slots.             *)
(***************************************************************************)
EXTENDS RunnerWorker, FiniteSetTheorems, TLAPS

\* Jobs are held, and a stream announced, only once the worker started; a job
\* has no outcome before it was accepted, and one after its command ended.
Bookkeeping ==
    /\ app \in {"down", "off", "starting"} => Held = {}
    /\ connected => app \in {"up", "quitting"}
    /\ \A j \in Jobs : run[j] \in {"none", "writing", "accepting"} => outcome[j] = "none"
    /\ \A j \in Jobs : run[j] \in {"progress", "uploading", "finishing"} => outcome[j] # "none"

BusyBounded == Cardinality(Busy) <= Slots

\* What the server was told, or will be by the report in flight.
Reported == IF sent = {} THEN told ELSE UNION {r.jobs : r \in sent}
ReportsCover ==
    connected /\ app = "up" /\ ~due =>
        /\ {j \in Jobs : Taken(j)} \ forgotten \subseteq Reported
        /\ Reported \subseteq Held \cup clearing

-----------------------------------------------------------------------------
\* Every step keeps the types.
LEMMA TypeStep == TypeOK /\ [Next]_workerVars => TypeOK'
<1> SUFFICES ASSUME TypeOK, [Next]_workerVars PROVE TypeOK'
    OBVIOUS
<1> USE WorkerAssumption DEF jobVars, reportVars, Held, AppStates, Phases, Accepted, Exits, Outcomes, Reports
<1>1. CASE UNCHANGED workerVars
    BY <1>1 DEF workerVars, TypeOK
<1>2. CASE Boot
    BY <1>2 DEF Boot, Begin, TypeOK
<1>3. CASE Started
    BY <1>3 DEF Started, TypeOK
<1>4. CASE TurnOn
    BY <1>4 DEF TurnOn, Begin, TypeOK
<1>5. CASE TurnOff
    BY <1>5 DEF TurnOff, Stop, TypeOK
<1>6. CASE Quit
    BY <1>6 DEF Quit, TypeOK
<1>7. CASE Exit
    BY <1>7 DEF Exit, Down, TypeOK
<1>8. CASE Crash
    BY <1>8 DEF Crash, Down, TypeOK
<1>9. CASE Connect
    BY <1>9 DEF Connect, TypeOK
<1>10. CASE Disconnect
    BY <1>10 DEF Disconnect, TypeOK
<1>11. ASSUME NEW b \in Bots, RemoveBot(b) PROVE TypeOK'
    BY <1>11 DEF RemoveBot, Stop, Forget, TypeOK
<1>12. CASE SendReport
    BY <1>12 DEF SendReport, TypeOK
<1>13. CASE ReportFailed
    BY <1>13 DEF ReportFailed, TypeOK
<1>14. ASSUME NEW stop \in SUBSET Jobs, ReportAnswered(stop) PROVE TypeOK'
    BY <1>14 DEF ReportAnswered, Stop, Forget, TypeOK
<1>15. ASSUME NEW j \in Jobs, OwedDone(j) PROVE TypeOK'
    BY <1>15 DEF OwedDone, TypeOK
<1>16. ASSUME NEW j \in Jobs, HandleJob(j) PROVE TypeOK'
    BY <1>16 DEF HandleJob, TakesJob, TypeOK
<1>17. ASSUME NEW j \in Jobs, HandleCancel(j) PROVE TypeOK'
    BY <1>17 DEF HandleCancel, Stop, TypeOK
<1>18. ASSUME NEW j \in Jobs, Written(j) PROVE TypeOK'
    BY <1>18 DEF Written, Persist, TypeOK
<1>19. ASSUME NEW j \in Jobs, AcceptOk(j) PROVE TypeOK'
    BY <1>19 DEF AcceptOk, ReportDue, TypeOK
<1>20. ASSUME NEW j \in Jobs, AcceptFailed(j) PROVE TypeOK'
    BY <1>20 DEF AcceptFailed, TypeOK
<1>21. ASSUME NEW j \in Jobs, CommandStarts(j) PROVE TypeOK'
    BY <1>21 DEF CommandStarts, TypeOK
<1>22. ASSUME NEW j \in Jobs, NEW exit \in Exits, CommandEnds(j, exit) PROVE TypeOK'
    BY <1>22 DEF CommandEnds, TypeOK
<1>23. ASSUME NEW j \in Jobs, Progressed(j) PROVE TypeOK'
    BY <1>23 DEF Progressed, TypeOK
<1>24. ASSUME NEW j \in Jobs, Uploaded(j) PROVE TypeOK'
    BY <1>24 DEF Uploaded, Returns, TypeOK
<1>25. ASSUME NEW j \in Jobs, Stopped(j) PROVE TypeOK'
    BY <1>25 DEF Stopped, Returns, TypeOK
<1>26. ASSUME NEW j \in Jobs, Fails(j) PROVE TypeOK'
    BY <1>26 DEF Fails, Returns, TypeOK
<1>27. ASSUME NEW j \in Jobs, Finished(j) PROVE TypeOK'
    BY <1>27 DEF Finished, TypeOK
<1>28. ASSUME NEW j \in Jobs, Removed(j) PROVE TypeOK'
    BY <1>28 DEF Removed, TypeOK
<1>29. ASSUME NEW j \in Jobs, Cleared(j) PROVE TypeOK'
    BY <1>29 DEF Cleared, Persist, ReportDue, TypeOK
<1> QED
    BY <1>1, <1>2, <1>3, <1>4, <1>5, <1>6, <1>7, <1>8, <1>9, <1>10, <1>11, <1>12, <1>13, <1>14, <1>15, <1>16, <1>17, <1>18, <1>19, <1>20, <1>21, <1>22, <1>23, <1>24, <1>25, <1>26, <1>27, <1>28, <1>29
    DEF Next, AppStep, ReportStep, JobStep

\* Every step keeps the books.
LEMMA BookkeepingStep == TypeOK /\ Bookkeeping /\ [Next]_workerVars => Bookkeeping'
<1> SUFFICES ASSUME TypeOK, Bookkeeping, [Next]_workerVars PROVE Bookkeeping'
    OBVIOUS
<1> USE WorkerAssumption DEF jobVars, reportVars, Held, Running, Exits
<1>1. CASE UNCHANGED workerVars
    BY <1>1 DEF workerVars, TypeOK, Bookkeeping
<1>2. CASE Boot
    BY <1>2 DEF Boot, Begin, TypeOK, Bookkeeping
<1>3. CASE Started
    BY <1>3 DEF Started, TypeOK, Bookkeeping
<1>4. CASE TurnOn
    BY <1>4 DEF TurnOn, Begin, TypeOK, Bookkeeping
<1>5. CASE TurnOff
    BY <1>5 DEF TurnOff, Stop, TypeOK, Bookkeeping
<1>6. CASE Quit
    BY <1>6 DEF Quit, TypeOK, Bookkeeping
<1>7. CASE Exit
    BY <1>7 DEF Exit, Down, TypeOK, Bookkeeping
<1>8. CASE Crash
    BY <1>8 DEF Crash, Down, TypeOK, Bookkeeping
<1>9. CASE Connect
    BY <1>9 DEF Connect, TypeOK, Bookkeeping
<1>10. CASE Disconnect
    BY <1>10 DEF Disconnect, TypeOK, Bookkeeping
<1>11. ASSUME NEW b \in Bots, RemoveBot(b) PROVE Bookkeeping'
    BY <1>11 DEF RemoveBot, Stop, Forget, TypeOK, Bookkeeping
<1>12. CASE SendReport
    BY <1>12 DEF SendReport, TypeOK, Bookkeeping
<1>13. CASE ReportFailed
    BY <1>13 DEF ReportFailed, TypeOK, Bookkeeping
<1>14. ASSUME NEW stop \in SUBSET Jobs, ReportAnswered(stop) PROVE Bookkeeping'
    BY <1>14 DEF ReportAnswered, Stop, Forget, TypeOK, Bookkeeping
<1>15. ASSUME NEW j \in Jobs, OwedDone(j) PROVE Bookkeeping'
    BY <1>15 DEF OwedDone, TypeOK, Bookkeeping
<1>16. ASSUME NEW j \in Jobs, HandleJob(j) PROVE Bookkeeping'
    BY <1>16 DEF HandleJob, TakesJob, TypeOK, Bookkeeping
<1>17. ASSUME NEW j \in Jobs, HandleCancel(j) PROVE Bookkeeping'
    BY <1>17 DEF HandleCancel, Stop, TypeOK, Bookkeeping
<1>18. ASSUME NEW j \in Jobs, Written(j) PROVE Bookkeeping'
    BY <1>18 DEF Written, Persist, TypeOK, Bookkeeping
<1>19. ASSUME NEW j \in Jobs, AcceptOk(j) PROVE Bookkeeping'
    BY <1>19 DEF AcceptOk, ReportDue, TypeOK, Bookkeeping
<1>20. ASSUME NEW j \in Jobs, AcceptFailed(j) PROVE Bookkeeping'
    BY <1>20 DEF AcceptFailed, TypeOK, Bookkeeping
<1>21. ASSUME NEW j \in Jobs, CommandStarts(j) PROVE Bookkeeping'
    BY <1>21 DEF CommandStarts, TypeOK, Bookkeeping
<1>22. ASSUME NEW j \in Jobs, NEW exit \in Exits, CommandEnds(j, exit) PROVE Bookkeeping'
    BY <1>22 DEF CommandEnds, TypeOK, Bookkeeping
<1>23. ASSUME NEW j \in Jobs, Progressed(j) PROVE Bookkeeping'
    BY <1>23 DEF Progressed, TypeOK, Bookkeeping
<1>24. ASSUME NEW j \in Jobs, Uploaded(j) PROVE Bookkeeping'
    BY <1>24 DEF Uploaded, Returns, TypeOK, Bookkeeping
<1>25. ASSUME NEW j \in Jobs, Stopped(j) PROVE Bookkeeping'
    BY <1>25 DEF Stopped, Returns, TypeOK, Bookkeeping
<1>26. ASSUME NEW j \in Jobs, Fails(j) PROVE Bookkeeping'
    BY <1>26 DEF Fails, Returns, TypeOK, Bookkeeping
<1>27. ASSUME NEW j \in Jobs, Finished(j) PROVE Bookkeeping'
    BY <1>27 DEF Finished, TypeOK, Bookkeeping
<1>28. ASSUME NEW j \in Jobs, Removed(j) PROVE Bookkeeping'
    BY <1>28 DEF Removed, TypeOK, Bookkeeping
<1>29. ASSUME NEW j \in Jobs, Cleared(j) PROVE Bookkeeping'
    BY <1>29 DEF Cleared, Persist, ReportDue, TypeOK, Bookkeeping
<1> QED
    BY <1>1, <1>2, <1>3, <1>4, <1>5, <1>6, <1>7, <1>8, <1>9, <1>10, <1>11, <1>12, <1>13, <1>14, <1>15, <1>16, <1>17, <1>18, <1>19, <1>20, <1>21, <1>22, <1>23, <1>24, <1>25, <1>26, <1>27, <1>28, <1>29
    DEF Next, AppStep, ReportStep, JobStep

\* Every step keeps what was accepted on disk.
LEMMA DiskStep == TypeOK /\ Bookkeeping /\ AcceptedOnDisk /\ [Next]_workerVars => AcceptedOnDisk'
<1> SUFFICES ASSUME TypeOK, Bookkeeping, AcceptedOnDisk, [Next]_workerVars PROVE AcceptedOnDisk'
    OBVIOUS
<1> USE WorkerAssumption DEF jobVars, reportVars, Held, Accepted
<1>1. CASE UNCHANGED workerVars
    BY <1>1 DEF workerVars, TypeOK, Bookkeeping, AcceptedOnDisk, Taken
<1>2. CASE Boot
    BY <1>2 DEF Boot, Begin, TypeOK, Bookkeeping, AcceptedOnDisk, Taken
<1>3. CASE Started
    BY <1>3 DEF Started, TypeOK, Bookkeeping, AcceptedOnDisk, Taken
<1>4. CASE TurnOn
    BY <1>4 DEF TurnOn, Begin, TypeOK, Bookkeeping, AcceptedOnDisk, Taken
<1>5. CASE TurnOff
    BY <1>5 DEF TurnOff, Stop, TypeOK, Bookkeeping, AcceptedOnDisk, Taken
<1>6. CASE Quit
    BY <1>6 DEF Quit, TypeOK, Bookkeeping, AcceptedOnDisk, Taken
<1>7. CASE Exit
    BY <1>7 DEF Exit, Down, TypeOK, Bookkeeping, AcceptedOnDisk, Taken
<1>8. CASE Crash
    BY <1>8 DEF Crash, Down, TypeOK, Bookkeeping, AcceptedOnDisk, Taken
<1>9. CASE Connect
    BY <1>9 DEF Connect, TypeOK, Bookkeeping, AcceptedOnDisk, Taken
<1>10. CASE Disconnect
    BY <1>10 DEF Disconnect, TypeOK, Bookkeeping, AcceptedOnDisk, Taken
<1>11. ASSUME NEW b \in Bots, RemoveBot(b) PROVE AcceptedOnDisk'
    BY <1>11 DEF RemoveBot, Stop, Forget, TypeOK, Bookkeeping, AcceptedOnDisk, Taken
<1>12. CASE SendReport
    BY <1>12 DEF SendReport, TypeOK, Bookkeeping, AcceptedOnDisk, Taken
<1>13. CASE ReportFailed
    BY <1>13 DEF ReportFailed, TypeOK, Bookkeeping, AcceptedOnDisk, Taken
<1>14. ASSUME NEW stop \in SUBSET Jobs, ReportAnswered(stop) PROVE AcceptedOnDisk'
    BY <1>14 DEF ReportAnswered, Stop, Forget, TypeOK, Bookkeeping, AcceptedOnDisk, Taken
<1>15. ASSUME NEW j \in Jobs, OwedDone(j) PROVE AcceptedOnDisk'
    BY <1>15 DEF OwedDone, TypeOK, Bookkeeping, AcceptedOnDisk, Taken
<1>16. ASSUME NEW j \in Jobs, HandleJob(j) PROVE AcceptedOnDisk'
    BY <1>16 DEF HandleJob, TakesJob, TypeOK, Bookkeeping, AcceptedOnDisk, Taken
<1>17. ASSUME NEW j \in Jobs, HandleCancel(j) PROVE AcceptedOnDisk'
    BY <1>17 DEF HandleCancel, Stop, TypeOK, Bookkeeping, AcceptedOnDisk, Taken
<1>18. ASSUME NEW j \in Jobs, Written(j) PROVE AcceptedOnDisk'
    BY <1>18 DEF Written, Persist, TypeOK, Bookkeeping, AcceptedOnDisk, Taken
<1>19. ASSUME NEW j \in Jobs, AcceptOk(j) PROVE AcceptedOnDisk'
    BY <1>19 DEF AcceptOk, ReportDue, TypeOK, Bookkeeping, AcceptedOnDisk, Taken
<1>20. ASSUME NEW j \in Jobs, AcceptFailed(j) PROVE AcceptedOnDisk'
    BY <1>20 DEF AcceptFailed, TypeOK, Bookkeeping, AcceptedOnDisk, Taken
<1>21. ASSUME NEW j \in Jobs, CommandStarts(j) PROVE AcceptedOnDisk'
    BY <1>21 DEF CommandStarts, TypeOK, Bookkeeping, AcceptedOnDisk, Taken
<1>22. ASSUME NEW j \in Jobs, NEW exit \in Exits, CommandEnds(j, exit) PROVE AcceptedOnDisk'
    BY <1>22 DEF CommandEnds, TypeOK, Bookkeeping, AcceptedOnDisk, Taken
<1>23. ASSUME NEW j \in Jobs, Progressed(j) PROVE AcceptedOnDisk'
    BY <1>23 DEF Progressed, TypeOK, Bookkeeping, AcceptedOnDisk, Taken
<1>24. ASSUME NEW j \in Jobs, Uploaded(j) PROVE AcceptedOnDisk'
    BY <1>24 DEF Uploaded, Returns, TypeOK, Bookkeeping, AcceptedOnDisk, Taken
<1>25. ASSUME NEW j \in Jobs, Stopped(j) PROVE AcceptedOnDisk'
    BY <1>25 DEF Stopped, Returns, TypeOK, Bookkeeping, AcceptedOnDisk, Taken
<1>26. ASSUME NEW j \in Jobs, Fails(j) PROVE AcceptedOnDisk'
    BY <1>26 DEF Fails, Returns, TypeOK, Bookkeeping, AcceptedOnDisk, Taken
<1>27. ASSUME NEW j \in Jobs, Finished(j) PROVE AcceptedOnDisk'
    BY <1>27 DEF Finished, TypeOK, Bookkeeping, AcceptedOnDisk, Taken
<1>28. ASSUME NEW j \in Jobs, Removed(j) PROVE AcceptedOnDisk'
    BY <1>28 DEF Removed, TypeOK, Bookkeeping, AcceptedOnDisk, Taken
<1>29. ASSUME NEW j \in Jobs, Cleared(j) PROVE AcceptedOnDisk'
    BY <1>29 DEF Cleared, Persist, ReportDue, TypeOK, Bookkeeping, AcceptedOnDisk, Taken
<1> QED
    BY <1>1, <1>2, <1>3, <1>4, <1>5, <1>6, <1>7, <1>8, <1>9, <1>10, <1>11, <1>12, <1>13, <1>14, <1>15, <1>16, <1>17, <1>18, <1>19, <1>20, <1>21, <1>22, <1>23, <1>24, <1>25, <1>26, <1>27, <1>28, <1>29
    DEF Next, AppStep, ReportStep, JobStep

\* Every step keeps what the server is told in step with the jobs.
LEMMA ReportsStep == TypeOK /\ Bookkeeping /\ ReportsCover /\ [Next]_workerVars => ReportsCover'
<1> SUFFICES ASSUME TypeOK, Bookkeeping, ReportsCover, [Next]_workerVars PROVE ReportsCover'
    OBVIOUS
<1> USE WorkerAssumption DEF jobVars, reportVars, Held, Accepted, Reports
<1>1. CASE UNCHANGED workerVars
    BY <1>1 DEF workerVars, TypeOK, Bookkeeping, ReportsCover, Reported, Taken
<1>2. CASE Boot
    BY <1>2 DEF Boot, Begin, TypeOK, Bookkeeping, ReportsCover, Reported, Taken
<1>3. CASE Started
    BY <1>3 DEF Started, TypeOK, Bookkeeping, ReportsCover, Reported, Taken
<1>4. CASE TurnOn
    BY <1>4 DEF TurnOn, Begin, TypeOK, Bookkeeping, ReportsCover, Reported, Taken
<1>5. CASE TurnOff
    BY <1>5 DEF TurnOff, Stop, TypeOK, Bookkeeping, ReportsCover, Reported, Taken
<1>6. CASE Quit
    BY <1>6 DEF Quit, TypeOK, Bookkeeping, ReportsCover, Reported, Taken
<1>7. CASE Exit
    BY <1>7 DEF Exit, Down, TypeOK, Bookkeeping, ReportsCover, Reported, Taken
<1>8. CASE Crash
    BY <1>8 DEF Crash, Down, TypeOK, Bookkeeping, ReportsCover, Reported, Taken
<1>9. CASE Connect
    BY <1>9 DEF Connect, TypeOK, Bookkeeping, ReportsCover, Reported, Taken
<1>10. CASE Disconnect
    BY <1>10 DEF Disconnect, TypeOK, Bookkeeping, ReportsCover, Reported, Taken
<1>11. ASSUME NEW b \in Bots, RemoveBot(b) PROVE ReportsCover'
    BY <1>11 DEF RemoveBot, Stop, Forget, TypeOK, Bookkeeping, ReportsCover, Reported, Taken
<1>12. CASE SendReport
    BY <1>12 DEF SendReport, TypeOK, Bookkeeping, ReportsCover, Reported, Taken
<1>13. CASE ReportFailed
    BY <1>13 DEF ReportFailed, TypeOK, Bookkeeping, ReportsCover, Reported, Taken
<1>14. ASSUME NEW stop \in SUBSET Jobs, ReportAnswered(stop) PROVE ReportsCover'
    BY <1>14 DEF ReportAnswered, Stop, Forget, TypeOK, Bookkeeping, ReportsCover, Reported, Taken
<1>15. ASSUME NEW j \in Jobs, OwedDone(j) PROVE ReportsCover'
    BY <1>15 DEF OwedDone, TypeOK, Bookkeeping, ReportsCover, Reported, Taken
<1>16. ASSUME NEW j \in Jobs, HandleJob(j) PROVE ReportsCover'
    BY <1>16 DEF HandleJob, TakesJob, TypeOK, Bookkeeping, ReportsCover, Reported, Taken
<1>17. ASSUME NEW j \in Jobs, HandleCancel(j) PROVE ReportsCover'
    BY <1>17 DEF HandleCancel, Stop, TypeOK, Bookkeeping, ReportsCover, Reported, Taken
<1>18. ASSUME NEW j \in Jobs, Written(j) PROVE ReportsCover'
    BY <1>18 DEF Written, Persist, TypeOK, Bookkeeping, ReportsCover, Reported, Taken
<1>19. ASSUME NEW j \in Jobs, AcceptOk(j) PROVE ReportsCover'
    BY <1>19 DEF AcceptOk, ReportDue, TypeOK, Bookkeeping, ReportsCover, Reported, Taken
<1>20. ASSUME NEW j \in Jobs, AcceptFailed(j) PROVE ReportsCover'
    BY <1>20 DEF AcceptFailed, TypeOK, Bookkeeping, ReportsCover, Reported, Taken
<1>21. ASSUME NEW j \in Jobs, CommandStarts(j) PROVE ReportsCover'
    BY <1>21 DEF CommandStarts, TypeOK, Bookkeeping, ReportsCover, Reported, Taken
<1>22. ASSUME NEW j \in Jobs, NEW exit \in Exits, CommandEnds(j, exit) PROVE ReportsCover'
    BY <1>22 DEF CommandEnds, TypeOK, Bookkeeping, ReportsCover, Reported, Taken
<1>23. ASSUME NEW j \in Jobs, Progressed(j) PROVE ReportsCover'
    BY <1>23 DEF Progressed, TypeOK, Bookkeeping, ReportsCover, Reported, Taken
<1>24. ASSUME NEW j \in Jobs, Uploaded(j) PROVE ReportsCover'
    BY <1>24 DEF Uploaded, Returns, TypeOK, Bookkeeping, ReportsCover, Reported, Taken
<1>25. ASSUME NEW j \in Jobs, Stopped(j) PROVE ReportsCover'
    BY <1>25 DEF Stopped, Returns, TypeOK, Bookkeeping, ReportsCover, Reported, Taken
<1>26. ASSUME NEW j \in Jobs, Fails(j) PROVE ReportsCover'
    BY <1>26 DEF Fails, Returns, TypeOK, Bookkeeping, ReportsCover, Reported, Taken
<1>27. ASSUME NEW j \in Jobs, Finished(j) PROVE ReportsCover'
    BY <1>27 DEF Finished, TypeOK, Bookkeeping, ReportsCover, Reported, Taken
<1>28. ASSUME NEW j \in Jobs, Removed(j) PROVE ReportsCover'
    BY <1>28 DEF Removed, TypeOK, Bookkeeping, ReportsCover, Reported, Taken
<1>29. ASSUME NEW j \in Jobs, Cleared(j) PROVE ReportsCover'
    BY <1>29 DEF Cleared, Persist, ReportDue, TypeOK, Bookkeeping, ReportsCover, Reported, Taken
<1> QED
    BY <1>1, <1>2, <1>3, <1>4, <1>5, <1>6, <1>7, <1>8, <1>9, <1>10, <1>11, <1>12, <1>13, <1>14, <1>15, <1>16, <1>17, <1>18, <1>19, <1>20, <1>21, <1>22, <1>23, <1>24, <1>25, <1>26, <1>27, <1>28, <1>29
    DEF Next, AppStep, ReportStep, JobStep

\* No step but taking a job makes another job busy.
LEMMA BusyShrinks == TypeOK /\ Bookkeeping /\ [Next]_workerVars =>
    Busy' \subseteq Busy \/ \E j \in Jobs : HandleJob(j)
<1> SUFFICES ASSUME TypeOK, Bookkeeping, [Next]_workerVars, ~\E j \in Jobs : HandleJob(j)
             PROVE  Busy' \subseteq Busy
    OBVIOUS
<1> USE WorkerAssumption DEF jobVars, reportVars, Held
<1>1. CASE UNCHANGED workerVars
    BY <1>1 DEF workerVars, TypeOK, Bookkeeping, Busy
<1>2. CASE Boot
    BY <1>2 DEF Boot, Begin, TypeOK, Bookkeeping, Busy
<1>3. CASE Started
    BY <1>3 DEF Started, TypeOK, Bookkeeping, Busy
<1>4. CASE TurnOn
    BY <1>4 DEF TurnOn, Begin, TypeOK, Bookkeeping, Busy
<1>5. CASE TurnOff
    BY <1>5 DEF TurnOff, Stop, TypeOK, Bookkeeping, Busy
<1>6. CASE Quit
    BY <1>6 DEF Quit, TypeOK, Bookkeeping, Busy
<1>7. CASE Exit
    BY <1>7 DEF Exit, Down, TypeOK, Bookkeeping, Busy
<1>8. CASE Crash
    BY <1>8 DEF Crash, Down, TypeOK, Bookkeeping, Busy
<1>9. CASE Connect
    BY <1>9 DEF Connect, TypeOK, Bookkeeping, Busy
<1>10. CASE Disconnect
    BY <1>10 DEF Disconnect, TypeOK, Bookkeeping, Busy
<1>11. ASSUME NEW b \in Bots, RemoveBot(b) PROVE Busy' \subseteq Busy
    BY <1>11 DEF RemoveBot, Stop, Forget, TypeOK, Bookkeeping, Busy
<1>12. CASE SendReport
    BY <1>12 DEF SendReport, TypeOK, Bookkeeping, Busy
<1>13. CASE ReportFailed
    BY <1>13 DEF ReportFailed, TypeOK, Bookkeeping, Busy
<1>14. ASSUME NEW stop \in SUBSET Jobs, ReportAnswered(stop) PROVE Busy' \subseteq Busy
    BY <1>14 DEF ReportAnswered, Stop, Forget, TypeOK, Bookkeeping, Busy
<1>15. ASSUME NEW j \in Jobs, OwedDone(j) PROVE Busy' \subseteq Busy
    BY <1>15 DEF OwedDone, TypeOK, Bookkeeping, Busy
<1>16. ASSUME NEW j \in Jobs, HandleCancel(j) PROVE Busy' \subseteq Busy
    BY <1>16 DEF HandleCancel, Stop, TypeOK, Bookkeeping, Busy
<1>17. ASSUME NEW j \in Jobs, Written(j) PROVE Busy' \subseteq Busy
    BY <1>17 DEF Written, Persist, TypeOK, Bookkeeping, Busy
<1>18. ASSUME NEW j \in Jobs, AcceptOk(j) PROVE Busy' \subseteq Busy
    BY <1>18 DEF AcceptOk, ReportDue, TypeOK, Bookkeeping, Busy
<1>19. ASSUME NEW j \in Jobs, AcceptFailed(j) PROVE Busy' \subseteq Busy
    BY <1>19 DEF AcceptFailed, TypeOK, Bookkeeping, Busy
<1>20. ASSUME NEW j \in Jobs, CommandStarts(j) PROVE Busy' \subseteq Busy
    BY <1>20 DEF CommandStarts, TypeOK, Bookkeeping, Busy
<1>21. ASSUME NEW j \in Jobs, NEW exit \in Exits, CommandEnds(j, exit) PROVE Busy' \subseteq Busy
    BY <1>21 DEF CommandEnds, TypeOK, Bookkeeping, Busy
<1>22. ASSUME NEW j \in Jobs, Progressed(j) PROVE Busy' \subseteq Busy
    BY <1>22 DEF Progressed, TypeOK, Bookkeeping, Busy
<1>23. ASSUME NEW j \in Jobs, Uploaded(j) PROVE Busy' \subseteq Busy
    BY <1>23 DEF Uploaded, Returns, TypeOK, Bookkeeping, Busy
<1>24. ASSUME NEW j \in Jobs, Stopped(j) PROVE Busy' \subseteq Busy
    BY <1>24 DEF Stopped, Returns, TypeOK, Bookkeeping, Busy
<1>25. ASSUME NEW j \in Jobs, Fails(j) PROVE Busy' \subseteq Busy
    BY <1>25 DEF Fails, Returns, TypeOK, Bookkeeping, Busy
<1>26. ASSUME NEW j \in Jobs, Finished(j) PROVE Busy' \subseteq Busy
    BY <1>26 DEF Finished, TypeOK, Bookkeeping, Busy
<1>27. ASSUME NEW j \in Jobs, Removed(j) PROVE Busy' \subseteq Busy
    BY <1>27 DEF Removed, TypeOK, Bookkeeping, Busy
<1>28. ASSUME NEW j \in Jobs, Cleared(j) PROVE Busy' \subseteq Busy
    BY <1>28 DEF Cleared, Persist, ReportDue, TypeOK, Bookkeeping, Busy
<1> QED
    BY <1>1, <1>2, <1>3, <1>4, <1>5, <1>6, <1>7, <1>8, <1>9, <1>10, <1>11, <1>12, <1>13, <1>14, <1>15, <1>16, <1>17, <1>18, <1>19, <1>20, <1>21, <1>22, <1>23, <1>24, <1>25, <1>26, <1>27, <1>28
    DEF Next, AppStep, ReportStep, JobStep

\* A job is taken only while a slot is free.
LEMMA BusyStep == TypeOK /\ Bookkeeping /\ BusyBounded /\ [Next]_workerVars => BusyBounded'
<1> SUFFICES ASSUME TypeOK, Bookkeeping, BusyBounded, [Next]_workerVars PROVE BusyBounded'
    OBVIOUS
<1>1. IsFiniteSet(Busy)
    BY WorkerAssumption, FS_Subset DEF Busy, Held
<1>2. CASE Busy' \subseteq Busy
  <2>1. Cardinality(Busy') <= Cardinality(Busy)
    BY <1>1, <1>2, FS_Subset
  <2>2. Cardinality(Busy) \in Nat /\ Cardinality(Busy') \in Nat
    BY <1>1, <1>2, FS_Subset, FS_CardinalityType
  <2> QED BY <2>1, <2>2, WorkerAssumption DEF BusyBounded
<1>3. ASSUME NEW j \in Jobs, HandleJob(j) PROVE BusyBounded'
  <2>1. Busy' \subseteq Busy \cup {j}
    BY <1>3 DEF HandleJob, Busy, Held, TypeOK
  <2>2. IsFiniteSet(Busy \cup {j}) /\ Cardinality(Busy \cup {j}) <= Cardinality(Busy) + 1
    <3>1. Cardinality(Busy) \in Nat
      BY <1>1, FS_CardinalityType
    <3>2. /\ IsFiniteSet(Busy \cup {j})
          /\ Cardinality(Busy \cup {j}) = IF j \in Busy THEN Cardinality(Busy)
                                          ELSE Cardinality(Busy) + 1
      BY <1>1, FS_AddElement
    <3> QED BY <3>1, <3>2
  <2>3. Cardinality(Busy') <= Cardinality(Busy \cup {j})
    BY <2>1, <2>2, FS_Subset
  <2>4. Cardinality(Busy) < Slots
    BY <1>3 DEF HandleJob, TakesJob
  <2>5. Cardinality(Busy) \in Nat /\ Cardinality(Busy') \in Nat /\ Cardinality(Busy \cup {j}) \in Nat
    BY <1>1, <2>1, <2>2, FS_Subset, FS_CardinalityType
  <2> QED BY <2>2, <2>3, <2>4, <2>5, WorkerAssumption DEF BusyBounded
<1> QED BY <1>2, <1>3, BusyShrinks

-----------------------------------------------------------------------------
(* The theorems.                                                           *)

IInv == TypeOK /\ Bookkeeping /\ AcceptedOnDisk /\ BusyBounded /\ ReportsCover

\* Every reachable state satisfies the inductive invariant.
LEMMA Invariance == Spec => []IInv
<1>1. Init => IInv
  <2> SUFFICES ASSUME Init PROVE IInv
    OBVIOUS
  <2>1. TypeOK
    BY DEF Init, TypeOK, AppStates, Phases, Outcomes
  <2>2. Bookkeeping /\ AcceptedOnDisk /\ ReportsCover
    BY DEF Init, Bookkeeping, AcceptedOnDisk, ReportsCover, Held, Taken, Accepted
  <2>3. Busy = {}
    BY DEF Init, Busy, Held
  <2>4. BusyBounded
    BY <2>3, FS_EmptySet, WorkerAssumption DEF BusyBounded
  <2> QED BY <2>1, <2>2, <2>4 DEF IInv
<1>2. IInv /\ [Next]_workerVars => IInv'
    BY TypeStep, BookkeepingStep, DiskStep, BusyStep, ReportsStep DEF IInv
<1> QED BY <1>1, <1>2, PTL DEF Spec

\* Every reachable state of a worker is of its type: in particular one report at
\* most is in flight.
THEOREM TypeCorrect == Spec => []TypeOK
    BY Invariance, PTL DEF IInv

\* However the writes, results and removals of any number of jobs interleave, a
\* job the server can have accepted is in the state file.
THEOREM OnDisk == Spec => []AcceptedOnDisk
    BY Invariance, PTL DEF IInv

\* The jobs at work never outnumber the slots.
THEOREM SlotsKept == Spec => []SlotsRespected
<1>1. IInv => SlotsRespected
  <2> SUFFICES ASSUME IInv PROVE SlotsRespected
    OBVIOUS
  <2> DEFINE atWork == {j \in Held \ forgotten : run[j] \in Accepted \ {"finishing"}}
  <2>1. atWork \subseteq Busy
    BY DEF Busy, Accepted
  <2>2. IsFiniteSet(Busy)
    BY WorkerAssumption, FS_Subset DEF Busy, Held
  <2>3. Cardinality(atWork) <= Cardinality(Busy)
    BY <2>1, <2>2, FS_Subset
  <2>4. Cardinality(atWork) \in Nat /\ Cardinality(Busy) \in Nat
    BY <2>1, <2>2, FS_Subset, FS_CardinalityType
  <2> QED BY <2>3, <2>4, WorkerAssumption DEF IInv, BusyBounded, SlotsRespected
<1> QED BY <1>1, Invariance, PTL

\* No change is lost between a report and its answer: once none is due or in
\* flight, the server was told of every job accepted here and of none that is gone.
THEOREM ToldTheTruth == Spec => []ReportsAreCurrent
<1>1. IInv => ReportsAreCurrent
    BY DEF IInv, ReportsCover, Reported, ReportsAreCurrent
<1> QED BY <1>1, Invariance, PTL
=============================================================================
