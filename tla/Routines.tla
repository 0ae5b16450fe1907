----------------------------- MODULE Routines -----------------------------
(***************************************************************************)
(* The gateway's routines (bot-gateway/src/routines.ts): prompts it sends  *)
(* to bots when they are due, the runs it keeps of them, and how each run  *)
(* learns that its turn finished.  A fire reads a routine, awaits the bot, *)
(* and saves the routine as it was read: ticks, manual runs and what the   *)
(* owner does overlap with it.  Time is counted in ticks of 15 s.          *)
(***************************************************************************)
EXTENDS Naturals, Sequences, FiniteSets

CONSTANTS RoutineIds,
          Every,       \* the time between two runs of a routine
          Late,        \* 15 minutes: a run due longer ago is missed
          Patience,    \* 15 seconds: how long the gateway awaits the bot
          Keep,        \* 5 minutes: how long a finish is kept for its run
          Day,         \* how long a bot knows a key
          MaxTime,     \* bound: how long the gateway is watched
          MaxManual,   \* bound: the runs its owner asks for
          MaxTroubles  \* bound: lost calls, crashes, and owners' changes

ASSUME RoutinesAssumption ==
  /\ Every \in Nat \ {0} /\ Late \in Nat /\ Patience \in Nat
  /\ Keep \in Nat /\ Day \in Nat /\ MaxTime \in Nat
  /\ MaxManual \in Nat /\ MaxTroubles \in Nat
  /\ Late + Patience < Day

VARIABLES now,
          routines,  \* the rows: whether a routine is on, its schedule, and when it
                     \* is next due
          runs,      \* the rows of the runs: by the input each is about
          pending,   \* pendingFinishes: what finished before its run was known
          todo,      \* the routines the tick still has, as it read them
          fires,     \* the calls in flight: the tick's (its slot is 0) and manual ones
          ticked,    \* the timer of this time has fired
          up,
          inputs,    \* what the bots accepted, one after another
          heard,     \* ghost: how each input, or the latest turn in its run's own
                     \* conversation, finished, as far as the gateway heard
          manual, troubles

vars == <<now, routines, runs, pending, todo, fires, ticked, up, inputs, heard,
          manual, troubles>>

Never == MaxTime + Every + 1           \* nextRunAt is null
Schedules == {"weekly", "interval"}
Gone == [here |-> FALSE, on |-> FALSE, schedule |-> "weekly", next |-> Never]
Outcomes == {"completed", "failed"}   \* or cancelled, which a run keeps as well

Trouble == troubles < MaxTroubles /\ troubles' = troubles + 1

-----------------------------------------------------------------------------
(* When a routine runs next.                                               *)

(* nextRun: the next time of the calendar, or an interval from then.       *)
NextRun(schedule, after) ==
  IF schedule = "weekly" THEN (after \div Every + 1) * Every ELSE after + Every

(* An interval routine skips the times that already passed.                *)
Following(row) ==
  LET next == NextRun(row.schedule, row.next) IN
  IF row.schedule = "interval" /\ next <= now
  THEN row.next + ((now - row.next) \div Every + 1) * Every
  ELSE next

(* The routine as a fire leaves it: the row it read, with its next time.   *)
Fired(fire) ==
  [fire.row EXCEPT !.next = IF ~fire.row.on THEN Never
                            ELSE IF fire.slot = 0 THEN Following(fire.row)
                            ELSE NextRun(fire.row.schedule, fire.at)]

(* A scheduled fire keys its input by its due time, a manual one anew.     *)
(* Mutant: by the time it fires.                                           *)
KeyOf_At(fire) == [r |-> fire.r, slot |-> fire.slot, due |-> fire.at]

KeyOf(fire) == [r |-> fire.r, slot |-> fire.slot,
                due |-> IF fire.slot = 0 THEN fire.row.next ELSE 0]

-----------------------------------------------------------------------------
(* A fire.                                                                 *)

NewFire(r, row, slot) ==
  [r |-> r, row |-> row, slot |-> slot, at |-> now, input |-> 0]

(* The tick goes on with the row the fire saved, while it is due.          *)
IsDue(row) == row.next <= now
Continued(fire, rest) ==
  IF fire.slot # 0 THEN rest
  ELSE [r \in DOMAIN rest \cup {fire.r} |->
          IF r = fire.r THEN Fired(fire) ELSE rest[r]]

Save(fire) == /\ routines' = [routines EXCEPT ![fire.r] = Fired(fire)]
              /\ todo' = Continued(fire, todo)

(* The bot is paused, away, about to update, or still busy with the last   *)
(* run; or the run is missed.                                              *)
Missed(fire) == fire.slot = 0 /\ now - fire.row.next > Late
Skip(fire) ==
  /\ Save(fire)
  /\ UNCHANGED fires

Call(fire) ==
  /\ ~Missed(fire)
  /\ fires' = fires \cup {fire}
  /\ UNCHANGED <<routines, todo>>

(* tick: the routines are read once; a tick that still awaits is alone.    *)
TickAwaits == \E fire \in fires : fire.slot = 0
Ticking == DOMAIN todo # {} \/ TickAwaits
TickBegins ==
  /\ up /\ ~ticked /\ ~Ticking
  /\ ticked' = TRUE
  /\ todo' = [r \in {r \in RoutineIds : routines[r].here /\ routines[r].on}
                |-> routines[r]]
  /\ pending' = {finish \in pending : now - finish.at < Keep}
  /\ UNCHANGED <<now, routines, runs, fires, up, inputs, heard, manual, troubles>>

TickPasses(r) ==
  /\ up /\ ~TickAwaits
  /\ r \in DOMAIN todo /\ ~IsDue(todo[r])
  /\ todo' = [x \in DOMAIN todo \ {r} |-> todo[x]]
  /\ UNCHANGED <<now, routines, runs, pending, fires, ticked, up, inputs, heard,
                 manual, troubles>>

TickFires(r) ==
  /\ up /\ ~TickAwaits
  /\ r \in DOMAIN todo /\ IsDue(todo[r])
  /\ LET fire == NewFire(r, todo[r], 0) IN Skip(fire) \/ Call(fire)
  /\ UNCHANGED <<now, runs, pending, ticked, up, inputs, heard, manual, troubles>>

Run(r) ==
  /\ up /\ manual < MaxManual /\ manual' = manual + 1
  /\ routines[r].here
  /\ LET fire == NewFire(r, routines[r], manual + 1) IN Skip(fire) \/ Call(fire)
  /\ UNCHANGED <<now, runs, pending, ticked, up, inputs, heard, troubles>>

-----------------------------------------------------------------------------
(* The bot takes a key it knows for the input it came with.                *)

Knows(key, i) == inputs[i].key = key /\ now - inputs[i].at < Day
Accept(fire) ==
  /\ fire.input = 0
  /\ \/ \E i \in DOMAIN inputs :
          /\ Knows(KeyOf(fire), i)
          /\ fires' = (fires \ {fire}) \cup {[fire EXCEPT !.input = i]}
          /\ UNCHANGED <<inputs, heard>>
     \/ /\ \A i \in DOMAIN inputs : ~Knows(KeyOf(fire), i)
        /\ inputs' = Append(inputs, [r |-> fire.r, key |-> KeyOf(fire),
                                     due |-> IF fire.slot = 0 THEN fire.row.next
                                                              ELSE Never,
                                     at |-> now])
        /\ heard' = Append(heard, "nothing")
        /\ fires' = (fires \ {fire})
                       \cup {[fire EXCEPT !.input = Len(inputs) + 1]}
  /\ UNCHANGED <<now, routines, runs, pending, todo, ticked, up, manual, troubles>>

(* A run is inserted once, at the time of its call (deliveredAt), and takes *)
(* the finish that was kept for it.                                        *)
Delivered(fire) ==
  LET kept == {finish \in pending : /\ finish.input = fire.input
                                    /\ now - finish.at < Keep} IN
  IF \E run \in runs : run.input = fire.input THEN runs
  ELSE runs \cup {[input |-> fire.input, at |-> fire.at,
                   status |-> IF kept = {} THEN "delivered"
                              ELSE (CHOOSE finish \in kept : TRUE).outcome]}

Receipt(fire) ==
  /\ fire.input # 0
  /\ runs' = Delivered(fire)
  /\ pending' = {finish \in pending : /\ finish.input # fire.input
                                      /\ now - finish.at < Keep}
  /\ Save(fire)
  /\ fires' = fires \ {fire}
  /\ UNCHANGED <<now, ticked, up, inputs, heard, manual, troubles>>

CallFails(fire) ==
  /\ Trouble
  /\ Save(fire)
  /\ fires' = fires \ {fire}
  /\ UNCHANGED <<now, runs, pending, ticked, up, inputs, heard, manual>>

(* finishRun: the run of an input, if it is known, or else for later.  A   *)
(* failed one may finish again; another stays as it finished.              *)
Applied(i, outcome) ==
  {IF run.input = i /\ run.status # "completed"
   THEN [run EXCEPT !.status = outcome] ELSE run : run \in runs}

Kept(i, outcome) ==
  LET fresh == {finish \in pending : now - finish.at < Keep} IN
  IF \E finish \in fresh : finish.input = i /\ finish.outcome # "failed"
  THEN fresh
  ELSE {finish \in fresh : finish.input # i}
         \cup {[input |-> i, outcome |-> outcome, at |-> now]}

FinishRun(i, outcome) ==
  /\ up
  /\ i \in DOMAIN inputs
  /\ heard' = [heard EXCEPT ![i] = IF @ = "completed" THEN @ ELSE outcome]
  /\ runs' = Applied(i, outcome)
  /\ pending' = IF \E run \in runs : run.input = i
                THEN {finish \in pending : now - finish.at < Keep}
                ELSE Kept(i, outcome)
  /\ UNCHANGED <<now, routines, todo, fires, ticked, up, inputs, manual, troubles>>

(* A later turn of a run's own conversation, which the owner's message      *)
(* there began: the run is as its latest turn left it.                      *)
(* Mutant: a completed run stays so.                                       *)
Left_Completed(i, outcome) == Applied(i, outcome)

Left(i, outcome) ==
  {IF run.input = i THEN [run EXCEPT !.status = outcome] ELSE run : run \in runs}

FinishTurn(i, outcome) ==
  /\ up
  /\ \E run \in runs : run.input = i
  /\ heard' = [heard EXCEPT ![i] = outcome]
  /\ runs' = Left(i, outcome)
  /\ pending' = {finish \in pending : now - finish.at < Keep}
  /\ UNCHANGED <<now, routines, todo, fires, ticked, up, inputs, manual, troubles>>

-----------------------------------------------------------------------------
(* What the owner does; what a bot's return does to the routines that are  *)
(* on; crashes; time.                                                      *)

(* Mutant: a paused routine stays due.                                     *)
Patched_Due(on, schedule) == [here |-> TRUE, on |-> on, schedule |-> schedule,
                              next |-> NextRun(schedule, now)]

Patched(on, schedule) == [here |-> TRUE, on |-> on, schedule |-> schedule,
                          next |-> IF on THEN NextRun(schedule, now) ELSE Never]
Patch(r, on, schedule) ==
  /\ Trouble
  /\ up /\ routines[r].here
  /\ routines' = [routines EXCEPT ![r] = Patched(on, schedule)]
  /\ UNCHANGED <<now, runs, pending, todo, fires, ticked, up, inputs, heard, manual>>

Delete(r) ==
  /\ Trouble
  /\ up /\ routines[r].here
  /\ routines' = [routines EXCEPT ![r] = Gone]
  /\ UNCHANGED <<now, runs, pending, todo, fires, ticked, up, inputs, heard, manual>>

(* What was heard of an input whose run is not stored is forgotten.  The   *)
(* process may end between the insertion of a run and the routine's save.  *)
Crash ==
  /\ Trouble
  /\ up /\ up' = FALSE
  /\ \/ UNCHANGED runs
     \/ \E fire \in fires : fire.input # 0 /\ runs' = Delivered(fire)
  /\ pending' = {} /\ todo' = <<>> /\ fires' = {}
  /\ heard' = [i \in DOMAIN heard |-> IF \E run \in runs' : run.input = i
                                      THEN heard[i] ELSE "nothing"]
  /\ UNCHANGED <<now, routines, ticked, inputs, manual>>

Start ==
  /\ ~up /\ up' = TRUE
  /\ ticked' = FALSE
  /\ UNCHANGED <<now, routines, runs, pending, todo, fires, inputs, heard,
                 manual, troubles>>

(* While the process is up its timer fires, the tick goes on until it is   *)
(* done or awaits, and a call ends in time.                                *)
Advance ==
  /\ now < MaxTime /\ now' = now + 1
  /\ up => TickAwaits \/ (ticked /\ ~Ticking)
  /\ \A fire \in fires : now - fire.at < Patience
  /\ ticked' = FALSE
  /\ UNCHANGED <<routines, runs, pending, todo, fires, up, inputs, heard,
                 manual, troubles>>

-----------------------------------------------------------------------------

Init == /\ now = 0
        /\ routines \in [RoutineIds -> {[here |-> TRUE, on |-> TRUE,
                                         schedule |-> schedule,
                                         next |-> NextRun(schedule, 0)] :
                                          schedule \in Schedules}]
        /\ runs = {} /\ pending = {} /\ todo = <<>>
        /\ fires = {} /\ ticked = FALSE /\ up = TRUE
        /\ inputs = <<>> /\ heard = <<>>
        /\ manual = 0 /\ troubles = 0

FireStep(fire) == Accept(fire) \/ Receipt(fire) \/ CallFails(fire)
RoutineStep(r) == \/ TickPasses(r) \/ TickFires(r) \/ Run(r)
                  \/ Delete(r) \/ \E on \in BOOLEAN, schedule \in Schedules :
                       Patch(r, on, schedule)
Next == \/ \E r \in RoutineIds : RoutineStep(r)
        \/ \E fire \in fires : FireStep(fire)
        \/ \E i \in DOMAIN inputs, outcome \in Outcomes :
             FinishRun(i, outcome) \/ FinishTurn(i, outcome)
        \/ TickBegins \/ Crash \/ Start \/ Advance

Spec == Init /\ [][Next]_vars

-----------------------------------------------------------------------------
(* Properties.                                                             *)

(* The state is of its type; a routine is due when it is on.               *)
Rows == {row \in [here : BOOLEAN, on : BOOLEAN, schedule : Schedules,
                  next : 1..Never] : row.on <=> row.next # Never}
Keys == [r : RoutineIds, slot : 0..MaxManual, due : 0..Never]
RoutinesTypeOK ==
  /\ now \in 0..MaxTime
  /\ routines \in [RoutineIds -> Rows]
  /\ runs \subseteq [input : DOMAIN inputs, at : 0..MaxTime,
                    status : Outcomes \cup {"delivered"}]
  /\ pending \subseteq [input : DOMAIN inputs, outcome : Outcomes, at : 0..MaxTime]
  /\ DOMAIN todo \subseteq RoutineIds
  /\ \A r \in DOMAIN todo : todo[r] \in Rows
  /\ fires \subseteq [r : RoutineIds, row : Rows, slot : 0..MaxManual,
                     at : 0..MaxTime, input : DOMAIN inputs \cup {0}]
  /\ ticked \in BOOLEAN /\ up \in BOOLEAN
  /\ inputs \in Seq([r : RoutineIds, key : Keys, due : 1..Never, at : 0..MaxTime])
  /\ heard \in Seq(Outcomes \cup {"nothing"}) /\ Len(heard) = Len(inputs)
  /\ manual \in 0..MaxManual /\ troubles \in 0..MaxTroubles

(* Each due time of a routine reaches its bot once, whatever saves an old  *)
(* row over a newer one and whatever a crash makes the gateway do again.   *)
OncePerDue ==
  \A i, j \in DOMAIN inputs :
    /\ inputs[i].due # Never
    /\ inputs[i].r = inputs[j].r /\ inputs[i].due = inputs[j].due
    => i = j

(* A run shows what the gateway heard of it since it started: how its      *)
(* prompt finished, whether that came before the receipt or after it, and   *)
(* however often, or how the latest turn in its own conversation did.  But  *)
(* for a run whose receipt was lost, and whose call was made again so long  *)
(* after the bot accepted it that its finish need no longer be kept.        *)
InTime(run) == run.at + Patience < inputs[run.input].at + Keep
FinishReachesRun ==
  \A run \in runs :
    InTime(run) /\ heard[run.input] # "nothing" => run.status = heard[run.input]
=============================================================================
