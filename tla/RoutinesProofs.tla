-------------------------- MODULE RoutinesProofs --------------------------
(***************************************************************************)
(* Proofs about Routines: its types, that a due time reaches its bot once, *)
(* and that a run learns how it finished, for any number of routines,      *)
(* manual runs and troubles.                                               *)
(***************************************************************************)
EXTENDS Routines, SequenceTheorems, TLAPS

RunRecords(S) == [input : S, at : 0..MaxTime, status : Outcomes \cup {"delivered"}]
InputRecords == [r : RoutineIds, key : Keys, due : 1..Never, at : 0..MaxTime]

(* A call is young, and a scheduled one was due, but not long ago.         *)
Timely ==
  \A fire \in fires :
    /\ fire.at <= now /\ now <= fire.at + Patience
    /\ fire.slot = 0 => /\ fire.row.on
                        /\ fire.row.next <= fire.at
                        /\ fire.at <= fire.row.next + Late

(* So is what the bot accepted of a due time, and its key says the time.   *)
KeysTellDue ==
  \A i \in DOMAIN inputs :
    /\ inputs[i].at <= now
    /\ inputs[i].due # Never =>
         /\ inputs[i].key = [r |-> inputs[i].r, slot |-> 0, due |-> inputs[i].due]
         /\ inputs[i].due <= inputs[i].at
         /\ inputs[i].at <= inputs[i].due + Late + Patience

IInv == RoutinesTypeOK /\ Timely /\ KeysTellDue /\ OncePerDue

-----------------------------------------------------------------------------
(* The next multiple of Every is after a time, and at most Every later.    *)
LEMMA NextMultiple ==
  ASSUME NEW n \in Nat
  PROVE  /\ (n \div Every + 1) * Every \in Nat
         /\ n < (n \div Every + 1) * Every
         /\ (n \div Every + 1) * Every <= n + Every
<1> DEFINE q == n \div Every
<1>1. Every \in Nat /\ Every > 0
  BY RoutinesAssumption
<1>2. q \in Nat /\ q * Every <= n /\ n < q * Every + Every
  BY <1>1
<1>3. (q + 1) * Every = q * Every + Every /\ q * Every \in Nat
  BY <1>1, <1>2
<1> QED
  BY <1>1, <1>2, <1>3

(* A routine's next time is after the time it is counted from, and is not  *)
(* further than the schedule's distance.                                   *)
LEMMA NextRunBounds ==
  ASSUME NEW schedule \in Schedules, NEW after \in Nat
  PROVE  /\ NextRun(schedule, after) \in Nat
         /\ after < NextRun(schedule, after)
         /\ NextRun(schedule, after) <= after + Every
BY NextMultiple, RoutinesAssumption DEF NextRun

LEMMA FollowingBounds ==
  ASSUME now \in 0..MaxTime, NEW row \in Rows, row.on, row.next <= now
  PROVE  Following(row) \in 1..(MaxTime + Every)
<1> DEFINE next == NextRun(row.schedule, row.next)
<1>1. row.schedule \in Schedules /\ row.next \in Nat /\ now \in Nat
      /\ now <= MaxTime /\ MaxTime \in Nat /\ Every \in Nat \ {0}
  BY RoutinesAssumption DEF Rows, Never
<1>2. next \in Nat /\ row.next < next /\ next <= row.next + Every
  BY <1>1, NextRunBounds
<1>3. now - row.next \in Nat
  BY <1>1
<1> DEFINE later == ((now - row.next) \div Every + 1) * Every
<1>4. later \in Nat /\ 0 < later /\ later <= now - row.next + Every
  <2>1. PICK n \in Nat : n = now - row.next
    BY <1>3
  <2>2. /\ (n \div Every + 1) * Every \in Nat
        /\ n < (n \div Every + 1) * Every
        /\ (n \div Every + 1) * Every <= n + Every
    BY NextMultiple
  <2>3. later = (n \div Every + 1) * Every
    BY <2>1
  <2> HIDE DEF later
  <2> QED
    BY <1>1, <2>1, <2>2, <2>3
<1>5. next \in 1..(MaxTime + Every) /\ row.next + later \in 1..(MaxTime + Every)
  BY <1>1, <1>2, <1>4
<1> QED
  BY <1>5 DEF Following

(* The row a fire saves is a row.                                          *)
LEMMA FiredRow ==
  ASSUME now \in 0..MaxTime, NEW fire,
         fire.row \in Rows, fire.at \in 0..MaxTime,
         fire.slot = 0 => fire.row.on /\ fire.row.next <= now
  PROVE  Fired(fire) \in Rows
<1> DEFINE next == IF ~fire.row.on THEN Never
                   ELSE IF fire.slot = 0 THEN Following(fire.row)
                   ELSE NextRun(fire.row.schedule, fire.at)
<1>1. CASE ~fire.row.on
  BY <1>1, RoutinesAssumption DEF Fired, Rows, Never
<1>2. CASE fire.row.on /\ fire.slot = 0
  <2>1. Following(fire.row) \in 1..(MaxTime + Every)
    BY <1>2, FollowingBounds
  <2> QED
    BY <1>2, <2>1, RoutinesAssumption DEF Fired, Rows, Never
<1>3. CASE fire.row.on /\ fire.slot # 0
  <2>1. NextRun(fire.row.schedule, fire.at) \in 1..(MaxTime + Every)
    BY NextRunBounds, RoutinesAssumption DEF Rows
  <2> QED
    BY <1>3, <2>1, RoutinesAssumption DEF Fired, Rows, Never
<1> QED
  BY <1>1, <1>2, <1>3

-----------------------------------------------------------------------------
(* Saving a fire keeps the routines and the tick's list of their types.    *)
LEMMA SaveStep ==
  ASSUME RoutinesTypeOK, NEW fire, fire.r \in RoutineIds, Save(fire),
         fire.row \in Rows, fire.at \in 0..MaxTime,
         fire.slot = 0 => fire.row.on /\ fire.row.next <= now
  PROVE  /\ routines' \in [RoutineIds -> Rows]
         /\ DOMAIN todo' \subseteq RoutineIds
         /\ \A r \in DOMAIN todo' : todo'[r] \in Rows
<1>1. Fired(fire) \in Rows
  BY FiredRow DEF RoutinesTypeOK
<1>2. routines' \in [RoutineIds -> Rows]
  BY <1>1 DEF Save, RoutinesTypeOK
<1>3. DOMAIN todo' \subseteq RoutineIds /\ \A r \in DOMAIN todo' : todo'[r] \in Rows
  BY <1>1 DEF Save, Continued, RoutinesTypeOK
<1> QED
  BY <1>2, <1>3

(* A new call is young, and if scheduled it is due; a skipped one as well. *)
LEMMA NewFireStep ==
  ASSUME RoutinesTypeOK, NEW r \in RoutineIds, NEW row \in Rows,
         NEW slot \in 0..MaxManual,
         slot = 0 => row.on /\ row.next <= now,
         Skip(NewFire(r, row, slot)) \/ Call(NewFire(r, row, slot))
  PROVE  /\ routines' \in [RoutineIds -> Rows]
         /\ DOMAIN todo' \subseteq RoutineIds
         /\ \A x \in DOMAIN todo' : todo'[x] \in Rows
         /\ \/ fires' = fires
            \/ /\ fires' = fires \cup {NewFire(r, row, slot)}
               /\ slot = 0 => now <= row.next + Late
<1> DEFINE fire == NewFire(r, row, slot)
<1>1. /\ fire.r = r /\ fire.row = row /\ fire.slot = slot /\ fire.at = now
      /\ now \in 0..MaxTime
  BY DEF NewFire, RoutinesTypeOK
<1>2. CASE Skip(fire)
  <2>1. PICK f : f = fire
    OBVIOUS
  <2>2. Save(f) /\ fires' = fires
    BY <1>2, <2>1 DEF Skip
  <2> QED
    BY <1>1, <2>1, <2>2, SaveStep
<1>3. CASE Call(fire)
  <2>1. slot = 0 => ~(now - row.next > Late)
    BY <1>1, <1>3 DEF Call, Missed
  <2>2. slot = 0 => now <= row.next + Late
    BY <1>1, <2>1, RoutinesAssumption DEF Rows, Never
  <2> QED
    BY <1>3, <2>2 DEF Call, RoutinesTypeOK
<1> QED
  BY <1>2, <1>3

-----------------------------------------------------------------------------
(* Each step keeps the invariant.                                          *)
LEMMA InitInv == Init => IInv
<1> SUFFICES ASSUME Init PROVE IInv
  OBVIOUS
<1>1. ASSUME NEW schedule \in Schedules
      PROVE  [here |-> TRUE, on |-> TRUE, schedule |-> schedule,
              next |-> NextRun(schedule, 0)] \in Rows
  <2>1. NextRun(schedule, 0) \in 1..Every
    BY NextRunBounds, RoutinesAssumption
  <2> QED
    BY <2>1, RoutinesAssumption DEF Rows, Never
<1>2. routines \in [RoutineIds -> Rows]
  BY <1>1 DEF Init
<1>3. inputs = <<>> /\ heard = <<>> /\ DOMAIN inputs = {} /\ fires = {} /\ DOMAIN todo = {}
  BY DEF Init
<1>4. RoutinesTypeOK
  <2>1. /\ inputs \in Seq([r : RoutineIds, key : Keys, due : 1..Never,
                         at : 0..MaxTime])
        /\ heard \in Seq(Outcomes \cup {"nothing"}) /\ Len(heard) = Len(inputs)
    BY <1>3, EmptySeq
  <2>2. /\ now \in 0..MaxTime /\ runs = {} /\ pending = {}
        /\ ticked \in BOOLEAN /\ up \in BOOLEAN
        /\ manual \in 0..MaxManual /\ troubles \in 0..MaxTroubles
    <3>1. now = 0 /\ runs = {} /\ pending = {} /\ manual = 0 /\ troubles = 0
      BY DEF Init
    <3>2. ticked = FALSE /\ up = TRUE
      BY DEF Init
    <3>3. ticked \in BOOLEAN /\ up \in BOOLEAN
      BY <3>2
    <3> QED
      BY <3>1, <3>3, RoutinesAssumption
  <2> QED
    BY <1>2, <1>3, <2>1, <2>2 DEF RoutinesTypeOK
<1> QED
  BY <1>3, <1>4 DEF IInv, Timely, KeysTellDue, OncePerDue

LEMMA AcceptStep ==
  ASSUME IInv, NEW fire \in fires, Accept(fire) PROVE IInv'
<1> USE RoutinesAssumption
<1>1. /\ fire \in [r : RoutineIds, row : Rows, slot : 0..MaxManual,
                  at : 0..MaxTime, input : DOMAIN inputs \cup {0}]
      /\ now \in 0..MaxTime /\ inputs \in Seq(InputRecords)
      /\ fire.at <= now /\ now <= fire.at + Patience
      /\ fire.slot = 0 => /\ fire.row.on /\ fire.row.next <= fire.at
                          /\ fire.at <= fire.row.next + Late
      /\ fire.row.next \in 1..Never
      /\ fire.row.on => fire.row.next # Never
  BY DEF IInv, RoutinesTypeOK, Timely, InputRecords, Rows
<1>2. CASE UNCHANGED <<inputs, heard>>
           /\ \E i \in DOMAIN inputs :
                fires' = (fires \ {fire}) \cup {[fire EXCEPT !.input = i]}
  <2>1. PICK i \in DOMAIN inputs :
          fires' = (fires \ {fire}) \cup {[fire EXCEPT !.input = i]}
    BY <1>2
  <2>2. RoutinesTypeOK'
    <3>1. UNCHANGED <<now, routines, runs, pending, todo, ticked, up, manual, troubles>>
      BY DEF Accept
    <3>2. [fire EXCEPT !.input = i] \in
            [r : RoutineIds, row : Rows, slot : 0..MaxManual,
             at : 0..MaxTime, input : DOMAIN inputs \cup {0}]
      BY <1>1
    <3>3. fires' \subseteq [r : RoutineIds, row : Rows, slot : 0..MaxManual,
                           at : 0..MaxTime, input : DOMAIN inputs \cup {0}]
      BY <2>1, <3>2 DEF IInv, RoutinesTypeOK
    <3> QED
      BY <1>2, <3>1, <3>3 DEF IInv, RoutinesTypeOK
  <2>3. Timely'
    BY <1>1, <1>2, <2>1 DEF Accept, IInv, Timely
  <2> QED
    BY <1>2, <2>2, <2>3 DEF Accept, IInv, KeysTellDue, OncePerDue
<1>3. CASE /\ \A i \in DOMAIN inputs : ~Knows(KeyOf(fire), i)
           /\ inputs' = Append(inputs, [r |-> fire.r, key |-> KeyOf(fire),
                                     due |-> IF fire.slot = 0 THEN fire.row.next
                                                              ELSE Never,
                                     at |-> now])
           /\ heard' = Append(heard, "nothing")
           /\ fires' = (fires \ {fire})
                          \cup {[fire EXCEPT !.input = Len(inputs) + 1]}
  <2> DEFINE new == [r |-> fire.r, key |-> KeyOf(fire),
                     due |-> IF fire.slot = 0 THEN fire.row.next ELSE Never,
                     at |-> now]
             n == Len(inputs)
  <2>1. KeyOf(fire) \in Keys /\ new \in InputRecords
    <3>1. Never \in Nat /\ Never > 0
      BY DEF Never
    <3>2. KeyOf(fire) \in Keys
      BY <1>1, <3>1 DEF KeyOf, Keys
    <3>3. (IF fire.slot = 0 THEN fire.row.next ELSE Never) \in 1..Never
      BY <1>1, <3>1
    <3> QED
      BY <1>1, <3>2, <3>3 DEF InputRecords
  <2>2. /\ n \in Nat /\ DOMAIN inputs = 1..n
        /\ inputs' \in Seq(InputRecords) /\ Len(inputs') = n + 1
        /\ DOMAIN inputs' = 1..(n + 1)
        /\ inputs'[n + 1] = new /\ \A i \in 1..n : inputs'[i] = inputs[i]
    BY <1>1, <1>3, <2>1, AppendProperties, SMTT(30)
  <2>3. /\ heard' \in Seq(Outcomes \cup {"nothing"})
        /\ Len(heard') = n + 1
    BY <1>3, AppendProperties, SMTT(30) DEF IInv, RoutinesTypeOK
  <2>4. RoutinesTypeOK'
    <3>1. UNCHANGED <<now, routines, runs, pending, todo, ticked, up, manual, troubles>>
      BY DEF Accept
    <3>2. fires' \subseteq [r : RoutineIds, row : Rows, slot : 0..MaxManual,
                     at : 0..MaxTime, input : (DOMAIN inputs)' \cup {0}]
      <4>1. \A f \in fires : f \in [r : RoutineIds, row : Rows, slot : 0..MaxManual,
                     at : 0..MaxTime, input : (DOMAIN inputs)' \cup {0}]
        BY <2>2 DEF IInv, RoutinesTypeOK
      <4>2. [fire EXCEPT !.input = n + 1] \in
              [r : RoutineIds, row : Rows, slot : 0..MaxManual,
               at : 0..MaxTime, input : (DOMAIN inputs)' \cup {0}]
        <5>1. n + 1 \in (DOMAIN inputs)'
          BY <2>2
        <5>2. [fire EXCEPT !.input = n + 1] =
                [r |-> fire.r, row |-> fire.row, slot |-> fire.slot,
                 at |-> fire.at, input |-> n + 1]
          <6>1. fire \in [r : RoutineIds, row : Rows, slot : 0..MaxManual,
                         at : 0..MaxTime, input : DOMAIN inputs \cup {0}]
            BY <1>1
          <6> HIDE DEF n
          <6> QED
            BY <6>1
        <5> QED
          BY <1>1, <5>1, <5>2
      <4> QED
        BY <1>3, <4>1, <4>2
    <3>3. /\ runs' \subseteq RunRecords((DOMAIN inputs)')
          /\ pending' \subseteq [input : (DOMAIN inputs)', outcome : Outcomes, at : 0..MaxTime]
      BY <3>1, <2>2 DEF IInv, RoutinesTypeOK, RunRecords
    <3> QED
      BY <2>2, <2>3, <3>1, <3>2, <3>3 DEF IInv, RoutinesTypeOK, InputRecords, RunRecords
  <2>5. Timely'
    BY <1>1, <1>3 DEF Accept, IInv, Timely
  <2>6. /\ new.at <= now
        /\ new.due # Never =>
             /\ new.key = [r |-> new.r, slot |-> 0, due |-> new.due]
             /\ new.due <= new.at /\ new.at <= new.due + Late + Patience
    BY <1>1 DEF KeyOf, Never
  <2>7. KeysTellDue'
    BY <2>2, <2>6, SMTT(30) DEF Accept, IInv, KeysTellDue
  <2>8. ASSUME NEW i \in 1..n, new.due # Never,
               inputs[i].r = new.r, inputs[i].due = new.due
        PROVE  FALSE
    <3>1. /\ inputs[i].key = new.key
          /\ inputs[i].due <= inputs[i].at
      BY <2>2, <2>6, <2>8 DEF IInv, KeysTellDue
    <3>2. inputs[i].at \in Nat /\ inputs[i].due \in Nat
      <4>1. inputs[i] \in InputRecords
        BY <1>1, <2>2, ElementOfSeq
      <4> QED
        BY <4>1, SMTT(30) DEF InputRecords, Never
    <3>3. now - inputs[i].at < Day
      <4>1. now <= inputs[i].due + Late + Patience
        BY <2>6, <2>8
      <4>2. inputs[i].due <= inputs[i].at
        BY <3>1
      <4>3. now \in Nat
        BY <1>1
      <4> HIDE DEF new, n
      <4> QED
        BY <3>2, <4>1, <4>2, <4>3
    <3> QED
      BY <1>3, <2>2, <3>1, <3>3 DEF Knows
  <2>9. OncePerDue'
    BY <2>2, <2>8 DEF IInv, OncePerDue
  <2> QED
    BY <2>4, <2>5, <2>7, <2>9 DEF IInv
<1> QED
  BY <1>2, <1>3 DEF Accept

(* A delivered run is about an input, with the status it was given.        *)
LEMMA DeliveredRuns ==
  ASSUME RoutinesTypeOK, NEW fire, fire.input \in DOMAIN inputs, fire.at \in 0..MaxTime
  PROVE  Delivered(fire) \subseteq RunRecords(DOMAIN inputs)
<1> DEFINE kept == {finish \in pending : /\ finish.input = fire.input
                                         /\ now - finish.at < Keep}
<1>1. kept # {} => (CHOOSE finish \in kept : TRUE) \in kept
  OBVIOUS
<1>2. kept # {} => (CHOOSE finish \in kept : TRUE).outcome \in Outcomes
  BY <1>1 DEF RoutinesTypeOK
<1> QED
  BY <1>2, SMTT(30) DEF Delivered, RoutinesTypeOK, RunRecords

LEMMA ReceiptStep ==
  ASSUME IInv, NEW fire \in fires, Receipt(fire) PROVE IInv'
<1> USE RoutinesAssumption
<1>1. /\ fire.r \in RoutineIds /\ fire.row \in Rows /\ fire.at \in 0..MaxTime
      /\ fire.input \in DOMAIN inputs
      /\ fire.slot = 0 => fire.row.on /\ fire.row.next <= now
  <2>1. /\ fire \in [r : RoutineIds, row : Rows, slot : 0..MaxManual,
                   at : 0..MaxTime, input : DOMAIN inputs \cup {0}]
        /\ now \in 0..MaxTime /\ fire.at <= now
        /\ fire.slot = 0 => fire.row.on /\ fire.row.next <= fire.at
    BY DEF IInv, RoutinesTypeOK, Timely
  <2>2. fire.row.next \in Nat
    BY <2>1 DEF Rows, Never
  <2> QED
    BY <2>1, <2>2 DEF Receipt
<1>2. /\ routines' \in [RoutineIds -> Rows] /\ DOMAIN todo' \subseteq RoutineIds
      /\ \A r \in DOMAIN todo' : todo'[r] \in Rows
  BY <1>1, SaveStep DEF Receipt, IInv
<1>3. runs' \subseteq RunRecords(DOMAIN inputs)
  BY <1>1, DeliveredRuns DEF Receipt, IInv
<1>4. /\ UNCHANGED <<now, ticked, up, inputs, heard, manual, troubles>>
      /\ pending' \subseteq pending /\ fires' \subseteq fires
  BY DEF Receipt
<1>5. RoutinesTypeOK'
  BY <1>2, <1>3, <1>4 DEF IInv, RoutinesTypeOK, RunRecords
<1> QED
  BY <1>4, <1>5 DEF IInv, Timely, KeysTellDue, OncePerDue

LEMMA CallFailsStep ==
  ASSUME IInv, NEW fire \in fires, CallFails(fire) PROVE IInv'
<1> USE RoutinesAssumption
<1>1. /\ fire.r \in RoutineIds /\ fire.row \in Rows /\ fire.at \in 0..MaxTime
      /\ fire.slot = 0 => fire.row.on /\ fire.row.next <= now
  <2>1. /\ fire \in [r : RoutineIds, row : Rows, slot : 0..MaxManual,
                   at : 0..MaxTime, input : DOMAIN inputs \cup {0}]
        /\ now \in 0..MaxTime /\ fire.at <= now
        /\ fire.slot = 0 => fire.row.on /\ fire.row.next <= fire.at
    BY DEF IInv, RoutinesTypeOK, Timely
  <2>2. fire.row.next \in Nat
    BY <2>1 DEF Rows, Never
  <2> QED
    BY <2>1, <2>2
<1>2. /\ routines' \in [RoutineIds -> Rows] /\ DOMAIN todo' \subseteq RoutineIds
      /\ \A r \in DOMAIN todo' : todo'[r] \in Rows
  BY <1>1, SaveStep DEF CallFails, IInv
<1>3. /\ UNCHANGED <<now, runs, pending, ticked, up, inputs, heard, manual>>
      /\ fires' \subseteq fires /\ troubles' \in 0..MaxTroubles
  BY DEF CallFails, Trouble, IInv, RoutinesTypeOK
<1>4. RoutinesTypeOK'
  BY <1>2, <1>3 DEF IInv, RoutinesTypeOK
<1> QED
  BY <1>3, <1>4 DEF IInv, Timely, KeysTellDue, OncePerDue

(* A step that starts no call, accepts nothing and moves no time keeps     *)
(* what is said of calls and inputs.                                       *)
LEMMA SameCalls ==
  ASSUME IInv, RoutinesTypeOK', fires' \subseteq fires, UNCHANGED <<now, inputs>>
  PROVE  IInv'
BY DEF IInv, Timely, KeysTellDue, OncePerDue

(* A step that starts a call which is due, if scheduled, keeps it too.     *)
LEMMA NewCall ==
  ASSUME IInv, RoutinesTypeOK', UNCHANGED <<now, inputs>>,
         NEW r \in RoutineIds, NEW row \in Rows, NEW slot \in 0..MaxManual,
         slot = 0 => row.on /\ row.next <= now,
         \/ fires' = fires
         \/ /\ fires' = fires \cup {NewFire(r, row, slot)}
            /\ slot = 0 => now <= row.next + Late
  PROVE  IInv'
<1>1. now \in Nat /\ Patience \in Nat
  BY RoutinesAssumption DEF IInv, RoutinesTypeOK
<1>2. Timely'
  BY <1>1 DEF IInv, Timely, NewFire
<1> QED
  BY <1>2 DEF IInv, KeysTellDue, OncePerDue

LEMMA NextInv == IInv /\ [Next]_vars => IInv'
<1> SUFFICES ASSUME IInv, [Next]_vars PROVE IInv'
  OBVIOUS
<1> USE RoutinesAssumption
<1>0. RoutinesTypeOK /\ now \in 0..MaxTime /\ now \in Nat
  BY DEF IInv, RoutinesTypeOK
<1>1. CASE UNCHANGED vars
  BY <1>1 DEF vars, IInv, RoutinesTypeOK, Timely, KeysTellDue, OncePerDue
<1>2. ASSUME NEW r \in RoutineIds, TickPasses(r) PROVE IInv'
  <2>1. RoutinesTypeOK'
    BY <1>2 DEF TickPasses, IInv, RoutinesTypeOK
  <2> QED
    BY <1>2, <2>1, SameCalls DEF TickPasses
<1>3. ASSUME NEW r \in RoutineIds, TickFires(r) PROVE IInv'
  <2>1. PICK row : row = todo[r]
    OBVIOUS
  <2>2. row \in Rows /\ row.next <= now
    BY <1>3, <2>1 DEF TickFires, IsDue, IInv, RoutinesTypeOK
  <2>3. row.on
    BY <1>0, <2>2 DEF Rows, Never
  <2>4. /\ UNCHANGED <<now, runs, pending, ticked, up, inputs, heard, manual, troubles>>
        /\ Skip(NewFire(r, row, 0)) \/ Call(NewFire(r, row, 0))
    BY <1>3, <2>1 DEF TickFires
  <2>5. /\ routines' \in [RoutineIds -> Rows] /\ DOMAIN todo' \subseteq RoutineIds
        /\ \A x \in DOMAIN todo' : todo'[x] \in Rows
        /\ \/ fires' = fires
           \/ /\ fires' = fires \cup {NewFire(r, row, 0)}
              /\ now <= row.next + Late
    BY <1>0, <2>2, <2>3, <2>4, NewFireStep
  <2>6. RoutinesTypeOK'
    BY <1>0, <2>2, <2>4, <2>5 DEF NewFire, IInv, RoutinesTypeOK
  <2> QED
    BY <2>2, <2>3, <2>4, <2>5, <2>6, NewCall
<1>4. ASSUME NEW r \in RoutineIds, Run(r) PROVE IInv'
  <2>1. PICK row, slot : row = routines[r] /\ slot = manual + 1
    OBVIOUS
  <2>2. row \in Rows /\ slot \in 0..MaxManual /\ slot # 0 /\ manual' = slot
    BY <1>4, <2>1 DEF Run, IInv, RoutinesTypeOK
  <2>3. /\ UNCHANGED <<now, runs, pending, ticked, up, inputs, heard, troubles>>
        /\ Skip(NewFire(r, row, slot)) \/ Call(NewFire(r, row, slot))
    BY <1>4, <2>1 DEF Run
  <2>4. /\ routines' \in [RoutineIds -> Rows] /\ DOMAIN todo' \subseteq RoutineIds
        /\ \A x \in DOMAIN todo' : todo'[x] \in Rows
        /\ fires' = fires \/ fires' = fires \cup {NewFire(r, row, slot)}
    BY <1>0, <2>2, <2>3, NewFireStep
  <2>5. RoutinesTypeOK'
    BY <1>0, <2>2, <2>3, <2>4, SMTT(30) DEF NewFire, IInv, RoutinesTypeOK
  <2> QED
    BY <2>2, <2>3, <2>4, <2>5, NewCall
<1>5. ASSUME NEW r \in RoutineIds, NEW on \in BOOLEAN, NEW schedule \in Schedules,
             Patch(r, on, schedule)
      PROVE  IInv'
  <2>1. NextRun(schedule, now) \in 1..(MaxTime + Every)
    BY <1>0, NextRunBounds
  <2>2. Patched(on, schedule) \in Rows
    BY <2>1 DEF Patched, Rows, Never
  <2>3. RoutinesTypeOK'
    BY <1>5, <2>2 DEF Patch, Trouble, IInv, RoutinesTypeOK
  <2> QED
    BY <1>5, <2>3, SameCalls DEF Patch
<1>6. ASSUME NEW r \in RoutineIds, Delete(r) PROVE IInv'
  <2>1. Gone \in Rows
    BY DEF Gone, Rows, Never, Schedules
  <2>2. RoutinesTypeOK'
    BY <1>6, <2>1 DEF Delete, Trouble, IInv, RoutinesTypeOK
  <2> QED
    BY <1>6, <2>2, SameCalls DEF Delete
<1>7. ASSUME NEW fire \in fires, FireStep(fire) PROVE IInv'
  BY <1>7, AcceptStep, ReceiptStep, CallFailsStep DEF FireStep
<1>8. ASSUME NEW i \in DOMAIN inputs, NEW outcome \in Outcomes, FinishRun(i, outcome)
      PROVE  IInv'
  <2>1. Applied(i, outcome) \subseteq RunRecords(DOMAIN inputs)
    BY DEF Applied, IInv, RoutinesTypeOK, RunRecords
  <2>2. Kept(i, outcome) \subseteq
          [input : DOMAIN inputs, outcome : Outcomes, at : 0..MaxTime]
    BY <1>0 DEF Kept, IInv, RoutinesTypeOK
  <2>3. /\ heard' \in Seq(Outcomes \cup {"nothing"})
        /\ Len(heard') = Len(heard)
    <3>1. i \in 1..Len(heard)
      BY DEF IInv, RoutinesTypeOK
    <3>2. PICK h \in Outcomes : heard' = [heard EXCEPT ![i] = h]
      BY <1>8 DEF FinishRun, Outcomes
    <3> QED
      BY <3>1, <3>2, ExceptSeq DEF IInv, RoutinesTypeOK
  <2>4. RoutinesTypeOK'
    BY <1>8, <2>1, <2>2, <2>3 DEF FinishRun, IInv, RoutinesTypeOK, RunRecords
  <2> QED
    BY <1>8, <2>4, SameCalls DEF FinishRun
<1>13. ASSUME NEW i \in DOMAIN inputs, NEW outcome \in Outcomes, FinishTurn(i, outcome)
       PROVE  IInv'
  <2>1. Left(i, outcome) \subseteq RunRecords(DOMAIN inputs)
    BY DEF Left, IInv, RoutinesTypeOK, RunRecords
  <2>2. /\ heard' \in Seq(Outcomes \cup {"nothing"})
        /\ Len(heard') = Len(heard)
    <3>1. i \in 1..Len(heard)
      BY DEF IInv, RoutinesTypeOK
    <3>2. heard' = [heard EXCEPT ![i] = outcome]
      BY <1>13 DEF FinishTurn
    <3> QED
      BY <3>1, <3>2, ExceptSeq DEF IInv, RoutinesTypeOK
  <2>3. RoutinesTypeOK'
    BY <1>13, <2>1, <2>2 DEF FinishTurn, IInv, RoutinesTypeOK, RunRecords
  <2> QED
    BY <1>13, <2>3, SameCalls DEF FinishTurn
<1>9. CASE TickBegins
  <2>1. RoutinesTypeOK'
    BY <1>9 DEF TickBegins, IInv, RoutinesTypeOK
  <2> QED
    BY <1>9, <2>1, SameCalls DEF TickBegins
<1>10. CASE Crash
  <2>1. runs' \subseteq RunRecords(DOMAIN inputs)
    <3>1. ASSUME NEW fire \in fires, fire.input # 0
          PROVE  fire.input \in DOMAIN inputs /\ fire.at \in 0..MaxTime
      BY <3>1 DEF IInv, RoutinesTypeOK
    <3> QED
      BY <1>0, <1>10, <3>1, DeliveredRuns, SMTT(30) DEF Crash, RoutinesTypeOK, RunRecords
  <2>2. /\ heard' \in Seq(Outcomes \cup {"nothing"})
        /\ Len(heard') = Len(heard)
    <3>1. Len(heard) \in Nat /\ DOMAIN heard = 1..Len(heard)
          /\ \A i \in 1..Len(heard) : heard[i] \in Outcomes \cup {"nothing"}
      BY ElementOfSeq, LenProperties DEF IInv, RoutinesTypeOK
    <3>2. heard' = [i \in 1..Len(heard) |-> IF \E run \in runs' : run.input = i
                                           THEN heard[i] ELSE "nothing"]
      BY <1>10, <3>1 DEF Crash
    <3> QED
      BY <3>1, <3>2, IsASeq, LenProperties
  <2>3. /\ UNCHANGED <<now, routines, ticked, inputs, manual>>
        /\ pending' = {} /\ DOMAIN todo' = {} /\ fires' = {} /\ up' = FALSE
        /\ troubles' \in 0..MaxTroubles
    BY <1>10 DEF Crash, Trouble, IInv, RoutinesTypeOK
  <2>4. RoutinesTypeOK'
    BY <2>1, <2>2, <2>3 DEF IInv, RoutinesTypeOK, RunRecords
  <2> QED
    BY <2>3, <2>4, SameCalls
<1>11. CASE Start
  <2>1. RoutinesTypeOK'
    BY <1>11 DEF Start, IInv, RoutinesTypeOK
  <2> QED
    BY <1>11, <2>1, SameCalls DEF Start
<1>12. CASE Advance
  <2>1. RoutinesTypeOK'
    <3>1. /\ now < MaxTime /\ now' = now + 1 /\ ticked' = FALSE
          /\ UNCHANGED <<routines, runs, pending, todo, fires, up, inputs, heard,
                         manual, troubles>>
      BY <1>12 DEF Advance
    <3>2. now' \in 0..MaxTime
      BY <1>0, <3>1
    <3>3. ticked' \in BOOLEAN
      BY <3>1
    <3> QED
      BY <1>0, <3>1, <3>2, <3>3 DEF RoutinesTypeOK
  <2>2. Timely'
    <3>1. \A fire \in fires : fire.at \in Nat
      BY DEF IInv, RoutinesTypeOK
    <3> QED
      BY <1>0, <1>12, <3>1 DEF Advance, IInv, Timely
  <2>3. KeysTellDue'
    <3>1. \A i \in DOMAIN inputs : inputs[i].at \in Nat
      <4>1. inputs \in Seq(InputRecords)
        BY DEF IInv, RoutinesTypeOK, InputRecords
      <4>2. \A i \in DOMAIN inputs : inputs[i] \in InputRecords
        BY <4>1, ElementOfSeq, LenProperties
      <4> QED
        BY <4>2 DEF InputRecords
    <3> QED
      BY <1>0, <1>12, <3>1 DEF Advance, IInv, KeysTellDue
  <2> QED
    BY <1>12, <2>1, <2>2, <2>3 DEF Advance, IInv, OncePerDue
<1> QED
  BY <1>1, <1>2, <1>3, <1>4, <1>5, <1>6, <1>7, <1>8, <1>9, <1>10, <1>11, <1>12,
     <1>13
  DEF Next, RoutineStep

-----------------------------------------------------------------------------
(* The state of the routines is of its type, and a routine has a next time *)
(* exactly when it is on, whichever saves overlap (routines.ts, fire).     *)
THEOREM TypeCorrect == Spec => []RoutinesTypeOK
<1>1. IInv => RoutinesTypeOK
  BY DEF IInv
<1> QED
  BY InitInv, NextInv, <1>1, PTL DEF Spec

(* A due time of a routine reaches its bot at most once: a fire that comes *)
(* again, after a crash or over a row saved too late, comes with the same  *)
(* key, and in time for the bot to know it (fire's key and its 15 minutes; *)
(* the queue's day).                                                       *)
THEOREM DueOnce == Spec => []OncePerDue
<1>1. IInv => OncePerDue
  BY DEF IInv
<1> QED
  BY InitInv, NextInv, <1>1, PTL DEF Spec

-----------------------------------------------------------------------------
(* What becomes of a finish.                                               *)

(* Since the bot accepted an input no finish of it expired.                *)
Fresh(i) == now < inputs[i].at + Keep
HasRun(i) == \E run \in runs : run.input = i
Shown(outcome) == IF outcome = "nothing" THEN "delivered" ELSE outcome

(* A kept finish is what was last heard of its input, which has no run;    *)
(* until it expires, it is kept for as long as no run could show it.       *)
PendingHeard ==
  \A finish \in pending :
    /\ inputs[finish.input].at <= finish.at /\ finish.at <= now
    /\ heard[finish.input] # "nothing" /\ ~HasRun(finish.input)
    /\ Fresh(finish.input) => finish.outcome = heard[finish.input]
HeardKept ==
  \A i \in DOMAIN inputs :
    heard[i] # "nothing" /\ Fresh(i) /\ ~HasRun(i)
      => \E finish \in pending : finish.input = i
RunsShow == \A run \in runs : InTime(run) => run.status = Shown(heard[run.input])

FinishInv == PendingHeard /\ HeardKept /\ RunsShow

LEMMA Typed ==
  ASSUME IInv
  PROVE  /\ now \in Nat /\ Keep \in Nat /\ Patience \in Nat
         /\ DOMAIN inputs = 1..Len(inputs) /\ Len(inputs) \in Nat
         /\ DOMAIN heard = DOMAIN inputs
         /\ \A i \in DOMAIN inputs : /\ inputs[i].at \in Nat /\ inputs[i].at <= now
                                     /\ heard[i] \in Outcomes \cup {"nothing"}
         /\ \A finish \in pending : /\ finish.input \in DOMAIN inputs
                                    /\ finish.outcome \in Outcomes /\ finish.at \in Nat
         /\ \A run \in runs : run.input \in DOMAIN inputs /\ run.at \in Nat
         /\ \A fire \in fires : /\ fire.input \in DOMAIN inputs \cup {0}
                                /\ fire.at \in Nat /\ now <= fire.at + Patience
<1>1. /\ inputs \in Seq(InputRecords) /\ heard \in Seq(Outcomes \cup {"nothing"})
      /\ Len(heard) = Len(inputs)
  BY DEF IInv, RoutinesTypeOK, InputRecords
<1>2. \A i \in DOMAIN inputs : inputs[i] \in InputRecords
  BY <1>1, ElementOfSeq, LenProperties
<1>3. \A i \in DOMAIN inputs : inputs[i].at \in Nat /\ inputs[i].at <= now
  <2>1. \A i \in DOMAIN inputs : inputs[i].at <= now
    BY Zenon DEF IInv, KeysTellDue
  <2> QED
    BY <1>2, <2>1 DEF InputRecords
<1>4. /\ DOMAIN inputs = 1..Len(inputs) /\ Len(inputs) \in Nat
      /\ DOMAIN heard = DOMAIN inputs
      /\ \A i \in DOMAIN inputs : heard[i] \in Outcomes \cup {"nothing"}
  BY <1>1
<1> QED
  BY <1>2, <1>3, <1>4, RoutinesAssumption DEF IInv, RoutinesTypeOK, Timely

(* When no run and no finish is new, and none went but by its age, what    *)
(* the gateway heard still shows.                                          *)
LEMMA PruneKeeps ==
  ASSUME IInv, FinishInv, UNCHANGED <<inputs, heard, runs>>,
         now' \in Nat, now <= now', pending' \subseteq pending,
         \A finish \in pending : finish \in pending' \/ ~(now - finish.at < Keep)
  PROVE  FinishInv'
<1> USE Typed
<1>1. \A i \in DOMAIN inputs : Fresh(i)' => Fresh(i)
  BY DEF Fresh
<1>2. PendingHeard'
  BY <1>1 DEF FinishInv, PendingHeard, HasRun
<1>3. HeardKept'
  <2> SUFFICES ASSUME NEW i \in DOMAIN inputs, heard[i] # "nothing", Fresh(i),
                      ~HasRun(i)
               PROVE  \E finish \in pending' : finish.input = i
    BY <1>1 DEF HeardKept, HasRun
  <2>1. PICK finish \in pending : finish.input = i
    BY DEF FinishInv, HeardKept
  <2>2. now - finish.at < Keep
    BY <2>1 DEF FinishInv, PendingHeard, Fresh
  <2> QED
    BY <2>1, <2>2
<1>4. RunsShow'
  BY DEF FinishInv, RunsShow, InTime
<1> QED
  BY <1>2, <1>3, <1>4 DEF FinishInv

(* A bot that accepts something new has not finished it.                   *)
LEMMA AcceptKeeps ==
  ASSUME IInv, FinishInv, NEW fire \in fires, Accept(fire)
  PROVE  FinishInv'
<1>1. UNCHANGED <<now, runs, pending>>
  BY DEF Accept
<1>2. CASE UNCHANGED <<inputs, heard>>
  BY <1>1, <1>2, Typed, PruneKeeps
<1>3. CASE ~UNCHANGED <<inputs, heard>>
  <2>1. PICK new : inputs' = Append(inputs, new) /\ heard' = Append(heard, "nothing")
    BY <1>3 DEF Accept
  <2>2. /\ inputs \in Seq(InputRecords) /\ heard \in Seq(Outcomes \cup {"nothing"})
        /\ Len(heard) = Len(inputs)
    BY DEF IInv, RoutinesTypeOK, InputRecords
  <2>3. /\ \A i \in DOMAIN inputs : inputs'[i] = inputs[i] /\ heard'[i] = heard[i]
        /\ \A i \in DOMAIN inputs' \ DOMAIN inputs : heard'[i] = "nothing"
    <3>1. /\ DOMAIN inputs = 1..Len(inputs) /\ DOMAIN heard = 1..Len(inputs)
          /\ Len(inputs) \in Nat
      BY <2>2, Typed
    <3>2. /\ DOMAIN inputs' = 1..(Len(inputs) + 1)
          /\ \A i \in 1..Len(inputs) : inputs'[i] = inputs[i]
      BY <2>1, <2>2
    <3>3. /\ \A i \in 1..Len(inputs) : heard'[i] = heard[i]
          /\ heard'[Len(inputs) + 1] = "nothing"
      BY <2>1, <2>2
    <3> QED
      BY <3>1, <3>2, <3>3
  <2>4. PendingHeard'
    BY <1>1, <2>3, Typed DEF FinishInv, PendingHeard, Fresh, HasRun
  <2>5. HeardKept'
    BY <1>1, <2>3, Typed DEF FinishInv, HeardKept, Fresh, HasRun
  <2>6. RunsShow'
    BY <1>1, <2>3, Typed DEF FinishInv, RunsShow, InTime
  <2> QED
    BY <2>4, <2>5, <2>6 DEF FinishInv
<1> QED
  BY <1>2, <1>3

(* A new run shows what was heard before it: its call ended early enough   *)
(* that no finish expired, and of those kept each is what was last heard.  *)
LEMMA DeliveredShows ==
  ASSUME IInv, FinishInv, NEW fire \in fires, fire.input # 0
  PROVE  /\ \A run \in Delivered(fire) :
              /\ run \in runs \/ run.input = fire.input
              /\ InTime(run) => run.status = Shown(heard[run.input])
         /\ runs \subseteq Delivered(fire)
         /\ \E run \in Delivered(fire) : run.input = fire.input
<1> USE Typed
<1> DEFINE i == fire.input
           kept == {finish \in pending : finish.input = i /\ now - finish.at < Keep}
           status == IF kept = {} THEN "delivered"
                     ELSE (CHOOSE finish \in kept : TRUE).outcome
           new == [input |-> i, at |-> fire.at, status |-> status]
<1>1. Delivered(fire) = IF HasRun(i) THEN runs ELSE runs \cup {new}
  BY DEF Delivered, HasRun
<1>2. ASSUME ~HasRun(i), fire.at + Patience < inputs[i].at + Keep
      PROVE  status = Shown(heard[i])
  <2>1. Fresh(i) /\ i \in DOMAIN inputs
    BY <1>2 DEF Fresh
  <2>2. \A finish \in kept : finish.outcome = heard[i] /\ heard[i] # "nothing"
    BY <2>1 DEF FinishInv, PendingHeard
  <2>3. heard[i] # "nothing" => kept # {}
    <3> SUFFICES ASSUME heard[i] # "nothing" PROVE kept # {}
      OBVIOUS
    <3>1. PICK finish \in pending : finish.input = i
      BY <1>2, <2>1 DEF FinishInv, HeardKept
    <3>2. now - finish.at < Keep
      BY <2>1, <3>1 DEF FinishInv, PendingHeard, Fresh
    <3> QED
      BY <3>1, <3>2
  <2>4. kept # {} => (CHOOSE finish \in kept : TRUE) \in kept
    OBVIOUS
  <2> HIDE DEF kept, i
  <2> QED
    BY <2>2, <2>3, <2>4 DEF Shown
<1>3. InTime(new) <=> fire.at + Patience < inputs[i].at + Keep
  BY DEF InTime
<1> HIDE DEF status
<1> QED
  BY <1>1, <1>2, <1>3 DEF FinishInv, RunsShow, HasRun

LEMMA ReceiptKeeps ==
  ASSUME IInv, FinishInv, NEW fire \in fires, Receipt(fire)
  PROVE  FinishInv'
<1> USE Typed
<1>1. /\ UNCHANGED <<now, inputs, heard>> /\ fire.input # 0
      /\ runs' = Delivered(fire)
      /\ pending' = {finish \in pending : /\ finish.input # fire.input
                                          /\ now - finish.at < Keep}
  BY DEF Receipt
<1>2. PendingHeard'
  BY <1>1, DeliveredShows DEF FinishInv, PendingHeard, Fresh, HasRun
<1>3. HeardKept'
  <2> SUFFICES ASSUME NEW i \in DOMAIN inputs, heard[i] # "nothing", Fresh(i),
                      ~\E run \in runs' : run.input = i
               PROVE  \E finish \in pending' : finish.input = i
    BY <1>1 DEF HeardKept, HasRun, Fresh
  <2>1. i # fire.input /\ ~HasRun(i)
    BY <1>1, DeliveredShows DEF HasRun
  <2>2. PICK finish \in pending : finish.input = i
    BY <2>1 DEF FinishInv, HeardKept
  <2>3. now - finish.at < Keep
    BY <2>2 DEF FinishInv, PendingHeard, Fresh
  <2> QED
    BY <1>1, <2>1, <2>2, <2>3
<1>4. RunsShow'
  BY <1>1, DeliveredShows DEF RunsShow, InTime
<1> QED
  BY <1>2, <1>3, <1>4 DEF FinishInv

(* A finish is shown by the run that is there, or kept; one that completed *)
(* is not heard otherwise again.                                           *)
LEMMA FinishKeeps ==
  ASSUME IInv, FinishInv, NEW i \in DOMAIN inputs, NEW outcome \in Outcomes,
         FinishRun(i, outcome)
  PROVE  FinishInv'
<1> USE Typed
<1> DEFINE fresh == {finish \in pending : now - finish.at < Keep}
<1>1. /\ UNCHANGED <<now, inputs>>
      /\ heard' = [heard EXCEPT ![i] = IF @ = "completed" THEN @ ELSE outcome]
      /\ runs' = Applied(i, outcome)
      /\ pending' = IF HasRun(i) THEN fresh ELSE Kept(i, outcome)
  BY DEF FinishRun, HasRun
<1>2. /\ heard'[i] = (IF heard[i] = "completed" THEN "completed" ELSE outcome)
      /\ \A j \in DOMAIN inputs \ {i} : heard'[j] = heard[j]
      /\ outcome # "nothing"
  BY <1>1 DEF Outcomes
<1> DEFINE after(run) == IF run.input = i /\ run.status # "completed"
                         THEN [run EXCEPT !.status = outcome] ELSE run
<1>3. runs' = {after(run) : run \in runs}
  BY <1>1, Zenon DEF Applied
<1>4. ASSUME NEW run \in runs
      PROVE  /\ run.input \in DOMAIN inputs
             /\ after(run).input = run.input /\ after(run).at = run.at
             /\ after(run).status = IF run.input = i /\ run.status # "completed"
                                    THEN outcome ELSE run.status
  <2>1. run \in RunRecords(DOMAIN inputs)
    BY DEF IInv, RoutinesTypeOK, RunRecords
  <2> QED
    BY <2>1 DEF RunRecords
<1> HIDE DEF after
<1>5. \A j \in DOMAIN inputs : HasRun(j)' <=> HasRun(j)
  <2>1. /\ \A run \in runs : after(run) \in runs'
        /\ \A next \in runs' : \E run \in runs : next = after(run)
    BY <1>3, Zenon
  <2>2. \A run \in runs : after(run).input = run.input
    BY <1>4
  <2> QED
    BY <2>1, <2>2, Zenon DEF HasRun
<1>6. \A finish \in pending : Fresh(finish.input) => finish \in fresh
  BY DEF FinishInv, PendingHeard, Fresh
<1>7. RunsShow'
  <2> SUFFICES ASSUME NEW run \in runs, InTime(run)
               PROVE  LET shown == IF run.input = i /\ run.status # "completed"
                                   THEN outcome ELSE run.status
                      IN  shown = Shown(heard'[run.input])
    <3>1. \A run \in runs : InTime(after(run))' <=> InTime(run)
      BY <1>1, <1>4 DEF InTime
    <3> QED
      BY <1>3, <1>4, <3>1 DEF RunsShow
  <2>1. run.status = Shown(heard[run.input]) /\ run.input \in DOMAIN inputs
    BY DEF FinishInv, RunsShow
  <2>2. CASE run.input # i
    BY <1>2, <2>1, <2>2
  <2>3. CASE run.input = i
    BY <1>2, <2>1, <2>3 DEF Shown, Outcomes
  <2> QED
    BY <2>2, <2>3
<1>8. CASE HasRun(i)
  <2>1. PendingHeard'
    BY <1>1, <1>2, <1>5, <1>8 DEF FinishInv, PendingHeard, Fresh
  <2>2. HeardKept'
    BY <1>1, <1>2, <1>5, <1>6, <1>8 DEF FinishInv, HeardKept, Fresh
  <2> QED
    BY <1>7, <2>1, <2>2 DEF FinishInv
<1>9. CASE ~HasRun(i)
  <2>1. CASE \E finish \in fresh : finish.input = i /\ finish.outcome # "failed"
    <3>1. pending' = fresh
      BY <1>1, <1>9, <2>1 DEF Kept
    <3>2. PICK prior \in fresh : prior.input = i /\ prior.outcome = "completed"
      BY <2>1 DEF Outcomes
    <3>3. Fresh(i) => heard[i] = "completed"
      BY <3>2 DEF FinishInv, PendingHeard
    <3>4. PendingHeard'
      BY <1>1, <1>2, <1>5, <3>1, <3>3 DEF FinishInv, PendingHeard, Fresh
    <3>5. HeardKept'
      BY <1>1, <1>2, <1>5, <1>6, <3>1, <3>2 DEF FinishInv, HeardKept, Fresh
    <3> QED
      BY <1>7, <3>4, <3>5 DEF FinishInv
  <2>2. CASE ~\E finish \in fresh : finish.input = i /\ finish.outcome # "failed"
    <3> DEFINE new == [input |-> i, outcome |-> outcome, at |-> now]
    <3>1. pending' = {finish \in fresh : finish.input # i} \cup {new}
      BY <1>1, <1>9, <2>2 DEF Kept
    <3>2. Fresh(i) => heard[i] # "completed"
      <4> SUFFICES ASSUME Fresh(i), heard[i] = "completed" PROVE FALSE
        OBVIOUS
      <4>1. PICK finish \in pending : finish.input = i
        BY <1>9 DEF FinishInv, HeardKept
      <4>2. finish \in fresh /\ finish.outcome = "completed"
        BY <1>6, <4>1 DEF FinishInv, PendingHeard
      <4> QED
        BY <2>2, <4>1, <4>2
    <3>3. PendingHeard'
      <4>1. ASSUME NEW finish \in pending, finish.input # i
            PROVE  /\ inputs'[finish.input].at <= finish.at /\ finish.at <= now'
                   /\ heard'[finish.input] # "nothing" /\ ~HasRun(finish.input)'
                   /\ Fresh(finish.input)' => finish.outcome = heard'[finish.input]
        BY <1>1, <1>2, <1>5, <4>1 DEF FinishInv, PendingHeard, Fresh
      <4>2. /\ inputs'[i].at <= now /\ now <= now' /\ heard'[i] # "nothing"
            /\ ~HasRun(i)'
            /\ Fresh(i)' => outcome = heard'[i]
        BY <1>1, <1>2, <1>5, <1>9, <3>2 DEF Fresh
      <4> QED
        BY <3>1, <4>1, <4>2 DEF PendingHeard
    <3>4. HeardKept'
      <4> SUFFICES ASSUME NEW j \in DOMAIN inputs, heard'[j] # "nothing", Fresh(j),
                          ~HasRun(j)
                   PROVE  \E finish \in pending' : finish.input = j
        BY <1>1, <1>5 DEF HeardKept, Fresh
      <4>1. CASE j = i
        <5>1. new \in pending' /\ new.input = i
          BY <3>1
        <5> QED
          BY <4>1, <5>1
      <4>2. CASE j # i
        <5>1. PICK finish \in pending : finish.input = j
          BY <1>2, <4>2 DEF FinishInv, HeardKept
        <5> QED
          BY <1>6, <3>1, <4>2, <5>1
      <4> QED
        BY <4>1, <4>2
    <3> QED
      BY <1>7, <3>3, <3>4 DEF FinishInv
  <2> QED
    BY <2>1, <2>2
<1> QED
  BY <1>8, <1>9

(* The latest turn of a run's own conversation is what the run shows.      *)
LEMMA FinishTurnKeeps ==
  ASSUME IInv, FinishInv, NEW i \in DOMAIN inputs, NEW outcome \in Outcomes,
         FinishTurn(i, outcome)
  PROVE  FinishInv'
<1> USE Typed
<1> DEFINE fresh == {finish \in pending : now - finish.at < Keep}
<1>1. /\ UNCHANGED <<now, inputs>> /\ HasRun(i)
      /\ heard' = [heard EXCEPT ![i] = outcome]
      /\ runs' = Left(i, outcome)
      /\ pending' = fresh
  BY DEF FinishTurn, HasRun
<1>2. /\ heard'[i] = outcome /\ outcome # "nothing"
      /\ \A j \in DOMAIN inputs \ {i} : heard'[j] = heard[j]
  BY <1>1 DEF Outcomes
<1> DEFINE after(run) == IF run.input = i THEN [run EXCEPT !.status = outcome]
                         ELSE run
<1>3. runs' = {after(run) : run \in runs}
  BY <1>1, Zenon DEF Left
<1>4. ASSUME NEW run \in runs
      PROVE  /\ run.input \in DOMAIN inputs
             /\ after(run).input = run.input /\ after(run).at = run.at
             /\ after(run).status = IF run.input = i THEN outcome ELSE run.status
  <2>1. run \in RunRecords(DOMAIN inputs)
    BY DEF IInv, RoutinesTypeOK, RunRecords
  <2> QED
    BY <2>1 DEF RunRecords
<1> HIDE DEF after
<1>5. \A j \in DOMAIN inputs : HasRun(j)' <=> HasRun(j)
  <2>1. /\ \A run \in runs : after(run) \in runs'
        /\ \A next \in runs' : \E run \in runs : next = after(run)
    BY <1>3, Zenon
  <2>2. \A run \in runs : after(run).input = run.input
    BY <1>4
  <2> QED
    BY <2>1, <2>2, Zenon DEF HasRun
<1>6. \A finish \in pending : Fresh(finish.input) => finish \in fresh
  BY DEF FinishInv, PendingHeard, Fresh
<1>7. RunsShow'
  <2> SUFFICES ASSUME NEW run \in runs, InTime(run)
               PROVE  LET shown == IF run.input = i THEN outcome ELSE run.status
                      IN  shown = Shown(heard'[run.input])
    <3>1. \A run \in runs : InTime(after(run))' <=> InTime(run)
      BY <1>1, <1>4 DEF InTime
    <3> QED
      BY <1>3, <1>4, <3>1 DEF RunsShow
  <2>1. run.status = Shown(heard[run.input]) /\ run.input \in DOMAIN inputs
    BY DEF FinishInv, RunsShow
  <2> QED
    BY <1>2, <2>1 DEF Shown
<1>8. PendingHeard'
  BY <1>1, <1>2, <1>5 DEF FinishInv, PendingHeard, Fresh
<1>9. HeardKept'
  BY <1>1, <1>2, <1>5, <1>6 DEF FinishInv, HeardKept, Fresh
<1> QED
  BY <1>7, <1>8, <1>9 DEF FinishInv

(* A stop forgets what it can no longer show.                              *)
LEMMA CrashKeeps ==
  ASSUME IInv, FinishInv, Crash
  PROVE  FinishInv'
<1> USE Typed
<1>1. /\ UNCHANGED <<now, inputs>> /\ pending' = {}
      /\ heard' = [i \in DOMAIN heard |-> IF \E run \in runs' : run.input = i
                                         THEN heard[i] ELSE "nothing"]
      /\ runs' = runs \/ \E fire \in fires : fire.input # 0 /\ runs' = Delivered(fire)
  BY DEF Crash
<1>2. \A run \in runs' : /\ run.input \in DOMAIN inputs
                         /\ InTime(run) => run.status = Shown(heard[run.input])
  <2>1. CASE runs' = runs
    BY <2>1 DEF FinishInv, RunsShow
  <2>2. CASE runs' # runs
    <3>1. PICK fire \in fires : fire.input # 0 /\ runs' = Delivered(fire)
      BY <1>1, <2>2
    <3> QED
      BY <3>1, DeliveredShows
  <2> QED
    BY <2>1, <2>2
<1>3. PendingHeard'
  BY <1>1 DEF PendingHeard
<1>4. HeardKept'
  BY <1>1 DEF HeardKept, HasRun
<1>5. RunsShow'
  BY <1>1, <1>2 DEF RunsShow, InTime
<1> QED
  BY <1>3, <1>4, <1>5 DEF FinishInv

LEMMA NextKeeps == IInv /\ FinishInv /\ [Next]_vars => FinishInv'
<1> SUFFICES ASSUME IInv, FinishInv, [Next]_vars PROVE FinishInv'
  OBVIOUS
<1>1. CASE UNCHANGED <<now, runs, pending, inputs, heard>>
  BY <1>1, Typed, PruneKeeps
<1>2. ASSUME NEW r \in RoutineIds, RoutineStep(r) PROVE FinishInv'
  BY <1>1, <1>2 DEF RoutineStep, TickPasses, TickFires, Run, Delete, Patch
<1>3. ASSUME NEW fire \in fires, FireStep(fire) PROVE FinishInv'
  <2>1. CASE CallFails(fire)
    BY <1>1, <2>1 DEF CallFails
  <2> QED
    BY <1>3, <2>1, AcceptKeeps, ReceiptKeeps DEF FireStep
<1>4. CASE TickBegins
  <2>1. /\ UNCHANGED <<now, runs, inputs, heard>>
        /\ pending' = {finish \in pending : now - finish.at < Keep}
    BY <1>4 DEF TickBegins
  <2> QED
    BY <2>1, Typed, PruneKeeps
<1>5. CASE Start
  BY <1>1, <1>5 DEF Start
<1>6. CASE Advance
  <2>1. UNCHANGED <<runs, pending, inputs, heard>> /\ now' = now + 1
    BY <1>6 DEF Advance
  <2> QED
    BY <2>1, Typed, PruneKeeps
<1>7. CASE UNCHANGED vars
  BY <1>1, <1>7 DEF vars
<1> QED
  BY <1>2, <1>3, <1>4, <1>5, <1>6, <1>7, FinishKeeps, FinishTurnKeeps, CrashKeeps
  DEF Next

(* What the gateway heard of an input's turn shows in the run of it        *)
(* (routines.ts, finishRun and fire): a finish that came before the        *)
(* receipt is kept until then, one after it finds the run, and the latest  *)
(* turn of the run's own conversation replaces it; unless the receipt was  *)
(* lost and the call was made again after a finish may have been dropped.  *)
THEOREM FinishReached == Spec => []FinishReachesRun
<1>1. Init => FinishInv
  BY DEF Init, FinishInv, PendingHeard, HeardKept, RunsShow
<1>2. FinishInv => FinishReachesRun
  BY DEF FinishInv, RunsShow, FinishReachesRun, Shown
<1> QED
  BY InitInv, NextInv, NextKeeps, <1>1, <1>2, PTL DEF Spec
=============================================================================
