----------------------- MODULE ConversationMoveProofs -----------------------
(***************************************************************************)
(* Proofs about ConversationMove, for any hosts, moves and troubles: its   *)
(* types, and which calls run in which phase of a move, whenever it is     *)
(* resolved.                                                               *)
(***************************************************************************)
EXTENDS ConversationMove, TLAPS

Moves == [phase : Phases, status : Statuses, from : Hosts, to : Hosts,
          print : 0..MaxMessages, pkg : 0..MaxMessages]
Handlers == [op : Ops, call : Calls, id : Nat, read : 0..MaxMessages,
             at : {"start", "quiesce", "check", "thaw", "write", "delete",
                   "drop", "undo", "unpack", "git", "files", "rows",
                   "commit", "staging"}]

(* The phases after the copy was verified, and those of a move that turned *)
(* back: none of one leads to one of the other.                            *)
Past == {"releasing-source", "committing", "completed"}
Back == {"rolling-back", "rolled-back"}
Early == {"unborn", "inspecting", "prepared"}

(* The call a phase waits for; a rollback gives back in two calls.         *)
Fits(call, p) == call = CallOf[p] \/ (call = "thaw" /\ p = "rolling-back")

(* Calls that were given up may still run, but only the one the            *)
(* coordinator waits for is of its phase.                                  *)
HandlerOK(x) ==
  /\ x.id <= lost[x.op]
  /\ x.id = lost[x.op] => /\ move[x.op].status = "running"
                          /\ Fits(x.call, move[x.op].phase)
  /\ x.call \in {"discard", "thaw"} => move[x.op].phase \in Back
  /\ x.call \in {"release", "commit"} => move[x.op].phase \in Past
JournalInv ==
  /\ move \in [Ops -> Moves] /\ lost \in [Ops -> Nat] /\ handlers \subseteq Handlers
  /\ \A x \in handlers : HandlerOK(x)
  /\ \A x, y \in handlers : x.op = y.op /\ x.id = lost[x.op] /\ y.id = lost[y.op]
                              => x = y
  /\ \A o \in Ops : move[o].phase \in Early => move[o].status \in {"none", "prepared"}

Sources == [state : {"none", "frozen", "exported", "releasing", "released",
                     "thawed"},
            cwd : {Home} \cup Ops, pkg : 0..MaxMessages]
Targets == {"none", "workspace-ready", "importing", "imported", "committed",
            "discarded"}
Copies == {None} \cup [messages : 0..MaxMessages, cwd : {Home} \cup Ops]
HostsInv == /\ source \in [Ops -> Sources] /\ target \in [Ops -> Targets]
            /\ copy \in [Hosts -> Copies]
            /\ leases \subseteq Ops \X {"source", "target"}
            /\ turns \subseteq Hosts

IInv == /\ JournalInv /\ HostsInv
        /\ troubles \in 0..MaxTroubles /\ broken \in BOOLEAN

-----------------------------------------------------------------------------
(* The walk: which call each phase waits for, and where it leads.          *)
LEMMA CallOfPhase ==
  ASSUME NEW p \in Phases
  PROVE  /\ CallOf[p] \in Calls \cup {"none"}
         /\ CallOf[p] \in {"discard", "thaw"} => p \in Back
         /\ CallOf[p] \in {"release", "commit"} => p \in Past
         /\ p \in Early \cup {"transferring"} => CallOf[p] = "none"
<1>1. CallOf[p] = CASE p = "freezing"         -> "freeze"
                    [] p = "exporting"        -> "export"
                    [] p = "preparing-target" -> "prepare"
                    [] p = "importing"        -> "import"
                    [] p = "verifying"        -> "verify"
                    [] p = "releasing-source" -> "release"
                    [] p = "committing"       -> "commit"
                    [] p = "rolling-back"     -> "discard"
                    [] OTHER                  -> "none"
  BY DEF CallOf
<1> QED
  BY <1>1 DEF Calls, Back, Past, Early, Phases

LEMMA Walk ==
  ASSUME NEW p \in Phases, NEW call \in Calls, Fits(call, p)
  PROVE  /\ After[call] \in Phases \ Early
         /\ call \in {"discard", "thaw"} <=> p \in Back
         /\ p \in Back <=> After[call] \in Back
         /\ p \in Past => call \in {"release", "commit"} /\ After[call] \in Past
         /\ After[call] \in Past => p \in Past \/ call = "verify"
         /\ call = "verify" => p \notin Past \cup Back
         /\ call = "discard" => After[call] = "rolling-back"
         /\ p # "transferring"
<1>1. CallOf[p] = CASE p = "freezing"         -> "freeze"
                    [] p = "exporting"        -> "export"
                    [] p = "preparing-target" -> "prepare"
                    [] p = "importing"        -> "import"
                    [] p = "verifying"        -> "verify"
                    [] p = "releasing-source" -> "release"
                    [] p = "committing"       -> "commit"
                    [] p = "rolling-back"     -> "discard"
                    [] OTHER                  -> "none"
  BY DEF CallOf
<1>2. After[call] = CASE call = "freeze"  -> "exporting"
                      [] call = "export"  -> "transferring"
                      [] call = "prepare" -> "importing"
                      [] call = "import"  -> "verifying"
                      [] call = "verify"  -> "releasing-source"
                      [] call = "release" -> "committing"
                      [] call = "commit"  -> "completed"
                      [] call = "discard" -> "rolling-back"
                      [] call = "thaw"    -> "rolled-back"
  BY DEF After
<1> QED
  BY <1>1, <1>2 DEF Fits, Calls, Back, Past, Early, Phases

-----------------------------------------------------------------------------
(* The coordinator's journal and the calls.                                *)

(* A step of a handler that goes on.                                       *)
LEMMA StepsOn ==
  ASSUME JournalInv, lost' = lost, NEW x \in handlers, NEW to \in Handlers,
         to.op = x.op, to.call = x.call, to.id = x.id, Steps(x, to)
  PROVE  JournalInv' /\ move' = move
<1>1. handlers' = (handlers \ {x}) \cup {to} /\ move' = move
  BY DEF Steps
<1>2. HandlerOK(x) => HandlerOK(to)'
  BY <1>1 DEF HandlerOK
<1>3. ASSUME NEW y \in handlers PROVE HandlerOK(y) => HandlerOK(y)'
  BY <1>1 DEF HandlerOK
<1>4. ASSUME NEW y \in handlers', NEW z \in handlers', y.op = z.op,
             y.id = lost[y.op], z.id = lost[z.op]
      PROVE  y = z
  BY <1>1, <1>4 DEF JournalInv
<1> QED
  BY <1>1, <1>2, <1>3, <1>4 DEF JournalInv

(* A handler that fails stops its move where it is.                        *)
LEMMA FailsInv ==
  ASSUME JournalInv, lost' = lost, NEW x \in handlers, Fails(x)
  PROVE  /\ JournalInv'
         /\ \A o \in Ops : /\ move'[o].phase = move[o].phase
                           /\ move'[o].from = move[o].from /\ move'[o].to = move[o].to
<1>1. /\ handlers' = handlers \ {x} /\ x \in Handlers /\ HandlerOK(x)
      /\ move \in [Ops -> Moves] /\ x.op \in Ops
  BY DEF Fails, JournalInv, Handlers
<1>2. CASE Waits(x)
  <2>1. move' = [move EXCEPT ![x.op] = Stopped(@)]
    BY <1>2 DEF Fails
  <2>2. /\ move' \in [Ops -> Moves]
        /\ \A o \in Ops : /\ move'[o].phase = move[o].phase
                          /\ move'[o].from = move[o].from /\ move'[o].to = move[o].to
                          /\ o # x.op => move'[o] = move[o]
                          /\ move'[o].status \in {move[o].status, "recovery-required"}
    BY <1>1, <2>1 DEF Stopped, Moves, Statuses
  <2>3. ASSUME NEW y \in handlers' PROVE HandlerOK(y)'
    <3>1. y \in handlers /\ y \in Handlers /\ HandlerOK(y) /\ y.op \in Ops /\ y # x
      BY <1>1 DEF JournalInv, Handlers
    <3>2. y.op = x.op => y.id # lost[y.op]
      BY <1>2, <3>1 DEF JournalInv, Waits
    <3> QED
      BY <2>2, <3>1, <3>2 DEF HandlerOK
  <2>4. \A o \in Ops : move'[o].phase \in Early => move'[o].status \in {"none", "prepared"}
    <3>1. move[x.op].phase \notin Early
      BY <1>1, <1>2 DEF JournalInv, Waits
    <3> QED
      BY <2>2, <3>1 DEF JournalInv
  <2>5. \A y, z \in handlers' : /\ y.op = z.op
                               /\ y.id = lost'[y.op] /\ z.id = lost'[z.op] => y = z
    BY <1>1 DEF JournalInv
  <2> QED
    BY <1>1, <2>2, <2>3, <2>4, <2>5 DEF JournalInv
<1>3. CASE ~Waits(x)
  <2>1. move' = move
    BY <1>3 DEF Fails
  <2>2. ASSUME NEW y \in handlers' PROVE HandlerOK(y)'
    BY <1>1, <2>1 DEF JournalInv, HandlerOK
  <2> QED
    BY <1>1, <2>1, <2>2 DEF JournalInv
<1> QED
  BY <1>2, <1>3

(* A handler that succeeds takes its move on, if it is still waited for.   *)
LEMMA GoesInv ==
  ASSUME JournalInv, lost' = lost, NEW x \in handlers,
         NEW answer \in 0..MaxMessages, Goes(x, answer)
  PROVE  /\ JournalInv'
         /\ \A o \in Ops :
              /\ move'[o].from = move[o].from /\ move'[o].to = move[o].to
              /\ move[o].phase \in Past => move'[o].phase \in Past
              /\ move'[o].phase \in Past =>
                   move[o].phase \in Past \/ (o = x.op /\ x.call = "verify")
<1>1. /\ x \in Handlers /\ HandlerOK(x) /\ move \in [Ops -> Moves]
      /\ x.op \in Ops /\ x.call \in Calls /\ lost \in [Ops -> Nat]
  BY DEF JournalInv, Handlers
<1>2. CASE Waits(x)
  <2> DEFINE o == x.op
             phase == After[x.call]
             next == IF x.call = "discard" THEN {Handler(o, "thaw")}
                     ELSE CallsFor(o, phase)
  <2>1. Fits(x.call, move[o].phase) /\ move[o].phase \in Phases
    BY <1>1, <1>2 DEF Waits, HandlerOK, Moves
  <2>2. PICK status \in {"completed", "rolled-back", "running"} :
          /\ move' = [move EXCEPT ![o].phase = phase, ![o].status = status,
                                  ![o].pkg = answer]
          /\ status = CASE phase = "completed" -> "completed"
                        [] phase = "rolled-back" -> "rolled-back"
                        [] OTHER -> "running"
    BY <1>2 DEF Goes
  <2>3. handlers' = (handlers \ {x}) \cup next
    BY <1>2 DEF Goes
  <2>4. /\ phase \in Phases \ Early
        /\ x.call \in {"discard", "thaw"} <=> move[o].phase \in Back
        /\ move[o].phase \in Back <=> phase \in Back
        /\ move[o].phase \in Past => phase \in Past
        /\ phase \in Past => move[o].phase \in Past \/ x.call = "verify"
        /\ x.call = "discard" => phase = "rolling-back"
    BY <1>1, <2>1, Walk
  <2>5. /\ move' \in [Ops -> Moves]
        /\ \A q \in Ops \ {o} : move'[q] = move[q]
        /\ move'[o].phase = phase /\ move'[o].status = status
        /\ move'[o].from = move[o].from /\ move'[o].to = move[o].to
    <3>1. status \in Statuses /\ phase \in Phases /\ answer \in 0..MaxMessages
      BY <1>1, <2>2, <2>4 DEF Statuses, Terminal
    <3>2. move \in [Ops -> Moves] /\ o \in Ops
      BY <1>1
    <3>3. move' = [move EXCEPT ![o] = [@ EXCEPT !.phase = phase, !.status = status,
                                               !.pkg = answer]]
      BY <2>2, <3>2
    <3> HIDE DEF phase, o
    <3> QED
      BY <3>1, <3>2, <3>3 DEF Moves
  <2>6. ASSUME NEW y \in next
        PROVE  /\ y \in Handlers /\ y.op = o /\ y.id = lost[o]
               /\ Fits(y.call, phase) /\ status = "running"
               /\ y.call \in {"discard", "thaw"} => phase \in Back
               /\ y.call \in {"release", "commit"} => phase \in Past
               /\ \A z \in next : z = y
    <3>1. CASE x.call = "discard"
      <4>1. y = Handler(o, "thaw") /\ next = {Handler(o, "thaw")}
        BY <3>1
      <4> QED
        BY <1>1, <2>2, <2>4, <3>1, <4>1, MoveAssumption
        DEF Handler, Handlers, Calls, Fits, Back
    <3>2. CASE x.call # "discard"
      <4>1. /\ y = Handler(o, CallOf[phase]) /\ CallOf[phase] # "none"
            /\ \A z \in next : z = y
        BY <3>2 DEF CallsFor
      <4>2. /\ CallOf[phase] \in Calls
            /\ CallOf[phase] \in {"discard", "thaw"} => phase \in Back
            /\ CallOf[phase] \in {"release", "commit"} => phase \in Past
        BY <2>4, <4>1, CallOfPhase
      <4>3. phase \notin {"completed", "rolled-back"}
        BY <4>1 DEF CallOf, Phases
      <4> QED
        BY <1>1, <2>2, <4>1, <4>2, <4>3, MoveAssumption DEF Handler, Handlers, Fits
    <3> QED
      BY <3>1, <3>2
  <2> HIDE DEF phase, next
  <2>7. ASSUME NEW y \in handlers' PROVE y \in Handlers /\ HandlerOK(y)'
    <3>1. CASE y \in next
      BY <1>1, <2>5, <2>6, <3>1 DEF HandlerOK
    <3>2. CASE y \in handlers \ {x}
      <4>1. y \in Handlers /\ HandlerOK(y) /\ y.op \in Ops
        BY <3>2 DEF JournalInv, Handlers
      <4>2. y.op = o => y.id # lost[o]
        BY <1>2, <3>2 DEF JournalInv, Waits
      <4> QED
        BY <1>1, <2>4, <2>5, <4>1, <4>2 DEF HandlerOK
    <3> QED
      BY <2>3, <3>1, <3>2
  <2>8. ASSUME NEW y \in handlers', NEW z \in handlers', y.op = z.op,
               y.id = lost'[y.op], z.id = lost'[z.op]
        PROVE  y = z
    <3>1. ASSUME NEW w \in handlers \ {x} PROVE w.op # o \/ w.id # lost[o]
      BY <1>2, <3>1 DEF JournalInv, Waits
    <3> QED
      BY <2>3, <2>6, <2>8, <3>1 DEF JournalInv
  <2>9. \A q \in Ops : move'[q].phase \in Early => move'[q].status \in {"none", "prepared"}
    BY <2>4, <2>5 DEF JournalInv
  <2>10. JournalInv'
    BY <1>1, <2>5, <2>7, <2>8, <2>9 DEF JournalInv
  <2> QED
    BY <2>4, <2>5, <2>10
<1>3. CASE ~Waits(x)
  <2>1. move' = move /\ handlers' = handlers \ {x}
    BY <1>3 DEF Goes
  <2>2. ASSUME NEW y \in handlers' PROVE HandlerOK(y)'
    BY <1>1, <2>1 DEF JournalInv, HandlerOK
  <2> QED
    BY <1>1, <2>1, <2>2 DEF JournalInv
<1> QED
  BY <1>2, <1>3

-----------------------------------------------------------------------------
(* The steps of the handlers.                                              *)

(* A handler ends, either way, or goes on.                                 *)
Advances(x) == \/ Fails(x)
               \/ \E answer \in 0..MaxMessages : Goes(x, answer)
               \/ \E to \in Handlers : /\ to.op = x.op /\ to.call = x.call
                                      /\ to.id = x.id /\ Steps(x, to)
LEMMA JournalStep ==
  ASSUME IInv, Keep, NEW x \in handlers, HostsInv', Advances(x)
  PROVE  IInv'
<1>1. JournalInv /\ lost' = lost
  BY DEF IInv, Keep
<1>2. JournalInv'
  BY <1>1, FailsInv, GoesInv, StepsOn DEF Advances
<1> QED
  BY <1>2 DEF IInv, Keep

(* What every step of a handler starts from.                               *)
LEMMA HandlerFacts ==
  ASSUME IInv, NEW x \in handlers
  PROVE  /\ x \in Handlers /\ HandlerOK(x) /\ x.op \in Ops /\ x.call \in Calls
         /\ move[x.op] \in Moves /\ move[x.op].from \in Hosts
         /\ move[x.op].to \in Hosts /\ move[x.op].pkg \in 0..MaxMessages
         /\ source \in [Ops -> Sources] /\ source[x.op] \in Sources
         /\ target \in [Ops -> Targets]
         /\ copy \in [Hosts -> Copies] /\ leases \subseteq Ops \X {"source", "target"}
      /\ turns \subseteq Hosts
         /\ {<<x.op, "source">>, <<x.op, "target">>} \subseteq Ops \X {"source", "target"}
         /\ \A h \in Hosts : HasCopy(h) =>
              copy[h] \in [messages : 0..MaxMessages, cwd : {Home} \cup Ops]
BY DEF IInv, JournalInv, HostsInv, Handlers, Moves, Copies, HasCopy

LEMMA SourceStepInv ==
  ASSUME IInv, NEW x \in handlers, SourceStep(x)
  PROVE  IInv'
<1>0. /\ x \in Handlers /\ HandlerOK(x) /\ x.op \in Ops /\ x.call \in Calls
      /\ move[x.op] \in Moves /\ move[x.op].from \in Hosts
      /\ move[x.op].to \in Hosts /\ move[x.op].pkg \in 0..MaxMessages
      /\ source \in [Ops -> Sources] /\ source[x.op] \in Sources
      /\ target \in [Ops -> Targets]
      /\ copy \in [Hosts -> Copies] /\ leases \subseteq Ops \X {"source", "target"}
      /\ turns \subseteq Hosts
      /\ {<<x.op, "source">>, <<x.op, "target">>} \subseteq Ops \X {"source", "target"}
      /\ \A h \in Hosts : HasCopy(h) =>
           copy[h] \in [messages : 0..MaxMessages, cwd : {Home} \cup Ops]
  BY HandlerFacts
<1>s. Succeeds(x) => \E answer \in 0..MaxMessages : Goes(x, answer)
  BY <1>0 DEF Succeeds
<1>o. ASSUME NEW at \in {"quiesce", "check", "thaw", "delete", "drop"},
             Steps(x, [x EXCEPT !.at = at])
      PROVE  Advances(x)
  <2> DEFINE to == [x EXCEPT !.at = at]
  <2>1. to \in Handlers /\ to.op = x.op /\ to.call = x.call /\ to.id = x.id
    BY <1>0 DEF Handlers
  <2>2. Steps(x, to)
    BY <1>o
  <2> HIDE DEF to
  <2> QED
    BY <2>1, <2>2 DEF Advances
<1>t. ASSUME HostsInv', Keep, Fails(x) \/ Succeeds(x) PROVE IInv'
  BY <1>s, <1>t, JournalStep DEF Advances
<1>1. CASE FreezeBegins(x)
  <2>1. /\ UNCHANGED <<target, copy>> /\ Keep
        /\ leases' \subseteq leases \cup {<<x.op, "source">>}
        /\ turns' \subseteq turns \cup {move[x.op].from}
    BY <1>1 DEF FreezeBegins
  <2>2. CASE (Succeeds(x) \/ Fails(x)) /\ UNCHANGED source
    <3>1. HostsInv'
      BY <1>0, <2>1, <2>2 DEF HostsInv
    <3> QED
      BY <1>t, <2>1, <2>2, <3>1
  <2>3. CASE /\ HasCopy(move[x.op].from)
             /\ source' = [source EXCEPT ![x.op].state = "frozen",
                                         ![x.op].cwd = copy[move[x.op].from].cwd]
             /\ Steps(x, [x EXCEPT !.at = "quiesce"])
    <3>1. source' \in [Ops -> Sources]
      BY <1>0, <2>3 DEF Sources
    <3>2. HostsInv'
      BY <1>0, <2>1, <3>1 DEF HostsInv
    <3> QED
      BY <1>o, <2>1, <2>3, <3>2, JournalStep
  <2> QED
    BY <1>1, <2>2, <2>3 DEF FreezeBegins
<1>2. CASE FreezeQuiesces(x)
  <2>1. /\ UNCHANGED <<source, target, copy, leases>> /\ Keep
        /\ turns' \subseteq turns
        /\ \/ Steps(x, [x EXCEPT !.at = "check"])
           \/ Steps(x, [x EXCEPT !.at = "thaw"])
    BY <1>2 DEF FreezeQuiesces
  <2>2. HostsInv'
    BY <1>0, <2>1 DEF HostsInv
  <2> QED
    BY <1>o, <2>1, <2>2, JournalStep
<1>3. CASE FreezeChecks(x)
  <2>1. /\ UNCHANGED <<source, target, copy, leases, turns>> /\ Keep
        /\ Succeeds(x) \/ Steps(x, [x EXCEPT !.at = "thaw"])
    BY <1>3 DEF FreezeChecks
  <2>2. HostsInv'
    BY <1>0, <2>1 DEF HostsInv
  <2> QED
    BY <1>o, <1>t, <2>1, <2>2, JournalStep
<1>4. CASE FreezeThaws(x)
  <2>1. /\ UNCHANGED <<target, copy>> /\ Keep /\ Fails(x)
        /\ leases' \subseteq leases /\ turns' \subseteq turns
    BY <1>4 DEF FreezeThaws
  <2>2. source' \in [Ops -> Sources]
    BY <1>0, <1>4 DEF FreezeThaws, Sources
  <2>3. HostsInv'
    BY <1>0, <2>1, <2>2 DEF HostsInv
  <2> QED
    BY <1>t, <2>1, <2>3
<1>5. CASE ExportBegins(x)
  <2>1. /\ UNCHANGED <<source, target, copy, turns>> /\ Keep
        /\ leases' \subseteq leases \cup {<<x.op, "source">>}
    BY <1>5 DEF ExportBegins
  <2>2. HostsInv'
    BY <1>0, <2>1 DEF HostsInv
  <2>3. CASE Goes(x, source[x.op].pkg)
    <3>1. source[x.op].pkg \in 0..MaxMessages
      BY <1>0 DEF Sources
    <3> QED
      BY <2>1, <2>2, <2>3, <3>1, JournalStep DEF Advances
  <2>4. CASE /\ HasCopy(move[x.op].from)
             /\ Steps(x, [x EXCEPT !.at = "write",
                                   !.read = copy[move[x.op].from].messages])
    <3>1. copy[move[x.op].from].messages \in 0..MaxMessages
      BY <1>0, <2>4
    <3>2. PICK read \in 0..MaxMessages : Steps(x, [x EXCEPT !.at = "write", !.read = read])
      BY <2>4, <3>1
    <3>3. Advances(x)
      <4> DEFINE to == [x EXCEPT !.at = "write", !.read = read]
      <4>1. x \in Handlers
        BY <1>0
      <4>2. to \in Handlers /\ to.op = x.op /\ to.call = x.call /\ to.id = x.id
        BY <4>1 DEF Handlers
      <4>3. Steps(x, to)
        BY <3>2
      <4> HIDE DEF to
      <4> QED
        BY <4>2, <4>3 DEF Advances
    <3> QED
      BY <2>1, <2>2, <3>3, JournalStep
  <2>5. CASE Fails(x)
    BY <1>t, <2>1, <2>2, <2>5
  <2> QED
    BY <1>5, <2>3, <2>4, <2>5 DEF ExportBegins
<1>6. CASE ExportEnds(x)
  <2>1. /\ UNCHANGED <<target, copy, leases, turns>> /\ Keep
        /\ x.read \in 0..MaxMessages /\ Goes(x, x.read)
    BY <1>0, <1>6 DEF ExportEnds, Handlers
  <2>2. source' \in [Ops -> Sources]
    BY <1>0, <1>6, <2>1 DEF ExportEnds, Sources
  <2>3. HostsInv'
    BY <1>0, <2>1, <2>2 DEF HostsInv
  <2> QED
    BY <2>1, <2>3, JournalStep DEF Advances
<1>7. CASE ReleaseBegins(x)
  <2>1. /\ UNCHANGED <<target, copy, leases, turns>> /\ Keep
        /\ \/ Fails(x) \/ Succeeds(x)
           \/ Steps(x, [x EXCEPT !.at = "delete"])
    BY <1>7 DEF ReleaseBegins
  <2>2. source' \in [Ops -> Sources]
    BY <1>0, <1>7 DEF ReleaseBegins, Sources
  <2>3. HostsInv'
    BY <1>0, <2>1, <2>2 DEF HostsInv
  <2> QED
    BY <1>o, <1>t, <2>1, <2>3, JournalStep
<1>8. CASE ReleaseDeletes(x)
  <2>1. /\ UNCHANGED <<source, target, leases>> /\ Keep /\ turns' \subseteq turns
        /\ Fails(x) \/ Steps(x, [x EXCEPT !.at = "drop"])
    BY <1>8 DEF ReleaseDeletes
  <2>2. copy' \in [Hosts -> Copies]
    BY <1>0, <1>8 DEF ReleaseDeletes, Copies
  <2>3. HostsInv'
    BY <1>0, <2>1, <2>2 DEF HostsInv
  <2> QED
    BY <1>o, <1>t, <2>1, <2>3, JournalStep
<1>9. CASE ReleaseEnds(x)
  <2>1. /\ UNCHANGED <<target, copy, turns>> /\ Keep
        /\ leases' \subseteq leases /\ Succeeds(x)
    BY <1>9 DEF ReleaseEnds
  <2>2. source' \in [Ops -> Sources]
    BY <1>0, <1>9 DEF ReleaseEnds, Sources
  <2>3. HostsInv'
    BY <1>0, <2>1, <2>2 DEF HostsInv
  <2> QED
    BY <1>t, <2>1, <2>3
<1>10. CASE Thaw(x)
  <2>1. /\ UNCHANGED <<target, copy>> /\ Keep /\ turns' \subseteq turns
        /\ leases' \subseteq leases /\ (Fails(x) \/ Succeeds(x))
    BY <1>10 DEF Thaw
  <2>2. source' \in [Ops -> Sources]
    BY <1>0, <1>10 DEF Thaw, Sources
  <2>3. HostsInv'
    BY <1>0, <2>1, <2>2 DEF HostsInv
  <2> QED
    BY <1>t, <2>1, <2>3
<1> QED
  BY <1>1, <1>2, <1>3, <1>4, <1>5, <1>6, <1>7, <1>8, <1>9, <1>10 DEF SourceStep

LEMMA TargetStepInv ==
  ASSUME IInv, NEW x \in handlers, TargetStep(x)
  PROVE  IInv'
<1>0. /\ x \in Handlers /\ HandlerOK(x) /\ x.op \in Ops
      /\ move[x.op].to \in Hosts /\ move[x.op].pkg \in 0..MaxMessages
      /\ source \in [Ops -> Sources] /\ target \in [Ops -> Targets]
      /\ copy \in [Hosts -> Copies] /\ leases \subseteq Ops \X {"source", "target"}
      /\ turns \subseteq Hosts
      /\ {<<x.op, "source">>, <<x.op, "target">>} \subseteq Ops \X {"source", "target"}
  BY HandlerFacts
<1>s. Succeeds(x) => Advances(x)
  BY <1>0 DEF Succeeds, Advances
<1>f. Fails(x) => Advances(x)
  BY DEF Advances
<1>o. ASSUME NEW at \in {"undo", "unpack", "git", "files", "rows", "commit", "staging"},
             Steps(x, [x EXCEPT !.at = at])
      PROVE  Advances(x)
  <2> DEFINE to == [x EXCEPT !.at = at]
  <2>1. to \in Handlers /\ to.op = x.op /\ to.call = x.call /\ to.id = x.id
    BY <1>0 DEF Handlers
  <2>2. Steps(x, to)
    BY <1>o
  <2> HIDE DEF to
  <2> QED
    BY <2>1, <2>2 DEF Advances
<1>u. Undone(x.op) \in [Hosts -> Copies]
  BY <1>0 DEF Undone, Copies
<1>1. CASE PrepareTarget(x)
  <2>1. UNCHANGED <<source, copy, leases, turns>> /\ Keep
    BY <1>1 DEF PrepareTarget
  <2>2. target' \in [Ops -> Targets]
    BY <1>0, <1>1 DEF PrepareTarget, Targets
  <2>3. HostsInv'
    BY <1>0, <2>1, <2>2 DEF HostsInv
  <2>4. Advances(x)
    BY <1>s, <1>1 DEF PrepareTarget
  <2> QED
    BY <2>1, <2>3, <2>4, JournalStep
<1>2. CASE ImportBegins(x)
  <2>1. /\ UNCHANGED <<source, target, turns>> /\ Keep
        /\ leases' \subseteq leases \cup {<<x.op, "target">>}
    BY <1>2 DEF ImportBegins
  <2>2. copy' \in [Hosts -> Copies]
    BY <1>0, <1>u, <1>2 DEF ImportBegins, Copies
  <2>3. HostsInv'
    BY <1>0, <2>1, <2>2 DEF HostsInv
  <2>4. Advances(x)
    BY <1>s, <1>f, <1>o, <1>2 DEF ImportBegins
  <2> QED
    BY <2>1, <2>3, <2>4, JournalStep
<1>3. CASE ImportUndoes(x)
  <2>1. /\ UNCHANGED <<source, copy, turns>> /\ Keep
        /\ leases' \subseteq leases
    BY <1>3 DEF ImportUndoes
  <2>2. target' \in [Ops -> Targets]
    BY <1>0, <1>3 DEF ImportUndoes, Targets
  <2>3. HostsInv'
    BY <1>0, <2>1, <2>2 DEF HostsInv
  <2>4. Advances(x)
    BY <1>o, <1>3 DEF ImportUndoes
  <2> QED
    BY <2>1, <2>3, <2>4, JournalStep
<1>4. CASE ImportUnpacks(x)
  <2>1. UNCHANGED <<source, copy, leases, turns>> /\ Keep
    BY <1>4 DEF ImportUnpacks
  <2>2. target' \in [Ops -> Targets]
    BY <1>0, <1>4 DEF ImportUnpacks, Targets
  <2>3. HostsInv'
    BY <1>0, <2>1, <2>2 DEF HostsInv
  <2>4. Advances(x)
    BY <1>f, <1>o, <1>4 DEF ImportUnpacks
  <2> QED
    BY <2>1, <2>3, <2>4, JournalStep
<1>5. CASE ImportLeases(x)
  <2>1. /\ UNCHANGED <<source, target, copy, turns>> /\ Keep
        /\ leases' \subseteq leases \cup {<<x.op, "target">>}
    BY <1>5 DEF ImportLeases
  <2>2. HostsInv'
    BY <1>0, <2>1 DEF HostsInv
  <2>3. Advances(x)
    BY <1>o, <1>5 DEF ImportLeases
  <2> QED
    BY <2>1, <2>2, <2>3, JournalStep
<1>6. CASE ImportInserts(x)
  <2>1. UNCHANGED <<source, target, leases, turns>> /\ Keep
    BY <1>6 DEF ImportInserts
  <2>2. copy' \in [Hosts -> Copies]
    BY <1>0, <1>u, <1>6 DEF ImportInserts, Copies
  <2>3. HostsInv'
    BY <1>0, <2>1, <2>2 DEF HostsInv
  <2>4. Advances(x)
    BY <1>f, <1>o, <1>6 DEF ImportInserts
  <2> QED
    BY <2>1, <2>3, <2>4, JournalStep
<1>7. CASE ImportEnds(x)
  <2>1. UNCHANGED <<source, copy, leases, turns>> /\ Keep
    BY <1>7 DEF ImportEnds
  <2>2. target' \in [Ops -> Targets]
    BY <1>0, <1>7 DEF ImportEnds, Targets
  <2>3. HostsInv'
    BY <1>0, <2>1, <2>2 DEF HostsInv
  <2>4. Advances(x)
    BY <1>s, <1>7 DEF ImportEnds
  <2> QED
    BY <2>1, <2>3, <2>4, JournalStep
<1>8. CASE Verify(x)
  <2>1. UNCHANGED <<source, target, copy, leases, turns>> /\ Keep
    BY <1>8 DEF Verify
  <2>2. HostsInv'
    BY <1>0, <2>1 DEF HostsInv
  <2>3. Advances(x)
    BY <1>s, <1>f, <1>8 DEF Verify
  <2> QED
    BY <2>1, <2>2, <2>3, JournalStep
<1>9. CASE CommitBegins(x)
  <2>1. /\ UNCHANGED <<source, target, copy, turns>> /\ Keep
        /\ leases' \subseteq leases
    BY <1>9 DEF CommitBegins
  <2>2. HostsInv'
    BY <1>0, <2>1 DEF HostsInv
  <2>3. Advances(x)
    BY <1>s, <1>f, <1>o, <1>9 DEF CommitBegins
  <2> QED
    BY <2>1, <2>2, <2>3, JournalStep
<1>10. CASE CommitEnds(x)
  <2>1. UNCHANGED <<source, copy, leases, turns>> /\ Keep
    BY <1>10 DEF CommitEnds
  <2>2. target' \in [Ops -> Targets]
    BY <1>0, <1>10 DEF CommitEnds, Targets
  <2>3. HostsInv'
    BY <1>0, <2>1, <2>2 DEF HostsInv
  <2>4. Advances(x)
    BY <1>s, <1>10 DEF CommitEnds
  <2> QED
    BY <2>1, <2>3, <2>4, JournalStep
<1>11. CASE DiscardBegins(x)
  <2>1. UNCHANGED <<source, target, leases, turns>> /\ Keep
    BY <1>11 DEF DiscardBegins
  <2>2. copy' \in [Hosts -> Copies]
    BY <1>0, <1>u, <1>11 DEF DiscardBegins, Copies
  <2>3. HostsInv'
    BY <1>0, <2>1, <2>2 DEF HostsInv
  <2>4. Advances(x)
    BY <1>s, <1>f, <1>o, <1>11 DEF DiscardBegins
  <2> QED
    BY <2>1, <2>3, <2>4, JournalStep
<1>12. CASE DiscardUndoes(x)
  <2>1. /\ UNCHANGED <<source, target, copy, turns>> /\ Keep
        /\ leases' \subseteq leases
    BY <1>12 DEF DiscardUndoes
  <2>2. HostsInv'
    BY <1>0, <2>1 DEF HostsInv
  <2>3. Advances(x)
    BY <1>o, <1>12 DEF DiscardUndoes
  <2> QED
    BY <2>1, <2>2, <2>3, JournalStep
<1>13. CASE DiscardEnds(x)
  <2>1. UNCHANGED <<source, copy, leases, turns>> /\ Keep
    BY <1>13 DEF DiscardEnds
  <2>2. target' \in [Ops -> Targets]
    BY <1>0, <1>13 DEF DiscardEnds, Targets
  <2>3. HostsInv'
    BY <1>0, <2>1, <2>2 DEF HostsInv
  <2>4. Advances(x)
    BY <1>s, <1>13 DEF DiscardEnds
  <2> QED
    BY <2>1, <2>3, <2>4, JournalStep
<1> QED
  BY <1>1, <1>2, <1>3, <1>4, <1>5, <1>6, <1>7, <1>8, <1>9, <1>10, <1>11, <1>12, <1>13 DEF TargetStep

-----------------------------------------------------------------------------
(* The coordinator's steps, and what goes wrong.                           *)

(* A move whose journal changes outside a handler: nothing else does.      *)
LEMMA MoveAlone ==
  ASSUME IInv, NEW o \in Ops, NEW m \in Moves, move' = [move EXCEPT ![o] = m],
         \A x \in handlers' : x.op = o /\ x \in handlers =>
            /\ x.id # lost'[o]
            /\ x.call \in {"discard", "thaw"} => m.phase \in Back
            /\ x.call \in {"release", "commit"} => m.phase \in Past,
         lost' \in [Ops -> Nat], lost[o] <= lost'[o],
         \A q \in Ops \ {o} : lost'[q] = lost[q],
         \/ handlers' \subseteq handlers
         \/ handlers' = handlers \cup CallsFor(o, m.phase) /\ m.status = "running"
            /\ lost' = lost,
         m.phase \in Early => m.status \in {"none", "prepared"}
  PROVE  JournalInv'
<1>1. /\ move \in [Ops -> Moves] /\ handlers \subseteq Handlers /\ m.phase \in Phases
      /\ move' \in [Ops -> Moves] /\ move'[o] = m
      /\ \A q \in Ops \ {o} : move'[q] = move[q]
  BY DEF IInv, JournalInv, Moves
<1>2. ASSUME NEW x \in handlers', x \in handlers
      PROVE  x \in Handlers /\ HandlerOK(x)'
  <2>1. x \in Handlers /\ HandlerOK(x) /\ x.op \in Ops
    BY <1>1, <1>2 DEF IInv, JournalInv, Handlers
  <2>2. CASE x.op = o
    BY <1>1, <1>2, <2>1, <2>2 DEF HandlerOK, Handlers, IInv, JournalInv
  <2>3. CASE x.op # o
    BY <1>1, <2>1, <2>3 DEF HandlerOK
  <2> QED
    BY <2>1, <2>2, <2>3
<1>3. ASSUME NEW x \in handlers', x \notin handlers
      PROVE  /\ x \in Handlers /\ HandlerOK(x)' /\ x.op = o
             /\ x = Handler(o, CallOf[m.phase])
  <2>1. /\ x = Handler(o, CallOf[m.phase]) /\ CallOf[m.phase] # "none"
        /\ m.status = "running" /\ lost' = lost
    BY <1>3 DEF CallsFor
  <2>2. /\ CallOf[m.phase] \in Calls
        /\ CallOf[m.phase] \in {"discard", "thaw"} => m.phase \in Back
        /\ CallOf[m.phase] \in {"release", "commit"} => m.phase \in Past
    BY <1>1, <2>1, CallOfPhase
  <2>3. /\ x.op = o /\ x.call = CallOf[m.phase] /\ x.id = lost[o] /\ x \in Handlers
    BY <2>1, <2>2, MoveAssumption DEF Handler, Handlers, IInv, JournalInv
  <2> QED
    BY <1>1, <2>1, <2>2, <2>3 DEF HandlerOK, Fits, IInv, JournalInv
<1>4. ASSUME NEW x \in handlers', NEW y \in handlers', x.op = y.op,
             x.id = lost'[x.op], y.id = lost'[y.op]
      PROVE  x = y
  <2>1. CASE x.op = o
    BY <1>3, <1>4, <2>1
  <2>2. CASE x.op # o
    <3>1. x \in handlers /\ y \in handlers
      BY <1>3, <1>4, <2>2
    <3>2. x.op \in Ops /\ y.op \in Ops
      BY <1>1, <3>1 DEF Handlers
    <3> QED
      BY <1>4, <2>2, <3>1, <3>2 DEF IInv, JournalInv
  <2> QED
    BY <2>1, <2>2
<1>5. \A q \in Ops : move'[q].phase \in Early => move'[q].status \in {"none", "prepared"}
  BY <1>1 DEF IInv, JournalInv
<1> QED
  BY <1>1, <1>2, <1>3, <1>4, <1>5 DEF JournalInv

(* The steps that a person or the coordinator takes between calls.         *)
LEMMA MoveStepInv ==
  ASSUME IInv, NEW o \in Ops,
         \/ \E from, to \in Hosts : Inspect(o, from, to)
         \/ Prepare(o) \/ Execute(o) \/ Cancel(o) \/ Transfer(o)
         \/ Continue(o) \/ Rollback(o)
  PROVE  IInv'
<1>0. /\ move \in [Ops -> Moves] /\ move[o] \in Moves /\ lost \in [Ops -> Nat]
      /\ copy \in [Hosts -> Copies]
      /\ \A x \in handlers : HandlerOK(x) /\ x \in Handlers
      /\ move[o].phase \in Early => move[o].status \in {"none", "prepared"}
  BY DEF IInv, JournalInv, HostsInv
<1>1. /\ UNCHANGED <<source, target, copy, leases, turns, lost, troubles>>
      /\ broken' \in BOOLEAN
  BY DEF Inspect, Prepare, Execute, Cancel, Transfer, Continue, Rollback, Keep, IInv
<1>2. JournalInv' => IInv'
  BY <1>1 DEF IInv, HostsInv
<1>3. ASSUME NEW m \in Moves, move' = [move EXCEPT ![o] = m],
             m.phase \in Early => m.status \in {"none", "prepared"},
             \A x \in handlers : x.op = o =>
               /\ x.id # lost[o]
               /\ x.call \in {"discard", "thaw"} => m.phase \in Back
               /\ x.call \in {"release", "commit"} => m.phase \in Past,
             \/ handlers' = handlers
             \/ handlers' = handlers \cup CallsFor(o, m.phase) /\ m.status = "running"
      PROVE  IInv'
  <2>1. /\ lost' \in [Ops -> Nat] /\ lost[o] <= lost'[o] /\ lost' = lost
        /\ \A q \in Ops \ {o} : lost'[q] = lost[q]
    BY <1>0, <1>1
  <2>2. \A x \in handlers' : x.op = o /\ x \in handlers =>
            /\ x.id # lost'[o]
            /\ x.call \in {"discard", "thaw"} => m.phase \in Back
            /\ x.call \in {"release", "commit"} => m.phase \in Past
    BY <1>3, <2>1
  <2>3. \/ handlers' \subseteq handlers
        \/ handlers' = handlers \cup CallsFor(o, m.phase) /\ m.status = "running"
            /\ lost' = lost
    BY <1>3, <2>1
  <2>4. JournalInv'
    BY <1>3, <2>1, <2>2, <2>3, MoveAlone
  <2> QED
    BY <1>2, <2>4
<1>4. move[o].status # "running" =>
        \A x \in handlers : x.op = o =>
               /\ x.id # lost[o]
               /\ x.call \in {"discard", "thaw"} => move[o].phase \in Back
               /\ x.call \in {"release", "commit"} => move[o].phase \in Past
  BY <1>0 DEF HandlerOK
<1>5. ASSUME NEW from \in Hosts, NEW to \in Hosts, Inspect(o, from, to) PROVE IInv'
  <2> DEFINE m == [move[o] EXCEPT !.phase = "inspecting", !.from = from, !.to = to]
  <2>1. /\ m \in Moves /\ m.phase = "inspecting" /\ m.status = move[o].status
        /\ move' = [move EXCEPT ![o] = m] /\ move[o].phase = "unborn"
        /\ handlers' = handlers
    BY <1>0, <1>5 DEF Inspect, Moves, Phases
  <2> HIDE DEF m
  <2> QED
    BY <1>0, <1>3, <1>4, <2>1 DEF Past, Back, Early
<1>6. CASE Prepare(o)
  <2>0. /\ move[o].phase = "inspecting" /\ move[o].status \in {"none", "prepared"}
        /\ handlers' = handlers
    BY <1>0, <1>6 DEF Prepare, Early
  <2>1. PICK m \in Moves : /\ m.phase \in Early /\ m.status \in {"none", "prepared"}
                          /\ move' = [move EXCEPT ![o] = m]
    <3>1. CASE move' = [move EXCEPT ![o].phase = "unborn"]
      <4> DEFINE m == [move[o] EXCEPT !.phase = "unborn"]
      <4>1. /\ m \in Moves /\ m.phase \in Early /\ m.status = move[o].status
            /\ move' = [move EXCEPT ![o] = m]
        BY <1>0, <3>1 DEF Moves, Phases, Early
      <4> QED
        BY <2>0, <4>1
    <3>2. CASE /\ HasCopy(move[o].from)
               /\ move' = [move EXCEPT ![o].phase = "prepared", ![o].status = "prepared",
                                       ![o].print = copy[move[o].from].messages]
      <4> DEFINE m == [move[o] EXCEPT !.phase = "prepared", !.status = "prepared",
                                      !.print = copy[move[o].from].messages]
      <4>0. copy[move[o].from].messages \in 0..MaxMessages
        BY <1>0, <3>2 DEF HasCopy, Copies, Moves
      <4>1. /\ m \in Moves /\ m.phase \in Early /\ m.status = "prepared"
            /\ move' = [move EXCEPT ![o] = m]
        BY <1>0, <3>2, <4>0 DEF Moves, Phases, Early, Statuses
      <4> QED
        BY <4>1
    <3> QED
      BY <1>6, <3>1, <3>2 DEF Prepare
  <2> QED
    BY <1>3, <1>4, <2>0, <2>1 DEF Past, Back, Early
<1>7. CASE Execute(o)
  <2> DEFINE m == [move[o] EXCEPT !.phase = "freezing", !.status = "running"]
  <2>1. /\ m \in Moves /\ m.phase = "freezing" /\ m.status = "running"
        /\ move' = [move EXCEPT ![o] = m] /\ move[o].phase = "prepared"
        /\ move[o].status # "running" /\ handlers' = handlers \cup CallsFor(o, m.phase)
    BY <1>0, <1>7 DEF Execute, Moves, Phases, Statuses, Early
  <2> HIDE DEF m
  <2> QED
    BY <1>3, <1>4, <2>1 DEF Past, Back, Early
<1>8. CASE Cancel(o)
  <2> DEFINE m == Cancelled(move[o])
  <2>1. /\ m \in Moves /\ m.phase = "cancelled" /\ m.status = "cancelled"
        /\ move' = [move EXCEPT ![o] = m] /\ move[o].phase = "prepared"
        /\ move[o].status # "running" /\ handlers' = handlers
    BY <1>0, <1>8 DEF Cancel, Cancelled, Moves, Phases, Statuses, Terminal, Early
  <2> HIDE DEF m
  <2> QED
    BY <1>3, <1>4, <2>1 DEF Past, Back, Early
<1>9. CASE Transfer(o)
  <2>0. move[o].phase = "transferring" /\ move[o].status = "running"
    BY <1>9 DEF Transfer
  <2>1. \A x \in handlers : x.op = o =>
               /\ x.id # lost[o]
               /\ x.call \notin {"discard", "thaw", "release", "commit"}
    <3>1. ASSUME NEW x \in handlers, x.op = o, Fits(x.call, move[o].phase) PROVE FALSE
      <4>1. x.call \in Calls /\ move[o].phase \in Phases
        BY <1>0 DEF Handlers, Moves
      <4> QED
        BY <2>0, <3>1, <4>1, Walk
    <3> QED
      BY <1>0, <2>0, <3>1 DEF HandlerOK, Past, Back
  <2>2. CASE /\ move' = [move EXCEPT ![o].phase = "preparing-target"]
             /\ handlers' = handlers \cup CallsFor(o, "preparing-target")
    <3> DEFINE m == [move[o] EXCEPT !.phase = "preparing-target"]
    <3>1. /\ m \in Moves /\ m.phase = "preparing-target" /\ m.status = "running"
          /\ move' = [move EXCEPT ![o] = m] /\ handlers' = handlers \cup CallsFor(o, m.phase)
      BY <1>0, <2>0, <2>2 DEF Moves, Phases
    <3> HIDE DEF m
    <3> QED
      BY <1>3, <2>0, <2>1, <3>1 DEF Past, Back, Early
  <2>3. CASE move' = [move EXCEPT ![o] = Stopped(@)] /\ handlers' = handlers
    <3> DEFINE m == Stopped(move[o])
    <3>1. /\ m \in Moves /\ m.phase = "transferring" /\ m.status # "running"
          /\ move' = [move EXCEPT ![o] = m]
      BY <1>0, <2>0, <2>3 DEF Stopped, Moves, Statuses
    <3> HIDE DEF m
    <3> QED
      BY <1>3, <2>0, <2>1, <2>3, <3>1 DEF Past, Back, Early
  <2> QED
    BY <1>9, <2>2, <2>3 DEF Transfer
<1>10. CASE Continue(o)
  <2> DEFINE m == [move[o] EXCEPT !.status = "running"]
  <2>0. move[o].status = "recovery-required" /\ move[o].phase \notin Early
    BY <1>0, <1>10 DEF Continue, Resolvable
  <2>1. /\ m \in Moves /\ m.phase = move[o].phase /\ m.status = "running"
        /\ move' = [move EXCEPT ![o] = m]
        /\ handlers' = handlers \cup CallsFor(o, m.phase)
    BY <1>0, <1>10 DEF Continue, Moves, Statuses
  <2> HIDE DEF m
  <2> QED
    BY <1>3, <1>4, <2>0, <2>1
<1>11. CASE Rollback(o)
  <2> DEFINE m == [move[o] EXCEPT !.phase = "rolling-back", !.status = "running"]
  <2>0. move[o].status = "recovery-required" /\ move[o].phase \notin Past
    BY <1>11 DEF Rollback, Resolvable, CanRollback, Past
  <2>1. /\ m \in Moves /\ m.phase = "rolling-back" /\ m.status = "running"
        /\ move' = [move EXCEPT ![o] = m]
        /\ handlers' = handlers \cup CallsFor(o, m.phase)
    BY <1>0, <1>11 DEF Rollback, Moves, Statuses, Phases
  <2> HIDE DEF m
  <2> QED
    BY <1>3, <1>4, <2>0, <2>1 DEF Past, Back, Early
<1> QED
  BY <1>5, <1>6, <1>7, <1>8, <1>9, <1>10, <1>11

LEMMA LoseCallInv ==
  ASSUME IInv, NEW o \in Ops, LoseCall(o)
  PROVE  IInv'
<1>0. /\ move \in [Ops -> Moves] /\ lost \in [Ops -> Nat]
      /\ \A x \in handlers : HandlerOK(x) /\ x \in Handlers
      /\ move[o].phase \notin Early /\ move[o].status = "running"
      /\ UNCHANGED <<source, target, copy, leases, turns, broken>>
      /\ handlers' \subseteq handlers /\ lost' = [lost EXCEPT ![o] = @ + 1]
      /\ move' = [move EXCEPT ![o] = Stopped(@)]
  BY DEF IInv, JournalInv, LoseCall
<1>1. troubles' \in 0..MaxTroubles
  BY MoveAssumption DEF LoseCall, Trouble, IInv
<1> DEFINE m == Stopped(move[o])
<1>2. /\ m \in Moves /\ m.phase = move[o].phase
      /\ move' = [move EXCEPT ![o] = m]
  BY <1>0 DEF Stopped, Moves, Statuses
<1> HIDE DEF m
<1>3. \A x \in handlers' : x.op = o /\ x \in handlers =>
            /\ x.id # lost'[o]
            /\ x.call \in {"discard", "thaw"} => m.phase \in Back
            /\ x.call \in {"release", "commit"} => m.phase \in Past
  BY <1>0, <1>2 DEF HandlerOK, Handlers
<1>4. /\ lost' \in [Ops -> Nat] /\ lost[o] <= lost'[o]
      /\ \A q \in Ops \ {o} : lost'[q] = lost[q]
  BY <1>0
<1>5. /\ m.phase \in Early => m.status \in {"none", "prepared"}
      /\ handlers' \subseteq handlers
  BY <1>0, <1>2
<1>6. JournalInv'
  BY <1>2, <1>3, <1>4, <1>5, MoveAlone
<1> QED
  BY <1>0, <1>1, <1>6 DEF IInv, HostsInv

LEMMA StepFailsInv ==
  ASSUME IInv, NEW x \in handlers, StepFails(x)
  PROVE  IInv'
<1>1. /\ Fails(x) /\ UNCHANGED <<source, target, copy, leases, turns, lost, broken>>
      /\ troubles' \in 0..MaxTroubles /\ JournalInv
  BY MoveAssumption DEF StepFails, Trouble, IInv
<1>2. /\ JournalInv'
      /\ \A o \in Ops : move'[o].phase = move[o].phase
  BY <1>1, FailsInv
<1> QED
  BY <1>1, <1>2 DEF IInv, HostsInv

LEMMA WriteInv ==
  ASSUME IInv, NEW h \in Hosts, Write(h)
  PROVE  IInv'
<1>1. /\ UNCHANGED <<move, source, target, leases, turns, handlers, lost, troubles, broken>>
      /\ HasCopy(h) /\ copy[h].messages < MaxMessages
      /\ copy' = [copy EXCEPT ![h].messages = @ + 1] /\ copy \in [Hosts -> Copies]
  BY DEF Write, Keep, Usable, IInv, HostsInv
<1>2. copy[h] \in [messages : 0..MaxMessages, cwd : {Home} \cup Ops]
  BY <1>1 DEF HasCopy, Copies
<1>3. [copy[h] EXCEPT !.messages = @ + 1] \in Copies
  BY <1>1, <1>2, MoveAssumption DEF Copies
<1>4. copy' \in [Hosts -> Copies]
  BY <1>1, <1>3
<1>5. \A x \in handlers : HandlerOK(x) => HandlerOK(x)'
  BY <1>1 DEF HandlerOK
<1>6. JournalInv'
  BY <1>1, <1>5 DEF IInv, JournalInv
<1> QED
  BY <1>1, <1>4, <1>6 DEF IInv, HostsInv

(* A host that restarts takes its handlers with it; a move that waited for *)
(* one of them, or whose coordinator it is, waits for nothing then.        *)
LEMMA RestartInv ==
  ASSUME IInv, NEW h \in Hosts, Restart(h)
  PROVE  IInv'
<1>0. /\ move \in [Ops -> Moves] /\ lost \in [Ops -> Nat]
      /\ handlers \subseteq Handlers
      /\ UNCHANGED <<source, target, copy>>
      /\ handlers' = {x \in handlers : HandlerHost(x) # h}
      /\ lost' = [o \in Ops |-> IF Interrupted(o, h) THEN lost[o] + 1 ELSE lost[o]]
      /\ move' = [o \in Ops |->
                CASE h = Here /\ move[o].phase = "inspecting"
                       -> [move[o] EXCEPT !.phase = "unborn"]
                  [] h = Here /\ move[o].phase = "prepared"
                       -> Cancelled(move[o])
                  [] Interrupted(o, h) -> Stopped(move[o])
                  [] OTHER -> move[o]]
  BY DEF IInv, JournalInv, Restart
<1>1. troubles' \in 0..MaxTroubles /\ broken' \in BOOLEAN
  BY MoveAssumption DEF Restart, Trouble, IInv
<1>2. leases' \subseteq Ops \X {"source", "target"} /\ turns' \subseteq Hosts
  BY DEF Restart, IInv, HostsInv
<1>3. ASSUME NEW o \in Ops
      PROVE  /\ move'[o] \in Moves
             /\ move'[o].phase # move[o].phase =>
                   move[o].phase \in Early /\ move'[o].phase \in {"unborn", "cancelled"}
             /\ move'[o].phase \in Early => move'[o].status \in {"none", "prepared"}
             /\ move[o].phase \in Early => ~Interrupted(o, h)
             /\ move[o].phase \notin Early /\ ~Interrupted(o, h) => move'[o] = move[o]
             /\ Interrupted(o, h) => lost'[o] = lost[o] + 1
             /\ ~Interrupted(o, h) => lost'[o] = lost[o]
  <2>0. /\ move[o] \in Moves /\ lost[o] \in Nat
        /\ move[o].phase \in Early => move[o].status \in {"none", "prepared"}
    BY <1>0 DEF IInv, JournalInv
  <2>1. /\ Interrupted(o, h) => lost'[o] = lost[o] + 1
        /\ ~Interrupted(o, h) => lost'[o] = lost[o]
    BY <1>0, <2>0
  <2>2. Interrupted(o, h) => move[o].status = "running" /\ move[o].phase \notin Early
    BY <2>0 DEF Interrupted
  <2>3. CASE h = Here /\ move[o].phase = "inspecting"
    <3>1. move'[o] = [move[o] EXCEPT !.phase = "unborn"]
      BY <1>0, <2>2, <2>3 DEF Early
    <3> QED
      BY <2>0, <2>1, <2>2, <2>3, <3>1 DEF Moves, Phases, Early
  <2>4. CASE h = Here /\ move[o].phase = "prepared"
    <3>1. move'[o] = Cancelled(move[o])
      BY <1>0, <2>2, <2>4 DEF Early
    <3> QED
      BY <2>0, <2>1, <2>2, <2>4, <3>1
      DEF Cancelled, Moves, Phases, Statuses, Terminal, Early
  <2>5. CASE Interrupted(o, h)
    <3>1. move'[o] = Stopped(move[o])
      BY <1>0, <2>2, <2>5 DEF Early
    <3> QED
      BY <2>0, <2>1, <2>2, <2>5, <3>1 DEF Stopped, Moves, Statuses
  <2>6. CASE /\ ~(h = Here /\ move[o].phase = "inspecting")
             /\ ~(h = Here /\ move[o].phase = "prepared") /\ ~Interrupted(o, h)
    <3>1. move'[o] = move[o]
      BY <1>0, <2>6
    <3> QED
      BY <2>0, <2>1, <2>2, <2>6, <3>1
  <2> QED
    BY <2>3, <2>4, <2>5, <2>6
<1>4. ASSUME NEW x \in handlers' PROVE HandlerOK(x)'
  <2>1. /\ x \in handlers /\ x \in Handlers /\ HandlerOK(x) /\ x.op \in Ops
        /\ x.id \in Nat
    BY <1>0 DEF IInv, JournalInv, Handlers
  <2>2. CASE Interrupted(x.op, h)
    <3>1. lost[x.op] \in Nat /\ lost'[x.op] = lost[x.op] + 1
      BY <1>0, <1>3, <2>1, <2>2
    <3>2. x.id <= lost'[x.op] /\ x.id # lost'[x.op]
      BY <2>1, <3>1 DEF HandlerOK
    <3> QED
      BY <1>3, <2>1, <2>2, <3>2 DEF HandlerOK
  <2>3. CASE ~Interrupted(x.op, h) /\ move[x.op].phase \in Early
    <3>1. x.id # lost[x.op]
      BY <2>1, <2>3 DEF HandlerOK, IInv, JournalInv
    <3> QED
      BY <1>3, <2>1, <2>3, <3>1 DEF HandlerOK, Early, Past, Back
  <2>4. CASE ~Interrupted(x.op, h) /\ move[x.op].phase \notin Early
    BY <1>3, <2>1, <2>4 DEF HandlerOK
  <2> QED
    BY <2>2, <2>3, <2>4
<1>5. ASSUME NEW x \in handlers', NEW y \in handlers', x.op = y.op,
             x.id = lost'[x.op], y.id = lost'[y.op]
      PROVE  x = y
  <2>1. /\ x \in handlers /\ y \in handlers /\ x \in Handlers /\ x.op \in Ops
        /\ HandlerOK(x) /\ x.id \in Nat
    BY <1>0 DEF IInv, JournalInv, Handlers
  <2>2. ~Interrupted(x.op, h)
    <3>1. lost[x.op] \in Nat
      BY <1>0, <2>1
    <3> QED
      BY <1>3, <1>5, <2>1, <3>1 DEF HandlerOK
  <2> QED
    BY <1>3, <1>5, <2>1, <2>2 DEF IInv, JournalInv
<1>6. move' \in [Ops -> Moves] /\ lost' \in [Ops -> Nat] /\ handlers' \subseteq Handlers
  BY <1>0, <1>3
<1>7. JournalInv'
  BY <1>3, <1>4, <1>5, <1>6 DEF JournalInv
<1> QED
  BY <1>0, <1>1, <1>2, <1>7 DEF IInv, HostsInv

LEMMA NextInv == IInv /\ [Next]_vars => IInv'
<1> SUFFICES ASSUME IInv, [Next]_vars PROVE IInv'
  OBVIOUS
<1>1. CASE UNCHANGED vars
  <2>1. \A x \in handlers : HandlerOK(x) => HandlerOK(x)'
    BY <1>1 DEF HandlerOK, vars
  <2> QED
    BY <1>1, <2>1 DEF vars, IInv, JournalInv, HostsInv
<1>2. ASSUME NEW o \in Ops, HandlerStep(o) PROVE IInv'
  BY <1>2, SourceStepInv, TargetStepInv DEF HandlerStep
<1> QED
  BY <1>1, <1>2, MoveStepInv, LoseCallInv, StepFailsInv, WriteInv, RestartInv DEF Next

LEMMA InitInv == Init => IInv
<1> SUFFICES ASSUME Init PROVE IInv
  OBVIOUS
<1>1. JournalInv
  BY MoveAssumption DEF Init, JournalInv, Moves, Phases, Statuses
<1>2. HostsInv
  BY MoveAssumption DEF Init, HostsInv, Sources, Targets, Copies
<1>3. troubles \in 0..MaxTroubles /\ broken \in BOOLEAN
  <2>1. troubles = 0 /\ broken = FALSE
    BY DEF Init
  <2>2. troubles \in 0..MaxTroubles
    BY <2>1, MoveAssumption
  <2>3. broken \in BOOLEAN
    BY <2>1
  <2> QED
    BY <2>2, <2>3
<1> QED
  BY <1>1, <1>2, <1>3 DEF IInv

-----------------------------------------------------------------------------
(* The journals, copies, leases and handlers are of their types.           *)
THEOREM TypeCorrect == Spec => []MoveTypeOK
<1>1. IInv => MoveTypeOK
  BY DEF IInv, JournalInv, HostsInv, MoveTypeOK, Moves, Handlers, Sources, Targets, Copies
<1> QED
  BY InitInv, NextInv, <1>1, PTL DEF Spec
=============================================================================
