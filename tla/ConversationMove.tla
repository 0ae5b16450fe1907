-------------------------- MODULE ConversationMove --------------------------
(***************************************************************************)
(* Moving a conversation between two hosts (main/conversation-move).  This *)
(* computer coordinates: it keeps a journal of each move and walks it      *)
(* through its phases by calling the endpoints of the source and the       *)
(* target.  Each endpoint keeps a journal of its own and holds the         *)
(* conversation's folder with a lease that lives in memory.                *)
(*                                                                         *)
(* A call runs at its host as a handler of several steps; the coordinator  *)
(* waits for its answer, and may lose it (the bridge breaks, the host or   *)
(* the coordinator stops) while the handler goes on.  What is said in the  *)
(* conversation and what changes in its folder are one count: a version.   *)
(***************************************************************************)
EXTENDS Naturals, FiniteSets

CONSTANTS Hosts,         \* the computers and remote hosts
          Here,          \* the one that coordinates the moves
          First,         \* the one that has the conversation at first
          Ops,           \* bound: the moves that are ever prepared
          Home,          \* the conversation's first folder
          None,          \* no copy
          MaxMessages,   \* bound: how far the conversation grows
          MaxTroubles    \* bound: answers lost, steps that fail, restarts

ASSUME MoveAssumption ==
  /\ Here \in Hosts /\ First \in Hosts
  /\ MaxMessages \in Nat /\ MaxTroubles \in Nat
  /\ Home \notin Ops
  /\ None \notin [messages : 0..MaxMessages, cwd : {Home} \cup Ops]

VARIABLES move,       \* the coordinator's journal of each move
          source,     \* the source endpoint's journal of each move
          target,     \* the target endpoint's journal of each move
          copy,       \* each host's copy of the conversation
          leases,     \* the leases the endpoints hold, in memory
          turns,      \* hosts where a turn that ran at the freeze still runs
          handlers,   \* the calls that run at the hosts
          lost,       \* how many calls of a move the coordinator gave up
          troubles,   \* how much went wrong so far
          broken      \* a ghost: one of the moments nothing protects was met

vars == <<move, source, target, copy, leases, turns, handlers, lost, troubles,
          broken>>

Terminal == {"completed", "cancelled", "rolled-back"}
Statuses == {"none", "prepared", "running", "recovery-required"} \cup Terminal
Phases == {"unborn", "inspecting", "prepared", "freezing", "exporting",
           "transferring", "preparing-target", "importing", "verifying",
           "releasing-source", "committing", "completed", "rolling-back",
           "rolled-back", "cancelled"}

(* Mutant: the source's release may be taken back.                         *)
CanRollback_TooLate(p) == p \in {"freezing", "exporting", "transferring",
                                 "preparing-target", "importing", "verifying",
                                 "releasing-source"}

(* canRollbackMovePhase: before the source is released.                    *)
CanRollback(p) == p \in {"freezing", "exporting", "transferring",
                         "preparing-target", "importing", "verifying"}

(* The call each phase waits for, and the phase a call's success leads to.  *)
CallOf == [p \in Phases |->
             CASE p = "freezing"         -> "freeze"
               [] p = "exporting"        -> "export"
               [] p = "preparing-target" -> "prepare"
               [] p = "importing"        -> "import"
               [] p = "verifying"        -> "verify"
               [] p = "releasing-source" -> "release"
               [] p = "committing"       -> "commit"
               [] p = "rolling-back"     -> "discard"
               [] OTHER                  -> "none"]
Calls == {"freeze", "export", "prepare", "import", "verify", "release",
          "commit", "discard", "thaw"}
SourceCalls == {"freeze", "export", "release", "thaw"}
After == [c \in Calls |->
            CASE c = "freeze"  -> "exporting"
              [] c = "export"  -> "transferring"
              [] c = "prepare" -> "importing"
              [] c = "import"  -> "verifying"
              [] c = "verify"  -> "releasing-source"
              [] c = "release" -> "committing"
              [] c = "commit"  -> "completed"
              [] c = "discard" -> "rolling-back"
              [] c = "thaw"    -> "rolled-back"]

-----------------------------------------------------------------------------
(* Hosts, folders and leases.                                              *)

HostOf(o, role) == IF role = "source" THEN move[o].from ELSE move[o].to
RoleOf(call) == IF call \in SourceCalls THEN "source" ELSE "target"

(* The folder an endpoint's lease is on: the source's checkout, or the     *)
(* worktree an import makes, which no other import can make.               *)
FolderOf(o, role) == IF role = "source" THEN source[o].cwd ELSE o

(* Mutants: an import that runs, or a source that was exported, does not   *)
(* count as holding the conversation.                                      *)
Active_Imported(o, role) == IF role = "source"
                            THEN source[o].state \in {"frozen", "exported"}
                            ELSE target[o] = "imported"
Active_NotExported(o, role) == IF role = "source"
                               THEN source[o].state = "frozen"
                               ELSE target[o] \in {"importing", "imported"}

(* The states in which an endpoint holds the conversation: its lease is    *)
(* restored after a restart, and nothing else may delete the conversation. *)
FrozenStates == {"frozen", "exported"}
Active(o, role) == IF role = "source" THEN source[o].state \in FrozenStates
                   ELSE target[o] \in {"importing", "imported"}
ActiveAt(h) == {o \in Ops : \E r \in {"source", "target"} :
                               Active(o, r) /\ HostOf(o, r) = h}

(* May the move take a lease on this folder of this host?                  *)
FolderFree(o, h, folder) ==
  \A l \in leases : \/ l[1] = o
                    \/ HostOf(l[1], l[2]) # h
                    \/ FolderOf(l[1], l[2]) # folder

HasCopy(h) == copy[h] # None
Leased(h) == \E l \in leases : /\ HostOf(l[1], l[2]) = h
                               /\ FolderOf(l[1], l[2]) = copy[h].cwd

(* A lease lets nothing begin, but a turn that ran before goes on.          *)
Usable(h) == HasCopy(h) /\ (~Leased(h) \/ h \in turns)

-----------------------------------------------------------------------------
(* Calls and answers.                                                      *)

Handler(o, call) == [op |-> o, call |-> call, at |-> "start", id |-> lost[o],
                     read |-> 0]
CallsFor(o, phase) == IF CallOf[phase] = "none" THEN {}
                      ELSE {Handler(o, CallOf[phase])}
Waits(x) == x.id = lost[x.op] /\ move[x.op].status = "running"

(* Mutant: a status that nothing else knows.                               *)
Stopped_Failed(m) == [m EXCEPT !.status = "failed"]

(* The journal of a move whose run fails: its phase stays.                 *)
Stopped(m) == [m EXCEPT !.status = "recovery-required"]

(* A handler ends, and the coordinator goes on, if it still waits for it.  *)
Goes(x, answer) ==
  LET phase == After[x.call]
      status == CASE phase = "completed" -> "completed"
                  [] phase = "rolled-back" -> "rolled-back"
                  [] OTHER -> "running"
      next == IF x.call = "discard" THEN {Handler(x.op, "thaw")}
              ELSE CallsFor(x.op, phase)
  IN  IF Waits(x)
      THEN /\ move' = [move EXCEPT ![x.op].phase = phase,
                                   ![x.op].status = status,
                                   ![x.op].pkg = answer]
           /\ handlers' = (handlers \ {x}) \cup next
      ELSE handlers' = handlers \ {x} /\ UNCHANGED move

Succeeds(x) == Goes(x, move[x.op].pkg)
Fails(x) == /\ handlers' = handlers \ {x}
            /\ move' = IF Waits(x) THEN [move EXCEPT ![x.op] = Stopped(@)]
                       ELSE move
Steps(x, to) == /\ handlers' = (handlers \ {x}) \cup {to}
                /\ UNCHANGED move

Keep == UNCHANGED <<lost, troubles, broken>>

-----------------------------------------------------------------------------
(* The source endpoint.                                                    *)

(* freezeSource, up to its first await.  A journal that is there means the *)
(* source was frozen before: its lease is taken again, and that is all,    *)
(* whether or not that freeze stopped the runtime.                         *)
FreezeBegins(x) ==
  LET o == x.op  h == move[o].from
  IN  /\ x.call = "freeze" /\ x.at = "start"
      /\ \/ /\ source[o].state \in FrozenStates
            /\ FolderFree(o, h, source[o].cwd)
            /\ leases' = leases \cup {<<o, "source">>}
            /\ Succeeds(x)
            /\ UNCHANGED <<source, turns>>
         \/ /\ \/ source[o].state \in FrozenStates
                  /\ ~FolderFree(o, h, source[o].cwd)
               \/ source[o].state \notin FrozenStates \cup {"none"}
               \/ source[o].state = "none" /\ ~HasCopy(h)
               \/ source[o].state = "none" /\ HasCopy(h)
                  /\ ~FolderFree(o, h, copy[h].cwd)
            /\ Fails(x)
            /\ UNCHANGED <<source, leases, turns>>
         \/ /\ source[o].state = "none" /\ HasCopy(h)
            /\ FolderFree(o, h, copy[h].cwd)
            /\ leases' = leases \cup {<<o, "source">>}
            /\ source' = [source EXCEPT ![o].state = "frozen",
                                        ![o].cwd = copy[h].cwd]
            /\ turns' = turns \cup {h}
            /\ Steps(x, [x EXCEPT !.at = "quiesce"])
      /\ UNCHANGED <<target, copy>>
      /\ Keep

(* The runtime is stopped, or cannot be.                                   *)
FreezeQuiesces(x) ==
  /\ x.call = "freeze" /\ x.at = "quiesce"
  /\ \/ turns' = turns \ {move[x.op].from} /\ Steps(x, [x EXCEPT !.at = "check"])
     \/ UNCHANGED turns /\ Steps(x, [x EXCEPT !.at = "thaw"])
  /\ UNCHANGED <<source, target, copy, leases>>
  /\ Keep

(* What was stopped is compared with the preview.                          *)
FreezeChecks(x) ==
  LET o == x.op  h == move[o].from
      same == HasCopy(h) /\ copy[h].messages = move[o].print
              /\ ActiveAt(h) \subseteq {o}
  IN  /\ x.call = "freeze" /\ x.at = "check"
      /\ (same /\ Succeeds(x)) \/ Steps(x, [x EXCEPT !.at = "thaw"])
      /\ UNCHANGED <<source, target, copy, leases, turns>>
      /\ Keep

(* A freeze that cannot go on gives back what it took and fails; the       *)
(* thawing may itself fail first (StepFails), and leave the source frozen. *)
FreezeThaws(x) ==
  /\ x.call = "freeze" /\ x.at = "thaw"
  /\ leases' = leases \ {<<x.op, "source">>}
  /\ source' = [source EXCEPT ![x.op].state = "thawed"]
  /\ turns' = turns \ {move[x.op].from}
  /\ Fails(x)
  /\ UNCHANGED <<target, copy>>
  /\ Keep

(* exportSource: a package written before is used again while its file is  *)
(* there; otherwise the conversation is read and written to a package,     *)
(* which takes a while.                                                    *)
ExportBegins(x) ==
  LET o == x.op  h == move[o].from
      reads == HasCopy(h) /\ FolderFree(o, h, source[o].cwd)
  IN  /\ x.call = "export" /\ x.at = "start"
      /\ \/ /\ source[o].state = "exported"
            /\ Goes(x, source[o].pkg)
            /\ UNCHANGED leases
         \/ /\ source[o].state \in FrozenStates /\ reads
            /\ leases' = leases \cup {<<o, "source">>}
            /\ Steps(x, [x EXCEPT !.at = "write", !.read = copy[h].messages])
         \/ /\ source[o].state \in FrozenStates => ~reads
            /\ Fails(x)
            /\ UNCHANGED leases
      /\ UNCHANGED <<source, target, copy, turns>>
      /\ Keep

ExportEnds(x) ==
  /\ x.call = "export" /\ x.at = "write"
  /\ source' = [source EXCEPT ![x.op].state = "exported",
                              ![x.op].pkg = x.read]
  /\ Goes(x, x.read)
  /\ UNCHANGED <<target, copy, leases, turns>>
  /\ Keep

(* Mutant: a release that stopped halfway is not taken up again.           *)
ReleaseBegins_Once(x) ==
  LET s == source[x.op].state
  IN  /\ x.call = "release" /\ x.at = "start"
      /\ \/ s = "released" /\ Succeeds(x) /\ UNCHANGED source
         \/ /\ s = "exported"
            /\ source' = [source EXCEPT ![x.op].state = "releasing"]
            /\ Steps(x, [x EXCEPT !.at = "delete"])
         \/ /\ s \notin {"exported", "released"}
            /\ Fails(x)
            /\ UNCHANGED source
      /\ UNCHANGED <<target, copy, leases, turns>>
      /\ Keep

(* releaseSource: out of the active states first, so that the guard that   *)
(* protects a moving conversation lets its own deletion through.           *)
ReleaseBegins(x) ==
  LET s == source[x.op].state
  IN  /\ x.call = "release" /\ x.at = "start"
      /\ \/ s = "released" /\ Succeeds(x) /\ UNCHANGED source
         \/ /\ s \in {"exported", "releasing"}
            /\ source' = [source EXCEPT ![x.op].state = "releasing"]
            /\ Steps(x, [x EXCEPT !.at = "delete"])
         \/ /\ s \notin {"exported", "releasing", "released"}
            /\ Fails(x)
            /\ UNCHANGED source
      /\ UNCHANGED <<target, copy, leases, turns>>
      /\ Keep

ReleaseDeletes(x) ==
  LET h == move[x.op].from
  IN  /\ x.call = "release" /\ x.at = "delete"
      /\ \/ /\ ~HasCopy(h) \/ ActiveAt(h) = {}
            /\ copy' = [copy EXCEPT ![h] = None]
            /\ turns' = turns \ {h}
            /\ Steps(x, [x EXCEPT !.at = "drop"])
         \/ /\ HasCopy(h) /\ ActiveAt(h) # {}
            /\ Fails(x)
            /\ UNCHANGED <<copy, turns>>
      /\ UNCHANGED <<source, target, leases>>
      /\ Keep

ReleaseEnds(x) ==
  /\ x.call = "release" /\ x.at = "drop"
  /\ leases' = leases \ {<<x.op, "source">>}
  /\ source' = [source EXCEPT ![x.op].state = "released"]
  /\ Succeeds(x)
  /\ UNCHANGED <<target, copy, turns>>
  /\ Keep

(* thawSource: nothing to give back, too late, or given back.              *)
Thaw(x) ==
  LET s == source[x.op].state
  IN  /\ x.call = "thaw"
      /\ \/ /\ s \in {"none", "thawed"}
            /\ Succeeds(x)
            /\ UNCHANGED <<source, leases, turns>>
         \/ /\ s \in {"releasing", "released"}
            /\ Fails(x)
            /\ UNCHANGED <<source, leases, turns>>
         \/ /\ s \in FrozenStates
            /\ leases' = leases \ {<<x.op, "source">>}
            /\ source' = [source EXCEPT ![x.op].state = "thawed"]
            /\ turns' = turns \ {move[x.op].from}
            /\ Succeeds(x)
      /\ UNCHANGED <<target, copy>>
      /\ Keep

-----------------------------------------------------------------------------
(* The target endpoint.                                                    *)

(* prepareTargetWorkspace: finds or clones the project, once.              *)
PrepareTarget(x) ==
  LET o == x.op
  IN  /\ x.call = "prepare"
      /\ target' = [target EXCEPT ![o] = IF @ = "none" THEN "workspace-ready"
                                         ELSE @]
      /\ Succeeds(x)
      /\ UNCHANGED <<source, copy, leases, turns>>
      /\ Keep

(* undoImport: the copy this import put here goes, no other one.           *)
Imported(o) == copy[move[o].to] # None /\ copy[move[o].to].cwd = o
Undone(o) == IF Imported(o) THEN [copy EXCEPT ![move[o].to] = None] ELSE copy

(* importTarget: what is there already is leased again; what an earlier    *)
(* attempt left is undone first, its rows at once, its files, worktree and *)
(* lease a while later.                                                    *)
ImportBegins(x) ==
  LET o == x.op
  IN  /\ x.call = "import" /\ x.at = "start"
      /\ \/ /\ target[o] = "imported"
            /\ leases' = leases \cup {<<o, "target">>}
            /\ Succeeds(x)
            /\ UNCHANGED copy
         \/ /\ target[o] = "importing"
            /\ copy' = Undone(o)
            /\ Steps(x, [x EXCEPT !.at = "undo"])
            /\ UNCHANGED leases
         \/ /\ target[o] = "workspace-ready"
            /\ Steps(x, [x EXCEPT !.at = "unpack"])
            /\ UNCHANGED <<copy, leases>>
         \/ /\ target[o] \notin {"imported", "importing", "workspace-ready"}
            /\ Fails(x)
            /\ UNCHANGED <<copy, leases>>
      /\ UNCHANGED <<source, target, turns>>
      /\ Keep

ImportUndoes(x) ==
  /\ x.call = "import" /\ x.at = "undo"
  /\ leases' = leases \ {<<x.op, "target">>}
  /\ target' = [target EXCEPT ![x.op] = "workspace-ready"]
  /\ Steps(x, [x EXCEPT !.at = "unpack"])
  /\ UNCHANGED <<source, copy, turns>>
  /\ Keep

(* The package was read; the host must not have the conversation.          *)
ImportUnpacks(x) ==
  /\ x.call = "import" /\ x.at = "unpack"
  /\ \/ /\ ~HasCopy(move[x.op].to)
        /\ target' = [target EXCEPT ![x.op] = "importing"]
        /\ Steps(x, [x EXCEPT !.at = "git"])
     \/ HasCopy(move[x.op].to) /\ Fails(x) /\ UNCHANGED target
  /\ UNCHANGED <<source, copy, leases, turns>>
  /\ Keep

(* The worktree is made and leased; then files and rows are restored; then *)
(* the journal says so.                                                    *)
ImportLeases(x) ==
  /\ x.call = "import" /\ x.at = "git"
  /\ leases' = leases \cup {<<x.op, "target">>}
  /\ Steps(x, [x EXCEPT !.at = "files"])
  /\ UNCHANGED <<source, target, copy, turns>>
  /\ Keep

ImportInserts(x) ==
  LET o == x.op  h == move[o].to
  IN  /\ x.call = "import" /\ x.at = "files"
      /\ \/ /\ ~HasCopy(h)
            /\ copy' = [copy EXCEPT ![h] = [messages |-> move[o].pkg, cwd |-> o]]
            /\ Steps(x, [x EXCEPT !.at = "rows"])
         \/ HasCopy(h) /\ Fails(x) /\ UNCHANGED copy
      /\ UNCHANGED <<source, target, leases, turns>>
      /\ Keep

ImportEnds(x) ==
  /\ x.call = "import" /\ x.at = "rows"
  /\ target' = [target EXCEPT ![x.op] = "imported"]
  /\ Succeeds(x)
  /\ UNCHANGED <<source, copy, leases, turns>>
  /\ Keep

(* verifyTarget, and the coordinator's comparison of the digests.          *)
Verify(x) ==
  LET o == x.op
  IN  /\ x.call = "verify"
      /\ IF target[o] = "imported" /\ Imported(o)
            /\ copy[move[o].to].messages = move[o].pkg
         THEN Succeeds(x) ELSE Fails(x)
      /\ UNCHANGED <<source, target, copy, leases, turns>>
      /\ Keep

(* commitTarget: the lease goes first, the journal last.                   *)
CommitBegins(x) ==
  LET o == x.op
  IN  /\ x.call = "commit" /\ x.at = "start"
      /\ \/ target[o] = "committed" /\ Succeeds(x) /\ UNCHANGED leases
         \/ /\ target[o] = "imported"
            /\ leases' = leases \ {<<o, "target">>}
            /\ Steps(x, [x EXCEPT !.at = "commit"])
         \/ /\ target[o] \notin {"imported", "committed"}
            /\ Fails(x)
            /\ UNCHANGED leases
      /\ UNCHANGED <<source, target, copy, turns>>
      /\ Keep

CommitEnds(x) ==
  /\ x.call = "commit" /\ x.at = "commit"
  /\ target' = [target EXCEPT ![x.op] = "committed"]
  /\ Succeeds(x)
  /\ UNCHANGED <<source, copy, leases, turns>>
  /\ Keep

(* discardTarget: what the import put here goes, unless it was committed.  *)
DiscardBegins(x) ==
  LET o == x.op
  IN  /\ x.call = "discard" /\ x.at = "start"
      /\ \/ target[o] \in {"none", "discarded"} /\ Succeeds(x) /\ UNCHANGED copy
         \/ target[o] = "committed" /\ Fails(x) /\ UNCHANGED copy
         \/ /\ target[o] = "workspace-ready"
            /\ Steps(x, [x EXCEPT !.at = "staging"])
            /\ UNCHANGED copy
         \/ /\ Active(o, "target")
            /\ copy' = Undone(o)
            /\ Steps(x, [x EXCEPT !.at = "undo"])
      /\ UNCHANGED <<source, target, leases, turns>>
      /\ Keep

DiscardUndoes(x) ==
  /\ x.call = "discard" /\ x.at = "undo"
  /\ leases' = leases \ {<<x.op, "target">>}
  /\ Steps(x, [x EXCEPT !.at = "staging"])
  /\ UNCHANGED <<source, target, copy, turns>>
  /\ Keep

DiscardEnds(x) ==
  /\ x.call = "discard" /\ x.at = "staging"
  /\ target' = [target EXCEPT ![x.op] = "discarded"]
  /\ Succeeds(x)
  /\ UNCHANGED <<source, copy, leases, turns>>
  /\ Keep

SourceStep(x) == \/ FreezeBegins(x) \/ FreezeQuiesces(x)
                 \/ FreezeChecks(x) \/ FreezeThaws(x)
                 \/ ExportBegins(x) \/ ExportEnds(x)
                 \/ ReleaseBegins(x) \/ ReleaseDeletes(x) \/ ReleaseEnds(x)
                 \/ Thaw(x)
TargetStep(x) == \/ PrepareTarget(x)
                 \/ ImportBegins(x) \/ ImportUndoes(x) \/ ImportUnpacks(x)
                 \/ ImportLeases(x) \/ ImportInserts(x) \/ ImportEnds(x)
                 \/ Verify(x) \/ CommitBegins(x) \/ CommitEnds(x)
                 \/ DiscardBegins(x) \/ DiscardUndoes(x) \/ DiscardEnds(x)

-----------------------------------------------------------------------------
(* The coordinator, and the people who ask it.                             *)

(* prepare: one unfinished move of the conversation at a time, as far as   *)
(* the journal tells when the inspection begins; the journal is written    *)
(* after it, so two inspections may pass together.                         *)
Inspect(o, from, to) ==
  /\ move[o].phase = "unborn"
  /\ from # to /\ HasCopy(from)
  /\ \A p \in Ops : move[p].status \in Terminal \cup {"none"}
  /\ move' = [move EXCEPT ![o].phase = "inspecting", ![o].from = from,
                          ![o].to = to]
  /\ UNCHANGED <<source, target, copy, leases, turns, handlers>>
  /\ Keep

Prepare(o) ==
  LET h == move[o].from
  IN  /\ move[o].phase = "inspecting"
      /\ IF HasCopy(h) /\ ActiveAt(h) = {} /\ ~HasCopy(move[o].to)
         THEN move' = [move EXCEPT ![o].phase = "prepared",
                                   ![o].status = "prepared",
                                   ![o].print = copy[h].messages]
         ELSE move' = [move EXCEPT ![o].phase = "unborn"]
      /\ UNCHANGED <<source, target, copy, leases, turns, handlers>>
      /\ Keep

(* execute; and cancel, or a preview that waited too long.                 *)
Execute(o) ==
  /\ move[o].phase = "prepared"
  /\ move' = [move EXCEPT ![o].phase = "freezing", ![o].status = "running"]
  /\ handlers' = handlers \cup CallsFor(o, "freezing")
  /\ UNCHANGED <<source, target, copy, leases, turns>>
  /\ Keep

Cancelled(m) == [m EXCEPT !.phase = "cancelled", !.status = "cancelled"]
Cancel(o) ==
  /\ move[o].phase = "prepared"
  /\ move' = [move EXCEPT ![o] = Cancelled(@)]
  /\ UNCHANGED <<source, target, copy, leases, turns, handlers>>
  /\ Keep

(* The package is carried to the target, when the source still has it.     *)
Transfer(o) ==
  /\ move[o].phase = "transferring" /\ move[o].status = "running"
  /\ IF source[o].state = "exported" /\ source[o].pkg = move[o].pkg
     THEN /\ move' = [move EXCEPT ![o].phase = "preparing-target"]
          /\ handlers' = handlers \cup CallsFor(o, "preparing-target")
     ELSE /\ move' = [move EXCEPT ![o] = Stopped(@)]
          /\ UNCHANGED handlers
  /\ UNCHANGED <<source, target, copy, leases, turns>>
  /\ Keep

(* resolve: a move that stopped goes on from its phase, or goes back, when *)
(* a person says so, whether or not a call it gave up still runs.          *)
Resolvable(o) == move[o].status = "recovery-required"

(* The moments it is not protected against: a call that was given up still *)
(* runs and will write what the move relies on; or the source is frozen    *)
(* while a turn that its freeze did not stop goes on.                      *)
Delicate == {"freeze", "export", "import", "release"}
Unsettled(o) == \E x \in handlers : x.op = o /\ x.call \in Delicate
TurnGoesOn(o) == source[o].state \in FrozenStates /\ move[o].from \in turns

Continue(o) ==
  /\ Resolvable(o)
  /\ move[o].phase # "rolling-back"
  /\ move' = [move EXCEPT ![o].status = "running"]
  /\ handlers' = handlers \cup CallsFor(o, move[o].phase)
  /\ broken' = (broken \/ Unsettled(o) \/ TurnGoesOn(o))
  /\ UNCHANGED <<source, target, copy, leases, turns, lost, troubles>>

Rollback(o) ==
  /\ Resolvable(o)
  /\ move[o].phase = "rolling-back" \/ CanRollback(move[o].phase)
  /\ move' = [move EXCEPT ![o].phase = "rolling-back", ![o].status = "running"]
  /\ handlers' = handlers \cup CallsFor(o, "rolling-back")
  /\ broken' = (broken \/ Unsettled(o))
  /\ UNCHANGED <<source, target, copy, leases, turns, lost, troubles>>

(* Somebody goes on with a conversation that nothing holds.                *)
Write(h) ==
  /\ Usable(h) /\ copy[h].messages < MaxMessages
  /\ copy' = [copy EXCEPT ![h].messages = @ + 1]
  /\ UNCHANGED <<move, source, target, leases, turns, handlers>>
  /\ Keep

-----------------------------------------------------------------------------
(* What goes wrong.                                                        *)

Trouble == troubles < MaxTroubles /\ troubles' = troubles + 1

(* A step of a handler throws (Git, the disk, a host that is offline) and  *)
(* leaves the journals as they are.                                        *)
StepFails(x) ==
  /\ Trouble
  /\ Fails(x)
  /\ UNCHANGED <<source, target, copy, leases, turns, lost, broken>>

(* The bridge breaks: the coordinator gives a remote host's call, or a     *)
(* transfer, up; the call may not have reached the host.                   *)
HandlerHost(x) == HostOf(x.op, RoleOf(x.call))
LoseCall(o) ==
  /\ Trouble
  /\ move[o].status = "running"
  /\ \/ move[o].phase = "transferring" /\ UNCHANGED handlers
     \/ \E x \in handlers : /\ x.op = o /\ Waits(x) /\ HandlerHost(x) # Here
                            /\ \/ UNCHANGED handlers
                               \/ x.at = "start" /\ handlers' = handlers \ {x}
  /\ move' = [move EXCEPT ![o] = Stopped(@)]
  /\ lost' = [lost EXCEPT ![o] = @ + 1]
  /\ UNCHANGED <<source, target, copy, leases, turns, broken>>

(* A host stops and starts again: its handlers and leases are gone, and    *)
(* the leases of its active endpoints come back before any turn resumes    *)
(* (restoreMoveEndpointLeases).  The coordinator's own moves wait for the  *)
(* person then (markInterrupted); a move that called the host stops.       *)
Interrupted(o, h) ==
  /\ move[o].status = "running"
  /\ h = Here \/ \E x \in handlers : x.op = o /\ Waits(x) /\ HandlerHost(x) = h

(* A host that stops after its source left the active states and before    *)
(* the conversation is deleted: no lease comes back.                       *)
LettingGo(o, h) == /\ move[o].from = h /\ source[o].state = "releasing"
                   /\ HasCopy(h)

Restart(h) ==
  /\ Trouble
  /\ handlers' = {x \in handlers : HandlerHost(x) # h}
  /\ leases' = {l \in leases : HostOf(l[1], l[2]) # h}
               \cup {l \in Ops \X {"source", "target"} :
                       HostOf(l[1], l[2]) = h /\ Active(l[1], l[2])}
  /\ move' = [o \in Ops |->
                CASE h = Here /\ move[o].phase = "inspecting"
                       -> [move[o] EXCEPT !.phase = "unborn"]
                  [] h = Here /\ move[o].phase = "prepared"
                       -> Cancelled(move[o])
                  [] Interrupted(o, h) -> Stopped(move[o])
                  [] OTHER -> move[o]]
  /\ lost' = [o \in Ops |-> IF Interrupted(o, h) THEN lost[o] + 1 ELSE lost[o]]
  /\ turns' = turns \ {h}
  /\ broken' = (broken \/ \E o \in Ops : LettingGo(o, h))
  /\ UNCHANGED <<source, target, copy>>

-----------------------------------------------------------------------------

Init ==
  /\ move = [o \in Ops |-> [phase |-> "unborn", status |-> "none",
                            from |-> First, to |-> First, print |-> 0,
                            pkg |-> 0]]
  /\ source = [o \in Ops |-> [state |-> "none", cwd |-> Home, pkg |-> 0]]
  /\ target = [o \in Ops |-> "none"]
  /\ copy = [h \in Hosts |-> IF h = First THEN [messages |-> 0, cwd |-> Home]
                             ELSE None]
  /\ leases = {}
  /\ turns = {}
  /\ handlers = {}
  /\ lost = [o \in Ops |-> 0]
  /\ troubles = 0
  /\ broken = FALSE

HandlerStep(o) == \E x \in handlers : x.op = o /\ (SourceStep(x) \/ TargetStep(x))

Next == \/ \E o \in Ops : \/ \E from, to \in Hosts : Inspect(o, from, to)
                          \/ Prepare(o) \/ Execute(o) \/ Cancel(o)
                          \/ Transfer(o) \/ Continue(o) \/ Rollback(o)
                          \/ HandlerStep(o)
                          \/ LoseCall(o)
        \/ \E x \in handlers : StepFails(x)
        \/ \E h \in Hosts : Write(h) \/ Restart(h)

(* The hosts and the coordinator go on; a person who finds a move stopped  *)
(* in its recovery list eventually resolves it the way it can still go.    *)
Fairness == \A o \in Ops :
              /\ WF_vars(HandlerStep(o))
              /\ WF_vars(Transfer(o))
              /\ WF_vars(Continue(o) /\ ~CanRollback(move[o].phase))
              /\ WF_vars(Rollback(o) /\ move[o].phase = "rolling-back")

Spec == Init /\ [][Next]_vars /\ Fairness

-----------------------------------------------------------------------------
(* Properties.                                                             *)

MoveTypeOK ==
  /\ move \in [Ops -> [phase : Phases, status : Statuses, from : Hosts,
                       to : Hosts, print : 0..MaxMessages,
                       pkg : 0..MaxMessages]]
  /\ source \in [Ops -> [state : {"none", "frozen", "exported", "releasing",
                                  "released", "thawed"},
                         cwd : {Home} \cup Ops, pkg : 0..MaxMessages]]
  /\ target \in [Ops -> {"none", "workspace-ready", "importing", "imported",
                         "committed", "discarded"}]
  /\ copy \in [Hosts -> {None} \cup [messages : 0..MaxMessages,
                                     cwd : {Home} \cup Ops]]
  /\ leases \subseteq Ops \X {"source", "target"}
  /\ turns \subseteq Hosts
  /\ \A x \in handlers :
        x \in [op : Ops, call : Calls, id : Nat, read : 0..MaxMessages,
               at : {"start", "quiesce", "check", "thaw", "write", "delete",
                     "drop", "undo", "unpack", "git", "files", "rows",
                     "commit", "staging"}]
  /\ lost \in [Ops -> Nat]
  /\ troubles \in 0..MaxTroubles
  /\ broken \in BOOLEAN

(* The host the conversation lives on: one that has a copy no unfinished   *)
(* import put there.                                                       *)
Lives(h) ==
  /\ HasCopy(h)
  /\ \/ copy[h].cwd = Home
     \/ LET o == copy[h].cwd
        IN  \/ source[o].state = "released"
            \/ source[o].state = "releasing" /\ ~HasCopy(move[o].from)
TheHome == CHOOSE h \in Hosts : Lives(h)

(* The conversation lives on exactly one host, and a copy anywhere else is *)
(* locked: whatever fails, is retried or rolled back, nobody works on two  *)
(* copies, and it is never gone.                                           *)
OneUsableCopy ==
  ~broken => /\ \E h \in Hosts : Lives(h)
             /\ \A g, h \in Hosts : Lives(g) /\ (Lives(h) \/ Usable(h)) => g = h

(* While a move is stopped halfway the conversation stays held on both     *)
(* machines (docs/remote-workspaces.md 172): nobody works on a copy that   *)
(* is not where the conversation lives.                                    *)
CopiesStayHeld ==
  \A o \in Ops : move[o].status = "recovery-required" =>
    \A h \in {move[o].from, move[o].to} : Usable(h) => Lives(h)

(* The source lets the conversation go only when the target's journal says *)
(* it is there, and no late call, retry or rollback takes that back.       *)
LeftOnlyIfArrived ==
  ~broken => \A o \in Ops : source[o].state \in {"releasing", "released"}
                               => target[o] \in {"imported", "committed"}

(* Whole: a move is one change of home to whoever works on it, and nothing *)
(* said before, during or after it is lost.                                *)
Register == INSTANCE MoveRegister
              WITH home <- IF broken THEN First ELSE TheHome,
                   messages <- IF broken THEN 0 ELSE copy[TheHome].messages
ImplementsRegister == Register!Spec

(* Once its copy was verified a move completes, and once it turns back it  *)
(* gets back, however often it stops: no journal is stuck half moved.      *)
MovesGetThrough ==
  \A o \in Ops :
    /\ move[o].phase \in {"releasing-source", "committing"}
         ~> (move[o].phase = "completed" \/ broken)
    /\ move[o].phase = "rolling-back"
         ~> (move[o].phase = "rolled-back" \/ broken)

=============================================================================
