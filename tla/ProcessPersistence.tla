------------------------- MODULE ProcessPersistence -------------------------
(***************************************************************************)
(* Who works on a project's process files: the supervisor that admits a    *)
(* process, marks it running and records its end, the terminal outbox that *)
(* announces the end and then releases the process's reservation, and the  *)
(* startup that recovers the files after a crash, which may come between   *)
(* any two writes, those of a recovery included.                           *)
(*                                                                         *)
(* Every operation but MarkRunning holds the project's lane from its first *)
(* write to its last; an action is one write, or what happens between two. *)
(* One project is modelled: projects share no files but the authority, of  *)
(* which each has a partition of its own.                                  *)
(***************************************************************************)
EXTENDS ProcessStore

CONSTANT NoProc

ASSUME ProcessPersistenceAssumption == NoProc \notin Procs

VARIABLES phase,     \* "down", "recovering", "up", "refused" (by a check) or "stopped" (by a save)
          lane,      \* the operation that holds the lane: what, for whom, where, chosen records
          sup,       \* [Procs -> where the supervisor is with the process]
          outbox,    \* the drain of the outbox: events still to handle, the one delivered
          delivered, \* [Procs -> the end that a durable message announces, or "none"]
          cutShort   \* history: a startup has been cut short while it recovered

vars == <<mem, disk, logs, phase, lane, sup, outbox, delivered, cutShort, storage>>

Phases == {"down", "recovering", "up", "refused", "stopped"}
SupStates == {"new", "admitting", "rejected", "admitted", "opened", "running", "exited",
              "recording", "ended", "gone"}

AdmitPlan ==
  [intent |-> "token_selected", token_selected |-> "allocate", allocate |-> "allocated",
   allocated |-> "create", create |-> "authority_saved", authority_saved |-> "activate",
   activate |-> "active", active |-> "reservation", reservation |-> "committed",
   committed |-> "end"]

TerminalPlanWithoutSlot == [record |-> "reservation", slot |-> "reservation", reservation |-> "end"]
TerminalPlan == [record |-> "slot", slot |-> "reservation", reservation |-> "end"]

(* Mutant: the slot is not freed. *)
ReleasePlanKeepingSlot ==
  [release_intent |-> "acknowledge", acknowledge |-> "release_marked", release_marked |-> "slot",
   slot |-> "reservation", reservation |-> "detach", detach |-> "authority_detached",
   authority_detached |-> "forget_admission", free |-> "forget_admission",
   forget_admission |-> "forget_release", forget_release |-> "select"]

ReleasePlan ==
  [release_intent |-> "acknowledge", acknowledge |-> "release_marked", release_marked |-> "slot",
   slot |-> "reservation", reservation |-> "detach", detach |-> "authority_detached",
   authority_detached |-> "free", free |-> "forget_admission",
   forget_admission |-> "forget_release", forget_release |-> "select"]

RetentionPlan == [select |-> "remove", remove |-> "delete", delete |-> "end"]

BootSteps == {"operations", "release", "admission", "interrupt", "slots", "tombstones", "expire"}

FreeLane == [op |-> "none", proc |-> NoProc, pc |-> "idle", chosen |-> {}]
Steps(op) ==
  CASE op = "admit" -> DOMAIN AdmitPlan
    [] op = "terminal" -> DOMAIN TerminalPlan
    [] op = "release" -> DOMAIN ReleasePlan \cup DOMAIN RetentionPlan
    [] op = "boot" -> BootSteps \cup DOMAIN RetentionPlan
    [] op = "none" -> {"idle"}
Lanes == UNION {[op : {op}, proc : Procs \cup {NoProc}, pc : Steps(op), chosen : SUBSET Procs] :
                 op \in {"none", "admit", "terminal", "release", "boot"}}

TypeOK ==
  /\ mem \in Stores /\ disk \in Stores
  /\ logs \subseteq Procs
  /\ phase \in Phases
  /\ lane \in Lanes
  /\ sup \in [Procs -> SupStates]
  /\ outbox \in [todo : SUBSET Procs, acking : Procs \cup {NoProc}]
  /\ delivered \in [Procs -> {"none", "exited", "interrupted"}]
  /\ cutShort \in BOOLEAN
  /\ storage \in Storage

IdleOutbox == [todo |-> {}, acking |-> NoProc]

Init ==
  /\ mem = EmptyStores /\ disk = EmptyStores /\ logs = {}
  /\ phase = "up" /\ lane = FreeLane
  /\ sup = [p \in Procs |-> "new"]
  /\ outbox = IdleOutbox
  /\ delivered = [p \in Procs |-> "none"]
  /\ cutShort = FALSE
  /\ storage \in Storage

At(op, pc) == lane.op = op /\ lane.pc = pc
Take(op, p, pc) == lane' = [op |-> op, proc |-> p, pc |-> pc, chosen |-> {}]
Goto(pc) == lane' = [lane EXCEPT !.pc = pc]
(* On to the next step of a plan; the lane is free after its last one and   *)
(* when a step fails.                                                       *)
Follow(plan, ok) ==
  lane' = IF ok /\ plan[lane.pc] # "end" THEN [lane EXCEPT !.pc = plan[lane.pc]] ELSE FreeLane
Ends(plan, ok) == ~ ok \/ plan[lane.pc] = "end"
Sup(p, state) == sup' = [sup EXCEPT ![p] = state]

-----------------------------------------------------------------------------
(* The supervisor *)

(* Start: Reserve takes the lane.                                           *)
Reserve(p) ==
  /\ phase = "up" /\ lane = FreeLane
  /\ sup[p] = "new"
  /\ Take("admit", p, "intent")
  /\ Sup(p, "admitting")
  /\ UNCHANGED <<mem, disk, logs, phase, outbox, delivered, cutShort, storage>>

(* nextFreeSlot and allocateLedger                                          *)
Allocate(p, ok) ==
  IF Cardinality({q \in Procs : Slot(q) # "none"}) < Capacity[storage] /\ Slot(p) = "none"
  THEN PutSlot(p, "allocating", ok) ELSE Keep /\ ~ ok

(* createAuthorityRecord *)
CreateRecord(p, ok) ==
  IF Rec(p).state = "absent"
  THEN PutRecord(p, [state |-> "starting", res |-> "allocating", event |-> FALSE, acked |-> FALSE], ok)
  ELSE Keep /\ ok = (Rec(p).state = "starting" /\ Rec(p).res = "allocating")

(* admitProcessLocked, one write at a time.                                 *)
AdmitProcess(p, ok) ==
  /\ lane.op = "admit" /\ lane.proc = p
  /\ \/ lane.pc \in {"intent", "token_selected", "allocated", "authority_saved", "active", "committed"}
          /\ PutAdmission(p, lane.pc, ok)
     \/ lane.pc = "allocate" /\ Allocate(p, ok)
     \/ lane.pc = "create" /\ CreateRecord(p, ok)
     \/ lane.pc = "activate" /\ MoveSlot(p, "active", ok)
     \/ lane.pc = "reservation" /\ PutReservation(p, "active", ok)
  /\ Follow(AdmitPlan, ok)
  /\ sup' = IF Ends(AdmitPlan, ok) THEN [sup EXCEPT ![p] = IF ok THEN "admitted" ELSE "rejected"] ELSE sup
  /\ UNCHANGED <<logs, phase, outbox, delivered, cutShort, storage>>

(* CreateStarting confirms the admission and the log is opened.             *)
OpenLog(p) ==
  /\ phase = "up" /\ sup[p] = "admitted"
  /\ Rec(p).state = "starting" /\ Rec(p).res = "active"
  /\ logs' = logs \cup {p}
  /\ Sup(p, "opened")
  /\ UNCHANGED <<mem, disk, phase, lane, outbox, delivered, cutShort, storage>>

(* failBeforeSpawn: the log or the child cannot be had.                     *)
FailBeforeSpawn(p) ==
  /\ phase = "up" /\ sup[p] \in {"admitted", "opened"}
  /\ Sup(p, "exited")
  /\ UNCHANGED <<mem, disk, logs, phase, lane, outbox, delivered, cutShort, storage>>

(* The child runs; if that cannot be recorded it is killed (rollbackSpawn). *)
MarkRunning(p, ok) ==
  /\ phase = "up" /\ sup[p] = "opened"
  /\ IF Rec(p).res # "none" /\ CanTransition(Rec(p).state, "running")
     THEN PutRecord(p, [Rec(p) EXCEPT !.state = "running"], ok) ELSE Keep /\ ~ ok
  /\ Sup(p, IF ok THEN "running" ELSE "exited")
  /\ UNCHANGED <<logs, phase, lane, outbox, delivered, cutShort, storage>>

Exit(p) ==
  /\ phase = "up" /\ sup[p] = "running"
  /\ Sup(p, "exited")
  /\ UNCHANGED <<mem, disk, logs, phase, lane, outbox, delivered, cutShort, storage>>

(* An attempt of persistTerminal; between two the lane is free.             *)
MarkTerminal(p) ==
  /\ phase = "up" /\ lane = FreeLane
  /\ sup[p] = "exited"
  /\ Take("terminal", p, "record")
  /\ Sup(p, "recording")
  /\ UNCHANGED <<mem, disk, logs, phase, outbox, delivered, cutShort, storage>>

(* persistTerminalAuthority: a retry that finds the event does not save it. *)
PersistTerminal(p, ok) ==
  IF Rec(p).event /\ Rec(p).res # "none" THEN Keep /\ ok = (Rec(p).state = "exited") ELSE
  IF Rec(p).res \notin {"none", "allocating"} /\ CanTransition(Rec(p).state, "exited")
  THEN PutRecord(p, [Rec(p) EXCEPT !.state = "exited", !.res = "terminal_unacknowledged",
                                   !.event = TRUE], ok)
  ELSE Keep /\ ~ ok

RecordTerminal(p, ok) ==
  /\ lane.op = "terminal" /\ lane.proc = p
  /\ \/ lane.pc = "record" /\ PersistTerminal(p, ok)
     \/ lane.pc = "slot" /\ MoveSlot(p, "terminal_unacknowledged", ok)
     \/ lane.pc = "reservation" /\ PutReservation(p, "terminal_unacknowledged", ok)
  /\ Follow(TerminalPlan, ok)
  /\ sup' = IF Ends(TerminalPlan, ok) THEN [sup EXCEPT ![p] = IF ok THEN "ended" ELSE "exited"] ELSE sup
  /\ UNCHANGED <<logs, phase, outbox, delivered, cutShort, storage>>

-----------------------------------------------------------------------------
(* Retention: applyRetentionLocked, at the end of a release and of a        *)
(* startup.  Age and size limits choose among the released records.         *)

Retainable == {p \in Procs : Rec(p).state # "absent" /\ Rec(p).res = "none" /\ ~ Rec(p).event}

(* Mutant: the tombstones are not saved before the logs go. *)
SelectExpiredUnsaved(S, ok) ==
  /\ lane.pc = "select" /\ S \subseteq Retainable
  /\ Keep /\ ok
  /\ lane' = [lane EXCEPT !.pc = "remove", !.chosen = S]
  /\ UNCHANGED logs

SelectExpired(S, ok) ==
  /\ lane.pc = "select" /\ S \subseteq Retainable
  /\ IF S = {} THEN Keep /\ ok
     ELSE PutAuthority([mem.authority EXCEPT !.tombstones = @ \cup S], ok)
  /\ lane' = IF ok THEN [lane EXCEPT !.pc = "remove", !.chosen = S] ELSE FreeLane
  /\ UNCHANGED logs

RemoveLogs ==
  /\ lane.pc = "remove"
  /\ logs' = logs \ lane.chosen
  /\ Goto("delete")
  /\ Keep

DeleteExpired(ok) ==
  /\ lane.pc = "delete"
  /\ PutAuthority([mem.authority EXCEPT !.records =
                     [p \in Procs |-> IF p \in lane.chosen THEN NoRecord ELSE @[p]]], ok)
  /\ lane' = FreeLane
  /\ UNCHANGED logs

Retain(ok) == (\E S \in SUBSET Procs : SelectExpired(S, ok)) \/ (ok /\ RemoveLogs) \/ DeleteExpired(ok)

-----------------------------------------------------------------------------
(* The terminal outbox *)

Handled(p) == outbox' = [todo |-> outbox.todo \ {p}, acking |-> NoProc]

(* PendingTerminalEvents; an invalid event disables the project.            *)
CollectEvents ==
  /\ phase = "up" /\ lane = FreeLane
  /\ outbox = IdleOutbox
  /\ LET pending == {p \in Procs : Rec(p).event}
     IN  /\ pending # {}
         /\ IF \A p \in pending : ValidEvent(Rec(p))
            THEN outbox' = [outbox EXCEPT !.todo = pending] /\ UNCHANGED phase
            ELSE phase' = "refused" /\ UNCHANGED outbox
  /\ UNCHANGED <<mem, disk, logs, lane, sup, delivered, cutShort, storage>>

(* admitProcessTerminalMessage: a message that is there must announce the   *)
(* same end.                                                                *)
DeliverNothing(p) ==
  /\ phase = "up" /\ outbox.acking = NoProc /\ p \in outbox.todo
  /\ outbox' = [outbox EXCEPT !.acking = p]
  /\ UNCHANGED <<mem, disk, logs, phase, lane, sup, delivered, cutShort, storage>>

Deliver(p) ==
  /\ phase = "up" /\ outbox.acking = NoProc /\ p \in outbox.todo
  /\ delivered[p] \in {"none", Rec(p).state}
  /\ delivered' = [delivered EXCEPT ![p] = Rec(p).state]
  /\ outbox' = [outbox EXCEPT !.acking = p]
  /\ UNCHANGED <<mem, disk, logs, phase, lane, sup, cutShort, storage>>

(* Mutant: the drain acknowledges what it failed to deliver. *)
DeliveryFailsAndGoesOn(p) ==
  /\ phase = "up" /\ outbox.acking = NoProc /\ p \in outbox.todo
  /\ outbox' = [outbox EXCEPT !.acking = p]
  /\ UNCHANGED <<mem, disk, logs, phase, lane, sup, delivered, cutShort, storage>>

DeliveryFails(p) ==
  /\ phase = "up" /\ outbox.acking = NoProc /\ p \in outbox.todo
  /\ Handled(p)
  /\ UNCHANGED <<mem, disk, logs, phase, lane, sup, delivered, cutShort, storage>>

(* validateTerminalAcknowledgement *)
MayAcknowledge(p) ==
  /\ Terminal(Rec(p).state)
  /\ IF Rec(p).event THEN ValidEvent(Rec(p)) ELSE Rec(p).acked

AcknowledgeTerminal(p) ==
  /\ phase = "up" /\ lane = FreeLane
  /\ outbox.acking = p
  /\ IF MayAcknowledge(p) /\ Rec(p).res # "none"
     THEN /\ Take("release", p, IF Release(p) = "none" THEN "release_intent" ELSE "acknowledge")
          /\ UNCHANGED outbox
     ELSE Handled(p) /\ UNCHANGED lane
  /\ UNCHANGED <<mem, disk, logs, phase, sup, delivered, cutShort, storage>>

(* releaseTerminalLocked up to the retention, one write at a time.          *)
ReleaseTerminal(p, ok) ==
  /\ \/ lane.pc \in {"release_intent", "release_marked", "authority_detached"}
          /\ PutRelease(p, lane.pc, ok)
     \/ lane.pc = "acknowledge" /\ Acknowledge(p, ok)
     \/ lane.pc = "slot" /\ Rec(p).res # "none" /\ MoveSlot(p, "releasing", ok)
     \/ lane.pc = "reservation" /\ PutReservation(p, "releasing", ok)
     \/ lane.pc = "detach" /\ Detach(p, ok)
     \/ lane.pc = "free" /\ FreeSlot(p, ok)
     \/ lane.pc = "forget_admission" /\ PutAdmission(p, "none", ok)
     \/ lane.pc = "forget_release" /\ PutRelease(p, "none", ok)
  /\ Follow(ReleasePlan, ok)
  /\ UNCHANGED logs

ReleaseStep(p, ok) ==
  /\ lane.op = "release" /\ lane.proc = p
  /\ ReleaseTerminal(p, ok) \/ Retain(ok)
  /\ IF lane' = FreeLane THEN Handled(p) ELSE UNCHANGED outbox
  /\ UNCHANGED <<phase, sup, delivered, cutShort, storage>>

-----------------------------------------------------------------------------
(* Startup *)

Refuse == phase' = "refused" /\ lane' = FreeLane /\ Keep
Booting(pc) == phase = "recovering" /\ At("boot", pc)
(* A recovery step either goes on at pc or stops because its save failed.   *)
GoOn(pc, ok) ==
  IF ok THEN Goto(pc) /\ UNCHANGED phase ELSE lane' = FreeLane /\ phase' = "stopped"

Load ==
  /\ phase = "down"
  /\ mem' = disk
  /\ IF ValidAuthority(disk.authority)
     THEN phase' = "recovering" /\ Take("boot", NoProc, "operations")
     ELSE phase' = "refused" /\ UNCHANGED lane
  /\ UNCHANGED <<disk, logs, sup, outbox, delivered, cutShort, storage>>

Releasing == \E p \in Procs : Release(p) # "none"

(* recoverProjectLocked takes the operations one by one, releases first.    *)
RecoverOperation(p) ==
  /\ Booting("operations")
  /\ \/ Release(p) # "none"
          /\ IF ReleaseIsRecoverable(p) THEN lane' = [lane EXCEPT !.pc = "release", !.proc = p]
                                             /\ UNCHANGED phase /\ Keep
             ELSE Refuse
     \/ ~ Releasing /\ Admission(p) # "none" /\ p \notin lane.chosen
          /\ IF AdmissionIsRecoverable(p) THEN lane' = [lane EXCEPT !.pc = "admission", !.proc = p]
                                               /\ UNCHANGED phase /\ Keep
             ELSE Refuse
  /\ UNCHANGED <<logs, sup, outbox, delivered, cutShort, storage>>

(* recoverReleaseLocked: the next write that is still missing.              *)
RecoverRelease(p, ok) ==
  LET r == Rec(p) IN
  /\ Booting("release") /\ lane.proc = p
  /\ \/ r.event /\ Acknowledge(p, ok) /\ GoOn("release", ok)
     \/ ~ r.event /\ GoOn("release", ok) /\
          \/ "terminal_unacknowledged" \in {r.res, Slot(p)} /\ Slot(p) # "releasing"
               /\ MoveSlot(p, "releasing", ok)
          \/ r.res = "terminal_unacknowledged" /\ Slot(p) = "releasing" /\ PutReservation(p, "releasing", ok)
          \/ r.res = "releasing" /\ Detach(p, ok)
          \/ r.res = "none" /\ Slot(p) = "releasing" /\ FreeSlot(p, ok)
          \/ r.res = "none" /\ Slot(p) = "none" /\ Admission(p) # "none" /\ PutAdmission(p, "none", ok)
     \/ ~ r.event /\ r.res = "none" /\ Slot(p) = "none" /\ Admission(p) = "none"
          /\ PutRelease(p, "none", ok) /\ GoOn("operations", ok)
  /\ UNCHANGED <<logs, sup, outbox, delivered, cutShort, storage>>

(* recoverAdmissionLocked: rolled back without a record, completed with one. *)
Target(p) == IF Terminal(Rec(p).state) THEN Rec(p).res ELSE "active"

RecoverAdmission(p, ok) ==
  /\ Booting("admission") /\ lane.proc = p
  /\ \/ Rec(p).state = "absent" /\ Slot(p) # "none" /\ PutSlot(p, "none", ok) /\ GoOn("admission", ok)
     \/ Rec(p).state = "absent" /\ Slot(p) = "none" /\ PutAdmission(p, "none", ok) /\ GoOn("operations", ok)
     \/ Rec(p).state # "absent" /\ GoOn("admission", ok) /\
          \/ Slot(p) = "allocating" /\ MoveSlot(p, "active", ok)
          \/ Slot(p) \in {"active", "terminal_unacknowledged"} /\ Slot(p) # Target(p)
               /\ MoveSlot(p, IF Slot(p) = "active" THEN "terminal_unacknowledged" ELSE Target(p), ok)
          \/ Slot(p) = Target(p) /\ Rec(p).res # Slot(p) /\ PutReservation(p, Slot(p), ok)
          \/ Slot(p) = Target(p) /\ Rec(p).res = Slot(p) /\ Admission(p) # "committed"
               /\ PutAdmission(p, "committed", ok)
     \/ Rec(p).state # "absent" /\ Slot(p) = Target(p) /\ Rec(p).res = Slot(p)
          /\ Admission(p) = "committed" /\ ok /\ Keep /\ UNCHANGED phase
          /\ lane' = [lane EXCEPT !.pc = "operations", !.chosen = @ \cup {p}]
  /\ UNCHANGED <<logs, sup, outbox, delivered, cutShort, storage>>

OperationsRecovered ==
  /\ Booting("operations")
  /\ ~ Releasing /\ \A p \in Procs : Admission(p) # "none" => p \in lane.chosen
  /\ IF Bijective(mem) THEN lane' = [lane EXCEPT !.pc = "interrupt", !.chosen = {}] /\ UNCHANGED phase /\ Keep
     ELSE Refuse
  /\ UNCHANGED <<logs, sup, outbox, delivered, cutShort, storage>>

(* recoverInterruptedProcesses: one save for all, then their slots.         *)
InterruptProcesses(ok) ==
  LET live == {p \in Procs : Rec(p).state \in {"starting", "running"}}
      after == [p \in Procs |-> IF p \in live
                  THEN [Rec(p) EXCEPT !.state = "interrupted", !.res = "terminal_unacknowledged",
                                      !.event = TRUE]
                  ELSE Rec(p)]
  IN
  /\ Booting("interrupt")
  /\ IF \E p \in live : Rec(p).res # "active" THEN ~ ok /\ Refuse ELSE
       /\ IF live = {} THEN Keep /\ ok ELSE PutAuthority([mem.authority EXCEPT !.records = after], ok)
       /\ IF ok THEN lane' = [lane EXCEPT !.pc = "slots", !.chosen = live] /\ UNCHANGED phase
          ELSE lane' = FreeLane /\ phase' = "stopped"
  /\ UNCHANGED <<logs, sup, outbox, delivered, cutShort, storage>>

InterruptSlot(p, ok) ==
  /\ Booting("slots") /\ p \in lane.chosen
  /\ MoveSlot(p, "terminal_unacknowledged", ok)
  /\ IF ok THEN lane' = [lane EXCEPT !.chosen = @ \ {p}] /\ UNCHANGED phase
     ELSE lane' = FreeLane /\ phase' = "stopped"
  /\ UNCHANGED <<logs, sup, outbox, delivered, cutShort, storage>>

ProcessesInterrupted ==
  /\ Booting("slots") /\ lane.chosen = {}
  /\ IF Bijective(mem) THEN Goto("tombstones") /\ UNCHANGED phase /\ Keep ELSE Refuse
  /\ UNCHANGED <<logs, sup, outbox, delivered, cutShort, storage>>

(* recoverTombstones: first the logs, then the records and the tombstones.  *)
RecoverTombstones ==
  /\ Booting("tombstones")
  /\ logs' = logs \ mem.authority.tombstones
  /\ Goto("expire")
  /\ UNCHANGED <<mem, disk, phase, sup, outbox, delivered, cutShort, storage>>

ExpireTombstones(ok) ==
  LET dead == mem.authority.tombstones IN
  /\ Booting("expire")
  /\ IF dead = {} THEN Keep /\ ok
     ELSE PutAuthority([records |-> [p \in Procs |-> IF p \in dead THEN NoRecord ELSE Rec(p)],
                        tombstones |-> {}], ok)
  /\ GoOn("select", ok)
  /\ UNCHANGED <<logs, sup, outbox, delivered, cutShort, storage>>

BootRetention(ok) ==
  /\ phase = "recovering" /\ lane.op = "boot"
  /\ Retain(ok)
  /\ phase' = IF lane' # FreeLane THEN phase ELSE IF ok THEN "up" ELSE "stopped"
  /\ UNCHANGED <<sup, outbox, delivered, cutShort, storage>>

(* The process dies, and its children with it.                              *)
Crash ==
  /\ phase # "down"
  /\ phase' = "down" /\ mem' = EmptyStores /\ lane' = FreeLane
  /\ sup' = [p \in Procs |-> IF sup[p] = "new" THEN "new" ELSE "gone"]
  /\ outbox' = IdleOutbox
  /\ cutShort' = (cutShort \/ phase \in {"recovering", "stopped"})
  /\ UNCHANGED <<disk, logs, delivered, storage>>

-----------------------------------------------------------------------------
SupervisorStep(p) ==
  \/ Reserve(p) \/ OpenLog(p) \/ FailBeforeSpawn(p) \/ Exit(p) \/ MarkTerminal(p)
  \/ \E ok \in BOOLEAN : AdmitProcess(p, ok) \/ MarkRunning(p, ok) \/ RecordTerminal(p, ok)

OutboxStep ==
  \/ CollectEvents
  \/ \E p \in Procs : \/ Deliver(p) \/ DeliveryFails(p) \/ AcknowledgeTerminal(p)
                      \/ \E ok \in BOOLEAN : ReleaseStep(p, ok)

BootStep ==
  \/ Load \/ OperationsRecovered \/ ProcessesInterrupted \/ RecoverTombstones
  \/ \E ok \in BOOLEAN : InterruptProcesses(ok) \/ ExpireTombstones(ok) \/ BootRetention(ok)
  \/ \E p \in Procs : \/ RecoverOperation(p)
                      \/ \E ok \in BOOLEAN : \/ RecoverRelease(p, ok) \/ RecoverAdmission(p, ok)
                                             \/ InterruptSlot(p, ok)

Next == (\E p \in Procs : SupervisorStep(p)) \/ OutboxStep \/ BootStep \/ Crash

Spec == Init /\ [][Next]_vars

=============================================================================
