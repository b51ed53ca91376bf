-------------------------- MODULE ProcessProperties --------------------------
(***************************************************************************)
(* What the process files and those who write them promise.                *)
(***************************************************************************)
EXTENDS ProcessPersistence

(* A startup finds nothing in the files that its checks refuse: wherever the *)
(* process stopped, in an admission, an end, a release, a retention or an    *)
(* earlier recovery, recoverProjectLocked and recoverInterruptedProcesses    *)
(* get through, and the outbox never disables the project.                   *)
RecoveryIsNeverRefused == phase # "refused"

(* Where saves succeed, they are refused for one reason only: an earlier     *)
(* startup was itself cut short while it recovered them.                     *)
RefusedOnlyAfterCutShort == storage = "sound" /\ phase = "refused" => cutShort

(* Between two operations, records, reservations and committed admissions   *)
(* are one-to-one, and what is in memory is what is on disk, unless a save  *)
(* has failed.                                                              *)
FilesAgreeAtRest ==
  storage = "sound" /\ phase = "up" /\ lane = FreeLane => Bijective(mem) /\ mem = disk

(* The end of a process is marked acknowledged, and its reservation may be  *)
(* given back, only after the message that announces it is durable.         *)
AcknowledgedEndsWereDelivered ==
  \A p \in Procs : disk.authority.records[p].acked => delivered[p] # "none"

(* A durable message announces the end that the record holds: a retry never *)
(* meets its own message with other contents, which would refuse it forever. *)
DeliveriesMatch ==
  \A p \in Procs : delivered[p] # "none" /\ Rec(p).event => delivered[p] = Rec(p).state

(* A log is removed only once its tombstone is on disk, and a tombstone goes *)
(* only with the record: no record that is read after a restart, and that is *)
(* not due to be deleted, has lost its log.                                  *)
LogsGoAfterTombstones ==
  [][\A p \in Procs :
       /\ p \in logs \ logs' => p \in disk.authority.tombstones
       /\ p \in disk.authority.tombstones \ disk'.authority.tombstones =>
            disk'.authority.records[p].state = "absent"]_vars

(* No save of the authority is refused because of what is in memory, as one *)
(* invalid record blocks the saves of every project; a failed save may      *)
(* leave one behind.                                                        *)
MemoryStaysValid == storage = "sound" => ValidAuthority(mem.authority)

(* Where saves succeed, no interleaving and no crash leaves the three files *)
(* in disagreement, and no start refuses them that was not cut short before. *)
RecordsAgree == RefusedOnlyAfterCutShort /\ FilesAgreeAtRest /\ MemoryStaysValid

(* On disk a process only goes forward: started, running, ended, ended and  *)
(* acknowledged, released.                                                  *)
Rank(r) ==
  CASE r.state = "absent" -> 0
    [] r.state = "starting" -> 1
    [] r.state = "running" -> 2
    [] Terminal(r.state) /\ r.event -> 3
    [] Terminal(r.state) /\ ~ r.event /\ r.res # "none" -> 4
    [] OTHER -> 5

DiskOnlyAdvances ==
  [][\A p \in Procs :
       LET before == disk.authority.records[p]
           after == disk'.authority.records[p]
       IN  \/ Rank(before) <= Rank(after)
           \/ Rank(before) = 5 /\ Rank(after) = 0 /\ p \in disk.authority.tombstones]_vars

(* What is on disk is never undone, and nothing on it refers to what is gone. *)
DiskIsNeverUndone == DiskOnlyAdvances /\ LogsGoAfterTombstones

-----------------------------------------------------------------------------
(* Goroutines run, the outbox is woken and its ticker ticks, a message can  *)
(* be stored if it is tried often enough, a started child ends and recorded *)
(* ends are retried; the lane is a mutex that is granted in turn.  Nothing  *)
(* is assumed of new processes or of crashes.                               *)
Fairness ==
  /\ WF_vars(BootStep)
  /\ SF_vars(CollectEvents)
  /\ \A p \in Procs :
       /\ SF_vars(Deliver(p)) /\ SF_vars(AcknowledgeTerminal(p))
       /\ WF_vars(\E ok \in BOOLEAN : ReleaseStep(p, ok))
       /\ WF_vars(\E ok \in BOOLEAN : AdmitProcess(p, ok) \/ RecordTerminal(p, ok))
       /\ WF_vars(FailBeforeSpawn(p) \/ Exit(p)) /\ SF_vars(MarkTerminal(p))

FairSpec == Spec /\ Fairness

(* Where saves succeed and once the process stays up, every reservation is  *)
(* given back in the end: what is recorded as started ends, is announced    *)
(* and is released.                                                         *)
ReservationsAreReleased ==
  storage = "sound" /\ <>[](phase \notin {"down", "refused", "stopped"}) => \A p \in Procs : []<>(Slot(p) = "none")

-----------------------------------------------------------------------------
(* The abstract view of a process. *)
LifeOf(p) ==
  LET r == disk.authority.records[p]
  IN  CASE r.state = "absent" /\ delivered[p] = "none" -> "unknown"
        [] r.state \in {"starting", "running"} -> "live"
        [] Terminal(r.state) /\ r.res # "none" /\ delivered[p] = "none" -> "ended"
        [] Terminal(r.state) /\ r.res # "none" /\ delivered[p] # "none" -> "announced"
        [] OTHER -> "released"

Life == INSTANCE ProcessLife WITH
          life <- [p \in Procs |-> IF storage = "sound" THEN LifeOf(p) ELSE "unknown"]

(* Where saves succeed, the files implement the life of a process, whatever *)
(* crashes.  A failed save leaves in memory what is not on disk, and a      *)
(* message may then announce an end that is not recorded.                   *)
LifeSpec == Life!Spec

=============================================================================
