---------------------------- MODULE ProcessStore ----------------------------
(***************************************************************************)
(* The three files in which a project keeps its background processes, and  *)
(* the operations on them (process_persistence.go,                         *)
(* process_persistence_mutation.go, process_persistence_recovery.go,       *)
(* internal/monitor/terminal_ledger.go): the journal of operations under   *)
(* way, the ledger of terminal reservations and the authority with the     *)
(* process records.  Each is held in memory and written as a whole; the    *)
(* copy in memory changes first and stays changed when the write fails.    *)
(*                                                                         *)
(* A process is admitted once, under an ID, operation IDs, a slot and a    *)
(* random token of its own: the process stands for all of them.            *)
(***************************************************************************)
EXTENDS Integers, FiniteSets

CONSTANTS Procs,        \* the background processes of the project
          Capacity,     \* slots of the ledger where storage is sound, and where it fails
          FailingSaves  \* the files whose writing may fail where storage fails at all

Files == {"journal", "ledger", "authority"}
Storage == {"sound", "failing"}

ASSUME ProcessStoreAssumption ==
  /\ IsFiniteSet(Procs)
  /\ Capacity \in [Storage -> Nat]
  /\ FailingSaves \subseteq Files

VARIABLES mem,   \* the three files as processRuntimePersistence holds them
          disk,  \* the three files
          logs,  \* processes whose log file exists
          storage \* do saves succeed, or are they "failing" at will?

AdmitStates == {"none", "intent", "token_selected", "allocated", "authority_saved", "active",
                "committed"}
ReleaseStates == {"none", "release_intent", "release_marked", "authority_detached"}
SlotStates == {"none", "allocating", "active", "terminal_unacknowledged", "releasing"}
ProcessStates == {"absent", "starting", "running", "exited", "interrupted"}

(* durableProcessRecord; the reservation is "none" when it is detached.     *)
Record == [state : ProcessStates, res : SlotStates, event : BOOLEAN, acked : BOOLEAN]
NoRecord == [state |-> "absent", res |-> "none", event |-> FALSE, acked |-> FALSE]

Stores == [journal : [Procs -> [admit : AdmitStates, release : ReleaseStates]],
           ledger : [Procs -> SlotStates],
           authority : [records : [Procs -> Record], tombstones : SUBSET Procs]]

EmptyStores ==
  [journal |-> [p \in Procs |-> [admit |-> "none", release |-> "none"]],
   ledger |-> [p \in Procs |-> "none"],
   authority |-> [records |-> [p \in Procs |-> NoRecord], tombstones |-> {}]]

-----------------------------------------------------------------------------
(* Reading *)

Rec(p) == mem.authority.records[p]
Admission(p) == mem.journal[p].admit
Release(p) == mem.journal[p].release
Slot(p) == mem.ledger[p]

Terminal(state) == state \in {"exited", "interrupted"}

(* validateProcessTerminalEvent *)
ValidEvent(r) == Terminal(r.state) /\ r.res = "terminal_unacknowledged"

(* validateProcessAuthorityProject: what every save and every load checks.  *)
ValidRecord(r) ==
  \/ r.state = "absent"
  \/ /\ ~ Terminal(r.state) => r.res \in {"allocating", "active"} /\ ~ r.event /\ ~ r.acked
     /\ Terminal(r.state) /\ r.event => ValidEvent(r) /\ ~ r.acked
     /\ Terminal(r.state) /\ ~ r.event =>
          r.acked /\ r.res \in {"none", "terminal_unacknowledged", "releasing"}

ValidAuthority(a) == \A p \in Procs : ValidRecord(a.records[p])

(* canTransitionTerminalReservation *)
CanMove(from, to) ==
  \/ from = to
  \/ <<from, to>> \in {<<"allocating", "active">>, <<"active", "terminal_unacknowledged">>,
                       <<"terminal_unacknowledged", "releasing">>}

(* CanTransition of internal/process/model.go, exits being one state.       *)
CanTransition(from, to) ==
  \/ from = to
  \/ from = "starting" /\ to \in {"running", "exited", "interrupted"}
  \/ from = "running" /\ to \in {"exited", "interrupted"}

-----------------------------------------------------------------------------
(* Writing: ok says whether the save succeeds.                              *)

Write(file, value, ok) ==
  /\ ok \/ (storage = "failing" /\ file \in FailingSaves)
  /\ mem' = [mem EXCEPT ![file] = value]
  /\ disk' = IF ok THEN [disk EXCEPT ![file] = value] ELSE disk

Keep == UNCHANGED <<mem, disk>>

(* putOperation and deleteOperation *)
PutAdmission(p, state, ok) == Write("journal", [mem.journal EXCEPT ![p].admit = state], ok)
PutRelease(p, state, ok) == Write("journal", [mem.journal EXCEPT ![p].release = state], ok)

(* transitionLedger, its Release and its RollbackAllocation                 *)
PutSlot(p, state, ok) == Write("ledger", [mem.ledger EXCEPT ![p] = state], ok)

MoveSlot(p, state, ok) ==
  IF Slot(p) = state THEN Keep /\ ok ELSE
  IF Slot(p) # "none" /\ CanMove(Slot(p), state) THEN PutSlot(p, state, ok) ELSE Keep /\ ~ ok

(* saveAuthorityLocked: an invalid record is in memory by the time the save *)
(* refuses it.                                                              *)
PutAuthority(a, ok) ==
  IF ValidAuthority(a) THEN Write("authority", a, ok)
  ELSE ~ ok /\ mem' = [mem EXCEPT !.authority = a] /\ UNCHANGED disk

PutRecord(p, r, ok) == PutAuthority([mem.authority EXCEPT !.records[p] = r], ok)

(* updateAuthorityReservation *)
PutReservation(p, state, ok) ==
  IF Rec(p).res # "none" THEN PutRecord(p, [Rec(p) EXCEPT !.res = state], ok) ELSE Keep /\ ~ ok

(* markAuthorityAcknowledged.                                               *)
Acknowledge(p, ok) ==
  IF Terminal(Rec(p).state) /\ Rec(p).event /\ ValidEvent(Rec(p))
  THEN PutRecord(p, [Rec(p) EXCEPT !.event = FALSE, !.acked = TRUE], ok)
  ELSE Keep /\ ok = (Terminal(Rec(p).state) /\ ~ Rec(p).event /\ Rec(p).acked)

(* detachAuthorityReservation *)
Detach(p, ok) ==
  IF Rec(p).res = "none" THEN Keep /\ ok = (Rec(p).state # "absent") ELSE
  IF Rec(p).res = "releasing" /\ ~ Rec(p).event
  THEN PutRecord(p, [Rec(p) EXCEPT !.res = "none"], ok) ELSE Keep /\ ~ ok

(* releaseLedger *)
FreeSlot(p, ok) ==
  IF Slot(p) = "none" THEN Keep /\ ok ELSE
  IF Slot(p) = "releasing" THEN PutSlot(p, "none", ok) ELSE Keep /\ ~ ok

-----------------------------------------------------------------------------
(* What a load and a recovery check *)

(* validateAdmissionRecoveryState, for p with an admission in the journal.  *)
AdmissionIsRecoverable(p) ==
  IF Rec(p).state = "absent"
  THEN \/ Admission(p) = "intent" /\ Slot(p) = "none"
       \/ Admission(p) = "token_selected" /\ Slot(p) \in {"none", "allocating"}
       \/ Admission(p) = "allocated" /\ Slot(p) = "allocating"
  ELSE /\ Rec(p).res # "none" /\ Slot(p) # "none"
       /\ \/ Admission(p) = "allocated" /\ Slot(p) = "allocating" /\ Rec(p).res = "allocating"
          \/ Admission(p) = "authority_saved" /\ Rec(p).res = "allocating"
               /\ Slot(p) \in {"allocating", "active"}
          \/ Admission(p) = "active" /\ Slot(p) = "active" /\ Rec(p).res \in {"allocating", "active"}
          \/ Admission(p) = "committed" /\ Terminal(Rec(p).state)
               /\ Rec(p).res = "terminal_unacknowledged"
               /\ Slot(p) \in {"active", "terminal_unacknowledged"}
          \/ Admission(p) = "committed" /\ ~ Terminal(Rec(p).state)
               /\ Rec(p).res = "active" /\ Slot(p) = "active"

(* validateReleaseRecoveryState, for p with a release in the journal        *)
ReleaseIsRecoverable(p) ==
  /\ Terminal(Rec(p).state)
  /\ Rec(p).event \/ Rec(p).acked
  /\ Rec(p).res # "none" => Slot(p) # "none"
  /\ \/ Release(p) = "release_intent"
          /\ Rec(p).res = "terminal_unacknowledged" /\ Slot(p) = "terminal_unacknowledged"
     \/ Release(p) = "release_marked" /\ ~ Rec(p).event
          /\ \/ Rec(p).res \in {"none", "releasing"} /\ Slot(p) = "releasing"
             \/ Rec(p).res = "terminal_unacknowledged"
                  /\ Slot(p) \in {"terminal_unacknowledged", "releasing"}
     \/ Release(p) = "authority_detached" /\ ~ Rec(p).event /\ Rec(p).res = "none"
          /\ Slot(p) \in {"none", "releasing"}

(* validateProjectBijection: records, slots and admissions are one-to-one.  *)
Bijective(s) ==
  \A p \in Procs :
    LET r == s.authority.records[p]
    IN  /\ r.state # "absent" /\ r.res = "none" => Terminal(r.state) /\ ~ r.event
        /\ r.res # "none" =>
             /\ s.journal[p].admit = "committed"
             /\ s.ledger[p] = r.res
             /\ ~ r.event /\ r.acked => s.journal[p].release # "none"
        /\ s.ledger[p] # "none" => r.res # "none"

=============================================================================
