----------------------------- MODULE Supervisor -----------------------------
(***************************************************************************)
(* Who owns a background process from its start to its recorded end: the   *)
(* caller that starts it, the goroutine that waits for it, the timer of    *)
(* its lifetime, a caller that stops it and the shutdown of the server.    *)
(*                                                                         *)
(* The process files are one record per process here; how they are written *)
(* is ProcessPersistence. The record is what the server reads: a save that *)
(* fails leaves it changed. What the boundary of a process (its process    *)
(* group, or a job object) does to a signal is its outcome: contained, or  *)
(* not proved to be.                                                       *)
(***************************************************************************)
EXTENDS Naturals, FiniteSets

CONSTANTS Procs,           \* one project's processes, by ID
          NoProc,
          MaxConcurrent,   \* processes of a project that may run at once
          TerminalRetries, \* attempts at recording an end
          MaxFaults        \* bound: failures of a run

ASSUME SupervisorAssumption ==
  /\ NoProc \notin Procs /\ IsFiniteSet(Procs)
  /\ MaxConcurrent \in Nat \ {0} /\ TerminalRetries \in Nat \ {0} /\ MaxFaults \in Nat

VARIABLES start,     \* Start, which holds startGate: where it is, for whom, attempts
          os,        \* [Procs -> "none", "running", "left" (descendants only) or "dead"]
          handle,    \* [Procs -> the supervised process]
          handles,   \* supervisor.handles: registered processes
          faulted,   \* supervisor.faulted: ownerships to recover
          own,       \* [Procs -> the ownership: of a record or of a handle, who recovers it]
          finish,    \* [Procs -> the attempt to finish: by whom, with which end, attempts]
          stop,      \* the call of Stop: where it is, for whom
          stopped,   \* processes whose Stop returned success
          shutdown,  \* Shutdown: where it is, what it has still to handle
          record,    \* [Procs -> the durable process: state, saved, acknowledged]
          recovery,  \* supervisor.recovery: processes with a reported fault
          faults     \* failures so far

vars == <<start, os, handle, handles, faulted, own, finish, stop, stopped, shutdown, record,
          recovery, faults>>

Nobody == "nobody"
Finishers == {"waiter", "start", "stop", "shutdown"}
(* "exited" is succeeded or failed, by the exit code; "refused" is failed   *)
(* with no exit code: the end of what never registered.                     *)
Ends == {"exited", "failed", "killed", "interrupted", "refused"}
Causes == {"failed", "killed", "interrupted"}
Alive(p) == os[p] \in {"running", "left"}
Waited(p) == handle[p].waiter \in {"observed", "done"}

Idle == [at |-> "idle", p |-> NoProc, tries |-> 0]
NoFinish == [by |-> Nobody, end |-> "failed", tries |-> 0]
IdleShutdown == [at |-> "idle", left |-> {}, tosignal |-> {}, toawait |-> {}, contained |-> {}]
NewHandle == [waiter |-> "none", gate |-> FALSE, registered |-> FALSE, timed |-> FALSE,
              cause |-> "none", result |-> "open", logStuck |-> FALSE]

TypeOK ==
  /\ start \in [at : {"idle", "open", "mark", "register", "rollback", "refuse", "recover"},
                p : Procs \cup {NoProc}, tries : 0 .. TerminalRetries]
  /\ os \in [Procs -> {"none", "running", "left", "dead"}]
  /\ handle \in [Procs -> [waiter : {"none", "waiting", "observed", "done"}, gate : BOOLEAN,
                           registered : BOOLEAN, timed : BOOLEAN, cause : Causes \cup {"none"},
                           result : {"open", "ok", "failed"},
                           logStuck : BOOLEAN]]
  /\ handles \subseteq Procs /\ faulted \subseteq Procs
  /\ own \in [Procs -> [kind : {"none", "record", "handle"}, by : {Nobody, "stop", "shutdown"},
                        tries : 0 .. TerminalRetries]]
  /\ finish \in [Procs -> [by : Finishers \cup {Nobody}, end : Ends, tries : 0 .. TerminalRetries]]
  /\ stop \in [at : {"idle", "signalled", "contained", "recover", "faulted"}, p : Procs \cup {NoProc}]
  /\ stopped \subseteq Procs
  /\ shutdown \in [at : {"idle", "faulted", "signal", "await", "complete", "failed"},
                   left : SUBSET Procs, tosignal : SUBSET Procs, toawait : SUBSET Procs,
                   contained : SUBSET Procs]
  /\ record \in [Procs -> [state : {"none", "starting", "running", "acknowledged"} \cup Ends,
                           saved : BOOLEAN]]
  /\ recovery \subseteq Procs
  /\ faults \in 0 .. MaxFaults

Init ==
  /\ start = Idle
  /\ os = [p \in Procs |-> "none"]
  /\ handle = [p \in Procs |-> NewHandle]
  /\ handles = {} /\ faulted = {}
  /\ own = [p \in Procs |-> [kind |-> "none", by |-> Nobody, tries |-> 0]]
  /\ finish = [p \in Procs |-> NoFinish]
  /\ stop = [at |-> "idle", p |-> NoProc] /\ stopped = {}
  /\ shutdown = IdleShutdown
  /\ record = [p \in Procs |-> [state |-> "none", saved |-> FALSE]]
  /\ recovery = {} /\ faults = 0

-----------------------------------------------------------------------------
(* What the outside does: files, signals, processes *)

Closed == shutdown.at # "idle"
Spend(ok) == IF ok THEN UNCHANGED faults ELSE faults < MaxFaults /\ faults' = faults + 1
Report(ok, p) == recovery' = IF ok THEN recovery ELSE recovery \cup {p}

(* A hard signal, the boundary closed and the proof that nothing is left of *)
(* the group: it is gone, or nobody can tell.                               *)
Contain(p, ok) ==
  \/ os' = [os EXCEPT ![p] = "dead"]
  \/ ~ ok /\ UNCHANGED os
FirstCause(h, cause) == IF h.cause = "none" THEN [h EXCEPT !.cause = cause] ELSE h

(* The log is closed once: an error stays.                                  *)
CloseLog(h, stuck) == [h EXCEPT !.logStuck = @ \/ stuck]

(* MarkTerminal: refused once the end is acknowledged and its reservation   *)
(* gone; a save that fails has changed what the server reads.               *)
Accepts(p, end) ==
  /\ record[p].state # "acknowledged"
  /\ record[p].state \in Ends => record[p].state = end
MarkTerminal(p, end, ok) ==
  IF Accepts(p, end)
  THEN /\ record' = [record EXCEPT ![p].state = end, ![p].saved = @ \/ ok]
       /\ Spend(ok)
  ELSE ~ ok /\ UNCHANGED <<record, faults>>

(* AcknowledgeTerminal by the outbox, on its own time; it saves the record. *)
Acknowledge(p) ==
  /\ record[p].state \in Ends
  /\ record' = [record EXCEPT ![p] = [state |-> "acknowledged", saved |-> TRUE]]
  /\ UNCHANGED <<start, os, handle, handles, faulted, own, finish, stop, stopped, shutdown,
                 recovery, faults>>

(* The command ends; what it has started may live on.                       *)
Exit(p, rest) ==
  /\ os[p] = "running"
  /\ os' = [os EXCEPT ![p] = rest]
  /\ UNCHANGED <<start, handle, handles, faulted, own, finish, stop, stopped, shutdown, record, recovery,
                 faults>>

-----------------------------------------------------------------------------
(* Start *)

Owned == handles \cup {q \in faulted : own[q].kind = "handle"}

(* The checks under the supervisor's lock, Reserve and CreateStarting. A    *)
(* reservation that fails may leave its record behind.                      *)
Admit(p, ok) ==
  /\ start.at = "idle" /\ ~ Closed
  /\ p \notin handles \cup faulted /\ record[p].state = "none"
  /\ Cardinality(Owned) < MaxConcurrent
  /\ \E s \in IF ok THEN {"starting"} ELSE {"none", "starting"} :
        record' = [record EXCEPT ![p].state = s]
  /\ start' = IF ok THEN [at |-> "open", p |-> p, tries |-> 0] ELSE Idle
  /\ Spend(ok)
  /\ UNCHANGED <<os, handle, handles, faulted, own, finish, stop, stopped, shutdown, recovery>>

At(at) == start.at = at
Go(at) == start' = [start EXCEPT !.at = at]
Retain(p, kind) ==
  /\ faulted' = faulted \cup {p}
  /\ own' = [own EXCEPT ![p].kind = kind]

(* The log is opened, the guard launched, the collectors and the waiter     *)
(* armed.                                                                   *)
Launch(p) ==
  /\ At("open") /\ start.p = p
  /\ os' = [os EXCEPT ![p] = "running"]
  /\ handle' = [handle EXCEPT ![p].waiter = "waiting"]
  /\ Go("mark")
  /\ UNCHANGED <<handles, faulted, own, finish, stop, stopped, shutdown, record, recovery, faults>>

(* The log does not open or the guard does not start; or it has started,    *)
(* AfterStart fails and the cleanup succeeds.                               *)
LaunchFails(p) ==
  /\ At("open") /\ start.p = p
  /\ Spend(FALSE)
  /\ os' \in {os, [os EXCEPT ![p] = "dead"]}
  /\ Go("refuse")
  /\ UNCHANGED <<handle, handles, faulted, own, finish, stop, stopped, shutdown, record, recovery>>

(* AfterStart fails, and so does the cleanup.                               *)
LaunchEscapes(p) ==
  /\ At("open") /\ start.p = p
  /\ Spend(FALSE) /\ Report(FALSE, p)
  /\ \E left \in {"running", "dead"} :
        /\ os' = [os EXCEPT ![p] = left]
        /\ handle' = [handle EXCEPT ![p].gate = TRUE]
  /\ Retain(p, "handle")
  /\ start' = Idle
  /\ UNCHANGED <<handles, finish, stop, stopped, shutdown, record>>

MarkRunning(p, ok) ==
  /\ At("mark") /\ start.p = p
  /\ record' = [record EXCEPT ![p].state = "running"]
  /\ Spend(ok)
  /\ Go(IF ok THEN "register" ELSE "rollback")
  /\ UNCHANGED <<os, handle, handles, faulted, own, finish, stop, stopped, shutdown, recovery>>

(* What came out early is written to the log; the handle is registered and  *)
(* the gate opened, the timer armed unless the process is unlimited.        *)
Register(p, timed) ==
  /\ At("register") /\ start.p = p
  /\ handle' = [handle EXCEPT ![p].registered = TRUE, ![p].gate = TRUE, ![p].timed = timed]
  /\ handles' = handles \cup {p}
  /\ start' = IF Waited(p) THEN [start EXCEPT !.at = "recover"] ELSE Idle
  /\ UNCHANGED <<os, faulted, own, finish, stop, stopped, shutdown, record, recovery, faults>>

EarlyLogFails(p) ==
  /\ At("register") /\ start.p = p
  /\ Spend(FALSE) /\ Go("rollback")
  /\ UNCHANGED <<os, handle, handles, faulted, own, finish, stop, stopped, shutdown, record, recovery>>

(* cleanupUnregistered: the gate opens, the group is killed and its guard   *)
(* reaped, the log closed. Without the proof nobody lets go.                *)
Cleanup(p, ok, stuck) ==
  /\ ok => ~ handle[p].logStuck
  /\ ok => ~ stuck
  /\ Contain(p, ok)
  /\ handle' = [handle EXCEPT ![p] =
        LET h == CloseLog(FirstCause(@, "failed"), stuck)
        IN  [h EXCEPT !.gate = TRUE, !.registered = FALSE,
                      !.waiter = IF ok /\ h.waiter # "none" THEN "done" ELSE h.waiter]]
  /\ IF handle[p].logStuck THEN UNCHANGED faults ELSE Spend(ok)
  /\ Report(ok, p)

RollbackSpawn(p, ok, stuck) ==
  /\ At("rollback") /\ start.p = p
  /\ Cleanup(p, ok, stuck)
  /\ IF ok THEN Go("refuse") /\ UNCHANGED <<faulted, own>>
           ELSE Retain(p, "handle") /\ start' = Idle
  /\ UNCHANGED <<handles, finish, stop, stopped, shutdown, record>>

(* The rest of failBeforeSpawn and of rollbackSpawn: the end is recorded,   *)
(* or the record kept to be recovered.                                      *)
Refuse(p, ok) ==
  /\ At("refuse") /\ start.p = p
  /\ MarkTerminal(p, "refused", ok)
  /\ Report(ok, p)
  /\ LET last == start.tries + 1 = TerminalRetries
     IN  /\ start' = IF ok \/ last THEN Idle ELSE [start EXCEPT !.tries = @ + 1]
         /\ IF ~ ok /\ last THEN Retain(p, "record") ELSE UNCHANGED <<faulted, own>>
  /\ UNCHANGED <<os, handle, handles, finish, stop, stopped, shutdown>>

StartReturns(p) ==
  /\ At("recover") /\ start.p = p /\ handle[p].result # "open"
  /\ start' = Idle
  /\ UNCHANGED <<os, handle, handles, faulted, own, finish, stop, stopped, shutdown, record,
                 recovery, faults>>

-----------------------------------------------------------------------------
(* The end of a registered process *)

(* ProcessWait returns once the guard is gone.                              *)
WaitReturns(p) ==
  /\ handle[p].waiter = "waiting" /\ os[p] # "running"
  /\ handle' = [handle EXCEPT ![p].waiter = "observed"]
  /\ UNCHANGED <<start, os, handles, faulted, own, finish, stop, stopped, shutdown, record,
                 recovery, faults>>

(* Past the gate: there is nothing to do for what was never registered.     *)
WaiterLeaves(p) ==
  /\ handle[p].waiter = "observed" /\ handle[p].gate
  /\ ~ handle[p].registered
  /\ handle' = [handle EXCEPT ![p].waiter = "done"]
  /\ UNCHANGED <<start, os, handles, faulted, own, finish, stop, stopped, shutdown, record,
                 recovery, faults>>

(* Whose turn it is to finish a process: recoverExited waits for waitDone.  *)
Wants(p, who) ==
  CASE who = "waiter" -> handle[p].waiter = "observed" /\ handle[p].gate /\ handle[p].registered
    [] who = "start" -> At("recover") /\ start.p = p /\ handle[p].waiter = "done"
    [] who = "stop" -> stop.at = "recover" /\ stop.p = p /\ handle[p].waiter = "done"
    [] who = "shutdown" ->
         /\ handle[p].waiter = "done"
         /\ \/ shutdown.at = "signal" /\ p \in shutdown.tosignal
            \/ shutdown.at = "await" /\ p \in shutdown.contained

(* The attempt returns an error to whoever made it.                         *)
GivesUp(who) ==
  /\ start' = IF who = "start" THEN Idle ELSE start
  /\ stop' = IF who = "stop" THEN [at |-> "idle", p |-> NoProc] ELSE stop
  /\ shutdown' = IF who = "shutdown" THEN [IdleShutdown EXCEPT !.at = "failed"] ELSE shutdown

EndOf(p) == IF handle[p].cause # "none" THEN handle[p].cause ELSE "exited"

(* finalizeExited up to the save: what the command left is contained and    *)
(* the log closed, and finish settles the end.                              *)
Finalize(p, who) ==
  /\ Wants(p, who) /\ finish[p].by = Nobody /\ handle[p].result = "open"
  /\ ~ handle[p].logStuck
  /\ os' = [os EXCEPT ![p] = "dead"]
  /\ finish' = [finish EXCEPT ![p] = [by |-> who, end |-> EndOf(p), tries |-> 0]]
  /\ UNCHANGED <<start, handle, handles, faulted, own, stop, stopped, shutdown, record, recovery,
                 faults>>

(* The containment is not proved or the log does not close: the process     *)
(* stays supervised, and a later Stop or Shutdown tries again.              *)
FinalizeFails(p, who, stuck) ==
  /\ Wants(p, who) /\ finish[p].by = Nobody /\ handle[p].result = "open"
  /\ IF handle[p].logStuck THEN UNCHANGED faults ELSE Spend(FALSE)
  /\ Contain(p, FALSE)
  /\ Report(FALSE, p)
  /\ handle' = [handle EXCEPT ![p] =
        [CloseLog(@, stuck) EXCEPT !.waiter = IF who = "waiter" THEN "done" ELSE handle[p].waiter]]
  /\ GivesUp(who)
  /\ UNCHANGED <<handles, faulted, own, finish, stopped, record>>

(* finish: the end is saved and the process let go; after the last attempt  *)
(* the process stays in handles with an error that no later call clears.    *)
(* The waiter has nothing more to do; nobody reads the rest of the handle.  *)
Finish(p, ok) ==
  LET last == finish[p].tries + 1 = TerminalRetries
  IN  /\ finish[p].by # Nobody
      /\ MarkTerminal(p, finish[p].end, ok)
      /\ Report(ok, p)
      /\ finish' = [finish EXCEPT ![p] =
            IF ok \/ last THEN NoFinish ELSE [finish[p] EXCEPT !.tries = finish[p].tries + 1]]
      /\ handles' = IF ok THEN handles \ {p} ELSE handles
      /\ handle' = [handle EXCEPT ![p] =
            IF ok THEN [NewHandle EXCEPT !.waiter = "done", !.result = "ok"]
            ELSE IF last THEN [@ EXCEPT !.waiter = "done", !.result = "failed"] ELSE @]
      /\ UNCHANGED <<start, os, faulted, own, stop, stopped, shutdown>>

(* enforceLifetime, and a collector whose log write fails: the cause is     *)
(* noted and the group contained.                                           *)
EndByForce(p, cause, ok) ==
  /\ Contain(p, ok) /\ Report(ok, p)
  /\ handle' = [handle EXCEPT ![p] = [FirstCause(@, cause) EXCEPT !.timed = FALSE]]
  /\ UNCHANGED <<start, handles, faulted, own, finish, stop, stopped, shutdown, record>>
(* Mutant: the cause is noted, and the end waited for. *)
LifetimeNoted(p, ok) ==
  /\ handle[p].timed /\ handle[p].result = "open" /\ ~ Waited(p) /\ ok
  /\ handle' = [handle EXCEPT ![p] = [FirstCause(@, "failed") EXCEPT !.timed = FALSE]]
  /\ UNCHANGED <<start, os, handles, faulted, own, finish, stop, stopped, shutdown, record, recovery,
                 faults>>
Lifetime(p, ok) ==
  /\ handle[p].timed /\ handle[p].result = "open" /\ ~ Waited(p)
  /\ Spend(ok)
  /\ EndByForce(p, "failed", ok)
LogWriteFails(p, ok) ==
  /\ handle[p].registered /\ os[p] = "running"
  /\ Spend(FALSE)
  /\ EndByForce(p, "failed", ok)

-----------------------------------------------------------------------------
(* Stop *)

(* StopWithCause: the process may be supervised, or left to be recovered.   *)
StopWithCause(p) ==
  /\ stop.at = "idle" /\ p \in handles \cup faulted
  /\ stop' = [at |-> IF p \notin handles THEN "faulted" ELSE IF Waited(p) THEN "recover" ELSE "signalled",
              p |-> p]
  /\ handle' = IF p \in handles /\ ~ Waited(p)
               THEN [handle EXCEPT ![p] = FirstCause(@, "killed")] ELSE handle
  /\ UNCHANGED <<start, os, handles, faulted, own, finish, stopped, shutdown, record, recovery, faults>>

StopIdle == stop' = [at |-> "idle", p |-> NoProc]

(* SIGTERM cannot be sent, or the grace is over.                            *)
StopContains(p, ok) ==
  /\ stop.at = "signalled" /\ stop.p = p
  /\ Contain(p, ok) /\ Spend(ok) /\ Report(ok, p)
  /\ IF ok THEN stop' = [stop EXCEPT !.at = "contained"] ELSE StopIdle
  /\ UNCHANGED <<start, handle, handles, faulted, own, finish, stopped, shutdown, record>>

(* The end of the process answers the call; or the call waits no longer.    *)
StopReturns(p) ==
  /\ stop.at \in {"signalled", "contained", "recover"} /\ stop.p = p
  /\ handle[p].result # "open" \/ stop.at = "contained"
  /\ StopIdle
  /\ stopped' = IF handle[p].result = "ok" THEN stopped \cup {p} ELSE stopped
  /\ UNCHANGED <<start, os, handle, handles, faulted, own, finish, shutdown, record, recovery, faults>>

-----------------------------------------------------------------------------
(* recoverFaulted, by Stop or by Shutdown *)

Recovers(p, who) ==
  \/ who = "stop" /\ stop.at = "faulted" /\ stop.p = p
  \/ who = "shutdown" /\ shutdown.at = "faulted" /\ p \in shutdown.left

RecoverFaulted(p, who, ok, stuck) ==
  /\ Recovers(p, who) /\ own[p].by = Nobody
  /\ IF own[p].kind = "handle"
     THEN Cleanup(p, ok, stuck)
     ELSE ok /\ ~ stuck /\ UNCHANGED <<os, handle, recovery, faults>>
  /\ IF ok THEN /\ own' = [own EXCEPT ![p].by = who, ![p].tries = 0]
                /\ UNCHANGED <<start, stop, shutdown>>
           ELSE UNCHANGED own /\ GivesUp(who)
  /\ UNCHANGED <<handles, faulted, finish, stopped, record>>

RecoverEnd(p, ok) ==
  LET who == own[p].by
      over == ok \/ own[p].tries + 1 = TerminalRetries
  IN  /\ who # Nobody
      /\ MarkTerminal(p, "refused", ok)
      /\ Report(ok, p)
      /\ own' = [own EXCEPT ![p].by = IF over THEN Nobody ELSE @, ![p].tries = IF over THEN 0 ELSE @ + 1]
      /\ faulted' = IF ok THEN faulted \ {p} ELSE faulted
      /\ stopped' = IF ok /\ who = "stop" THEN stopped \cup {p} ELSE stopped
      /\ IF ok
         THEN /\ stop' = IF who = "stop" THEN [at |-> "idle", p |-> NoProc] ELSE stop
              /\ shutdown' = IF who = "shutdown" THEN [shutdown EXCEPT !.left = @ \ {p}] ELSE shutdown
              /\ UNCHANGED start
         ELSE IF over THEN GivesUp(who) ELSE UNCHANGED <<start, stop, shutdown>>
      /\ UNCHANGED <<os, handle, handles, finish>>

-----------------------------------------------------------------------------
(* Shutdown *)

(* Mutant: it does not wait. *)
ShutdownBarges ==
  /\ shutdown.at \in {"idle", "failed"}
  /\ shutdown' = [at |-> "faulted", left |-> faulted, tosignal |-> handles, toawait |-> handles,
                  contained |-> {}]
  /\ UNCHANGED <<start, os, handle, handles, faulted, own, finish, stop, stopped, record, recovery, faults>>

(* It waits for a Start in progress, then lets nobody start.                *)
ShutdownBegins ==
  /\ shutdown.at \in {"idle", "failed"} /\ At("idle")
  /\ shutdown' = [at |-> "faulted", left |-> faulted, tosignal |-> handles, toawait |-> handles,
                  contained |-> {}]
  /\ UNCHANGED <<start, os, handle, handles, faulted, own, finish, stop, stopped, record, recovery, faults>>

ShutdownGoesOn ==
  /\ \/ shutdown.at = "faulted" /\ shutdown.left = {} /\ shutdown' = [shutdown EXCEPT !.at = "signal"]
     \/ shutdown.at = "signal" /\ shutdown.tosignal = {} /\ shutdown' = [shutdown EXCEPT !.at = "await"]
     \/ /\ shutdown.at = "await" /\ shutdown.toawait = {}
        /\ shutdown' = [IdleShutdown EXCEPT !.at = IF handles = {} /\ faulted = {} THEN "complete" ELSE "failed"]
  /\ UNCHANGED <<start, os, handle, handles, faulted, own, finish, stop, stopped, record, recovery, faults>>

(* One that has exited is finished first; one that runs is told to end.     *)
ShutdownSignals(p) ==
  /\ shutdown.at = "signal" /\ p \in shutdown.tosignal
  /\ IF Waited(p)
     THEN /\ handle[p].result # "open"
          /\ shutdown' = IF handle[p].result = "ok" THEN [shutdown EXCEPT !.tosignal = @ \ {p}]
                         ELSE [IdleShutdown EXCEPT !.at = "failed"]
          /\ UNCHANGED handle
     ELSE /\ shutdown' = [shutdown EXCEPT !.tosignal = @ \ {p}]
          /\ handle' = [handle EXCEPT ![p] = FirstCause(@, "interrupted")]
  /\ UNCHANGED <<start, os, handles, faulted, own, finish, stop, stopped, record, recovery, faults>>

(* The grace is over.                                                       *)
ShutdownContains(p, ok) ==
  /\ shutdown.at = "await" /\ p \in shutdown.toawait \ shutdown.contained
  /\ handle[p].result = "open"
  /\ Contain(p, ok) /\ Spend(ok) /\ Report(ok, p)
  /\ shutdown' = IF ok THEN [shutdown EXCEPT !.contained = @ \cup {p}]
                 ELSE [IdleShutdown EXCEPT !.at = "failed"]
  /\ UNCHANGED <<start, handle, handles, faulted, own, finish, stop, stopped, record>>

(* The end of a process, or the end of the caller's patience.               *)
ShutdownAwaits(p) ==
  /\ shutdown.at = "await" /\ p \in shutdown.toawait
  /\ \/ handle[p].result = "ok" /\ shutdown' = [shutdown EXCEPT !.toawait = @ \ {p}]
     \/ handle[p].result = "failed" /\ shutdown' = [IdleShutdown EXCEPT !.at = "failed"]
     \/ /\ handle[p].result = "open" /\ p \in shutdown.contained
        /\ shutdown' = [IdleShutdown EXCEPT !.at = "failed"]
  /\ UNCHANGED <<start, os, handle, handles, faulted, own, finish, stop, stopped, record, recovery, faults>>

-----------------------------------------------------------------------------
StartStep(p) ==
  \/ Launch(p) \/ LaunchFails(p) \/ LaunchEscapes(p)
  \/ \E ok \in BOOLEAN : MarkRunning(p, ok) \/ Refuse(p, ok)
  \/ \E timed \in BOOLEAN : Register(p, timed)
  \/ EarlyLogFails(p)
  \/ \E ok, stuck \in BOOLEAN : RollbackSpawn(p, ok, stuck)
  \/ StartReturns(p)

EndStep(p) ==
  \/ WaitReturns(p) \/ WaiterLeaves(p)
  \/ \E who \in Finishers : Finalize(p, who) \/ \E stuck \in BOOLEAN : FinalizeFails(p, who, stuck)
  \/ \E ok \in BOOLEAN : Finish(p, ok)

StopStep(p) ==
  \/ StopReturns(p)
  \/ \E ok \in BOOLEAN : StopContains(p, ok) \/ RecoverEnd(p, ok)
  \/ \E who \in {"stop", "shutdown"}, ok, stuck \in BOOLEAN : RecoverFaulted(p, who, ok, stuck)

ShutdownStep(p) ==
  \/ ShutdownSignals(p) \/ ShutdownAwaits(p)
  \/ \E ok \in BOOLEAN : ShutdownContains(p, ok)

Next ==
  \/ \E p \in Procs :
        \/ \E ok \in BOOLEAN : Admit(p, ok) \/ Lifetime(p, ok) \/ LogWriteFails(p, ok)
        \/ \E rest \in {"left", "dead"} : Exit(p, rest)
        \/ Acknowledge(p) \/ StopWithCause(p)
        \/ StartStep(p) \/ EndStep(p) \/ StopStep(p) \/ ShutdownStep(p)
  \/ ShutdownBegins \/ ShutdownGoesOn

(* The waiter of a process goes on and its timer goes off. That is all the  *)
(* fairness that is needed: nobody has to call Stop or Shutdown, and a      *)
(* command may run for as long as it likes.                                 *)
Fairness ==
  \A p \in Procs : WF_vars(EndStep(p)) /\ WF_vars(\E ok \in BOOLEAN : Lifetime(p, ok))

Spec == Init /\ [][Next]_vars /\ Fairness

-----------------------------------------------------------------------------
(* Properties *)

(* Nothing that still runs is ever without an owner who can end it: the     *)
(* Start in progress, a supervised handle or a retained one. A rollback, a  *)
(* failed cleanup or a failed save never lets go of a live process group.   *)
LiveProcessesAreOwned ==
  \A p \in Procs : Alive(p) => p = start.p \/ p \in handles \/ (p \in faulted /\ own[p].kind = "handle")

(* A project never has more live process groups than its limit, those that  *)
(* could not be cleaned up and the descendants of dead commands included.   *)
LimitHolds == Cardinality({p \in Procs : Alive(p)}) <= MaxConcurrent

(* A Stop that returned success, whoever finished the process for it, means *)
(* that nothing of the process runs and that its end is saved.              *)
StopTellsTheTruth ==
  \A p \in stopped : ~ Alive(p) /\ record[p].saved /\ p \notin handles \cup faulted

(* After a shutdown that completed nothing runs, nothing starts, and every  *)
(* process that was launched has a saved end.                               *)
ShutdownLeavesNothing ==
  shutdown.at = "complete" =>
    /\ start.at = "idle"
    /\ \A p \in Procs : ~ Alive(p) /\ (os[p] # "none" => record[p].saved)

(* Two ends are never on their way for one process: whoever is about to     *)
(* save an end finds none, or the same, in the record.                      *)
OneEndPerProcess ==
  \A p \in Procs : record[p].state \in Ends =>
     /\ finish[p].by # Nobody => finish[p].end = record[p].state
     /\ At("refuse") /\ start.p = p => record[p].state = "refused"
     /\ own[p].by # Nobody => record[p].state = "refused"

(* Whoever starts, ends, stops and shuts down at once: live processes have  *)
(* an owner and count, success is true, and an end is written once.         *)
ProcessesAreAccountedFor ==
  LiveProcessesAreOwned /\ LimitHolds /\ StopTellsTheTruth /\ ShutdownLeavesNothing /\ OneEndPerProcess

(* A supervised process with a lifetime is let go in the end, or the        *)
(* supervisor reports a fault of it.                                        *)
EndsAreRecordedOrReported ==
  \A p \in Procs : p \in handles /\ handle[p].timed ~> p \notin handles \/ p \in recovery
=============================================================================
