------------------------------ MODULE Monitors ------------------------------
(***************************************************************************)
(* The monitors of one agent and the fires they admit. A runtime event is  *)
(* evaluated by every monitor under the lock: a monitor that fires keeps   *)
(* the fire, frozen, in monitors.json. The fire is then dispatched in      *)
(* sections of its own: claimed, offered to the scheduler or the           *)
(* blackboard without the lock, and settled. The run that was admitted is  *)
(* in another file, agent-run-queue.json, with the receipts that keep a    *)
(* fire from being admitted twice. That file follows the queue in memory:  *)
(* whoever changes the queue saves all of it, a step later.                *)
(*                                                                         *)
(* The queue is reduced to what the fires see of it: the module Scheduler  *)
(* models the rest. All monitors belong to, and notify, one agent, which   *)
(* has one worker.                                                         *)
(***************************************************************************)
EXTENDS Naturals, FiniteSets

CONSTANTS
  Mons,          \* the monitors
  RuntimeEvents, \* the runtime events, by their identifier
  Stages,        \* the goroutines that evaluate and dispatch
  Main,          \* the one that starts the server
  MaxTriggers,   \* Monitor.MaxTriggers, 0 for no limit
  RateLimit,     \* MaxFiresRateWindow
  MaxPending,    \* MaxPendingFires
  NoFire,
  MaxDeliveries, \* bound: the evaluations of events
  MaxUserEdits,  \* bound: what the user does to the monitors
  MaxFaults,     \* bound: the saves that fail
  MaxCrashes     \* bound: the crashes

ASSUME MonitorAssumption ==
  /\ Main \in Stages /\ IsFiniteSet(Stages)
  /\ MaxTriggers \in Nat /\ RateLimit \in Nat \ {0} /\ MaxPending \in Nat \ {0}
  /\ NoFire \notin Mons \X RuntimeEvents

\* A monitor fires once per event identifier: StableFireID.
Fires == Mons \X RuntimeEvents

VARIABLES
  monitors,  \* the monitors in memory
  registry,  \* monitors.json
  queue,     \* the scheduler's jobs, receipts and removal proofs of fires
  runs,      \* agent-run-queue.json
  running,   \* the fire whose run the agent's worker is at
  saving,    \* whether the worker is about to save the queue
  board,     \* the fires that are on the blackboard, in memory and on disk
  stages,    \* the goroutines
  timers,    \* the fires that will be tried again in a second
  boot,      \* what is left for resumeMonitorPending to do
  agent,     \* the agent in memory and on disk, and how far its deletion is
  fired,     \* history: how often a fire was frozen and saved
  done,      \* history: how often the run of a fire succeeded
  unsaved,   \* history: how often it did since the queue was last saved
  lost,      \* history: how often it did and the queue does not know
  ended,     \* history: the fires whose run was cancelled
  overtaken, \* history: the fires that got a second dispatcher while one was at work
  dropped,   \* history: the fires whose monitor or agent was deleted
  budget     \* bounds: what has happened so far

monitorVars == <<monitors, registry, queue, runs, running, saving, board, stages, timers, boot,
          agent, fired, done, unsaved, lost, ended, overtaken, dropped, budget>>

MonitorStates == {"unborn", "deleted", "active", "disabled", "exhausted", "expired", "error"}
Attempts == 0 .. 2   \* PendingFire.Attempts; with 2 and more there is no retry
PendingRecord == [status : {"none", "pending", "admitting"}, attempts : Attempts]
Kinds == {"notify_agent", "blackboard"}
MonitorEntry == [state : MonitorStates, kind : Kinds, ownerGone : BOOLEAN,
                  triggers : 0 .. MaxDeliveries, pending : [RuntimeEvents -> PendingRecord]]
JobStates == {"none", "queued", "running", "cancelled", "failed"}
QueueRecord == [jobs : [Fires -> JobStates],
                receipts : SUBSET Fires, proofs : SUBSET Fires]

NotPending == [status |-> "none", attempts |-> 0]
Frozen == [status |-> "pending", attempts |-> 0]
NoPending == [e \in RuntimeEvents |-> NotPending]
Unborn == [state |-> "unborn", kind |-> "notify_agent", ownerGone |-> FALSE,
           triggers |-> 0, pending |-> NoPending]
EmptyQueue == [jobs |-> [f \in Fires |-> "none"], receipts |-> {}, proofs |-> {}]
Idle == [pc |-> "idle", todo |-> {}, fire |-> NoFire, tries |-> 0, answer |-> "none"]

MonitorTypeOK ==
  /\ monitors \in [Mons -> MonitorEntry] /\ registry \in [Mons -> MonitorEntry]
  /\ queue \in QueueRecord /\ runs \in QueueRecord /\ running \in Fires \cup {NoFire}
  /\ saving \in BOOLEAN
  /\ board \subseteq Fires
  /\ stages \in [Stages -> [pc : {"idle", "next", "admit", "save", "settle", "confirm"},
                            todo : SUBSET Fires, fire : Fires \cup {NoFire},
                            tries : Attempts,
                            answer : {"none", "admitted", "already_present", "failed"}]]
  /\ timers \subseteq Fires
  /\ boot \in [collected : BOOLEAN, refs : SUBSET Fires]
  /\ agent \in [memory : BOOLEAN, disk : BOOLEAN,
                deletion : {"none", "fenced", "removed", "stuck"}]
  /\ fired \in [Fires -> 0 .. MaxDeliveries] /\ done \in [Fires -> Nat]
  /\ unsaved \in [Fires -> Nat] /\ lost \in [Fires -> Nat]
  /\ ended \subseteq Fires /\ overtaken \subseteq Fires /\ dropped \subseteq Fires
  /\ budget \in [deliveries : 0 .. MaxDeliveries, edits : 0 .. MaxUserEdits,
                 faults : 0 .. MaxFaults, crashes : 0 .. MaxCrashes]

MonitorInit ==
  /\ monitors = [m \in Mons |-> Unborn] /\ registry = monitors
  /\ queue = EmptyQueue /\ runs = queue /\ running = NoFire /\ saving = FALSE
  /\ board = {}
  /\ stages = [s \in Stages |-> Idle]
  /\ timers = {}
  /\ boot = [collected |-> TRUE, refs |-> {}]
  /\ agent = [memory |-> TRUE, disk |-> TRUE, deletion |-> "none"]
  /\ fired = [f \in Fires |-> 0] /\ done = [f \in Fires |-> 0]
  /\ unsaved = done /\ lost = done
  /\ ended = {} /\ overtaken = {} /\ dropped = {}
  /\ budget = [deliveries |-> 0, edits |-> 0, faults |-> 0, crashes |-> 0]

Exists(m) == monitors[m].state \notin {"unborn", "deleted"}
StatusOf(f) == monitors[f[1]].pending[f[2]].status
PendingOf(rec) == {e \in RuntimeEvents : rec.pending[e].status # "none"}
Put(f, entry) == [monitors EXCEPT ![f[1]].pending[f[2]] = entry]
Count(what) == budget' = [budget EXCEPT ![what] = @ + 1]
Fault == budget.faults < MaxFaults /\ Count("faults")

\* saveScheduledRuns: the queue as it is then, with all that others have done to it.
QueueSaved == runs' = queue' /\ unsaved' = [f \in Fires |-> 0]

\* What the user does needs backgroundOwnerMu, which a deletion of the agent holds, and an
\* admission until its job is saved.
OwnerMuFree ==
  agent.deletion \in {"none", "stuck"} /\ \A s \in Stages : stages[s].pc # "save"
UserMayAct == boot.collected /\ OwnerMuFree
UserEdits == UserMayAct /\ budget.edits < MaxUserEdits

----------------------------------------------------------------------------
(* The user's operations. A save that fails takes one back as a whole.     *)

\* saveMonitorsLocked with the monitors as they will be, or else as they were: then
\* nothing has happened that anybody could see.
SavedBoth(next) == monitors' = next /\ registry' = next

CreateMonitor(m, kind) ==
  /\ UserMayAct
  /\ monitors[m].state = "unborn" /\ agent.memory
  /\ SavedBoth([monitors EXCEPT ![m] = [Unborn EXCEPT !.state = "active", !.kind = kind]])
  /\ UNCHANGED <<queue, runs, running, saving, board, stages, timers, boot, agent, fired, done, unsaved,
                 lost, dropped, ended, overtaken, budget>>

\* Disabling keeps the fires that are pending; whoever lost the owner stays off.
SetMonitorState(m, state) ==
  /\ UserEdits
  /\ Exists(m) /\ monitors[m].state # state
  /\ state = "active" => ~monitors[m].ownerGone
  /\ SavedBoth([monitors EXCEPT ![m].state = state])
  /\ Count("edits")
  /\ UNCHANGED <<queue, runs, running, saving, board, stages, timers, boot, agent, fired, done, unsaved,
                 lost, dropped, ended, overtaken>>

DeleteMonitor(m) ==
  /\ UserEdits
  /\ Exists(m)
  /\ SavedBoth([monitors EXCEPT ![m] = [Unborn EXCEPT !.state = "deleted"]])
  /\ dropped' = dropped \cup ({m} \X RuntimeEvents)
  /\ Count("edits")
  /\ UNCHANGED <<queue, runs, running, saving, board, stages, timers, boot, agent, fired, done, unsaved,
                 lost, ended, overtaken>>

----------------------------------------------------------------------------
(* The deletion of the agent holds backgroundOwnerMu from end to end.      *)

\* CancelAgent, which leaves alone what is running, then the save of the queue: if that
\* fails the agent stays.
FenceOwner ==
  /\ UserEdits
  /\ agent.memory
  /\ queue' = [queue EXCEPT !.jobs = [f \in Fires |->
                 IF queue.jobs[f] = "queued" THEN "cancelled" ELSE queue.jobs[f]]]
  /\ ended' = ended \cup {f \in Fires : queue.jobs[f] = "queued"}
  /\ \/ /\ QueueSaved /\ agent' = [agent EXCEPT !.deletion = "fenced"]
        /\ Count("edits")
     \/ /\ budget.faults < MaxFaults
        /\ budget' = [budget EXCEPT !.edits = @ + 1, !.faults = @ + 1]
        /\ agent' = [agent EXCEPT !.deletion = "none"]
        /\ UNCHANGED <<runs, unsaved>>
  /\ UNCHANGED <<monitors, registry, running, saving, board, stages, timers, boot, fired, done, lost,
                 dropped, overtaken>>

RemoveOwner ==
  /\ agent.deletion = "fenced"
  /\ agent' = [agent EXCEPT !.memory = FALSE, !.deletion = "removed"]
  /\ monitors' = [m \in Mons |->
                    IF Exists(m)
                    THEN [monitors[m] EXCEPT !.state = "disabled", !.ownerGone = TRUE,
                                             !.pending = NoPending]
                    ELSE monitors[m]]
  /\ dropped' = dropped \cup {f \in Fires : Exists(f[1])}
  /\ UNCHANGED <<registry, queue, runs, running, saving, board, stages, timers, boot, fired, done, unsaved,
                 lost, budget, ended, overtaken>>

\* A save that fails leaves the fence of the agent up until the server restarts.
SaveRemoval ==
  /\ agent.deletion = "removed"
  /\ \/ /\ registry' = monitors
        /\ agent' = [agent EXCEPT !.disk = FALSE, !.deletion = "none"]
        /\ UNCHANGED budget
     \/ /\ Fault
        /\ \/ registry' = monitors \* the agents could not be saved
           \/ UNCHANGED registry   \* the monitors could not
        /\ agent' = [agent EXCEPT !.deletion = "stuck"]
  /\ UNCHANGED <<monitors, queue, runs, running, saving, board, stages, timers, boot, fired, done, unsaved,
                 lost, dropped, ended, overtaken>>

\* An agent of the same identifier is made again.
RecreateOwner ==
  /\ UserMayAct
  /\ ~agent.memory
  /\ agent' = [agent EXCEPT !.memory = TRUE, !.disk = TRUE]
  /\ UNCHANGED <<monitors, registry, queue, runs, running, saving, board, stages, timers, boot, fired,
                 done, unsaved, lost, dropped, ended, overtaken, budget>>

----------------------------------------------------------------------------
(* An event is evaluated.                                                  *)

\* What Fire may decide for a monitor that the event matches: the order of its checks.
\* The fires that a window of time holds are among those the monitor has had.
Verdicts(rec) ==
  IF rec.state # "active" THEN {"expired", "suppressed"}
  ELSE IF MaxTriggers > 0 /\ rec.triggers >= MaxTriggers THEN {"expired", "exhausted"}
  ELSE {"expired", "fire"}
         \cup (IF rec.triggers > 0 THEN {"suppressed"} ELSE {})  \* the cooldown
         \cup (IF rec.triggers >= RateLimit THEN {"rate_limit"} ELSE {})

FullOrPresent(rec, e) ==
  Cardinality(PendingOf(rec)) >= MaxPending \/ e \in PendingOf(rec)

\* The monitor that fired, with the fire frozen in it (AdmitPendingFire).
AfterFire(rec, e) ==
  LET counted == [rec EXCEPT !.triggers = @ + 1,
                    !.state = IF MaxTriggers > 0 /\ rec.triggers + 1 >= MaxTriggers
                              THEN "exhausted" ELSE @]
  IN  IF FullOrPresent(rec, e) THEN [counted EXCEPT !.state = "error"]
      ELSE [counted EXCEPT !.pending[e] = Frozen]

After(rec, verdict, e) ==
  CASE verdict = "fire" -> AfterFire(rec, e)
    [] verdict = "suppressed" -> rec
    [] verdict = "rate_limit" -> [rec EXCEPT !.state = "error"]
    [] OTHER -> [rec EXCEPT !.state = verdict]

\* What a goroutine does with fires that are left to dispatch.
Onward(rest) == IF rest = {} THEN Idle ELSE [Idle EXCEPT !.pc = "next", !.todo = rest]

\* The event is lost to the monitors when their save fails.
Evaluate(s, e) ==
  /\ stages[s].pc = "idle"
  /\ s = Main => boot.collected /\ boot.refs = {}
  /\ budget.deliveries < MaxDeliveries
  /\ \E verdict \in [{m \in Mons : Exists(m)} -> {"fire", "suppressed", "expired",
                                                  "exhausted", "rate_limit"}] :
       LET next == [m \in Mons |-> IF Exists(m) THEN After(monitors[m], verdict[m], e)
                                   ELSE monitors[m]]
           frozen == {m \in DOMAIN verdict : /\ verdict[m] = "fire"
                                             /\ ~FullOrPresent(monitors[m], e)} \X {e}
       IN  /\ \A m \in DOMAIN verdict : verdict[m] \in Verdicts(monitors[m])
           /\ next # monitors
           /\ \/ /\ monitors' = next /\ registry' = next
                 /\ stages' = [stages EXCEPT ![s] = Onward(frozen)]
                 /\ fired' = [f \in Fires |-> fired[f] + IF f \in frozen THEN 1 ELSE 0]
                 /\ dropped' = dropped \ frozen
                 /\ Count("deliveries")
              \/ /\ budget.faults < MaxFaults
                 /\ budget' = [budget EXCEPT !.deliveries = @ + 1, !.faults = @ + 1]
                 /\ UNCHANGED <<monitors, registry, stages, fired, dropped>>
  /\ UNCHANGED <<queue, runs, running, saving, board, timers, boot, agent, done, unsaved, lost, ended,
                 overtaken>>

----------------------------------------------------------------------------
(* dispatchMonitorPending: claim, admit, settle, confirm.                  *)

NextFire(s) == stages' = [stages EXCEPT ![s] = Onward(stages[s].todo)]

\* A claim that cannot be saved is taken back, and nobody comes for the fire again.
Claim(s, f) ==
  LET rest == stages[s].todo \ {f}
      claimed == Put(f, [monitors[f[1]].pending[f[2]] EXCEPT !.status = "admitting"])
      skipped == [stages EXCEPT ![s] = Onward(rest)]
  IN  /\ stages[s].pc = "next" /\ f \in stages[s].todo
      /\ \/ /\ StatusOf(f) # "pending"
            /\ stages' = skipped
            /\ UNCHANGED <<monitors, registry, budget>>
         \/ /\ StatusOf(f) = "pending"
            /\ monitors' = claimed /\ registry' = claimed
            /\ stages' = [stages EXCEPT ![s] =
                 [pc |-> "admit", todo |-> rest, fire |-> f,
                  tries |-> monitors[f[1]].pending[f[2]].attempts, answer |-> "none"]]
            /\ UNCHANGED budget
         \/ /\ StatusOf(f) = "pending"
            /\ Fault
            /\ stages' = skipped
            /\ UNCHANGED <<monitors, registry>>
      /\ UNCHANGED <<queue, runs, running, saving, board, timers, boot, agent, fired, done, unsaved, lost,
                     dropped, ended, overtaken>>

OnBoard(f) == monitors[f[1]].kind = "blackboard"

\* A plausible mistake: only the fence is looked at.
AvailableUnfenced(f) == agent.deletion # "stuck" /\ (OnBoard(f) \/ agent.memory)

\* monitorAdmissionAvailable, and for a notification its target.
Available(f) ==
  /\ monitors[f[1]].state = "active"
  /\ agent.deletion # "stuck"
  /\ OnBoard(f) \/ agent.memory

Enqueued(f) == [queue EXCEPT !.jobs[f] = "queued"]
\* What SchedulerQueue.Enqueue refuses, and what admitMonitorPending then looks for.
KnownToQueue(f) == queue.jobs[f] # "none" \/ f \in queue.receipts

Answer(s, answer) == stages' = [stages EXCEPT ![s].pc = "settle", ![s].answer = answer]

\* Enqueue comes first and the save after it: the worker may be at the job by then.
Admit(s) ==
  LET f == stages[s].fire
  IN  /\ stages[s].pc = "admit"
      /\ OwnerMuFree
      /\ \/ /\ ~Available(f) /\ Answer(s, "failed")
            /\ UNCHANGED <<queue, board, budget>>
         \/ /\ Available(f) /\ OnBoard(f)
            /\ \/ /\ board' = board \cup {f}
                  /\ Answer(s, IF f \in board THEN "already_present" ELSE "admitted")
                  /\ UNCHANGED budget
               \/ f \notin board /\ Fault /\ Answer(s, "failed") /\ UNCHANGED board
            /\ UNCHANGED queue
         \/ /\ Available(f) /\ ~OnBoard(f)
            /\ \/ /\ KnownToQueue(f) /\ Answer(s, "already_present")
                  /\ UNCHANGED queue
               \/ /\ ~KnownToQueue(f)
                  /\ queue' = Enqueued(f)
                  /\ stages' = [stages EXCEPT ![s].pc = "save"]
            /\ UNCHANGED <<board, budget>>
      /\ UNCHANGED <<monitors, registry, runs, running, saving, timers, boot, agent, fired, done, unsaved, lost,
                     dropped, ended, overtaken>>

\* The save of the job, or else RollbackEnqueue: the job goes, even from under the worker
\* that is at it. A job that succeeded meanwhile has left its receipt.
SaveAdmitted(s) ==
  LET f == stages[s].fire
  IN  /\ stages[s].pc = "save"
      /\ \/ /\ UNCHANGED queue /\ QueueSaved
            /\ Answer(s, "admitted")
            /\ UNCHANGED budget
         \/ /\ Fault
            /\ queue' = [queue EXCEPT !.jobs[f] = "none"]
            /\ Answer(s, IF f \in queue.receipts THEN "already_present" ELSE "failed")
            /\ UNCHANGED <<runs, unsaved>>
      /\ UNCHANGED <<monitors, registry, running, saving, board, timers, boot, agent, fired, done, lost,
                     dropped, ended, overtaken>>

\* The fire as its dispatcher leaves it; it may be gone already.
Settled(f, answer) ==
  IF StatusOf(f) = "none" THEN monitors
  ELSE IF answer = "failed"
       THEN Put(f, [status |-> "pending",
                    attempts |-> IF monitors[f[1]].pending[f[2]].attempts < 2
                                 THEN monitors[f[1]].pending[f[2]].attempts + 1 ELSE 2])
       ELSE Put(f, NotPending)

\* A settlement that cannot be saved leaves the fire claimed until a restart.
Settle(s) ==
  LET f == stages[s].fire
      answer == stages[s].answer
  IN  /\ stages[s].pc = "settle"
      /\ \/ /\ monitors' = Settled(f, answer) /\ registry' = monitors'
            /\ timers' = IF answer = "failed" /\ stages[s].tries < 2 THEN timers \cup {f} ELSE timers
            /\ IF answer = "failed" THEN NextFire(s)
               ELSE stages' = [stages EXCEPT ![s].pc = "confirm"]
            /\ UNCHANGED budget
         \/ /\ Fault /\ NextFire(s)
            /\ UNCHANGED <<monitors, registry, timers>>
      /\ UNCHANGED <<queue, runs, running, saving, board, boot, agent, fired, done, unsaved, lost, dropped,
                     ended, overtaken>>

\* ConfirmMonitorFirePendingRemoval: the receipt has done its work; a job that is still
\* there will need none. The save may fail.
Confirm(s) ==
  LET f == stages[s].fire
      live == queue.jobs[f] # "none"
  IN  /\ stages[s].pc = "confirm"
      /\ queue' = [queue EXCEPT !.receipts = @ \ {f},
                                !.proofs = IF live THEN @ \cup {f} ELSE @ \ {f}]
      /\ \/ QueueSaved /\ UNCHANGED budget
         \/ Fault /\ UNCHANGED <<runs, unsaved>>
      /\ NextFire(s)
      /\ UNCHANGED <<monitors, registry, running, saving, board, timers, boot, agent, fired, done, lost,
                     dropped, ended, overtaken>>

\* time.AfterFunc: the fire is dispatched again.
Retry(s, f) ==
  /\ stages[s].pc = "idle" /\ s # Main
  /\ f \in timers
  /\ timers' = timers \ {f}
  /\ stages' = [stages EXCEPT ![s] = [Idle EXCEPT !.pc = "next", !.todo = {f}]]
  /\ UNCHANGED <<monitors, registry, queue, runs, running, saving, board, boot, agent, fired, done,
                 unsaved, lost, dropped, budget, ended, overtaken>>

----------------------------------------------------------------------------
(* The runs of the fires, and a restart.                                   *)

\* SchedulerQueue.Claim: the agent's worker takes a job.
ClaimRun(f) ==
  /\ running = NoFire /\ ~saving
  /\ running' = f /\ saving' = TRUE
  /\ queue.jobs[f] = "queued"
  /\ queue' = [queue EXCEPT !.jobs[f] = "running"]
  /\ UNCHANGED <<monitors, registry, runs, board, stages, timers, boot, agent, fired, done, unsaved,
                 lost, dropped, budget, ended, overtaken>>

\* A plausible mistake: the run leaves no receipt.
CompletedUnnoticed(f) == [queue EXCEPT !.jobs[f] = "none", !.proofs = @ \ {f}]

\* SchedulerQueue.Complete: a run that succeeds leaves a receipt while its fire may still
\* be pending.
Completed(f) ==
  [queue EXCEPT !.jobs[f] = "none", !.proofs = @ \ {f},
                !.receipts = IF f \in queue.proofs THEN @ ELSE @ \cup {f}]

\* In memory only. A job that was taken back is not found, and leaves nothing.
RunSucceeds(f) ==
  /\ running = f /\ ~saving /\ running' = NoFire
  /\ done' = [done EXCEPT ![f] = @ + 1]
  /\ \/ /\ queue.jobs[f] # "none"
        /\ queue' = Completed(f) /\ saving' = TRUE
        /\ unsaved' = [unsaved EXCEPT ![f] = @ + 1]
        /\ UNCHANGED lost
     \/ /\ queue.jobs[f] = "none"
        /\ lost' = [lost EXCEPT ![f] = @ + 1]
        /\ UNCHANGED <<queue, saving, unsaved>>
  /\ UNCHANGED <<monitors, registry, runs, board, stages, timers, boot, agent, fired, dropped,
                 budget, ended, overtaken>>

\* A run that fails is queued again while it has attempts left.
RunEnds(f) ==
  /\ running = f /\ ~saving /\ running' = NoFire
  /\ \/ /\ queue.jobs[f] # "none" /\ saving' = TRUE
        /\ \E end \in {"cancelled", "failed", "queued"} :
             /\ queue' = [queue EXCEPT !.jobs[f] = end]
             /\ ended' = IF end = "cancelled" THEN ended \cup {f} ELSE ended
     \/ queue.jobs[f] = "none" /\ UNCHANGED <<queue, saving, ended>>
  /\ UNCHANGED <<monitors, registry, runs, board, stages, timers, boot, agent, fired, done, unsaved,
                 lost, dropped, budget, overtaken>>

\* The save that follows a claim and a completion; one that fails is only logged.
SaveQueue ==
  /\ saving /\ saving' = FALSE
  /\ UNCHANGED queue
  /\ \/ QueueSaved /\ UNCHANGED budget
     \/ Fault /\ UNCHANGED <<runs, unsaved>>
  /\ UNCHANGED <<monitors, registry, running, board, stages, timers, boot, agent, fired, done,
                 lost, dropped, ended, overtaken>>

\* SchedulerQueue.Recover: cancelled jobs are not loaded again; one that was running is
\* queued, since it has marked no effects, unless that was its last attempt.
AfterStop(status) ==
  CASE status = "cancelled" -> {"none"}
    [] status = "running" -> {"queued", "failed"}
    [] OTHER -> {status}
Recovered(q, jobs) ==
  /\ \A f \in Fires : jobs[f] \in AfterStop(q.jobs[f])
  /\ queue' = [q EXCEPT !.jobs = jobs] /\ runs' = queue'

\* What succeeded since the last save will not have happened.
MonitorCrash ==
  /\ budget.crashes < MaxCrashes /\ Count("crashes")
  /\ monitors' = registry
  /\ \E jobs \in [Fires -> JobStates] : Recovered(runs, jobs)
  /\ running' = NoFire /\ saving' = FALSE
  /\ lost' = [f \in Fires |-> lost[f] + unsaved[f]] /\ unsaved' = [f \in Fires |-> 0]
  /\ stages' = [s \in Stages |-> Idle]
  /\ timers' = {}
  /\ boot' = [collected |-> FALSE, refs |-> {}]
  /\ agent' = [memory |-> agent.disk, disk |-> agent.disk, deletion |-> "none"]
  /\ dropped' = {f \in dropped : registry[f[1]].pending[f[2]].status = "none"}
  /\ UNCHANGED <<registry, board, fired, done, ended, overtaken>>

\* resumeMonitorPending: the terminal outbox and its timers are at work already.
CollectPending ==
  /\ ~boot.collected
  /\ boot' = [collected |-> TRUE, refs |-> {f \in Fires : StatusOf(f) # "none"}]
  /\ UNCHANGED <<monitors, registry, queue, runs, running, saving, board, stages, timers, agent, fired,
                 done, unsaved, lost, dropped, budget, ended, overtaken>>

\* resetAndDispatchMonitorPending: the claim of whoever was at it is forgotten.
ResumePending(f) ==
  LET reset == IF StatusOf(f) = "none" THEN monitors
               ELSE Put(f, [monitors[f[1]].pending[f[2]] EXCEPT !.status = "pending"])
  IN  /\ f \in boot.refs /\ stages[Main].pc = "idle"
      /\ boot' = [boot EXCEPT !.refs = @ \ {f}]
      /\ monitors' = reset
      /\ overtaken' = IF \E s \in Stages : stages[s].fire = f THEN overtaken \cup {f}
                      ELSE overtaken
      /\ \/ registry' = reset /\ UNCHANGED budget
         \/ Fault /\ UNCHANGED registry
      /\ stages' = [stages EXCEPT ![Main] = [Idle EXCEPT !.pc = "next", !.todo = {f}]]
      /\ UNCHANGED <<queue, runs, running, saving, board, timers, agent, fired, done, unsaved, lost,
                     dropped, ended>>

----------------------------------------------------------------------------
UserStep ==
  \/ \E m \in Mons, kind \in Kinds : CreateMonitor(m, kind)
  \/ \E m \in Mons : DeleteMonitor(m)
  \/ \E m \in Mons, state \in {"active", "disabled"} : SetMonitorState(m, state)
  \/ FenceOwner \/ RemoveOwner \/ SaveRemoval \/ RecreateOwner

Dispatch(s) ==
  (\E f \in Fires : Claim(s, f)) \/ Admit(s) \/ SaveAdmitted(s) \/ Settle(s) \/ Confirm(s)

MonitorNext ==
  \/ UserStep
  \/ \E s \in Stages, e \in RuntimeEvents : Evaluate(s, e)
  \/ \E s \in Stages : Dispatch(s)
  \/ \E s \in Stages, f \in Fires : Retry(s, f)
  \/ \E f \in Fires : ClaimRun(f) \/ RunSucceeds(f) \/ RunEnds(f) \/ ResumePending(f)
  \/ SaveQueue \/ MonitorCrash \/ CollectPending

\* Goroutines run, timers fire, and a server that starts gets through its start.
Fairness ==
  /\ \A s \in Stages : WF_monitorVars(Dispatch(s))
  /\ \A f \in Fires : WF_monitorVars(\E s \in Stages : Retry(s, f))
  /\ WF_monitorVars(RemoveOwner) /\ WF_monitorVars(SaveRemoval)
  /\ WF_monitorVars(CollectPending) /\ WF_monitorVars(\E f \in Fires : ResumePending(f))

MonitorSpec == MonitorInit /\ [][MonitorNext]_monitorVars /\ Fairness

----------------------------------------------------------------------------
(* The run of a fire succeeds at most as often as its event fired it, and *)
(* once more for each success that the queue does not know of: the process *)
(* stopped before it was saved, or its job had been taken back. The two    *)
(* files and the receipts keep a retry, a failing save of monitors.json    *)
(* and a restart from running it again; only a second dispatcher may.      *)
RunsOncePerFire == \A f \in Fires \ overtaken : done[f] <= fired[f] + lost[f]

(* A fire that was saved is never forgotten by both files at once: it is   *)
(* pending in monitors.json, or its run or what is left of it is in        *)
(* agent-run-queue.json, or it ran or is on the blackboard, or its monitor *)
(* or its agent was deleted.                                               *)
FiresAreKept ==
  \A f \in Fires : fired[f] > 0 =>
    \/ registry[f[1]].pending[f[2]].status # "none"
    \/ runs.jobs[f] # "none" \/ f \in runs.receipts
    \/ done[f] > 0 \/ f \in board
    \/ f \in dropped \cup ended

(* Between the two files a fire is neither forgotten nor, as far as the    *)
(* queue knows, run twice.                                                 *)
FiresRunOnce == RunsOncePerFire /\ FiresAreKept

Live(q, f) == q.jobs[f] \in {"queued", "running"}

(* A fire whose monitor or whose agent has been deleted is not admitted    *)
(* any more, not by a dispatcher that had claimed it before and not for an *)
(* agent that has been made again under the same name. Only the run that   *)
(* the worker was at already may be tried again.                           *)
DroppedStaysDropped ==
  [][\A f \in dropped :
       /\ running # f /\ ~Live(queue, f) /\ ~Live(runs, f) => ~Live(queue', f)
       /\ f \in board' => f \in board]_monitorVars

(* While no save fails, a fire that is pending moves on, whatever restart  *)
(* comes in between, unless its monitor goes out of action or the fire     *)
(* runs out of tries while it was.                                         *)
PendingFiresMove ==
  \A f \in Fires :
    StatusOf(f) # "none" ~> \/ StatusOf(f) = "none"
                            \/ monitors[f[1]].state # "active"
                            \/ monitors[f[1]].pending[f[2]].attempts = 2
                            \/ budget.faults > 0

(* A pending fire comes to its end: admitted, or dropped for good.          *)
FiresEnd == DroppedStaysDropped /\ PendingFiresMove

(* docs/background-and-monitor.md:912: a monitor that is exhausted or has  *)
(* expired goes on draining the fires it accepted before. The code offers  *)
(* a fire only while its monitor is active, so the last fire of a monitor  *)
(* with a limit is never admitted.                                         *)
ExhaustedMonitorsDrain ==
  \A f \in Fires :
    StatusOf(f) # "none" ~> \/ StatusOf(f) = "none"
                            \/ monitors[f[1]].state \notin {"active", "exhausted", "expired"}
                            \/ budget.faults > 0
=============================================================================
