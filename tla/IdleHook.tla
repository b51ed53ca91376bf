------------------------------ MODULE IdleHook ------------------------------
(***************************************************************************)
(* The idle reconciliation of a project (cmd/karoz/runtime_hooks.go, and   *)
(* executeIdleReconcileScheduledRun in scheduler_jobs.go): a runtime event *)
(* finds the project at rest with work left over, takes the hook and       *)
(* schedules a run of the default agent; the run gives the hook back when  *)
(* its executor returns.  The hook is a flag in memory, the run a job of   *)
(* the scheduler with a dedup key of its own, and they do not end at the   *)
(* same time: a retry runs without the hook, and a run that ends before it *)
(* is executed leaves the hook behind.                                     *)
(*                                                                         *)
(* The scheduler, the agent's slot and the disk are modelled in Scheduler  *)
(* and RunControl; here they are what the hook can see of them.  The other *)
(* agents' runs and the tasks are one flag, busy; open handoffs, tasks     *)
(* left, pending memories and unhandled signals are another, backlog.      *)
(***************************************************************************)
EXTENDS Naturals

CONSTANTS Triggers,        \* the goroutines that emit runtime events
          Reconciles,      \* the reconciliation runs there may be
          Nothing,         \* no run
          Another,         \* a run of the default agent that is not a reconciliation
          MaxAttempts,     \* of a scheduled run
          HookFaults,      \* bound on the saves that fail
          HookCrashes      \* bound on the restarts

ASSUME HookAssumption ==
  /\ Nothing \notin Reconciles /\ Another \notin Reconciles \cup {Nothing}
  /\ MaxAttempts \in Nat \ {0} /\ HookFaults \in Nat /\ HookCrashes \in Nat

VARIABLES
  hook,      \* is the project's hook taken?
  trigger,   \* [Triggers -> how far the look at an event has come, and its run]
  job,       \* [Reconciles -> the scheduler's record of the run]
  key,       \* is the dedup key of reconciliations held?
  queueWorker,    \* the queue worker of the default agent, where it serves a reconciliation
  slot,      \* the default agent's active run
  busy,      \* does another agent run, or a task block the quiescence?
  backlog,   \* is there work left over?
  discharged, \* history: the runs that owe no hook: their executor returned, or it went without them
  spent      \* the faults and the crashes so far

hookVars == <<hook, trigger, job, key, queueWorker, slot, busy, backlog, discharged, spent>>
project == <<busy, backlog>>
scheduler == <<job, key, queueWorker, slot, discharged>>

Away == [at |-> "away", job |-> Nothing]
Resting == [at |-> "idle", job |-> Nothing, result |-> "none"]

TriggerRecord == [at : {"away", "quiet", "wanted", "held", "saving", "refused"}, job : Reconciles \cup {Nothing}]
RunRecord == [status : {"unused", "queued", "running", "failed", "cancelled", "gone"},
              attempt : 0..MaxAttempts, effects : BOOLEAN]
WorkerRecord == [at : {"idle", "claimed", "begun", "pausing", "looking", "ready", "turn",
                       "returning", "finishing", "completing"},
                 job : Reconciles \cup {Nothing}, result : {"none", "succeeded", "cancelled", "failed"}]

TypeOfHook ==
  /\ hook \in BOOLEAN /\ key \in BOOLEAN /\ busy \in BOOLEAN /\ backlog \in BOOLEAN
  /\ trigger \in [Triggers -> TriggerRecord]
  /\ job \in [Reconciles -> RunRecord]
  /\ queueWorker \in WorkerRecord
  /\ slot \in Reconciles \cup {Nothing, Another}
  /\ discharged \subseteq Reconciles
  /\ spent \in [faults : 0..HookFaults, crashes : 0..HookCrashes]

HookInit ==
  /\ hook = FALSE
  /\ trigger = [t \in Triggers |-> Away]
  /\ job = [j \in Reconciles |-> [status |-> "unused", attempt |-> 0, effects |-> FALSE]]
  /\ key = FALSE
  /\ queueWorker = Resting
  /\ slot = Nothing
  /\ busy = FALSE /\ backlog = FALSE
  /\ discharged = {}
  /\ spent = [faults |-> 0, crashes |-> 0]

Live(j) == job[j].status \in {"queued", "running"}

(* Scheduled runs that ended before they were ever executed: by a start     *)
(* deadline or a lost binding as often as there are attempts, or by a       *)
(* cancel before Execute.  Only a restart gives their hook back, or the     *)
(* executor of another run.                                                 *)
Abandoned == {j \in Reconciles : job[j].status \in {"failed", "cancelled"} /\ j \notin discharged}

(* endRuntimeHook.                                                          *)
GiveBack(js) == hook' = FALSE /\ discharged' = discharged \cup js \cup Abandoned

-----------------------------------------------------------------------------
(* maybeTriggerKarozIdleReconcile.  An event whose kind or reason rules a  *)
(* reconciliation out changes nothing and is no step here.                 *)

TriggerGoes(t, place) == trigger' = [trigger EXCEPT ![t].at = place]

(* projectRuntimeQuiescent: no run, no hook and no task in the way.         *)
LookAtRest(t) ==
  /\ trigger[t].at = "away"
  /\ ~ busy /\ slot = Nothing /\ ~ hook
  /\ TriggerGoes(t, "quiet")
  /\ UNCHANGED <<hook, scheduler, project, spent>>

(* projectBacklogNotEmpty, under other locks than the look before it.       *)
LookAtBacklog(t) ==
  /\ trigger[t].at = "quiet"
  /\ TriggerGoes(t, IF backlog THEN "wanted" ELSE "away")
  /\ UNCHANGED <<hook, scheduler, project, spent>>

TryBegin(t) ==
  /\ trigger[t].at = "wanted"
  /\ TriggerGoes(t, IF hook THEN "away" ELSE "held")
  /\ hook' = TRUE
  /\ UNCHANGED <<scheduler, project, spent>>

(* Mutant: a refusal that nobody answers by giving the hook back.           *)
ScheduleForgets(t) ==
  /\ trigger[t].at = "held"
  /\ \/ key /\ TriggerGoes(t, "away") /\ UNCHANGED <<job, key>>
     \/ \E j \in Reconciles :
          /\ ~ key /\ job[j].status = "unused"
          /\ job' = [job EXCEPT ![j].status = "queued"]
          /\ key' = TRUE
          /\ trigger' = [trigger EXCEPT ![t] = [at |-> "saving", job |-> j]]
  /\ UNCHANGED <<hook, queueWorker, slot, discharged, project, spent>>

(* scheduleAgentRun: the queue refuses a second reconciliation by its key.  *)
ScheduleReconcile(t) ==
  /\ trigger[t].at = "held"
  /\ \/ key /\ TriggerGoes(t, "refused") /\ UNCHANGED <<job, key>>
     \/ \E j \in Reconciles :
          /\ ~ key /\ job[j].status = "unused"
          /\ job' = [job EXCEPT ![j].status = "queued"]
          /\ key' = TRUE
          /\ trigger' = [trigger EXCEPT ![t] = [at |-> "saving", job |-> j]]
  /\ UNCHANGED <<hook, queueWorker, slot, discharged, project, spent>>

ReconcileSaved(t) ==
  /\ trigger[t].at = "saving"
  /\ trigger' = [trigger EXCEPT ![t] = Away]
  /\ UNCHANGED <<hook, scheduler, project, spent>>

(* RollbackEnqueue takes the run out of the table, whatever has become of   *)
(* it there, and its key with it; a worker that serves it goes on.          *)
SaveReconcileFails(t) ==
  /\ trigger[t].at = "saving" /\ spent.faults < HookFaults
  /\ LET j == trigger[t].job IN
       IF job[j].status = "gone" THEN UNCHANGED <<job, key>>
       ELSE job' = [job EXCEPT ![j].status = "gone"] /\ key' = FALSE
  /\ trigger' = [trigger EXCEPT ![t] = [at |-> "refused", job |-> Nothing]]
  /\ spent' = [spent EXCEPT !.faults = @ + 1]
  /\ UNCHANGED <<hook, queueWorker, slot, discharged, project>>

EndHook(t) ==
  /\ trigger[t].at = "refused"
  /\ GiveBack({})
  /\ TriggerGoes(t, "away")
  /\ UNCHANGED <<job, key, queueWorker, slot, project, spent>>

-----------------------------------------------------------------------------
(* The worker of the default agent, and the executor of a reconciliation.  *)

Serving(place) == queueWorker.at = place

WorkerGoes(place) == queueWorker' = [queueWorker EXCEPT !.at = place]

Returns(result) == queueWorker' = [queueWorker EXCEPT !.at = "returning", !.result = result]

ClaimReconcile(j) ==
  /\ Serving("idle") /\ job[j].status = "queued"
  /\ job' = [job EXCEPT ![j].status = "running"]
  /\ queueWorker' = [at |-> "claimed", job |-> j, result |-> "none"]
  /\ UNCHANGED <<hook, trigger, key, slot, discharged, project, spent>>

BeginReconcile ==
  /\ Serving("claimed") /\ slot = Nothing
  /\ slot' = queueWorker.job
  /\ WorkerGoes("begun")
  /\ UNCHANGED <<hook, trigger, job, key, discharged, project, spent>>

(* The agent stayed busy until the start deadline: nothing is executed.     *)
StartDeadline ==
  /\ Serving("claimed") /\ slot # Nothing
  /\ queueWorker' = [queueWorker EXCEPT !.at = "completing", !.result = "failed"]
  /\ UNCHANGED <<hook, trigger, job, key, slot, discharged, project, spent>>

(* A cancel that arrives between Begin and Execute, or one meant for an     *)
(* earlier start whose finish ends this one before Bind.                    *)
EndedUnbound ==
  /\ Serving("begun")
  /\ \/ queueWorker' = [queueWorker EXCEPT !.at = "finishing", !.result = "cancelled"] /\ UNCHANGED slot
     \/ queueWorker' = [queueWorker EXCEPT !.at = "completing", !.result = "failed"] /\ slot' = Nothing
  /\ UNCHANGED <<hook, trigger, job, key, discharged, project, spent>>

ExecuteReconcile ==
  /\ Serving("begun")
  /\ WorkerGoes("pausing")
  /\ UNCHANGED <<hook, trigger, job, key, slot, discharged, project, spent>>

(* After 50 ms the executor looks again, past the hook and its own run.     *)
LookAgainAtRest ==
  /\ Serving("pausing")
  /\ \/ ~ busy /\ WorkerGoes("looking")
     \/ busy /\ Returns("succeeded")
  /\ UNCHANGED <<hook, trigger, job, key, slot, discharged, project, spent>>

LookAgainAtBacklog ==
  /\ Serving("looking")
  /\ \/ backlog /\ WorkerGoes("ready")
     \/ ~ backlog /\ Returns("succeeded")
  /\ UNCHANGED <<hook, trigger, job, key, slot, discharged, project, spent>>

(* markScheduledRunEffectsStarted: a run that is not in the table goes on   *)
(* unmarked; a mark that cannot be saved stays in memory.                   *)
MarkReconcile(ok) ==
  /\ Serving("ready")
  /\ ok \/ spent.faults < HookFaults
  /\ LET j == queueWorker.job IN
       job' = IF job[j].status = "running" THEN [job EXCEPT ![j].effects = TRUE] ELSE job
  /\ ok \/ job[queueWorker.job].status = "running"
  /\ IF ok THEN WorkerGoes("turn") ELSE Returns("failed")
  /\ spent' = IF ok THEN spent ELSE [spent EXCEPT !.faults = @ + 1]
  /\ UNCHANGED <<hook, trigger, key, slot, discharged, project>>

(* The turn: its answer is committed, which ends the run in the agent's     *)
(* slot, or there is none; it may fail or be cancelled, as may the pause.   *)
CommitReconcile ==
  /\ Serving("turn")
  /\ Returns("succeeded")
  /\ slot' \in {Nothing, slot}
  /\ UNCHANGED <<hook, trigger, job, key, discharged, project, spent>>

ReconcileBreaks(result) ==
  /\ Serving("pausing") \/ Serving("turn")
  /\ Returns(result)
  /\ UNCHANGED <<hook, trigger, job, key, slot, discharged, project, spent>>

(* The executor's defer: the hook is given back, whoever took it.           *)
ExecutorReturns ==
  /\ Serving("returning")
  /\ GiveBack({queueWorker.job})
  /\ WorkerGoes("finishing")
  /\ UNCHANGED <<trigger, job, key, slot, project, spent>>

FinishReconcile ==
  /\ Serving("finishing")
  /\ slot' = IF slot = queueWorker.job THEN Nothing ELSE slot
  /\ WorkerGoes("completing")
  /\ UNCHANGED <<hook, trigger, job, key, discharged, project, spent>>

(* Complete: a failure without effects is retried, in the queue as before.  *)
CompleteReconcile ==
  LET j == queueWorker.job
      tried == job[j].attempt + 1
      retried == tried < MaxAttempts /\ ~ job[j].effects
      after == CASE queueWorker.result = "succeeded" -> [job[j] EXCEPT !.status = "gone"]
                 [] queueWorker.result = "cancelled" -> [job[j] EXCEPT !.status = "cancelled"]
                 [] OTHER -> [job[j] EXCEPT !.status = IF retried THEN "queued" ELSE "failed",
                                            !.attempt = tried]
  IN
  /\ Serving("completing")
  /\ IF job[j].status = "gone" THEN UNCHANGED <<job, key>>
     ELSE job' = [job EXCEPT ![j] = after] /\ key' = (key /\ after.status = "queued")
  /\ queueWorker' = Resting
  /\ UNCHANGED <<hook, trigger, slot, discharged, project, spent>>

-----------------------------------------------------------------------------
(* What goes on around it. *)

AnotherRun ==
  /\ slot \in {Nothing, Another}
  /\ slot' = IF slot = Nothing THEN Another ELSE Nothing
  /\ UNCHANGED <<hook, trigger, job, key, queueWorker, discharged, project, spent>>

OthersComeAndGo ==
  /\ busy' = ~ busy
  /\ UNCHANGED <<hook, trigger, scheduler, backlog, spent>>

(* A signal on the blackboard, say, and the mark that it was handled.       *)
WorkIsLeft ==
  /\ ~ backlog /\ backlog' = TRUE
  /\ UNCHANGED <<hook, trigger, scheduler, busy, spent>>

WorkIsDone ==
  /\ backlog /\ backlog' = FALSE
  /\ UNCHANGED <<hook, trigger, scheduler, busy, spent>>

(* A restart: the hook is gone, the runs are what Recover makes of them.  A *)
(* run whose save was under way may not be on the disk.                     *)
Recovered(j) ==
  LET tried == job[j].attempt + 1
      again == [job[j] EXCEPT !.status = "queued", !.attempt = tried]
      over == [job[j] EXCEPT !.status = "failed", !.attempt = tried]
      gone == [job[j] EXCEPT !.status = "gone"]
      unsaved == \E t \in Triggers : trigger[t].at = "saving" /\ trigger[t].job = j
  IN (IF unsaved THEN {gone} ELSE {}) \cup
     CASE job[j].status = "running" -> {IF tried < MaxAttempts /\ ~ job[j].effects THEN again ELSE over}
       [] job[j].status = "cancelled" -> {gone}
       [] OTHER -> {job[j]}

RestartHook ==
  /\ spent.crashes < HookCrashes
  /\ spent' = [spent EXCEPT !.crashes = @ + 1]
  /\ hook' = FALSE
  /\ trigger' = [t \in Triggers |-> Away]
  /\ \E after \in [Reconciles -> UNION {Recovered(j) : j \in Reconciles}] :
       /\ \A j \in Reconciles : after[j] \in Recovered(j)
       /\ job' = after
  /\ key' = (\E j \in Reconciles : job'[j].status = "queued")
  /\ queueWorker' = Resting
  /\ slot' = Nothing
  /\ busy' \in BOOLEAN
  /\ discharged' = {j \in Reconciles : job[j].status # "unused"}
  /\ UNCHANGED backlog

-----------------------------------------------------------------------------
TriggerStep(t) ==
  \/ LookAtRest(t) \/ LookAtBacklog(t) \/ TryBegin(t) \/ ScheduleReconcile(t)
  \/ ReconcileSaved(t) \/ SaveReconcileFails(t) \/ EndHook(t)

WorkerStep ==
  \/ \E j \in Reconciles : ClaimReconcile(j)
  \/ BeginReconcile \/ StartDeadline \/ EndedUnbound \/ ExecuteReconcile
  \/ LookAgainAtRest \/ LookAgainAtBacklog \/ \E ok \in BOOLEAN : MarkReconcile(ok)
  \/ CommitReconcile \/ \E result \in {"failed", "cancelled"} : ReconcileBreaks(result)
  \/ ExecutorReturns \/ FinishReconcile \/ CompleteReconcile

ProjectStep == OthersComeAndGo \/ WorkIsLeft \/ WorkIsDone

HookNext == (\E t \in Triggers : TriggerStep(t)) \/ WorkerStep \/ AnotherRun \/ ProjectStep \/ RestartHook

HookSpec == HookInit /\ [][HookNext]_hookVars

-----------------------------------------------------------------------------
(* Properties *)

(* The hook keeps every later event of the project from a reconciliation,   *)
(* so whenever it is taken somebody is about to give it back: an event      *)
(* handler that holds it or was refused, or a run that is scheduled and not *)
(* yet executed.  The runs that are abandoned are the exception, the only   *)
(* one: not a refusal, a rollback, a retry or a hook taken twice.           *)
HookHasAHolder ==
  hook => \/ \E t \in Triggers : trigger[t].at \in {"held", "refused"}
          \/ \E j \in Reconciles : Live(j) /\ j \notin discharged
          \/ Abandoned # {}

=============================================================================
