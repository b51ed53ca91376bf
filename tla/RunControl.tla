----------------------------- MODULE RunControl -----------------------------
(***************************************************************************)
(* The run registry of one agent and everybody who races for it: posts     *)
(* that start a direct run or interrupt the running one                    *)
(* (cmd/karoz/api_agents.go, agent_run_worker.go), the agent's one         *)
(* scheduler worker (internal/runtime/scheduler_worker.go and the hooks of *)
(* cmd/karoz/scheduler.go), and explicit cancellations (run_controller.go). *)
(*                                                                         *)
(* Each action is one critical section of app.mu (all of the aggregate     *)
(* operations of internal/runtime/lifecycle.go and control.go are), or     *)
(* what a goroutine does between two of them.  The states a run passes     *)
(* through while it is active (preparing, invoking...) are one: they only  *)
(* change while the run is registered and no property looks at them.       *)
(***************************************************************************)
EXTENDS Integers, FiniteSets

CONSTANTS Direct,       \* posts; a post is also the ID of the run it may start
          Scheduled,    \* scheduled runs, whose ID every retry begins again
          Unmarked,     \* those whose executor commits without marking effects
          Cancellers,   \* requests to cancel the agent's active run
          MaxAttempts,
          NoRun, NoCtx

Runs == Direct \cup Scheduled

ASSUME RunControlAssumption ==
  /\ Direct \cap Scheduled = {}
  /\ Unmarked \subseteq Scheduled
  /\ NoRun \notin Runs
  /\ NoCtx \notin Runs \X Nat
  /\ MaxAttempts \in Nat \ {0}

VARIABLES slot,       \* runs[key]: the active run and its pending interrupts
          control,    \* the handles attached to it: context, cancelling marker
          starts,     \* [Runs -> Nat], how often Begin has created the run
          cancelled,  \* contexts that have been cancelled
          ledger,     \* [Runs -> the run's ledger: is there one, its terminal events]
          proc,       \* [Runs -> the goroutine that works for the run]
          canceller,  \* [Cancellers -> a call of cancelAgentRun]
          job,        \* [Scheduled -> the scheduled run in the queue's table]
          claims,     \* history: turns for which a cancellation was accepted
          results,    \* history: turns that committed a result
          ended,      \* history: turns that ended without one
          folded      \* history: posts whose interrupt reached a model turn

vars == <<slot, control, starts, cancelled, ledger, proc, canceller, job,
          claims, results, ended, folded>>

(* A turn, and the context that belongs to it. *)
Turn(r) == <<r, starts[r]>>
Turns == Runs \X (Nat \ {0})
Current == Turn(slot.run)

Free == [run |-> NoRun, interrupts |-> {}]
NoControl == [ctx |-> NoCtx, cancelling |-> FALSE]

(* A worker is claimed and its context bound in one mutation, so a run is   *)
(* worker-owned exactly when it has a context.                              *)
ProcPC == {"idle", "busy", "queued", "again", "begin", "wait", "watching", "begun", "claimed", "bind",
           "running", "answered", "ready", "committed", "finishing", "removed",
           "reporting", "returned", "over"}
Finals == {"done", "failed", "cancelled"}
ProcRecord == [pc : ProcPC, final : Finals, next : {"reporting", "wait", "over"}]
CancelPC == {"idle", "signal", "finish", "removed", "reporting", "over"}
CancelRecord == [pc : CancelPC, run : Runs \cup {NoRun}, ctx : Turns \cup {NoCtx}]
JobStatus == {"queued", "running", "succeeded", "failed", "cancelled"}
JobRecord == [status : JobStatus, attempt : 0..MaxAttempts, effects : BOOLEAN]

TypeOK ==
  /\ slot \in [run : Runs \cup {NoRun}, interrupts : SUBSET Direct]
  /\ control \in [ctx : Turns \cup {NoCtx}, cancelling : BOOLEAN]
  /\ starts \in [Runs -> Nat]
  /\ cancelled \subseteq Turns
  /\ ledger \in [Runs -> [open : BOOLEAN, terminals : Nat]]
  /\ proc \in [Runs -> ProcRecord]
  /\ canceller \in [Cancellers -> CancelRecord]
  /\ job \in [Scheduled -> JobRecord]
  /\ claims \subseteq Turns
  /\ results \subseteq Turns
  /\ ended \subseteq Turns
  /\ folded \subseteq Direct

Init ==
  /\ slot = Free
  /\ control = NoControl
  /\ starts = [r \in Runs |-> 0]
  /\ cancelled = {}
  /\ ledger = [r \in Runs |-> [open |-> FALSE, terminals |-> 0]]
  /\ proc = [r \in Runs |-> [pc |-> "idle", final |-> "done", next |-> "over"]]
  /\ canceller = [c \in Cancellers |-> [pc |-> "idle", run |-> NoRun, ctx |-> NoCtx]]
  /\ job = [j \in Scheduled |-> [status |-> "queued", attempt |-> 0, effects |-> FALSE]]
  /\ claims = {} /\ results = {} /\ ended = {} /\ folded = {}

-----------------------------------------------------------------------------
(* The registry *)

At(r, pc) == proc[r].pc = pc
Goto(r, pc) == proc' = [proc EXCEPT ![r].pc = pc]
GotoFinish(r, final, next) ==
  proc' = [proc EXCEPT ![r] = [pc |-> "finishing", final |-> final, next |-> next]]

(* RunLifecycle.Begin and the adapter's Insert: refused while a run is      *)
(* active; a new run starts with clean handles.                             *)
Admit(r) ==
  /\ slot.run = NoRun
  /\ slot' = [run |-> r, interrupts |-> {}]
  /\ control' = NoControl
  /\ starts' = [starts EXCEPT ![r] = @ + 1]

(* Slip: the run goes, its handles stay. *)
VacateRunOnly == slot' = Free /\ UNCHANGED control

(* A commit or a finish takes the run and every handle out in one step.     *)
(* Interrupts nobody has drained go with the run.                           *)
Vacate == slot' = Free /\ control' = NoControl

(* notifyAgentRunFinished wakes whoever watches the agent. *)
Woken(f) == [r \in Runs |-> IF f[r].pc = "watching" THEN [f[r] EXCEPT !.pc = "begin"] ELSE f[r]]

(* createRunLedger replaces the ledger an earlier start of the run left. *)
CreateLedger(r) == ledger' = [ledger EXCEPT ![r] = [open |-> TRUE, terminals |-> 0]]

PublishTerminal(r) ==
  ledger' = IF ledger[r].open THEN [ledger EXCEPT ![r].terminals = @ + 1] ELSE ledger

-----------------------------------------------------------------------------
(* A post: handleAgentAPI, POST messages *)

PostBegins(d) ==
  /\ At(d, "idle")
  /\ Admit(d)
  /\ Goto(d, "begun")
  /\ UNCHANGED <<cancelled, ledger, canceller, job, claims, results, ended, folded>>

PostFindsBusy(d) ==
  /\ At(d, "idle")
  /\ slot.run # NoRun
  /\ Goto(d, "busy")
  /\ UNCHANGED <<slot, control, starts, cancelled, ledger, canceller, job,
                 claims, results, ended, folded>>

(* enqueueAgentInterrupt: whichever run is active now gets the message. *)
QueueInterrupt(d) ==
  /\ At(d, "busy")
  /\ slot.run # NoRun
  /\ slot' = [slot EXCEPT !.interrupts = @ \cup {d}]
  /\ Goto(d, "queued")
  /\ UNCHANGED <<control, starts, cancelled, ledger, canceller, job,
                 claims, results, ended, folded>>

NothingToInterrupt(d) ==
  /\ At(d, "busy")
  /\ slot.run = NoRun
  /\ Goto(d, "again")
  /\ UNCHANGED <<slot, control, starts, cancelled, ledger, canceller, job,
                 claims, results, ended, folded>>

PostAgain(d) ==
  /\ At(d, "again")
  /\ IF slot.run = NoRun
     THEN Admit(d) /\ Goto(d, "begun")
     ELSE Goto(d, "over") /\ UNCHANGED <<slot, control, starts>>
  /\ UNCHANGED <<cancelled, ledger, canceller, job, claims, results, ended, folded>>

(* The post was an approval choice that cannot be resolved. *)
ChoiceFails(d) ==
  /\ d \in Direct
  /\ At(d, "begun")
  /\ GotoFinish(d, "cancelled", "over")
  /\ UNCHANGED <<slot, control, starts, cancelled, ledger, canceller, job,
                 claims, results, ended, folded>>

-----------------------------------------------------------------------------
(* The scheduler worker of the agent, and its hooks *)

WorkerFree == \A j \in Scheduled : At(j, "idle")

TakeJob(j) ==
  /\ WorkerFree
  /\ job[j].status = "queued"
  /\ job' = [job EXCEPT ![j].status = "running"]
  /\ Goto(j, "begin")
  /\ UNCHANGED <<slot, control, starts, cancelled, ledger, canceller,
                 claims, results, ended, folded>>

BeginJob(j) ==
  /\ At(j, "begin")
  /\ IF slot.run = NoRun
     THEN Admit(j) /\ Goto(j, "begun")
     ELSE Goto(j, "wait") /\ UNCHANGED <<slot, control, starts>>
  /\ UNCHANGED <<cancelled, ledger, canceller, job, claims, results, ended, folded>>

(* Slip: the check and the registration are two critical sections. *)
WatchBlindly(j) ==
  /\ At(j, "wait")
  /\ Goto(j, "watching")
  /\ UNCHANGED <<slot, control, starts, cancelled, ledger, canceller, job,
                 claims, results, ended, folded>>

(* waitForAgentRunFinished checks and registers under one lock. *)
Watch(j) ==
  /\ At(j, "wait")
  /\ Goto(j, IF slot.run = NoRun THEN "begin" ELSE "watching")
  /\ UNCHANGED <<slot, control, starts, cancelled, ledger, canceller, job,
                 claims, results, ended, folded>>

(* The start deadline passes, seen at the head of the loop or while waiting. *)
StartTimesOut(j) ==
  /\ At(j, "begin") \/ At(j, "watching")
  /\ proc' = [proc EXCEPT ![j].pc = "returned", ![j].final = "failed"]
  /\ UNCHANGED <<slot, control, starts, cancelled, ledger, canceller, job,
                 claims, results, ended, folded>>

(* claimAndBindAgentRunWorkerContext, for both kinds of run.  A cancelling  *)
(* run can still be claimed.  A direct worker that fails to claim is never  *)
(* started; the Begin hook of the scheduler finishes the run and reports    *)
(* that it did not begin.                                                   *)
ClaimRun(r) ==
  /\ At(r, "begun")
  /\ IF slot.run = r
     THEN control' = [control EXCEPT !.ctx = Turn(r)] /\ Goto(r, "claimed")
     ELSE /\ IF r \in Direct THEN Goto(r, "over") ELSE GotoFinish(r, "cancelled", "wait")
          /\ UNCHANGED control
  /\ UNCHANGED <<slot, starts, cancelled, ledger, canceller, job,
                 claims, results, ended, folded>>

OpenLedger(r) ==
  /\ At(r, "claimed")
  /\ CreateLedger(r)
  /\ Goto(r, IF r \in Direct THEN "running" ELSE "bind")
  /\ UNCHANGED <<slot, control, starts, cancelled, canceller, job,
                 claims, results, ended, folded>>

(* Bind, and the look at the context before Execute. *)
Bind(j) ==
  /\ At(j, "bind")
  /\ \/ slot.run = j /\ Turn(j) \notin cancelled /\ Goto(j, "running")
     \/ slot.run = j /\ Turn(j) \in cancelled /\ GotoFinish(j, "cancelled", "reporting")
     \/ slot.run # j /\ proc' = [proc EXCEPT ![j].pc = "returned", ![j].final = "failed"]
  /\ UNCHANGED <<slot, control, starts, cancelled, ledger, canceller, job,
                 claims, results, ended, folded>>

-----------------------------------------------------------------------------
(* A turn, from the provider's first round to the end of the run *)

Drain(r) ==
  /\ At(r, "running")
  /\ slot.run = r
  /\ slot.interrupts # {}
  /\ folded' = folded \cup slot.interrupts
  /\ slot' = [slot EXCEPT !.interrupts = {}]
  /\ UNCHANGED <<control, starts, cancelled, ledger, proc, canceller, job,
                 claims, results, ended>>

(* A tool of a scheduled run marks its effects. *)
MarkEffects(j) ==
  /\ At(j, "running")
  /\ job' = [job EXCEPT ![j].effects = TRUE]
  /\ UNCHANGED <<slot, control, starts, cancelled, ledger, proc, canceller,
                 claims, results, ended, folded>>

ProviderAnswers(r) ==
  /\ At(r, "running")
  /\ Goto(r, "answered")
  /\ UNCHANGED <<slot, control, starts, cancelled, ledger, canceller, job,
                 claims, results, ended, folded>>

(* The turn ends without a result: an error, a cancelled context, or, for a *)
(* scheduled run, nothing to say.                                           *)
TurnEnds(r, final) ==
  /\ At(r, "running")
  /\ \/ final = "cancelled" /\ Turn(r) \in cancelled
     \/ final = "failed" /\ (r \in Direct => Turn(r) \notin cancelled)
     \/ final = "done" /\ r \in Scheduled /\ Turn(r) \notin cancelled
  /\ GotoFinish(r, final, "reporting")
  /\ UNCHANGED <<slot, control, starts, cancelled, ledger, canceller, job,
                 claims, results, ended, folded>>

(* Before the commit a direct worker looks at its context once more. *)
PrepareDirect(d) ==
  /\ d \in Direct
  /\ At(d, "answered")
  /\ IF Turn(d) \in cancelled THEN GotoFinish(d, "cancelled", "reporting") ELSE Goto(d, "ready")
  /\ UNCHANGED <<slot, control, starts, cancelled, ledger, canceller, job,
                 claims, results, ended, folded>>

(* Slip: the executor commits its result without marking effects. *)
PrepareUnmarked(j) ==
  /\ At(j, "answered")
  /\ Goto(j, "ready")
  /\ UNCHANGED <<slot, control, starts, cancelled, ledger, canceller, job,
                 claims, results, ended, folded>>

(* The executors of handoff, task and idle runs mark effects first; the     *)
(* mark may fail to be saved, which fails the run.  Those of plan and       *)
(* monitor events go straight to the commit.                                *)
PrepareScheduled(j) ==
  /\ At(j, "answered")
  /\ \/ j \in Unmarked /\ Goto(j, "ready") /\ UNCHANGED job
     \/ /\ j \notin Unmarked
        /\ job' = [job EXCEPT ![j].effects = TRUE]
        /\ Goto(j, "ready") \/ GotoFinish(j, "failed", "reporting")
  /\ UNCHANGED <<slot, control, starts, cancelled, ledger, canceller,
                 claims, results, ended, folded>>

(* Slip: CommitResult does not look at the cancelling marker. *)
CommitRegardless(r) == slot.run = r

(* RunControl.CommitResult *)
MayCommit(r) == slot.run = r /\ ~ control.cancelling

Commit(r) ==
  /\ At(r, "ready")
  /\ IF MayCommit(r)
     THEN /\ results' = results \cup {Turn(r)}
          /\ Vacate
          /\ Goto(r, "committed")
     ELSE /\ GotoFinish(r, "cancelled", "reporting")
          /\ UNCHANGED <<slot, control, results>>
  /\ UNCHANGED <<starts, cancelled, ledger, canceller, job, claims, ended, folded>>

(* Slip: the terminal event does not depend on who removed the run. *)
FinishAnyway(r) ==
  /\ At(r, "finishing")
  /\ IF slot.run = r THEN Vacate /\ ended' = ended \cup {Turn(r)}
                     ELSE UNCHANGED <<slot, control, ended>>
  /\ Goto(r, "removed")
  /\ UNCHANGED <<starts, cancelled, ledger, canceller, job, claims, results, folded>>

(* finishAgentRun, by the run's own goroutine: when somebody else has       *)
(* removed the run there is nothing to notify or to publish.                *)
FinishRun(r) ==
  /\ At(r, "finishing")
  /\ IF slot.run = r
     THEN /\ Vacate
          /\ ended' = ended \cup {Turn(r)}
          /\ Goto(r, "removed")
     ELSE /\ Goto(r, IF proc[r].next # "reporting" THEN proc[r].next
                     ELSE IF r \in Direct THEN "over" ELSE "returned")
          /\ UNCHANGED <<slot, control, ended>>
  /\ UNCHANGED <<starts, cancelled, ledger, canceller, job, claims, results, folded>>

(* Slip: the watchers are not woken after a commit. *)
NotifyRemovedOnly(r) ==
  /\ At(r, "committed") \/ At(r, "removed")
  /\ proc' = [(IF At(r, "removed") THEN Woken(proc) ELSE proc)
                EXCEPT ![r].pc = IF At(r, "committed") THEN "reporting" ELSE proc[r].next]
  /\ cancelled' = cancelled \cup (IF At(r, "committed") /\ r \in Scheduled THEN {} ELSE {Turn(r)})
  /\ UNCHANGED <<slot, control, starts, ledger, canceller, job, claims, results, ended, folded>>

(* Watchers are woken, and the turn's context is cancelled, except after    *)
(* the commit of a scheduled run, whose worker still needs it.              *)
NotifyFinished(r) ==
  /\ At(r, "committed") \/ At(r, "removed")
  /\ proc' = [Woken(proc) EXCEPT ![r].pc = IF At(r, "committed") THEN "reporting"
                                           ELSE proc[r].next]
  /\ cancelled' = cancelled \cup (IF At(r, "committed") /\ r \in Scheduled THEN {} ELSE {Turn(r)})
  /\ UNCHANGED <<slot, control, starts, ledger, canceller, job, claims, results, ended, folded>>

PublishDirect(d) ==
  /\ d \in Direct
  /\ At(d, "reporting")
  /\ PublishTerminal(d)
  /\ Goto(d, "over")
  /\ UNCHANGED <<slot, control, starts, cancelled, canceller, job,
                 claims, results, ended, folded>>

(* After a commit the outcome still depends on the context: Run turns an    *)
(* Execute without error into the context's error when that has expired.    *)
AfterExecute(j) ==
  IF Turn(j) \notin results THEN {proc[j].final}
  ELSE IF Turn(j) \in cancelled THEN {"cancelled"} ELSE {"done", "failed"}

PublishScheduled(j) ==
  /\ At(j, "reporting")
  /\ PublishTerminal(j)
  /\ \E f \in AfterExecute(j) : proc' = [proc EXCEPT ![j].pc = "returned", ![j].final = f]
  /\ UNCHANGED <<slot, control, starts, cancelled, canceller, job,
                 claims, results, ended, folded>>

(* SchedulerQueue.Complete; a job that may be retried is queued again. *)
Settled(j) ==
  CASE proc[j].final = "done"      -> [job[j] EXCEPT !.status = "succeeded"]
    [] proc[j].final = "cancelled" -> [job[j] EXCEPT !.status = "cancelled"]
    [] proc[j].final = "failed"    ->
         [job[j] EXCEPT !.attempt = @ + 1,
                        !.status = IF job[j].attempt + 1 < MaxAttempts /\ ~ job[j].effects
                                   THEN "queued" ELSE "failed"]

CompleteJob(j) ==
  /\ At(j, "returned")
  /\ job' = [job EXCEPT ![j] = Settled(j)]
  /\ Goto(j, "idle")
  /\ UNCHANGED <<slot, control, starts, cancelled, ledger, canceller,
                 claims, results, ended, folded>>

-----------------------------------------------------------------------------
(* cancelAgentRun *)

(* RunControl.RequestCancel.  The canceller keeps what it saw. *)
RequestCancel(c) ==
  /\ canceller[c].pc = "idle"
  /\ slot.run # NoRun
  /\ control' = [control EXCEPT !.cancelling = TRUE]
  /\ claims' = claims \cup {Current}
  /\ canceller' = [canceller EXCEPT ![c] =
       [pc |-> IF control.ctx # NoCtx THEN "signal" ELSE "finish",
        run |-> slot.run, ctx |-> control.ctx]]
  /\ UNCHANGED <<slot, starts, cancelled, ledger, proc, job, results, ended, folded>>

CancelRefused(c) ==
  /\ canceller[c].pc = "idle"
  /\ slot.run = NoRun
  /\ canceller' = [canceller EXCEPT ![c].pc = "over"]
  /\ UNCHANGED <<slot, control, starts, cancelled, ledger, proc, job,
                 claims, results, ended, folded>>

SignalWorker(c) ==
  /\ canceller[c].pc = "signal"
  /\ cancelled' = cancelled \cup {canceller[c].ctx}
  /\ canceller' = [canceller EXCEPT ![c].pc = "over"]
  /\ UNCHANGED <<slot, control, starts, ledger, proc, job, claims, results, ended, folded>>

(* finishAgentRun compares run IDs only. *)
MayFinish(c) == slot.run = canceller[c].run

FinishUnowned(c) ==
  /\ canceller[c].pc = "finish"
  /\ IF MayFinish(c)
     THEN /\ Vacate
          /\ ended' = ended \cup {Current}
          /\ canceller' = [canceller EXCEPT ![c].pc = "removed", ![c].ctx = control.ctx]
     ELSE /\ canceller' = [canceller EXCEPT ![c].pc = "over"]
          /\ UNCHANGED <<slot, control, ended>>
  /\ UNCHANGED <<starts, cancelled, ledger, proc, job, claims, results, folded>>

CancelNotifies(c) ==
  /\ canceller[c].pc = "removed"
  /\ proc' = Woken(proc)
  /\ cancelled' = cancelled \cup ({canceller[c].ctx} \ {NoCtx})
  /\ canceller' = [canceller EXCEPT ![c].pc = "reporting"]
  /\ UNCHANGED <<slot, control, starts, ledger, job, claims, results, ended, folded>>

CancelPublishes(c) ==
  /\ canceller[c].pc = "reporting"
  /\ PublishTerminal(canceller[c].run)
  /\ canceller' = [canceller EXCEPT ![c].pc = "over"]
  /\ UNCHANGED <<slot, control, starts, cancelled, proc, job, claims, results, ended, folded>>

-----------------------------------------------------------------------------
PostStep(d) ==
  \/ PostBegins(d) \/ PostFindsBusy(d) \/ QueueInterrupt(d) \/ NothingToInterrupt(d)
  \/ PostAgain(d) \/ ChoiceFails(d) \/ PrepareDirect(d) \/ PublishDirect(d)

JobStep(j) ==
  \/ TakeJob(j) \/ BeginJob(j) \/ Watch(j) \/ StartTimesOut(j) \/ Bind(j)
  \/ MarkEffects(j) \/ PrepareScheduled(j) \/ PublishScheduled(j) \/ CompleteJob(j)

RunStep(r) ==
  \/ ClaimRun(r) \/ OpenLedger(r) \/ Drain(r) \/ ProviderAnswers(r)
  \/ \E final \in Finals : TurnEnds(r, final)
  \/ Commit(r) \/ FinishRun(r) \/ NotifyFinished(r)

CancelStep(c) ==
  \/ RequestCancel(c) \/ CancelRefused(c) \/ SignalWorker(c)
  \/ FinishUnowned(c) \/ CancelNotifies(c) \/ CancelPublishes(c)

Next ==
  \/ \E d \in Direct : PostStep(d)
  \/ \E j \in Scheduled : JobStep(j)
  \/ \E r \in Runs : RunStep(r)
  \/ \E c \in Cancellers : CancelStep(c)

Spec == Init /\ [][Next]_vars

(* Goroutines run; a turn ends, because the provider has a budget and the   *)
(* scheduler a deadline.  No timeout is assumed to fire while a worker      *)
(* waits, and no user to post or to cancel.                                 *)
Fairness ==
  /\ \A d \in Direct :
       /\ WF_vars(QueueInterrupt(d) \/ NothingToInterrupt(d) \/ PostAgain(d))
       /\ WF_vars(PrepareDirect(d) \/ PublishDirect(d))
  /\ \A j \in Scheduled :
       /\ WF_vars(TakeJob(j))
       /\ WF_vars(BeginJob(j) \/ Watch(j) \/ Bind(j))
       /\ WF_vars(PrepareScheduled(j) \/ PublishScheduled(j) \/ CompleteJob(j))
  /\ \A r \in Runs :
       /\ WF_vars(ClaimRun(r) \/ OpenLedger(r))
       /\ WF_vars(ProviderAnswers(r) \/ \E final \in Finals : TurnEnds(r, final))
       /\ WF_vars(Commit(r) \/ FinishRun(r) \/ NotifyFinished(r))
  /\ \A c \in Cancellers :
       WF_vars(SignalWorker(c) \/ FinishUnowned(c) \/ CancelNotifies(c) \/ CancelPublishes(c))

FairSpec == Spec /\ Fairness

-----------------------------------------------------------------------------
(* Properties *)

InTurn(r) == proc[r].pc \in {"claimed", "running", "answered", "ready"}

(* "A cancellation claim and a result claim cannot both win"               *)
(* (docs/refactor-execution-boundary.md), for one start of a run.           *)
CancelExcludesResult == claims \cap results = {}

(* No lost wake-up: a scheduler worker that sleeps until the agent is free  *)
(* sleeps only while the agent is busy or somebody who has just removed the *)
(* run is about to wake it.                                                 *)
Waking ==
  \/ \E r \in Runs : proc[r].pc \in {"committed", "removed"}
  \/ \E c \in Cancellers : canceller[c].pc = "removed"

WatchersAreWoken == (\E r \in Runs : At(r, "watching")) => slot.run # NoRun \/ Waking

(* A goroutine in a turn has the slot, or its run was cancelled: nobody     *)
(* else's finish, of another run or an earlier start, takes the slot away.  *)
TurnsOwnTheSlot ==
  \A r \in Runs : InTurn(r) => slot.run = r \/ \E t \in claims : t[1] = r

(* The agent's slot is handed from run to run: a turn keeps it until its    *)
(* run ends or is cancelled, and who waits for it is woken.                 *)
SlotIsHandedOver == TurnsOwnTheSlot /\ WatchersAreWoken

(* A ledger never gets two terminal events: of those who race to end a      *)
(* direct run only the one that removed it publishes.                       *)
OneTerminalEvent == \A d \in Direct : ledger[d].terminals <= 1

(* A scheduled run leaves at most one assistant result in the conversation, *)
(* its retries included: "persists at most one assistant result"            *)
(* (docs/agent-runtime-remediation-plan.md:309). Only a run whose executor  *)
(* does not mark its effects may leave a second one, and only by a retry,   *)
(* after an attempt that the queue has counted as failed.                   *)
MayRepeat(j) == j \in Unmarked /\ job[j].attempt > 0

ResultsAreNotRepeated ==
  \A j \in Scheduled :
    MayRepeat(j) \/ \A t, u \in results : t[1] = j /\ u[1] = j => t = u

(* "Either cancellation wins with no assistant success commit, or success   *)
(* wins and cancellation is not reported as accepted"                       *)
(* (docs/agent-runtime-remediation-plan.md:360), for a run.                 *)
CancelledRunsHaveNoResult == \A t \in claims, u \in results : t[1] # u[1]

(* "Terminal Run persists one assistant result and one terminal event"      *)
(* (docs/agent-runtime-remediation-plan.md:352): once a direct run is over  *)
(* and nobody is about to report it, its ledger has a terminal event.       *)
TerminalRunsAreReported ==
  \A d \in Direct :
    /\ At(d, "over") /\ ledger[d].open
    /\ \A c \in Cancellers : canceller[c].run = d => canceller[c].pc = "over"
    => ledger[d].terminals > 0

(* RequestCancel: "a worker-owned run remains in the registry until its     *)
(* worker observes the cancelled context".  A goroutine in a turn whose     *)
(* context has not been cancelled has the slot, so turns never overlap.     *)
OwnedRunsStayRegistered ==
  \A r \in Runs : InTurn(r) /\ Turn(r) \notin cancelled => slot.run = r

(* "A mid-flight user message becomes an AgentInterrupt instead of being    *)
(* queued or dropped" (docs/agent-runtime-review.md:67): a message that was *)
(* accepted as an interrupt is waiting for a run or has reached its model.  *)
InterruptsAreNotDropped ==
  \A d \in Direct : At(d, "queued") => d \in slot.interrupts \cup folded

(* A scheduled run settles without help of its start deadline, and its      *)
(* worker does not sleep through the end of the run it waits for.           *)
JobsSettle == \A j \in Scheduled : <>[](job[j].status \in {"succeeded", "failed", "cancelled"})

(* The registry implements the slot. *)
Slot == INSTANCE AgentSlot WITH
  NoTurn <- NoCtx,
  holder <- IF slot.run = NoRun THEN NoCtx ELSE Current,
  cancelling <- control.cancelling,
  answered <- results

SlotSpec == Slot!Spec

=============================================================================
