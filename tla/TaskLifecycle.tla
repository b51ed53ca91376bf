--------------------------- MODULE TaskLifecycle ---------------------------
(***************************************************************************)
(* Tasks of one project: creation, the claim of a run, the worktree, the   *)
(* executor and the verifier, the commit, the merge into the primary       *)
(* checkout under the project's integration lock, and what races with it:  *)
(* a cancellation, a retried merge, a cleanup, a deadline, a crash and the *)
(* recovery at startup. The state of the primary checkout is an outcome of *)
(* the inspections that look at it.                                        *)
(*                                                                         *)
(* Every actor of the code works on its own COPY of the task and writes    *)
(* the whole copy back (updateTask), so a write may undo another's: that   *)
(* is why a run and the lock's holder carry a copy here.                   *)
(***************************************************************************)
EXTENDS Naturals, Sequences, FiniteSets

CONSTANTS
  Tasks,         \* the tasks of the project
  Runners,       \* the goroutines that run tasks
  NoRunner, NoTask,
  MaxCommits,    \* bound: the commits one task's runs make
  MaxFaults,     \* bound: the saves of tasks.json that fail
  MaxCrashes     \* bound: the crashes

ASSUME TaskAssumption ==
  /\ NoRunner \notin Runners
  /\ NoTask \notin Tasks
  /\ MaxCommits \in Nat \ {0} /\ MaxFaults \in Nat /\ MaxCrashes \in Nat

VARIABLES
  tasks,     \* projectTaskCoordinator.tasks, the task table in memory
  disk,      \* tasks.json
  hooks,     \* the completion hook of a task
  starting,  \* tasks whose startTaskAsync goroutine has not claimed yet
  runs,      \* Service.runs: the run that owns a task's cancellation handle
  runner,    \* what each goroutine does, with its copy of the task
  lock,      \* the project's integration lock, and what its holder does
  cleaning,  \* a cleanup request that has read its task
  trees,     \* the worktree directories
  branches,  \* the commit the task branch points to, 0 for the base
  made,      \* how many commits the runs of a task have made
  merges,    \* the commits merged into the primary branch, in order
  faults, crashes

taskVars == <<tasks, disk, faults>>
gitVars == <<trees, branches, made, merges>>
vars == <<tasks, disk, hooks, starting, runs, runner, lock, cleaning, trees,
          branches, made, merges, faults, crashes>>

Runnable == {"pending", "failed", "deploy_failed"}
Terminal == {"done", "failed", "deploy_failed", "cancelled"}
Live == {"running", "verifying", "cancelling", "merging"}
Statuses == Runnable \cup Terminal \cup Live \cup {"absent", "waiting_merge"}

Types == {"development", "deploy"}

TaskRecord == [type : Types, status : Statuses, commit : 0 .. MaxCommits]
Absent == [type |-> "development", status |-> "absent", commit |-> 0]
Idle == [task |-> NoTask, pc |-> "idle", copy |-> Absent, ctx |-> "live",
         auto |-> FALSE]
Unlocked == [by |-> "nobody", runner |-> NoRunner, task |-> NoTask,
             copy |-> Absent, step |-> "free"]
NoCleanup == [task |-> NoTask, copy |-> Absent]
RunnerSteps == {"idle", "prepare", "preparing", "execute", "check", "verifying",
                "commit", "integrate", "locked", "deploy", "finish", "notify",
                "release"}

TypeOK ==
  /\ tasks \in [Tasks -> TaskRecord]
  /\ disk \in [Tasks -> TaskRecord]
  /\ hooks \in [Tasks -> {"none", "expected", "pending", "delivered"}]
  /\ starting \subseteq Tasks
  /\ runs \in [Tasks -> Runners \cup {NoRunner}]
  /\ runner \in [Runners -> [task : Tasks \cup {NoTask}, pc : RunnerSteps,
                             copy : TaskRecord, auto : BOOLEAN,
                             ctx : {"live", "cancelled", "timed_out"}]]
  /\ lock \in [by : {"nobody", "run", "retry", "cancel"},
               runner : Runners \cup {NoRunner},
               task : Tasks \cup {NoTask}, copy : TaskRecord,
               step : {"free", "preparing", "merge", "merged", "finish", "leave",
                       "marking", "stopping"}]
  /\ cleaning \in [task : Tasks \cup {NoTask}, copy : TaskRecord]
  /\ trees \in [Tasks -> {"none", "clean", "dirty"}]
  /\ branches \in [Tasks -> 0 .. MaxCommits]
  /\ made \in [Tasks -> 0 .. MaxCommits]
  /\ merges \in Seq(Tasks \X (1 .. MaxCommits))
  /\ faults \in 0 .. MaxFaults
  /\ crashes \in 0 .. MaxCrashes

Init ==
  /\ tasks = [t \in Tasks |-> Absent]
  /\ disk = tasks
  /\ hooks = [t \in Tasks |-> "none"]
  /\ starting = {}
  /\ runs = [t \in Tasks |-> NoRunner]
  /\ runner = [r \in Runners |-> Idle]
  /\ lock = Unlocked
  /\ cleaning = NoCleanup
  /\ trees = [t \in Tasks |-> "none"]
  /\ branches = [t \in Tasks |-> 0]
  /\ made = branches
  /\ merges = <<>>
  /\ faults = 0 /\ crashes = 0

----------------------------------------------------------------------------
(* Writing and saving.                                                     *)

\* saveOrLog("tasks", saveTasks()): the whole table, or a logged failure.
SaveTasks ==
  \/ disk' = tasks' /\ UNCHANGED faults
  \/ faults < MaxFaults /\ faults' = faults + 1 /\ UNCHANGED disk

\* updateTask(copy) and the save that follows it.
Write(t, copy) ==
  /\ tasks' = [tasks EXCEPT ![t] = copy]
  /\ SaveTasks

With(copy, status) == [copy EXCEPT !.status = status]

\* The run of r goes on with the given copy at the given step.
Continue(r, copy, pc) ==
  runner' = [runner EXCEPT ![r].copy = copy, ![r].pc = pc]

Ended(r) == runner[r].ctx # "live"
LockFree == lock = Unlocked

\* notifyTaskRuntimeHooks: the pending hook of a terminal task is delivered;
\* marking a plan's step is the Plans module's business.
Notified(t, status) ==
  IF status \in Terminal /\ hooks[t] = "pending"
    THEN [hooks EXCEPT ![t] = "delivered"]
    ELSE hooks

----------------------------------------------------------------------------
(* Creation and the claim of a run.                                        *)

\* createTask and startTaskAsync, as the API's handler calls them.
CreateTask(t, type) ==
  /\ tasks[t].status = "absent"
  /\ Write(t, With([Absent EXCEPT !.type = type], "pending"))
  /\ starting' = starting \cup {t}
  /\ UNCHANGED <<hooks, runs, runner, lock, cleaning, gitVars, crashes>>

\* The agent's tool registers a completion hook between the two.
CreateTaskByAgent(t, type) ==
  /\ tasks[t].status = "absent"
  /\ Write(t, With([Absent EXCEPT !.type = type], "pending"))
  /\ hooks' = [hooks EXCEPT ![t] = "expected"]
  /\ UNCHANGED <<starting, runs, runner, lock, cleaning, gitVars, crashes>>

RegisterHook(t) ==
  /\ hooks[t] = "expected"
  /\ hooks' = [hooks EXCEPT ![t] = "pending"]
  /\ starting' = starting \cup {t}
  /\ UNCHANGED <<taskVars, runs, runner, lock, cleaning, gitVars, crashes>>

\* A mutant: the claim looks at the status alone.
ClaimableByStatus(t) == tasks[t].status \in Runnable

Claimable(t) == runs[t] = NoRunner /\ tasks[t].status \in Runnable

\* Service.Claim: one active run per task, and only from a runnable status.
Claim(t, auto) ==
  LET r == CHOOSE q \in Runners : runner[q] = Idle IN
  /\ \E q \in Runners : runner[q] = Idle
  /\ Claimable(t)
  /\ auto = (t \in starting)
  /\ runs' = [runs EXCEPT ![t] = r]
  /\ LET copy == With(tasks[t], "running")
     IN  /\ Write(t, copy)
         /\ runner' = [runner EXCEPT ![r] =
              [task |-> t, copy |-> copy, ctx |-> "live", auto |-> auto,
               pc |-> IF copy.type = "deploy" THEN "deploy" ELSE "prepare"]]
  /\ starting' = starting \ {t}
  /\ UNCHANGED <<hooks, lock, cleaning, gitVars, crashes>>

\* A started goroutine finds its task owned or not runnable.
SkipStart(t) ==
  /\ t \in starting /\ ~Claimable(t)
  /\ starting' = starting \ {t}
  /\ UNCHANGED <<taskVars, hooks, runs, runner, lock, cleaning, gitVars, crashes>>

\* The deadline of the run's context passes, in a phase that looks at it.
TimeOut(r) ==
  /\ runner[r].pc \in {"prepare", "preparing", "execute", "verifying", "commit",
                       "integrate", "deploy"}
  /\ ~Ended(r)
  /\ runner' = [runner EXCEPT ![r].ctx = "timed_out"]
  /\ UNCHANGED <<taskVars, hooks, starting, runs, lock, cleaning, gitVars, crashes>>

----------------------------------------------------------------------------
(* The phases of a development task.                                       *)

\* cancelledTask, timedOutTask and failDevelopmentTask: the copy gets its end
\* and is written with the worktree's state.
GivenUp(r, copy) ==
  With(copy, IF runner[r].ctx = "cancelled" THEN "cancelled" ELSE "failed")

GiveUp(r) ==
  /\ Write(runner[r].task, GivenUp(r, runner[r].copy))
  /\ Continue(r, GivenUp(r, runner[r].copy), "finish")

\* runTask asks the sandbox enforcer first; runTaskAsync does not.
SandboxRefuses(r) ==
  /\ runner[r].pc \in {"prepare", "deploy"} /\ runner[r].auto
  /\ Continue(r, With(runner[r].copy, "failed"), "finish")
  /\ UNCHANGED <<taskVars, hooks, starting, runs, lock, cleaning, gitVars, crashes>>

\* prepareDevelopmentTask, first half: the lock, the base, and its record.
BeginPrepare(r) ==
  /\ runner[r].pc = "prepare" /\ LockFree
  /\ lock' = [Unlocked EXCEPT !.by = "run", !.runner = r,
                              !.task = runner[r].task, !.step = "preparing"]
  /\ Write(runner[r].task, runner[r].copy)
  /\ Continue(r, runner[r].copy, "preparing")
  /\ UNCHANGED <<hooks, starting, runs, cleaning, gitVars, crashes>>

\* The base cannot be resolved: no HEAD, a detached one, an ended context.
PrepareRefused(r) ==
  /\ runner[r].pc = "prepare" /\ LockFree
  /\ GiveUp(r)
  /\ UNCHANGED <<hooks, starting, runs, lock, cleaning, gitVars, crashes>>

\* A mutant: a worktree that cannot be added leaves the lock held.
EndPrepareHoldingLock(r) ==
  LET t == runner[r].task IN
  /\ runner[r].pc = "preparing"
  /\ \/ /\ trees[t] = "none" /\ ~Ended(r)
        /\ lock' = Unlocked
        /\ trees' = [trees EXCEPT ![t] = "clean"]
        /\ branches' = [branches EXCEPT ![t] = 0]
        /\ Continue(r, runner[r].copy, "execute")
        /\ UNCHANGED taskVars
     \/ GiveUp(r) /\ UNCHANGED <<lock, trees, branches>>
  /\ UNCHANGED <<hooks, starting, runs, cleaning, made, merges, crashes>>

\* Second half: the worktree is added and the branch reset to the base, unless
\* a worktree is already there or git fails.
EndPrepare(r) ==
  LET t == runner[r].task IN
  /\ runner[r].pc = "preparing"
  /\ lock' = Unlocked
  /\ \/ /\ trees[t] = "none" /\ ~Ended(r)
        /\ trees' = [trees EXCEPT ![t] = "clean"]
        /\ branches' = [branches EXCEPT ![t] = 0]
        /\ Continue(r, runner[r].copy, "execute")
        /\ UNCHANGED taskVars
     \/ GiveUp(r) /\ UNCHANGED <<trees, branches>>
  /\ UNCHANGED <<hooks, starting, runs, cleaning, made, merges,
                 crashes>>

\* The executor leaves changes, none, or fails and leaves what it had done.
Execute(r) ==
  LET t == runner[r].task IN
  /\ runner[r].pc = "execute"
  /\ \/ /\ ~Ended(r) /\ trees[t] # "none"
        /\ trees' = [trees EXCEPT ![t] = "dirty"]
        /\ Continue(r, runner[r].copy, "check")
        /\ UNCHANGED taskVars
     \/ /\ ~Ended(r) /\ UNCHANGED <<trees, taskVars>>
        /\ Continue(r, With(runner[r].copy, "failed"), "finish")
     \/ /\ trees' \in {trees, [trees EXCEPT ![t] =
                                 IF @ = "none" THEN "none" ELSE "dirty"]}
        /\ GiveUp(r)
  /\ UNCHANGED <<hooks, starting, runs, lock, cleaning, branches, made, merges, crashes>>

BeginVerify(r) ==
  /\ runner[r].pc = "check"
  /\ LET copy == With(runner[r].copy, "verifying")
     IN  Write(runner[r].task, copy) /\ Continue(r, copy, "verifying")
  /\ UNCHANGED <<hooks, starting, runs, lock, cleaning, gitVars, crashes>>

\* The verification command passes, fails or is stopped; without one the run
\* goes straight to its commit.
Verified(r) ==
  /\ \/ /\ runner[r].pc \in {"check", "verifying"}
        /\ Continue(r, runner[r].copy, "commit") /\ UNCHANGED taskVars
     \/ runner[r].pc = "verifying" /\ GiveUp(r)
  /\ UNCHANGED <<hooks, starting, runs, lock, cleaning, gitVars, crashes>>

\* git add, git commit and the commit's record.
Commit(r) ==
  LET t == runner[r].task
      sha == made[t] + 1
      copy == [runner[r].copy EXCEPT !.commit = sha]
  IN
  /\ runner[r].pc = "commit"
  /\ \/ /\ ~Ended(r) /\ trees[t] = "dirty" /\ sha <= MaxCommits
        /\ trees' = [trees EXCEPT ![t] = "clean"]
        /\ branches' = [branches EXCEPT ![t] = sha]
        /\ made' = [made EXCEPT ![t] = sha]
        /\ Write(t, copy)
        /\ Continue(r, copy, "integrate")
     \/ GiveUp(r) /\ UNCHANGED <<trees, branches, made>>
  /\ UNCHANGED <<hooks, starting, runs, lock, cleaning, merges, crashes>>

\* runDeploymentTask: one command.
Deploy(r) ==
  /\ runner[r].pc = "deploy"
  /\ \/ /\ \E status \in {"done", "deploy_failed"} :
             Continue(r, With(runner[r].copy, status), "finish")
        /\ UNCHANGED taskVars
     \/ Ended(r) /\ GiveUp(r)
  /\ UNCHANGED <<hooks, starting, runs, lock, cleaning, gitVars, crashes>>

----------------------------------------------------------------------------
(* Integration: under the lock, and past cancellation.                     *)

\* claimTaskIntegration: the one handoff from cancellable execution to the
\* protected merge, decided on the task as it is now.
ClaimIntegration(by, r, t) ==
  LET copy == With(tasks[t], "merging") IN
  /\ Write(t, copy)
  /\ lock' = [by |-> by, runner |-> r, task |-> t, copy |-> copy, step |-> "merge"]

\* A mutant: the handoff looks at the task's status, not at the context.
IntegrateUnchecked(r) ==
  LET t == runner[r].task IN
  /\ runner[r].pc = "integrate" /\ LockFree
  /\ ClaimIntegration("run", r, t)
  /\ Continue(r, runner[r].copy, "locked")
  /\ UNCHANGED <<hooks, starting, runs, cleaning, gitVars, crashes>>

\* The last look at the context and integrateTaskWithContext: a run that finds
\* its context ended stops; it never waits for the lock, but leaves its commit
\* waiting for a merge, whatever its context has come to since that look.
Integrate(r) ==
  LET t == runner[r].task IN
  /\ runner[r].pc = "integrate"
  /\ \/ Ended(r) /\ GiveUp(r) /\ UNCHANGED lock
     \/ /\ ~LockFree
        /\ LET copy == With(runner[r].copy, "waiting_merge")
           IN  Write(t, copy) /\ Continue(r, copy, "finish")
        /\ UNCHANGED lock
     \/ /\ ~Ended(r) /\ LockFree
        /\ CASE tasks[t].status \in {"cancelling", "cancelled"} ->
                  /\ Write(t, With(tasks[t], "cancelled"))
                  /\ Continue(r, With(tasks[t], "cancelled"), "finish")
                  /\ UNCHANGED lock
             [] tasks[t].status = "done" ->
                  /\ Continue(r, tasks[t], "finish")
                  /\ UNCHANGED <<taskVars, lock>>
             [] OTHER ->
                  /\ ClaimIntegration("run", r, t)
                  /\ Continue(r, runner[r].copy, "locked")
  /\ UNCHANGED <<hooks, starting, runs, cleaning, gitVars, crashes>>

\* retryTaskMerge waits for the lock and reads the task again under it.
RetryMerge(t) ==
  /\ LockFree
  /\ tasks[t].status = "waiting_merge"
  /\ ClaimIntegration("retry", NoRunner, t)
  /\ UNCHANGED <<hooks, starting, runs, runner, cleaning, gitVars, crashes>>

Leaving(copy) == lock' = [lock EXCEPT !.copy = copy, !.step = "leave"]

\* blockTaskMerge.
Block ==
  LET copy == With(lock.copy, "waiting_merge")
  IN  Write(lock.task, copy) /\ Leaving(copy)

ThisCommit == <<lock.task, lock.copy.commit>>
AlreadyMerged == ThisCommit \in {merges[i] : i \in DOMAIN merges}

\* inspectPrimaryForMerge: the primary checkout is dirty, on another branch, or
\* its base was rewritten.
PrimaryUnfit ==
  /\ lock.step = "merge"
  /\ Block
  /\ UNCHANGED <<hooks, starting, runs, runner, cleaning, gitVars, crashes>>

\* git merge fails or finds a conflict; it is aborted and the checkout restored.
MergeAborted ==
  /\ lock.step = "merge" /\ lock.copy.commit # 0 /\ ~AlreadyMerged
  /\ Block
  /\ UNCHANGED <<hooks, starting, runs, runner, cleaning, gitVars, crashes>>

\* git merge of the recorded commit, or the finding that it is there already.
MergePrimary ==
  /\ lock.step = "merge" /\ lock.copy.commit # 0
  /\ IF AlreadyMerged
       THEN lock' = [lock EXCEPT !.step = "finish"] /\ UNCHANGED merges
       ELSE /\ lock' = [lock EXCEPT !.step = "merged"]
            /\ merges' = Append(merges, ThisCommit)
  /\ UNCHANGED <<taskVars, hooks, starting, runs, runner, cleaning, trees, branches,
                 made, crashes>>

\* verifyMergedPrimary finds the checkout touched since.
MergeUnverified ==
  /\ lock.step = "merged"
  /\ Block
  /\ UNCHANGED <<hooks, starting, runs, runner, cleaning, gitVars, crashes>>

\* finishTaskMerge: the task is done and its clean worktree goes, if git lets it.
FinishMerge ==
  LET t == lock.task
      copy == With(lock.copy, "done")
  IN
  /\ lock.step \in {"merged", "finish"}
  /\ Write(t, copy)
  /\ Leaving(copy)
  /\ trees' \in {trees, [trees EXCEPT ![t] = IF @ = "dirty" THEN @ ELSE "none"]}
  /\ UNCHANGED <<hooks, starting, runs, runner, cleaning, branches, made, merges, crashes>>

\* The lock is released: a run goes on to its end, a retry tells the hooks.
LeaveIntegration ==
  /\ lock.step = "leave"
  /\ lock' = Unlocked
  /\ IF lock.by = "run"
       THEN Continue(lock.runner, lock.copy, "finish") /\ UNCHANGED hooks
       ELSE hooks' = Notified(lock.task, lock.copy.status) /\ UNCHANGED runner
  /\ UNCHANGED <<taskVars, starting, runs, cleaning, gitVars, crashes>>

----------------------------------------------------------------------------
(* The end of a run.                                                       *)

FinishRun(r) ==
  /\ runner[r].pc = "finish"
  /\ Write(runner[r].task, runner[r].copy)
  /\ Continue(r, runner[r].copy, "notify")
  /\ UNCHANGED <<hooks, starting, runs, lock, cleaning, gitVars, crashes>>

NotifyHooks(r) ==
  /\ runner[r].pc = "notify"
  /\ hooks' = Notified(runner[r].task, runner[r].copy.status)
  /\ Continue(r, runner[r].copy, "release")
  /\ UNCHANGED <<taskVars, starting, runs, lock, cleaning, gitVars, crashes>>

\* The deferred finish of the claim: only its own entry goes.
ReleaseRun(r) ==
  /\ runner[r].pc = "release"
  /\ runs' = [t \in Tasks |-> IF runs[t] = r THEN NoRunner ELSE runs[t]]
  /\ runner' = [runner EXCEPT ![r] = Idle]
  /\ UNCHANGED <<taskVars, hooks, starting, lock, cleaning, gitVars, crashes>>

----------------------------------------------------------------------------
(* Cancellation and cleanup.                                               *)

\* cancelTask: refused while the lock is held; reads the task under it,
RequestCancel(t) ==
  /\ LockFree
  /\ tasks[t].status \in {"running", "verifying"}
  /\ lock' = [Unlocked EXCEPT !.by = "cancel", !.task = t, !.copy = tasks[t],
                              !.step = "marking"]
  /\ UNCHANGED <<taskVars, hooks, starting, runs, runner, cleaning, gitVars,
                 crashes>>

\* writes "cancelling",
MarkCancelling ==
  /\ lock.step = "marking"
  /\ Write(lock.task, With(lock.copy, "cancelling"))
  /\ lock' = [lock EXCEPT !.step = "stopping"]
  /\ UNCHANGED <<hooks, starting, runs, runner, cleaning, gitVars, crashes>>

\* and ends the run's context, or the task when there is no run.
StopTask ==
  LET t == lock.task IN
  /\ lock.step = "stopping"
  /\ lock' = Unlocked
  /\ IF runs[t] # NoRunner
       THEN /\ runner' = [runner EXCEPT ![runs[t]].ctx = IF @ = "live" THEN "cancelled" ELSE @]
            /\ UNCHANGED taskVars
       ELSE Write(t, With(lock.copy, "cancelled")) /\ UNCHANGED runner
  /\ UNCHANGED <<hooks, starting, runs, cleaning, gitVars, crashes>>

\* The cleanup handler reads the task, then waits for the lock. Only an ended
\* task is cleaned up, which is decided on the copy read here.
RequestCleanup(t) ==
  /\ cleaning = NoCleanup
  /\ tasks[t].status \in {"done", "waiting_merge", "failed", "cancelled"}
  /\ cleaning' = [task |-> t, copy |-> tasks[t]]
  /\ UNCHANGED <<taskVars, hooks, starting, runs, runner, lock, gitVars, crashes>>

Reachable(t, copy) == copy.commit # 0 /\ branches[t] = copy.commit

\* cleanupTaskWorktreeLocked: never dirty work, and a waiting commit's worktree
\* only while the commit is reachable. The copy is written back whole, also when
\* the worktree is dirty or was never registered, not when it is gone already.
RunCleanup ==
  LET t == cleaning.task
      copy == cleaning.copy
      kept == copy.status = "waiting_merge" /\ ~Reachable(t, copy)
  IN
  /\ cleaning # NoCleanup /\ LockFree
  /\ cleaning' = NoCleanup
  /\ \/ /\ trees[t] = "none" \/ (trees[t] = "clean" /\ kept)
        /\ UNCHANGED <<taskVars, trees>>
     \/ trees[t] # "clean" /\ Write(t, copy) /\ UNCHANGED trees
     \/ /\ trees[t] = "clean" /\ ~kept
        /\ Write(t, copy)
        /\ trees' \in {trees, [trees EXCEPT ![t] = "none"]}
  /\ UNCHANGED <<hooks, starting, runs, runner, lock, branches, made, merges, crashes>>

----------------------------------------------------------------------------
(* Crashes.                                                                *)

\* recoverInterruptedTasks fails what was live; nothing else is told or started.
Crash ==
  /\ crashes < MaxCrashes
  /\ crashes' = crashes + 1
  /\ tasks' = [t \in Tasks |-> IF disk[t].status \in Live
                                 THEN With(disk[t], "failed") ELSE disk[t]]
  /\ disk' = tasks'
  /\ hooks' = [t \in Tasks |-> IF hooks[t] = "expected" THEN "none" ELSE hooks[t]]
  /\ starting' = {}
  /\ runs' = [t \in Tasks |-> NoRunner]
  /\ runner' = [r \in Runners |-> Idle]
  /\ lock' = Unlocked
  /\ cleaning' = NoCleanup
  /\ UNCHANGED <<gitVars, faults>>

RunStep(r) ==
  \/ SandboxRefuses(r) \/ BeginPrepare(r) \/ PrepareRefused(r) \/ EndPrepare(r)
  \/ Execute(r) \/ BeginVerify(r) \/ Verified(r) \/ Commit(r) \/ Deploy(r)
  \/ Integrate(r) \/ FinishRun(r) \/ NotifyHooks(r) \/ ReleaseRun(r)

LockStep ==
  \/ PrimaryUnfit \/ MergeAborted \/ MergePrimary \/ MergeUnverified \/ FinishMerge
  \/ LeaveIntegration \/ MarkCancelling \/ StopTask

Next ==
  \/ \E r \in Runners : RunStep(r) \/ TimeOut(r)
  \/ \E t \in Tasks :
       \/ \E auto \in BOOLEAN : Claim(t, auto)
       \/ \E type \in Types : CreateTask(t, type) \/ CreateTaskByAgent(t, type)
       \/ RegisterHook(t) \/ SkipStart(t) \/ RetryMerge(t)
       \/ RequestCancel(t) \/ RequestCleanup(t)
  \/ LockStep \/ RunCleanup \/ Crash

Spec == Init /\ [][Next]_vars

\* A run's phases end: the executor, the verifier and git are bound to the
\* context, which has a deadline. The integration lock is a Go mutex, which
\* does not starve a waiter.
FairSpec ==
  /\ Spec
  /\ \A r \in Runners : SF_vars(RunStep(r))
  /\ WF_vars(LockStep)

----------------------------------------------------------------------------
(* Properties.                                                             *)

\* However the status of a task is overwritten meanwhile, no two runs of it are
\* under way at once: they would share one worktree.
OneRunPerTask ==
  \A r, q \in Runners :
    runner[r].task # NoTask /\ runner[r].task = runner[q].task => r = q

\* The merge into the primary checkout is past cancellation: no run's context
\* is cancelled between its claim of the integration and the lock's release.
MergeIsNeverCancelled ==
  lock.by = "run" /\ lock.step # "preparing" => runner[lock.runner].ctx # "cancelled"

\* A task says it is done, in memory or on disk, only when its recorded commit
\* is in the primary branch.
DoneMeansMerged ==
  \A t \in Tasks : \A record \in {tasks[t], disk[t]} :
    record.status = "done" /\ record.type = "development" =>
      \E i \in DOMAIN merges : merges[i] = <<t, record.commit>>

\* Runs, retries, cleanups and restarts merge one commit at most once.
MergedOnce ==
  \A i, j \in DOMAIN merges : merges[i] = merges[j] => i = j

\* The integration of a task: never cancelled half-way, never made twice, and
\* recorded only when it was made.
MergesAreExact == MergeIsNeverCancelled /\ DoneMeansMerged /\ MergedOnce

\* A cancellation that stopped a run is not lost: docs/agent-runtime-remediation-
\* plan.md:209-215 has the task end cancelled, with no mutation of the primary,
\* so the run leaves nothing that a later merge would take.
CancelledRunsLeaveNothingToMerge ==
  \A r \in Runners :
    runner[r].pc = "release" /\ runner[r].ctx = "cancelled" =>
      runner[r].copy.status # "waiting_merge"

\* Every run of a task comes to its end and gives its place up.
RunsSettle == \A r \in Runners : runner[r].pc # "idle" ~> runner[r].pc = "idle"

=============================================================================
