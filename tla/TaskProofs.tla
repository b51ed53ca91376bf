----------------------------- MODULE TaskProofs -----------------------------
(***************************************************************************)
(* For any number of tasks, goroutines, commits, failing saves and         *)
(* crashes: a task has one run at a time, and its merges are exact.        *)
(*                                                                         *)
(* Since every actor writes back a copy of the task, what has to be        *)
(* invariant is a property of all copies: one that says the task is done   *)
(* says so of a commit that has been merged (Truthful).  A run keeps the   *)
(* task's handle for as long as it is under way, and the holder of the     *)
(* integration lock that merges for a run finds its run waiting, not       *)
(* cancelled.                                                              *)
(***************************************************************************)
EXTENDS TaskLifecycle, TLAPS

Merged(t, copy) == \E i \in DOMAIN merges : merges[i] = <<t, copy.commit>>

Truthful(t, copy) ==
  copy.status = "done" /\ copy.type = "development" => Merged(t, copy)

TablesOK ==
  /\ tasks \in [Tasks -> TaskRecord] /\ disk \in [Tasks -> TaskRecord]
  /\ faults \in 0 .. MaxFaults
  /\ \A t \in Tasks : Truthful(t, tasks[t]) /\ Truthful(t, disk[t])

RunnerRecord == [task : Tasks \cup {NoTask}, pc : RunnerSteps, copy : TaskRecord,
                 auto : BOOLEAN, ctx : {"live", "cancelled", "timed_out"}]
Ending == {"finish", "notify", "release"}

(* A run that is under way holds its task's handle; until it ends its copy  *)
(* says running or verifying, and one that deploys has nothing to merge.    *)
RunShape(r) ==
  IF runner[r].pc = "idle" THEN runner[r].task = NoTask
  ELSE /\ runner[r].task \in Tasks
       /\ runs[runner[r].task] = r
       /\ Truthful(runner[r].task, runner[r].copy)
       /\ runner[r].pc \notin Ending => runner[r].copy.status \in {"running", "verifying"}
       /\ runner[r].pc = "deploy" => runner[r].copy.type = "deploy"

RunsOK ==
  /\ runs \in [Tasks -> Runners \cup {NoRunner}]
  /\ runner \in [Runners -> RunnerRecord]
  /\ \A r \in Runners : RunShape(r)

LockRecord == [by : {"nobody", "run", "retry", "cancel"}, runner : Runners \cup {NoRunner},
               task : Tasks \cup {NoTask}, copy : TaskRecord,
               step : {"free", "preparing", "merge", "merged", "finish", "leave",
                       "marking", "stopping"}]
Merging == {"merge", "merged", "finish", "leave"}

(* The run that the lock's holder merges for.                               *)
Waits(r, t) == runner[r].pc = "locked" /\ runner[r].ctx # "cancelled" /\ runner[r].task = t

LockOK ==
  /\ lock \in LockRecord
  /\ lock.by = "nobody" => lock.step = "free"
  /\ lock.by # "nobody" => lock.task \in Tasks
  /\ lock.by = "run" => /\ lock.step \in Merging \cup {"preparing"}
                        /\ lock.step \in Merging => lock.runner \in Runners /\ Waits(lock.runner, lock.task)
  /\ lock.by = "retry" => lock.step \in Merging
  /\ lock.by = "cancel" => lock.step \in {"marking", "stopping"}
  /\ Truthful(lock.task, lock.copy)
  /\ lock.step \in {"merged", "finish"} => Merged(lock.task, lock.copy)

CleaningOK ==
  /\ cleaning \in [task : Tasks \cup {NoTask}, copy : TaskRecord]
  /\ cleaning # NoCleanup => cleaning.task \in Tasks
  /\ Truthful(cleaning.task, cleaning.copy)

GitOK ==
  /\ trees \in [Tasks -> {"none", "clean", "dirty"}]
  /\ branches \in [Tasks -> 0 .. MaxCommits] /\ made \in [Tasks -> 0 .. MaxCommits]
  /\ merges \in Seq(Tasks \X (1 .. MaxCommits))
  /\ MergedOnce

RestOK ==
  /\ hooks \in [Tasks -> {"none", "expected", "pending", "delivered"}]
  /\ starting \subseteq Tasks
  /\ crashes \in 0 .. MaxCrashes

TaskInv == TablesOK /\ RunsOK /\ LockOK /\ CleaningOK /\ GitOK /\ RestOK

-----------------------------------------------------------------------------
(* The records.                                                            *)

LEMMA Withs ==
  ASSUME NEW copy \in TaskRecord, NEW status \in Statuses
  PROVE  /\ With(copy, status) \in TaskRecord
         /\ With(copy, status).status = status
         /\ With(copy, status).type = copy.type
         /\ With(copy, status).commit = copy.commit
  BY DEF With, TaskRecord

(* A copy with another status than done is truthful, whatever it is of.     *)
LEMMA NotDone ==
  ASSUME NEW t, NEW copy, copy.status # "done"
  PROVE  Truthful(t, copy) /\ Truthful(t, copy)'
  BY DEF Truthful

LEMMA Absents ==
  /\ Absent \in TaskRecord /\ Absent.status = "absent"
  /\ Unlocked \in LockRecord
  /\ Unlocked.by = "nobody" /\ Unlocked.step = "free" /\ Unlocked.copy = Absent
  /\ Idle \in RunnerRecord /\ Idle.pc = "idle" /\ Idle.task = NoTask
  /\ NoCleanup.copy = Absent
  /\ NoCleanup \in [task : Tasks \cup {NoTask}, copy : TaskRecord]
<1>1. Absent \in TaskRecord /\ Absent.status = "absent"
  BY TaskAssumption DEF Absent, TaskRecord, Types, Statuses
<1>2. Unlocked \in LockRecord
      /\ Unlocked.by = "nobody" /\ Unlocked.step = "free" /\ Unlocked.copy = Absent
  <2> HIDE DEF Absent
  <2> QED BY <1>1 DEF Unlocked, LockRecord
<1>3. Idle \in RunnerRecord /\ Idle.pc = "idle" /\ Idle.task = NoTask
  BY <1>1 DEF Idle, RunnerRecord, RunnerSteps
<1>4. NoCleanup.copy = Absent /\ NoCleanup \in [task : Tasks \cup {NoTask}, copy : TaskRecord]
  BY <1>1 DEF NoCleanup
<1> QED
  BY <1>1, <1>2, <1>3, <1>4

-----------------------------------------------------------------------------
(* What a step leaves alone.                                               *)

LEMMA TablesStay ==
  ASSUME TablesOK, UNCHANGED <<taskVars, merges>>
  PROVE  TablesOK'
  BY DEF TablesOK, Truthful, Merged, taskVars

LEMMA RunsStay ==
  ASSUME RunsOK, UNCHANGED <<runs, runner, merges>>
  PROVE  RunsOK'
  BY DEF RunsOK, RunShape, Truthful, Merged

LEMMA LockStays ==
  ASSUME LockOK, UNCHANGED <<lock, runner, merges>>
  PROVE  LockOK'
  BY DEF LockOK, Waits, Truthful, Merged

LEMMA CleaningStays ==
  ASSUME CleaningOK, UNCHANGED <<cleaning, merges>>
  PROVE  CleaningOK'
  BY DEF CleaningOK, Truthful, Merged

LEMMA GitStays ==
  ASSUME GitOK, UNCHANGED gitVars
  PROVE  GitOK'
  BY DEF GitOK, MergedOnce, gitVars

LEMMA RestStays ==
  ASSUME RestOK, UNCHANGED <<hooks, starting, crashes>>
  PROVE  RestOK'
  BY DEF RestOK

-----------------------------------------------------------------------------
(* What the pieces of the actions do.                                      *)

(* updateTask with a truthful copy.                                         *)
LEMMA WriteKeepsTables ==
  ASSUME TablesOK, NEW t \in Tasks, NEW copy \in TaskRecord, Truthful(t, copy),
         Write(t, copy), UNCHANGED merges
  PROVE  TablesOK'
<1>1. \A x, c : Truthful(x, c)' <=> Truthful(x, c)
  BY DEF Truthful, Merged
<1>2. tasks' = [tasks EXCEPT ![t] = copy]
  BY DEF Write
<1>3. tasks' \in [Tasks -> TaskRecord] /\ \A x \in Tasks : Truthful(x, tasks'[x])
  BY <1>2 DEF TablesOK
<1>4. disk' \in [Tasks -> TaskRecord] /\ \A x \in Tasks : Truthful(x, disk'[x])
  BY <1>3 DEF TablesOK, Write, SaveTasks
<1>5. faults' \in 0 .. MaxFaults
  BY TaskAssumption DEF TablesOK, Write, SaveTasks
<1>6. \A x \in Tasks : (Truthful(x, tasks[x]))' /\ (Truthful(x, disk[x]))'
  BY <1>3, <1>4 DEF Truthful, Merged
<1> QED
  BY <1>3, <1>4, <1>5, <1>6 DEF TablesOK

(* A run under way takes another truthful copy and goes to another step.    *)
LEMMA RunContinues ==
  ASSUME RunsOK, NEW r \in Runners, runner[r].pc # "idle",
         NEW copy \in TaskRecord, Truthful(runner[r].task, copy),
         NEW pc \in RunnerSteps \ {"idle", "deploy"},
         pc \in Ending \/ copy.status \in {"running", "verifying"},
         Continue(r, copy, pc), UNCHANGED <<runs, merges>>
  PROVE  /\ RunsOK'
         /\ runner'[r].pc = pc /\ runner'[r].task = runner[r].task /\ runner'[r].ctx = runner[r].ctx
         /\ \A q \in Runners \ {r} : runner'[q] = runner[q]
<1>1. /\ runner' \in [Runners -> RunnerRecord]
      /\ runner'[r].pc = pc /\ runner'[r].copy = copy /\ runner'[r].task = runner[r].task
      /\ runner'[r].ctx = runner[r].ctx
      /\ \A q \in Runners \ {r} : runner'[q] = runner[q]
  BY DEF RunsOK, RunnerRecord, Continue
<1>2. RunShape(r)'
  BY <1>1 DEF RunsOK, RunShape, Truthful, Merged
<1>3. \A q \in Runners \ {r} : RunShape(q)'
  BY <1>1 DEF RunsOK, RunShape, Truthful, Merged
<1> QED
  BY <1>1, <1>2, <1>3 DEF RunsOK

(* Who does not hold the lock may go on without it.                         *)
LEMMA LockIgnoresOthers ==
  ASSUME LockOK, NEW r \in Runners, runner[r].pc # "locked",
         \A q \in Runners \ {r} : runner'[q] = runner[q],
         UNCHANGED <<lock, merges>>
  PROVE  LockOK'
<1>1. lock.by = "run" /\ lock.step \in Merging => lock.runner # r
  BY DEF LockOK, Waits
<1> QED
  BY <1>1 DEF LockOK, Waits, Truthful, Merged

(* The lock is released.                                                    *)
LEMMA UnlockedIsOK ==
  ASSUME lock' = Unlocked
  PROVE  LockOK'
<1>1. Truthful(lock.task, lock.copy)'
  BY Absents DEF Truthful
<1> QED
  BY <1>1, Absents DEF LockOK

(* A step of a run that leaves the lock, the cleanup and the merges alone,  *)
(* with or without a write of its copy.                                     *)
LEMMA RunGoesOn ==
  ASSUME TaskInv, NEW r \in Runners, runner[r].pc \notin {"idle", "locked"},
         NEW copy \in TaskRecord, Truthful(runner[r].task, copy),
         NEW pc \in RunnerSteps \ {"idle", "deploy"},
         pc \in Ending \/ copy.status \in {"running", "verifying"},
         Continue(r, copy, pc),
         Write(runner[r].task, copy) \/ UNCHANGED taskVars,
         UNCHANGED <<runs, lock, cleaning, merges>>
  PROVE  TablesOK' /\ RunsOK' /\ LockOK' /\ CleaningOK'
<1>1. runner[r].task \in Tasks
  BY DEF TaskInv, RunsOK, RunShape
<1>2. TablesOK'
  BY <1>1, WriteKeepsTables, TablesStay DEF TaskInv
<1>3. RunsOK' /\ \A q \in Runners \ {r} : runner'[q] = runner[q]
  BY RunContinues DEF TaskInv
<1>4. LockOK'
  BY <1>3, LockIgnoresOthers DEF TaskInv
<1>5. CleaningOK'
  BY CleaningStays DEF TaskInv
<1> QED
  BY <1>2, <1>3, <1>4, <1>5

(* A run gives up: its copy says cancelled or failed.                       *)
LEMMA GivingUp ==
  ASSUME TaskInv, NEW r \in Runners, runner[r].pc \notin {"idle", "locked"},
         GiveUp(r), UNCHANGED <<runs, lock, cleaning, merges>>
  PROVE  TablesOK' /\ RunsOK' /\ LockOK' /\ CleaningOK'
<1> DEFINE copy == GivenUp(r, runner[r].copy)
<1>1. runner[r].copy \in TaskRecord
  BY DEF TaskInv, RunsOK, RunnerRecord
<1>2. copy \in TaskRecord /\ copy.status # "done"
  BY <1>1, Withs DEF GivenUp, Statuses, Runnable, Terminal, Live
<1>3. Truthful(runner[r].task, copy)
  BY <1>2, NotDone
<1>4. Write(runner[r].task, copy) /\ Continue(r, copy, "finish")
  BY DEF GiveUp
<1> HIDE DEF copy
<1>5. "finish" \in RunnerSteps \ {"idle", "deploy"} /\ "finish" \in Ending
  BY DEF RunnerSteps, Ending
<1> QED
  BY <1>2, <1>3, <1>4, <1>5, RunGoesOn

LEMMA CopyOfRun ==
  ASSUME TaskInv, NEW r \in Runners, runner[r].pc # "idle"
  PROVE  /\ runner[r].task \in Tasks
         /\ runner[r].copy \in TaskRecord
         /\ Truthful(runner[r].task, runner[r].copy)
         /\ runner[r].pc \notin Ending => runner[r].copy.status \in {"running", "verifying"}
  BY DEF TaskInv, RunsOK, RunShape, RunnerRecord

LEMMA StatusNames ==
  /\ {"pending", "running", "verifying", "cancelling", "cancelled", "failed", "merging",
      "waiting_merge", "done", "deploy_failed"} \subseteq Statuses
  /\ Ending \subseteq RunnerSteps \ {"idle", "deploy"}
  /\ {"preparing", "execute", "check", "verifying", "commit", "integrate", "locked"}
        \subseteq RunnerSteps \ {"idle", "deploy"}
  BY DEF Statuses, Runnable, Terminal, Live, Ending, RunnerSteps

-----------------------------------------------------------------------------
(* Creation, claim, deadline.                                              *)

LEMMA CreateTaskKeeps ==
  ASSUME TaskInv, NEW t \in Tasks, NEW type \in Types,
         CreateTask(t, type) \/ CreateTaskByAgent(t, type)
  PROVE  TaskInv'
<1> DEFINE copy == With([Absent EXCEPT !.type = type], "pending")
<1>1. copy \in TaskRecord /\ copy.status = "pending"
  <2>1. [Absent EXCEPT !.type = type] \in TaskRecord
    BY TaskAssumption DEF Absent, TaskRecord, Types, Statuses
  <2> QED
    BY <2>1, Withs, StatusNames
<1>2. Truthful(t, copy)
  BY <1>1, NotDone
<1>3. Write(t, copy) /\ UNCHANGED <<runs, runner, lock, cleaning, gitVars, crashes>>
  BY DEF CreateTask, CreateTaskByAgent
<1> HIDE DEF copy
<1>4. TablesOK'
  BY <1>1, <1>2, <1>3, WriteKeepsTables DEF TaskInv, gitVars
<1>5. RunsOK' /\ LockOK' /\ CleaningOK' /\ GitOK'
  BY <1>3, RunsStay, LockStays, CleaningStays, GitStays DEF TaskInv, gitVars
<1>6. RestOK'
  BY <1>3 DEF TaskInv, RestOK, CreateTask, CreateTaskByAgent
<1> QED
  BY <1>4, <1>5, <1>6 DEF TaskInv

LEMMA StartKeeps ==
  ASSUME TaskInv, NEW t \in Tasks, RegisterHook(t) \/ SkipStart(t)
  PROVE  TaskInv'
<1>1. UNCHANGED <<taskVars, runs, runner, lock, cleaning, gitVars, crashes>>
  BY DEF RegisterHook, SkipStart
<1>2. TablesOK' /\ RunsOK' /\ LockOK' /\ CleaningOK' /\ GitOK'
  BY <1>1, TablesStay, RunsStay, LockStays, CleaningStays, GitStays DEF TaskInv, gitVars
<1>3. RestOK'
  BY <1>1 DEF TaskInv, RestOK, RegisterHook, SkipStart
<1> QED
  BY <1>2, <1>3 DEF TaskInv

(* The claim: the task had no handle, so no other run is of the task.       *)
LEMMA ClaimKeeps ==
  ASSUME TaskInv, NEW t \in Tasks, NEW auto \in BOOLEAN, Claim(t, auto)
  PROVE  TaskInv'
<1> DEFINE copy == With(tasks[t], "running")
           run == [task |-> t, copy |-> copy, ctx |-> "live", auto |-> auto,
                   pc |-> IF copy.type = "deploy" THEN "deploy" ELSE "prepare"]
<1>1. PICK r \in Runners : /\ runner[r] = Idle
                           /\ runs' = [runs EXCEPT ![t] = r]
                           /\ runner' = [runner EXCEPT ![r] = run]
  BY DEF Claim
<1>2. copy \in TaskRecord /\ copy.status = "running"
  BY Withs, StatusNames DEF TaskInv, TablesOK
<1>3. /\ runs[t] = NoRunner
      /\ Write(t, copy)
      /\ starting' = starting \ {t}
      /\ UNCHANGED <<hooks, lock, cleaning, gitVars, crashes>>
  BY DEF Claim, Claimable
<1> HIDE DEF copy
<1>4. run \in RunnerRecord /\ run.pc \in {"deploy", "prepare"}
      /\ run.task = t /\ run.copy = copy /\ (run.pc = "deploy" => copy.type = "deploy")
  BY <1>2 DEF RunnerRecord, RunnerSteps
<1> HIDE DEF run
<1>5. TablesOK'
  BY <1>2, <1>3, NotDone, WriteKeepsTables DEF TaskInv, gitVars
<1>6. RunsOK'
  <2>1. runs' \in [Tasks -> Runners \cup {NoRunner}] /\ runner' \in [Runners -> RunnerRecord]
    BY <1>1, <1>3, <1>4 DEF TaskInv, RunsOK
  <2>2. runner'[r] = run /\ runs'[t] = r
    BY <1>1, <1>3 DEF TaskInv, RunsOK
  <2>3. RunShape(r)'
    BY <1>2, <1>4, <2>2, NotDone DEF RunShape, Ending
  <2>4. ASSUME NEW q \in Runners \ {r} PROVE RunShape(q)'
    <3>1. runner'[q] = runner[q]
      BY <1>1, <1>3 DEF TaskInv, RunsOK
    <3>2. CASE runner[q].pc = "idle"
      BY <3>1, <3>2 DEF TaskInv, RunsOK, RunShape
    <3>3. CASE runner[q].pc # "idle"
      <4>1. runner[q].task # t
        BY <1>3, <3>3, TaskAssumption DEF TaskInv, RunsOK, RunShape
      <4>2. runs'[runner[q].task] = runs[runner[q].task]
        BY <1>1, <1>3, <3>3, <4>1 DEF TaskInv, RunsOK, RunShape
      <4> QED
        BY <1>1, <1>3, <3>1, <3>3, <4>2 DEF TaskInv, RunsOK, RunShape, Truthful, Merged, gitVars
    <3> QED
      BY <3>2, <3>3
  <2> QED
    BY <2>1, <2>3, <2>4 DEF RunsOK
<1>7. LockOK'
  <2>1. runner[r].pc # "locked" /\ \A q \in Runners \ {r} : runner'[q] = runner[q]
    BY <1>1, <1>3, Absents DEF TaskInv, RunsOK
  <2> QED
    BY <1>1, <1>3, <2>1, LockIgnoresOthers DEF TaskInv, gitVars
<1>8. CleaningOK' /\ GitOK'
  BY <1>3, CleaningStays, GitStays DEF TaskInv, gitVars
<1>9. RestOK'
  BY <1>3 DEF TaskInv, RestOK
<1> QED
  BY <1>5, <1>6, <1>7, <1>8, <1>9 DEF TaskInv

LEMMA TimeOutKeeps ==
  ASSUME TaskInv, NEW r \in Runners, TimeOut(r)
  PROVE  TaskInv'
<1>1. /\ runner[r].pc \notin {"idle", "locked"}
      /\ runner' = [runner EXCEPT ![r].ctx = "timed_out"]
      /\ UNCHANGED <<taskVars, hooks, starting, runs, lock, cleaning, gitVars, crashes>>
  BY DEF TimeOut
<1>2. /\ runner' \in [Runners -> RunnerRecord]
      /\ \A q \in Runners \ {r} : runner'[q] = runner[q]
      /\ runner'[r].pc = runner[r].pc /\ runner'[r].task = runner[r].task
      /\ runner'[r].copy = runner[r].copy
  BY <1>1 DEF TaskInv, RunsOK, RunnerRecord
<1>3. RunsOK'
  BY <1>1, <1>2 DEF TaskInv, RunsOK, RunShape, Truthful, Merged, gitVars
<1>4. LockOK'
  BY <1>1, <1>2, LockIgnoresOthers DEF TaskInv, gitVars
<1>5. TablesOK' /\ CleaningOK' /\ GitOK' /\ RestOK'
  BY <1>1, TablesStay, CleaningStays, GitStays, RestStays DEF TaskInv, gitVars
<1> QED
  BY <1>3, <1>4, <1>5 DEF TaskInv

-----------------------------------------------------------------------------
(* The phases of a run that leave the lock alone.                          *)

LEMMA TreesChange ==
  ASSUME GitOK, trees' \in [Tasks -> {"none", "clean", "dirty"}],
         UNCHANGED <<branches, made, merges>>
  PROVE  GitOK'
  BY DEF GitOK, MergedOnce

(* A run goes on, or ends, with its copy as it is but for the status.       *)
LEMMA RunGoesOnWith ==
  ASSUME TaskInv, NEW r \in Runners, runner[r].pc \notin {"idle", "locked"},
         NEW status \in {"running", "verifying", "cancelled", "failed", "waiting_merge", "deploy_failed"},
         NEW pc \in RunnerSteps \ {"idle", "deploy"},
         pc \in Ending \/ status \in {"running", "verifying"},
         Continue(r, With(runner[r].copy, status), pc),
         Write(runner[r].task, With(runner[r].copy, status)) \/ UNCHANGED taskVars,
         UNCHANGED <<runs, lock, cleaning, merges>>
  PROVE  TablesOK' /\ RunsOK' /\ LockOK' /\ CleaningOK'
<1>1. With(runner[r].copy, status) \in TaskRecord /\ With(runner[r].copy, status).status = status
  <2>1. status \in Statuses
    BY StatusNames
  <2>2. runner[r].copy \in TaskRecord
    BY CopyOfRun
  <2> QED
    BY <2>1, <2>2, Withs
<1>2. Truthful(runner[r].task, With(runner[r].copy, status))
  BY <1>1, NotDone
<1> QED
  BY <1>1, <1>2, RunGoesOn

LEMMA RunGoesOnUnchanged ==
  ASSUME TaskInv, NEW r \in Runners, runner[r].pc \notin {"idle", "locked"},
         NEW pc \in RunnerSteps \ {"idle", "deploy"},
         pc \in Ending \/ runner[r].pc \notin Ending,
         Continue(r, runner[r].copy, pc),
         Write(runner[r].task, runner[r].copy) \/ UNCHANGED taskVars,
         UNCHANGED <<runs, lock, cleaning, merges>>
  PROVE  TablesOK' /\ RunsOK' /\ LockOK' /\ CleaningOK'
  BY CopyOfRun, RunGoesOn

LEMMA EndsKeep ==
  ASSUME TaskInv, NEW r \in Runners,
         SandboxRefuses(r) \/ PrepareRefused(r) \/ Deploy(r)
  PROVE  TaskInv'
<1>1. /\ runner[r].pc \in {"prepare", "deploy"}
      /\ UNCHANGED <<hooks, starting, runs, lock, cleaning, gitVars, crashes>>
  BY DEF SandboxRefuses, PrepareRefused, Deploy
<1>2. GitOK' /\ RestOK'
  BY <1>1, GitStays, RestStays DEF TaskInv, gitVars
<1>3. \/ GiveUp(r)
      \/ /\ \E status \in {"failed", "deploy_failed"} : Continue(r, With(runner[r].copy, status), "finish")
         /\ UNCHANGED taskVars
      \/ runner[r].pc = "deploy" /\ Continue(r, With(runner[r].copy, "done"), "finish") /\ UNCHANGED taskVars
  BY DEF SandboxRefuses, PrepareRefused, Deploy
<1>4. CASE GiveUp(r)
  BY <1>1, <1>2, <1>4, GivingUp DEF TaskInv, gitVars
<1>5. ASSUME NEW status \in {"failed", "deploy_failed"},
             Continue(r, With(runner[r].copy, status), "finish"), UNCHANGED taskVars
      PROVE  TaskInv'
  BY <1>1, <1>2, <1>5, RunGoesOnWith, StatusNames DEF TaskInv, gitVars, Ending
<1>6. CASE runner[r].pc = "deploy" /\ Continue(r, With(runner[r].copy, "done"), "finish") /\ UNCHANGED taskVars
  <2>1. runner[r].copy.type = "deploy"
    BY <1>6 DEF TaskInv, RunsOK, RunShape
  <2>2. With(runner[r].copy, "done") \in TaskRecord /\ With(runner[r].copy, "done").type = "deploy"
    BY <1>1, <2>1, CopyOfRun, Withs, StatusNames
  <2>3. Truthful(runner[r].task, With(runner[r].copy, "done"))
    BY <2>2 DEF Truthful
  <2> QED
    BY <1>1, <1>2, <1>6, <2>2, <2>3, RunGoesOn, StatusNames DEF TaskInv, gitVars, Ending
<1> QED
  BY <1>3, <1>4, <1>5, <1>6

LEMMA ExecuteKeeps ==
  ASSUME TaskInv, NEW r \in Runners, Execute(r)
  PROVE  TaskInv'
<1> DEFINE t == runner[r].task
<1>1. /\ runner[r].pc = "execute"
      /\ UNCHANGED <<hooks, starting, runs, lock, cleaning, branches, made, merges, crashes>>
  BY DEF Execute
<1>2. \/ /\ trees' = [trees EXCEPT ![t] = "dirty"]
         /\ Continue(r, runner[r].copy, "check") /\ UNCHANGED taskVars
      \/ /\ UNCHANGED <<trees, taskVars>>
         /\ Continue(r, With(runner[r].copy, "failed"), "finish")
      \/ /\ trees' \in {trees, [trees EXCEPT ![t] = IF @ = "none" THEN "none" ELSE "dirty"]}
         /\ GiveUp(r)
  BY DEF Execute
<1>3. trees' \in [Tasks -> {"none", "clean", "dirty"}]
  BY <1>1, <1>2, CopyOfRun DEF TaskInv, GitOK
<1>4. GitOK' /\ RestOK'
  BY <1>1, <1>3, TreesChange, RestStays DEF TaskInv
<1>5. CASE Continue(r, runner[r].copy, "check") /\ UNCHANGED taskVars
  BY <1>1, <1>4, <1>5, RunGoesOnUnchanged, StatusNames DEF TaskInv, Ending
<1>6. CASE Continue(r, With(runner[r].copy, "failed"), "finish") /\ UNCHANGED taskVars
  BY <1>1, <1>4, <1>6, RunGoesOnWith, StatusNames DEF TaskInv, Ending
<1>7. CASE GiveUp(r)
  BY <1>1, <1>4, <1>7, GivingUp DEF TaskInv
<1> QED
  BY <1>2, <1>5, <1>6, <1>7

LEMMA VerifyKeeps ==
  ASSUME TaskInv, NEW r \in Runners, BeginVerify(r) \/ Verified(r)
  PROVE  TaskInv'
<1>1. /\ runner[r].pc \in {"check", "verifying"}
      /\ UNCHANGED <<hooks, starting, runs, lock, cleaning, gitVars, crashes>>
      /\ \/ /\ Write(runner[r].task, With(runner[r].copy, "verifying"))
            /\ Continue(r, With(runner[r].copy, "verifying"), "verifying")
         \/ Continue(r, runner[r].copy, "commit") /\ UNCHANGED taskVars
         \/ GiveUp(r)
  BY DEF BeginVerify, Verified
<1>2. GitOK' /\ RestOK'
  BY <1>1, GitStays, RestStays DEF TaskInv, gitVars
<1>3. CASE /\ Write(runner[r].task, With(runner[r].copy, "verifying"))
           /\ Continue(r, With(runner[r].copy, "verifying"), "verifying")
  BY <1>1, <1>2, <1>3, RunGoesOnWith, StatusNames DEF TaskInv, gitVars
<1>4. CASE Continue(r, runner[r].copy, "commit") /\ UNCHANGED taskVars
  BY <1>1, <1>2, <1>4, RunGoesOnUnchanged, StatusNames DEF TaskInv, gitVars, Ending
<1>5. CASE GiveUp(r)
  BY <1>1, <1>2, <1>5, GivingUp DEF TaskInv, gitVars
<1> QED
  BY <1>1, <1>3, <1>4, <1>5

(* The copy gets another commit, and is not done.                           *)
LEMMA CommitKeeps ==
  ASSUME TaskInv, NEW r \in Runners, Commit(r)
  PROVE  TaskInv'
<1> DEFINE t == runner[r].task
           sha == made[t] + 1
           copy == [runner[r].copy EXCEPT !.commit = sha]
<1>1. /\ runner[r].pc = "commit"
      /\ UNCHANGED <<hooks, starting, runs, lock, cleaning, merges, crashes>>
      /\ \/ /\ sha <= MaxCommits
            /\ trees' = [trees EXCEPT ![t] = "clean"]
            /\ branches' = [branches EXCEPT ![t] = sha]
            /\ made' = [made EXCEPT ![t] = sha]
            /\ Write(t, copy) /\ Continue(r, copy, "integrate")
         \/ GiveUp(r) /\ UNCHANGED <<trees, branches, made>>
  BY DEF Commit
<1>2. t \in Tasks /\ runner[r].copy \in TaskRecord /\ runner[r].copy.status \in {"running", "verifying"}
  BY <1>1, CopyOfRun DEF Ending
<1>3. RestOK'
  BY <1>1, RestStays DEF TaskInv
<1>4. CASE GiveUp(r) /\ UNCHANGED <<trees, branches, made>>
  <2>1. GitOK'
    BY <1>1, <1>4, GitStays DEF TaskInv, gitVars
  <2> QED
    BY <1>1, <1>3, <1>4, <2>1, GivingUp DEF TaskInv
<1>5. CASE /\ sha <= MaxCommits
           /\ trees' = [trees EXCEPT ![t] = "clean"]
           /\ branches' = [branches EXCEPT ![t] = sha]
           /\ made' = [made EXCEPT ![t] = sha]
           /\ Write(t, copy) /\ Continue(r, copy, "integrate")
  <2>1. sha \in 0 .. MaxCommits
    BY <1>2, <1>5, TaskAssumption DEF TaskInv, GitOK
  <2>2. copy \in TaskRecord /\ copy.status \in {"running", "verifying"}
    <3> HIDE DEF sha
    <3> QED BY <1>2, <2>1 DEF TaskRecord
  <2>3. GitOK'
    <3> HIDE DEF sha
    <3> QED BY <1>1, <1>2, <1>5, <2>1 DEF TaskInv, GitOK, MergedOnce
  <2> HIDE DEF copy
  <2>4. TablesOK' /\ RunsOK' /\ LockOK' /\ CleaningOK'
    BY <1>1, <1>5, <2>2, NotDone, RunGoesOn, StatusNames
  <2> QED
    BY <1>3, <2>3, <2>4 DEF TaskInv
<1> QED
  BY <1>1, <1>4, <1>5

LEMMA FinishKeeps ==
  ASSUME TaskInv, NEW r \in Runners, FinishRun(r) \/ NotifyHooks(r)
  PROVE  TaskInv'
<1>1. /\ runner[r].pc \in {"finish", "notify"}
      /\ UNCHANGED <<starting, runs, lock, cleaning, gitVars, crashes>>
      /\ \/ Write(runner[r].task, runner[r].copy) /\ Continue(r, runner[r].copy, "notify")
         \/ UNCHANGED taskVars /\ Continue(r, runner[r].copy, "release")
      /\ hooks' \in {hooks, Notified(runner[r].task, runner[r].copy.status)}
  BY DEF FinishRun, NotifyHooks
<1>2. TablesOK' /\ RunsOK' /\ LockOK' /\ CleaningOK'
  BY <1>1, RunGoesOnUnchanged, StatusNames DEF gitVars, Ending
<1>3. GitOK'
  BY <1>1, GitStays DEF TaskInv
<1>4. RestOK'
  BY <1>1 DEF TaskInv, RestOK, Notified
<1> QED
  BY <1>2, <1>3, <1>4 DEF TaskInv

(* Only the run's own handle goes.                                          *)
LEMMA ReleaseKeeps ==
  ASSUME TaskInv, NEW r \in Runners, ReleaseRun(r)
  PROVE  TaskInv'
<1>1. /\ runner[r].pc = "release"
      /\ runs' = [t \in Tasks |-> IF runs[t] = r THEN NoRunner ELSE runs[t]]
      /\ runner' = [runner EXCEPT ![r] = Idle]
      /\ UNCHANGED <<taskVars, hooks, starting, lock, cleaning, gitVars, crashes>>
  BY DEF ReleaseRun
<1>2. RunsOK'
  <2>1. runs' \in [Tasks -> Runners \cup {NoRunner}] /\ runner' \in [Runners -> RunnerRecord]
    BY <1>1, Absents DEF TaskInv, RunsOK
  <2>2. RunShape(r)'
    BY <1>1, Absents DEF TaskInv, RunsOK, RunShape
  <2>3. ASSUME NEW q \in Runners \ {r} PROVE RunShape(q)'
    <3>1. runner'[q] = runner[q]
      BY <1>1 DEF TaskInv, RunsOK
    <3>2. runner[q].pc # "idle" => runs'[runner[q].task] = q
      BY <1>1 DEF TaskInv, RunsOK, RunShape
    <3> QED
      BY <1>1, <3>1, <3>2 DEF TaskInv, RunsOK, RunShape, Truthful, Merged, gitVars
  <2> QED
    BY <2>1, <2>2, <2>3 DEF RunsOK
<1>3. LockOK'
  <2>1. \A q \in Runners \ {r} : runner'[q] = runner[q]
    BY <1>1 DEF TaskInv, RunsOK
  <2> QED
    BY <1>1, <2>1, LockIgnoresOthers DEF TaskInv, gitVars
<1>4. TablesOK' /\ CleaningOK' /\ GitOK' /\ RestOK'
  BY <1>1, TablesStay, CleaningStays, GitStays, RestStays DEF TaskInv, gitVars
<1> QED
  BY <1>2, <1>3, <1>4 DEF TaskInv

-----------------------------------------------------------------------------
(* The integration lock.                                                   *)

(* The lock is taken to prepare a worktree, and given back.                 *)
LEMMA BeginPrepareKeeps ==
  ASSUME TaskInv, NEW r \in Runners, BeginPrepare(r)
  PROVE  TaskInv'
<1> DEFINE held == [Unlocked EXCEPT !.by = "run", !.runner = r,
                                    !.task = runner[r].task, !.step = "preparing"]
<1>1. /\ runner[r].pc = "prepare"
      /\ lock' = held
      /\ Write(runner[r].task, runner[r].copy)
      /\ Continue(r, runner[r].copy, "preparing")
      /\ UNCHANGED <<hooks, starting, runs, cleaning, gitVars, crashes>>
  BY DEF BeginPrepare
<1>2. runner[r].task \in Tasks
  BY <1>1, CopyOfRun
<1>3. /\ held \in LockRecord /\ held.by = "run" /\ held.task = runner[r].task
      /\ held.step = "preparing" /\ held.copy = Absent
  BY <1>2, Absents DEF Unlocked, LockRecord
<1> HIDE DEF held
<1>4. TablesOK'
  BY <1>1, <1>2, CopyOfRun, WriteKeepsTables DEF TaskInv, gitVars
<1>5. RunsOK'
  BY <1>1, CopyOfRun, RunContinues, StatusNames DEF TaskInv, gitVars, Ending
<1>6. LockOK'
  <2>1. Truthful(lock.task, lock.copy)'
    BY <1>1, <1>3, Absents DEF Truthful
  <2> QED
    BY <1>1, <1>2, <1>3, <2>1 DEF LockOK, Merging
<1>7. CleaningOK' /\ GitOK' /\ RestOK'
  BY <1>1, CleaningStays, GitStays, RestStays DEF TaskInv, gitVars
<1> QED
  BY <1>4, <1>5, <1>6, <1>7 DEF TaskInv

LEMMA EndPrepareKeeps ==
  ASSUME TaskInv, NEW r \in Runners, EndPrepare(r)
  PROVE  TaskInv'
<1> DEFINE t == runner[r].task
<1>1. /\ runner[r].pc = "preparing"
      /\ lock' = Unlocked
      /\ UNCHANGED <<hooks, starting, runs, cleaning, made, merges, crashes>>
      /\ \/ /\ trees' = [trees EXCEPT ![t] = "clean"] /\ branches' = [branches EXCEPT ![t] = 0]
            /\ Continue(r, runner[r].copy, "execute") /\ UNCHANGED taskVars
         \/ GiveUp(r) /\ UNCHANGED <<trees, branches>>
  BY DEF EndPrepare
<1>2. t \in Tasks /\ runner[r].copy \in TaskRecord /\ Truthful(t, runner[r].copy)
  BY <1>1, CopyOfRun
<1>3. LockOK'
  BY <1>1, UnlockedIsOK
<1>4. GitOK'
  <2>1. 0 \in 0 .. MaxCommits
    BY TaskAssumption
  <2>2. trees' \in [Tasks -> {"none", "clean", "dirty"}] /\ branches' \in [Tasks -> 0 .. MaxCommits]
    BY <1>1, <1>2, <2>1 DEF TaskInv, GitOK
  <2> QED
    BY <1>1, <2>2 DEF TaskInv, GitOK, MergedOnce
<1>5. CleaningOK' /\ RestOK'
  BY <1>1, CleaningStays, RestStays DEF TaskInv
<1>6. TablesOK' /\ RunsOK'
  <2>1. CASE Continue(r, runner[r].copy, "execute") /\ UNCHANGED taskVars
    BY <1>1, <1>2, <2>1, CopyOfRun, TablesStay, RunContinues, StatusNames DEF TaskInv, Ending
  <2>2. CASE GiveUp(r)
    <3> DEFINE copy == GivenUp(r, runner[r].copy)
    <3>1. copy \in TaskRecord /\ copy.status # "done"
      BY <1>2, Withs, StatusNames DEF GivenUp
    <3>2. Write(t, copy) /\ Continue(r, copy, "finish")
      BY <2>2 DEF GiveUp
    <3>3. Truthful(t, copy)
      BY <3>1, NotDone
    <3> HIDE DEF copy
    <3>4. TablesOK'
      BY <1>1, <1>2, <3>1, <3>2, <3>3, WriteKeepsTables DEF TaskInv
    <3>5. RunsOK'
      BY <1>1, <3>1, <3>2, <3>3, RunContinues, StatusNames DEF TaskInv, Ending
    <3> QED
      BY <3>4, <3>5
  <2> QED
    BY <1>1, <2>1, <2>2
<1> QED
  BY <1>3, <1>4, <1>5, <1>6 DEF TaskInv

(* The handoff to the merge: the table and the lock get the same copy.      *)
LEMMA ClaimedForMerge ==
  ASSUME TablesOK, NEW by \in {"run", "retry"}, NEW r \in Runners \cup {NoRunner}, NEW t \in Tasks,
         ClaimIntegration(by, r, t), UNCHANGED merges
  PROVE  /\ TablesOK'
         /\ lock' \in LockRecord /\ lock'.by = by /\ lock'.runner = r /\ lock'.task = t
         /\ lock'.step = "merge" /\ Truthful(lock.task, lock.copy)'
<1> DEFINE copy == With(tasks[t], "merging")
<1>1. copy \in TaskRecord /\ copy.status = "merging"
  BY Withs, StatusNames DEF TablesOK
<1>2. Write(t, copy) /\ lock' = [by |-> by, runner |-> r, task |-> t, copy |-> copy, step |-> "merge"]
  BY DEF ClaimIntegration
<1> HIDE DEF copy
<1>3. TablesOK'
  BY <1>1, <1>2, NotDone, WriteKeepsTables
<1>4. lock' \in LockRecord /\ lock'.by = by /\ lock'.runner = r /\ lock'.task = t
      /\ lock'.step = "merge" /\ lock'.copy.status # "done"
  BY <1>1, <1>2 DEF LockRecord
<1> QED
  BY <1>3, <1>4 DEF Truthful

LEMMA RetryMergeKeeps ==
  ASSUME TaskInv, NEW t \in Tasks, RetryMerge(t)
  PROVE  TaskInv'
<1>1. /\ ClaimIntegration("retry", NoRunner, t)
      /\ UNCHANGED <<hooks, starting, runs, runner, cleaning, gitVars, crashes>>
  BY DEF RetryMerge
<1>2. TablesOK' /\ LockOK'
  BY <1>1, ClaimedForMerge DEF TaskInv, LockOK, Merging, gitVars
<1>3. RunsOK' /\ CleaningOK' /\ GitOK' /\ RestOK'
  BY <1>1, RunsStay, CleaningStays, GitStays, RestStays DEF TaskInv, gitVars
<1> QED
  BY <1>2, <1>3 DEF TaskInv

LEMMA IntegrateKeeps ==
  ASSUME TaskInv, NEW r \in Runners, Integrate(r)
  PROVE  TaskInv'
<1> DEFINE t == runner[r].task
<1>1. /\ runner[r].pc = "integrate"
      /\ UNCHANGED <<hooks, starting, runs, cleaning, gitVars, crashes>>
  BY DEF Integrate
<1>2. \/ GiveUp(r) /\ UNCHANGED lock
      \/ /\ Write(t, With(runner[r].copy, "waiting_merge"))
         /\ Continue(r, With(runner[r].copy, "waiting_merge"), "finish") /\ UNCHANGED lock
      \/ /\ Write(t, With(tasks[t], "cancelled"))
         /\ Continue(r, With(tasks[t], "cancelled"), "finish") /\ UNCHANGED lock
      \/ Continue(r, tasks[t], "finish") /\ UNCHANGED <<taskVars, lock>>
      \/ /\ ~ Ended(r) /\ ClaimIntegration("run", r, t)
         /\ Continue(r, runner[r].copy, "locked")
  BY DEF Integrate
<1>3. t \in Tasks /\ runner[r].copy \in TaskRecord
  BY <1>1, CopyOfRun
<1>4. GitOK' /\ RestOK' /\ CleaningOK'
  BY <1>1, GitStays, RestStays, CleaningStays DEF TaskInv, gitVars
<1>5. CASE GiveUp(r) /\ UNCHANGED lock
  BY <1>1, <1>4, <1>5, GivingUp DEF TaskInv, gitVars
<1>6. CASE /\ Write(t, With(runner[r].copy, "waiting_merge"))
           /\ Continue(r, With(runner[r].copy, "waiting_merge"), "finish") /\ UNCHANGED lock
  BY <1>1, <1>4, <1>6, RunGoesOnWith, StatusNames DEF TaskInv, gitVars, Ending
<1>7. CASE /\ Write(t, With(tasks[t], "cancelled"))
           /\ Continue(r, With(tasks[t], "cancelled"), "finish") /\ UNCHANGED lock
  <2> DEFINE copy == With(tasks[t], "cancelled")
  <2>1. copy \in TaskRecord /\ copy.status # "done"
    BY <1>3, Withs, StatusNames DEF TaskInv, TablesOK
  <2>2. Truthful(t, copy)
    BY <2>1, NotDone
  <2> HIDE DEF copy
  <2> QED
    BY <1>1, <1>4, <1>7, <2>1, <2>2, RunGoesOn, StatusNames DEF TaskInv, gitVars, Ending, copy
<1>8. CASE Continue(r, tasks[t], "finish") /\ UNCHANGED <<taskVars, lock>>
  <2>1. tasks[t] \in TaskRecord /\ Truthful(t, tasks[t])
    BY <1>3 DEF TaskInv, TablesOK
  <2> QED
    BY <1>1, <1>4, <1>8, <2>1, RunGoesOn, StatusNames DEF TaskInv, gitVars, Ending
<1>9. CASE ~ Ended(r) /\ ClaimIntegration("run", r, t) /\ Continue(r, runner[r].copy, "locked")
  <2>1. /\ RunsOK' /\ runner'[r].pc = "locked" /\ runner'[r].task = t
        /\ runner'[r].ctx # "cancelled"
    BY <1>1, <1>9, CopyOfRun, RunContinues, StatusNames DEF TaskInv, gitVars, Ended, Ending
  <2>2. /\ TablesOK'
        /\ lock' \in LockRecord /\ lock'.by = "run" /\ lock'.runner = r /\ lock'.task = t
        /\ lock'.step = "merge" /\ Truthful(lock.task, lock.copy)'
    BY <1>1, <1>3, <1>9, ClaimedForMerge DEF TaskInv, gitVars
  <2>3. LockOK'
    BY <1>3, <2>1, <2>2 DEF LockOK, Merging, Waits
  <2> QED
    BY <1>4, <2>1, <2>2, <2>3 DEF TaskInv
<1> QED
  BY <1>2, <1>5, <1>6, <1>7, <1>8, <1>9

-----------------------------------------------------------------------------
(* The steps of the lock's holder.                                         *)

LEMMA LockHeld ==
  ASSUME TaskInv, lock.step \in Merging
  PROVE  /\ lock.by \in {"run", "retry"} /\ lock.task \in Tasks /\ lock.copy \in TaskRecord
         /\ Truthful(lock.task, lock.copy)
         /\ lock.by = "run" => lock.runner \in Runners /\ Waits(lock.runner, lock.task)
  BY DEF TaskInv, LockOK, LockRecord, Merging

(* The holder is through: it has written another truthful copy.             *)
LEMMA HolderGoesOn ==
  ASSUME TaskInv, lock.step \in Merging, NEW copy \in TaskRecord,
         Truthful(lock.task, copy), Write(lock.task, copy),
         lock' = [lock EXCEPT !.copy = copy, !.step = "leave"],
         UNCHANGED <<runs, runner, cleaning, merges>>
  PROVE  TablesOK' /\ RunsOK' /\ LockOK' /\ CleaningOK'
<1>1. TablesOK'
  BY LockHeld, WriteKeepsTables DEF TaskInv
<1>2. RunsOK' /\ CleaningOK'
  BY RunsStay, CleaningStays DEF TaskInv
<1>3. /\ lock' \in LockRecord /\ lock'.by = lock.by /\ lock'.runner = lock.runner
      /\ lock'.task = lock.task /\ lock'.copy = copy /\ lock'.step = "leave"
  BY DEF TaskInv, LockOK, LockRecord, Merging
<1>4. Truthful(lock.task, lock.copy)'
  BY <1>3 DEF Truthful, Merged
<1>5. LockOK'
  BY <1>3, <1>4, LockHeld DEF LockOK, Merging, Waits
<1> QED
  BY <1>1, <1>2, <1>5

LEMMA BlockKeeps ==
  ASSUME TaskInv, PrimaryUnfit \/ MergeAborted \/ MergeUnverified
  PROVE  TaskInv'
<1> DEFINE copy == With(lock.copy, "waiting_merge")
<1>1. /\ lock.step \in Merging
      /\ Write(lock.task, copy) /\ lock' = [lock EXCEPT !.copy = copy, !.step = "leave"]
      /\ UNCHANGED <<hooks, starting, runs, runner, cleaning, gitVars, crashes>>
  BY DEF PrimaryUnfit, MergeAborted, MergeUnverified, Block, Leaving, Merging
<1>2. copy \in TaskRecord /\ copy.status # "done"
  BY <1>1, LockHeld, Withs, StatusNames
<1>3. Truthful(lock.task, copy)
  BY <1>2, NotDone
<1> HIDE DEF copy
<1>4. TablesOK' /\ RunsOK' /\ LockOK' /\ CleaningOK'
  BY <1>1, <1>2, <1>3, HolderGoesOn DEF gitVars
<1> QED
  BY <1>1, <1>4, GitStays, RestStays DEF TaskInv, gitVars

LEMMA FinishMergeKeeps ==
  ASSUME TaskInv, FinishMerge
  PROVE  TaskInv'
<1> DEFINE t == lock.task
           copy == With(lock.copy, "done")
<1>1. /\ lock.step \in {"merged", "finish"}
      /\ Write(t, copy) /\ lock' = [lock EXCEPT !.copy = copy, !.step = "leave"]
      /\ trees' \in {trees, [trees EXCEPT ![t] = IF @ = "dirty" THEN @ ELSE "none"]}
      /\ UNCHANGED <<hooks, starting, runs, runner, cleaning, branches, made, merges, crashes>>
  BY DEF FinishMerge, Leaving
<1>2. lock.step \in Merging
  BY <1>1 DEF Merging
<1>3. copy \in TaskRecord /\ copy.commit = lock.copy.commit
  BY <1>2, LockHeld, Withs, StatusNames
<1>4. Truthful(t, copy)
  BY <1>1, <1>3 DEF TaskInv, LockOK, Truthful, Merged
<1> HIDE DEF copy
<1>5. TablesOK' /\ RunsOK' /\ LockOK' /\ CleaningOK'
  BY <1>1, <1>2, <1>3, <1>4, HolderGoesOn
<1>6. trees' \in [Tasks -> {"none", "clean", "dirty"}]
  BY <1>1, <1>2, LockHeld DEF TaskInv, GitOK
<1> QED
  BY <1>1, <1>5, <1>6, TreesChange, RestStays DEF TaskInv

(* The merge: what was merged stays so, and the commit is there once.       *)
LEMMA MergePrimaryKeeps ==
  ASSUME TaskInv, MergePrimary
  PROVE  TaskInv'
<1>1. /\ lock.step = "merge" /\ lock.copy.commit # 0
      /\ UNCHANGED <<taskVars, hooks, starting, runs, runner, cleaning, trees, branches, made, crashes>>
  BY DEF MergePrimary
<1>2. /\ lock.by \in {"run", "retry"} /\ lock.task \in Tasks /\ lock.copy \in TaskRecord
      /\ Truthful(lock.task, lock.copy)
      /\ lock.by = "run" => lock.runner \in Runners /\ Waits(lock.runner, lock.task)
  BY <1>1, LockHeld DEF Merging
<1>3. ThisCommit \in Tasks \X (1 .. MaxCommits)
  BY <1>1, <1>2, TaskAssumption DEF ThisCommit, TaskRecord
<1>4. merges \in Seq(Tasks \X (1 .. MaxCommits)) /\ MergedOnce
  BY DEF TaskInv, GitOK
<1>5. \/ AlreadyMerged /\ lock' = [lock EXCEPT !.step = "finish"] /\ UNCHANGED merges
      \/ ~ AlreadyMerged /\ lock' = [lock EXCEPT !.step = "merged"] /\ merges' = Append(merges, ThisCommit)
  BY DEF MergePrimary
<1>6. /\ merges' \in Seq(Tasks \X (1 .. MaxCommits))
      /\ \A i \in DOMAIN merges : i \in DOMAIN merges' /\ merges'[i] = merges[i]
      /\ \E i \in DOMAIN merges' : merges'[i] = ThisCommit
      /\ MergedOnce'
  <2>1. CASE AlreadyMerged /\ UNCHANGED merges
    BY <1>4, <2>1 DEF AlreadyMerged, MergedOnce
  <2>2. CASE ~ AlreadyMerged /\ merges' = Append(merges, ThisCommit)
    <3> DEFINE this == ThisCommit
    <3>1. \A i \in DOMAIN merges : merges[i] # this
      BY <2>2 DEF AlreadyMerged
    <3>2. this \in Tasks \X (1 .. MaxCommits) /\ merges' = Append(merges, this)
      BY <1>3, <2>2
    <3> HIDE DEF this
    <3>3. /\ merges' \in Seq(Tasks \X (1 .. MaxCommits))
          /\ DOMAIN merges = 1 .. Len(merges) /\ Len(merges) \in Nat
          /\ DOMAIN merges' = 1 .. Len(merges) + 1
          /\ \A i \in DOMAIN merges : i \in DOMAIN merges' /\ merges'[i] = merges[i]
          /\ merges'[Len(merges) + 1] = this
      BY <1>4, <3>2
    <3>4. \A i \in DOMAIN merges' : i \in DOMAIN merges \/ i = Len(merges) + 1
      BY <3>3
    <3>5. MergedOnce'
      BY <1>4, <3>1, <3>3, <3>4 DEF MergedOnce
    <3> QED
      BY <3>3, <3>5 DEF this
  <2> QED
    BY <1>5, <2>1, <2>2
<1>7. \A t, copy : Truthful(t, copy) => Truthful(t, copy)'
  BY <1>6 DEF Truthful, Merged
<1>8. TablesOK'
  <2>1. \A t \in Tasks : Truthful(t, tasks[t])' /\ Truthful(t, disk[t])'
    BY <1>1, <1>6 DEF TaskInv, TablesOK, Truthful, Merged, taskVars
  <2> QED
    BY <1>1, <2>1 DEF TaskInv, TablesOK, taskVars
<1>9. RunsOK'
  BY <1>1, <1>6 DEF TaskInv, RunsOK, RunShape, Truthful, Merged
<1>10. LockOK'
  <2>1. /\ lock' \in LockRecord /\ lock'.by = lock.by /\ lock'.runner = lock.runner
        /\ lock'.task = lock.task /\ lock'.copy = lock.copy /\ lock'.step \in {"merged", "finish"}
    BY <1>5 DEF TaskInv, LockOK, LockRecord
  <2>2. Merged(lock.task, lock.copy)'
    BY <1>6, <2>1 DEF Merged, ThisCommit
  <2>3. Truthful(lock.task, lock.copy)'
    BY <2>2 DEF Truthful
  <2> QED
    BY <1>1, <1>2, <2>1, <2>2, <2>3 DEF LockOK, Merging, Waits
<1>11. CleaningOK'
  BY <1>1, <1>6 DEF TaskInv, CleaningOK, Truthful, Merged
<1>12. GitOK'
  BY <1>1, <1>6 DEF TaskInv, GitOK
<1>13. RestOK'
  BY <1>1, RestStays DEF TaskInv
<1> QED
  BY <1>8, <1>9, <1>10, <1>11, <1>12, <1>13 DEF TaskInv

LEMMA LeaveKeeps ==
  ASSUME TaskInv, LeaveIntegration
  PROVE  TaskInv'
<1>1. /\ lock.step = "leave" /\ lock' = Unlocked
      /\ UNCHANGED <<taskVars, starting, runs, cleaning, gitVars, crashes>>
      /\ \/ lock.by = "run" /\ Continue(lock.runner, lock.copy, "finish") /\ UNCHANGED hooks
         \/ hooks' = Notified(lock.task, lock.copy.status) /\ UNCHANGED runner
  BY DEF LeaveIntegration
<1>2. /\ lock.task \in Tasks /\ lock.copy \in TaskRecord /\ Truthful(lock.task, lock.copy)
      /\ lock.by = "run" => lock.runner \in Runners /\ Waits(lock.runner, lock.task)
  BY <1>1, LockHeld DEF Merging
<1>3. RunsOK'
  <2>1. CASE lock.by = "run" /\ Continue(lock.runner, lock.copy, "finish")
    <3>1. PICK r \in Runners : r = lock.runner /\ Waits(r, lock.task)
      BY <1>2, <2>1
    <3>2. PICK copy \in TaskRecord : copy = lock.copy
      BY <1>2
    <3>3. Continue(r, copy, "finish") /\ Truthful(runner[r].task, copy) /\ runner[r].pc # "idle"
      BY <1>2, <2>1, <3>1, <3>2 DEF Waits
    <3> QED
      BY <1>1, <3>3, RunContinues, StatusNames DEF TaskInv, gitVars, Ending
  <2>2. CASE UNCHANGED runner
    BY <1>1, <2>2, RunsStay DEF TaskInv, gitVars
  <2> QED
    BY <1>1, <2>1, <2>2
<1>4. TablesOK' /\ LockOK' /\ CleaningOK' /\ GitOK'
  BY <1>1, TablesStay, UnlockedIsOK, CleaningStays, GitStays DEF TaskInv, gitVars
<1>5. RestOK'
  BY <1>1, <1>2 DEF TaskInv, RestOK, Notified
<1> QED
  BY <1>3, <1>4, <1>5 DEF TaskInv

-----------------------------------------------------------------------------
(* Cancellation, cleanup and crashes.                                      *)

LEMMA RequestCancelKeeps ==
  ASSUME TaskInv, NEW t \in Tasks, RequestCancel(t)
  PROVE  TaskInv'
<1> DEFINE held == [Unlocked EXCEPT !.by = "cancel", !.task = t, !.copy = tasks[t],
                                    !.step = "marking"]
<1>1. /\ lock' = held
      /\ tasks[t].status \in {"running", "verifying"}
      /\ UNCHANGED <<taskVars, hooks, starting, runs, runner, cleaning, gitVars, crashes>>
  BY DEF RequestCancel
<1>2. tasks[t] \in TaskRecord
  BY DEF TaskInv, TablesOK
<1>3. /\ held \in LockRecord /\ held.by = "cancel" /\ held.task = t
      /\ held.step = "marking" /\ held.copy = tasks[t]
  BY <1>2 DEF Unlocked, LockRecord
<1> HIDE DEF held
<1>4. Truthful(lock.task, lock.copy)'
  BY <1>1, <1>3 DEF Truthful
<1>5. LockOK'
  BY <1>1, <1>3, <1>4 DEF LockOK, Merging
<1>6. TablesOK' /\ RunsOK' /\ CleaningOK' /\ GitOK' /\ RestOK'
  BY <1>1, TablesStay, RunsStay, CleaningStays, GitStays, RestStays DEF TaskInv, gitVars
<1> QED
  BY <1>5, <1>6 DEF TaskInv

LEMMA CancelHeld ==
  ASSUME TaskInv, lock.step \in {"marking", "stopping"}
  PROVE  lock.by = "cancel" /\ lock.task \in Tasks /\ lock.copy \in TaskRecord
  BY DEF TaskInv, LockOK, LockRecord, Merging

LEMMA MarkCancellingKeeps ==
  ASSUME TaskInv, MarkCancelling
  PROVE  TaskInv'
<1> DEFINE copy == With(lock.copy, "cancelling")
<1>1. /\ lock.step = "marking"
      /\ Write(lock.task, copy) /\ lock' = [lock EXCEPT !.step = "stopping"]
      /\ UNCHANGED <<hooks, starting, runs, runner, cleaning, gitVars, crashes>>
  BY DEF MarkCancelling
<1>2. lock.by = "cancel" /\ lock.task \in Tasks /\ lock.copy \in TaskRecord
  BY <1>1, CancelHeld
<1>3. copy \in TaskRecord /\ copy.status # "done"
  BY <1>2, Withs, StatusNames
<1>4. Truthful(lock.task, copy)
  BY <1>3, NotDone
<1> HIDE DEF copy
<1>5. TablesOK'
  BY <1>1, <1>2, <1>3, <1>4, WriteKeepsTables DEF TaskInv, gitVars
<1>6. LockOK'
  <2>1. /\ lock' \in LockRecord /\ lock'.by = lock.by /\ lock'.task = lock.task
        /\ lock'.copy = lock.copy /\ lock'.step = "stopping"
    BY <1>1 DEF TaskInv, LockOK, LockRecord
  <2>2. Truthful(lock.task, lock.copy)'
    BY <1>1, <2>1 DEF TaskInv, LockOK, Truthful, Merged, gitVars
  <2> QED
    BY <1>2, <2>1, <2>2 DEF LockOK, Merging
<1>7. RunsOK' /\ CleaningOK' /\ GitOK' /\ RestOK'
  BY <1>1, RunsStay, CleaningStays, GitStays, RestStays DEF TaskInv, gitVars
<1> QED
  BY <1>5, <1>6, <1>7 DEF TaskInv

(* The run's context ends while nobody merges for it: its shape is the same. *)
LEMMA StopTaskKeeps ==
  ASSUME TaskInv, StopTask
  PROVE  TaskInv'
<1>1. /\ lock.step = "stopping" /\ lock' = Unlocked
      /\ UNCHANGED <<hooks, starting, runs, cleaning, gitVars, crashes>>
  BY DEF StopTask
<1>2. lock.task \in Tasks /\ lock.copy \in TaskRecord
  BY <1>1, CancelHeld
<1>3. CASE /\ runs[lock.task] # NoRunner /\ UNCHANGED taskVars
           /\ runner' = [runner EXCEPT ![runs[lock.task]].ctx =
                                         IF @ = "live" THEN "cancelled" ELSE @]
  <2>1. PICK r \in Runners : r = runs[lock.task]
    BY <1>2, <1>3 DEF TaskInv, RunsOK
  <2>2. runner' = [runner EXCEPT ![r].ctx = IF @ = "live" THEN "cancelled" ELSE @]
    BY <1>3, <2>1
  <2>3. /\ runner' \in [Runners -> RunnerRecord]
        /\ \A q \in Runners : /\ runner'[q].pc = runner[q].pc /\ runner'[q].task = runner[q].task
                              /\ runner'[q].copy = runner[q].copy
    BY <2>2 DEF TaskInv, RunsOK, RunnerRecord
  <2>4. RunsOK'
    BY <1>1, <2>3 DEF TaskInv, RunsOK, RunShape, Truthful, Merged, gitVars
  <2> QED
    BY <1>1, <1>3, <2>4, TablesStay, UnlockedIsOK, CleaningStays, GitStays, RestStays
    DEF TaskInv, gitVars
<1>4. CASE Write(lock.task, With(lock.copy, "cancelled")) /\ UNCHANGED runner
  <2> DEFINE copy == With(lock.copy, "cancelled")
  <2>1. copy \in TaskRecord /\ copy.status # "done"
    BY <1>2, Withs, StatusNames
  <2>2. Truthful(lock.task, copy)
    BY <2>1, NotDone
  <2>3. Write(lock.task, copy)
    BY <1>4
  <2> HIDE DEF copy
  <2>4. TablesOK'
    BY <1>1, <1>2, <2>1, <2>2, <2>3, WriteKeepsTables DEF TaskInv, gitVars
  <2> QED
    BY <1>1, <1>4, <2>4, RunsStay, UnlockedIsOK, CleaningStays, GitStays, RestStays
    DEF TaskInv, gitVars
<1> QED
  BY <1>3, <1>4 DEF StopTask

LEMMA RequestCleanupKeeps ==
  ASSUME TaskInv, NEW t \in Tasks, RequestCleanup(t)
  PROVE  TaskInv'
<1>1. /\ cleaning' = [task |-> t, copy |-> tasks[t]]
      /\ UNCHANGED <<taskVars, hooks, starting, runs, runner, lock, gitVars, crashes>>
  BY DEF RequestCleanup
<1>2. tasks[t] \in TaskRecord /\ Truthful(t, tasks[t])
  BY DEF TaskInv, TablesOK
<1>3. cleaning'.task = t /\ cleaning'.copy = tasks[t]
      /\ cleaning' \in [task : Tasks \cup {NoTask}, copy : TaskRecord]
  BY <1>1, <1>2
<1>4. Truthful(cleaning.task, cleaning.copy)'
  BY <1>1, <1>2, <1>3 DEF Truthful, Merged, gitVars
<1>5. CleaningOK'
  BY <1>3, <1>4 DEF CleaningOK
<1> QED
  BY <1>1, <1>5, TablesStay, RunsStay, LockStays, GitStays, RestStays DEF TaskInv, gitVars

(* The copy a cleanup read before it waited for the lock may be an old one; *)
(* what it says to be done was merged, and is so still.                     *)
LEMMA RunCleanupKeeps ==
  ASSUME TaskInv, RunCleanup
  PROVE  TaskInv'
<1> DEFINE t == cleaning.task
<1>1. /\ cleaning # NoCleanup /\ cleaning' = NoCleanup
      /\ Write(t, cleaning.copy) \/ UNCHANGED taskVars
      /\ trees' \in {trees, [trees EXCEPT ![t] = "none"]}
      /\ UNCHANGED <<hooks, starting, runs, runner, lock, branches, made, merges, crashes>>
  BY DEF RunCleanup
<1>2. t \in Tasks /\ cleaning.copy \in TaskRecord /\ Truthful(t, cleaning.copy)
  BY <1>1 DEF TaskInv, CleaningOK
<1>3. TablesOK'
  BY <1>1, <1>2, WriteKeepsTables, TablesStay DEF TaskInv
<1>4. CleaningOK'
  <2>1. Truthful(cleaning.task, cleaning.copy)'
    BY <1>1, Absents DEF Truthful
  <2> QED
    BY <1>1, <2>1, Absents DEF CleaningOK
<1>5. trees' \in [Tasks -> {"none", "clean", "dirty"}]
  BY <1>1, <1>2 DEF TaskInv, GitOK
<1> QED
  BY <1>1, <1>3, <1>4, <1>5, RunsStay, LockStays, TreesChange, RestStays DEF TaskInv

LEMMA CrashKeeps ==
  ASSUME TaskInv, Crash
  PROVE  TaskInv'
<1>1. /\ crashes < MaxCrashes /\ crashes' = crashes + 1
      /\ tasks' = [t \in Tasks |-> IF disk[t].status \in Live
                                     THEN With(disk[t], "failed") ELSE disk[t]]
      /\ disk' = tasks'
      /\ hooks' = [t \in Tasks |-> IF hooks[t] = "expected" THEN "none" ELSE hooks[t]]
      /\ starting' = {}
      /\ runs' = [t \in Tasks |-> NoRunner]
      /\ runner' = [r \in Runners |-> Idle]
      /\ lock' = Unlocked
      /\ cleaning' = NoCleanup
      /\ UNCHANGED <<gitVars, faults>>
  BY DEF Crash
<1>2. TablesOK'
  <2>1. ASSUME NEW t \in Tasks
        PROVE  tasks'[t] \in TaskRecord /\ (Truthful(t, tasks[t]))'
    <3>1. disk[t] \in TaskRecord /\ Truthful(t, disk[t])
      BY DEF TaskInv, TablesOK
    <3>2. CASE tasks'[t] = disk[t]
      BY <1>1, <3>1, <3>2 DEF Truthful, Merged, gitVars
    <3>3. CASE tasks'[t] = With(disk[t], "failed")
      <4>1. With(disk[t], "failed") \in TaskRecord /\ With(disk[t], "failed").status = "failed"
        BY <3>1, Withs, StatusNames
      <4> QED
        BY <3>3, <4>1 DEF Truthful
    <3> QED
      BY <1>1, <3>2, <3>3
  <2>2. tasks' \in [Tasks -> TaskRecord]
    <3>1. tasks' = [t \in Tasks |-> tasks'[t]]
      BY <1>1
    <3> QED
      BY <2>1, <3>1
  <2>3. \A t \in Tasks : (Truthful(t, disk[t]))'
    BY <1>1, <2>1 DEF Truthful
  <2> QED
    BY <1>1, <2>1, <2>2, <2>3 DEF TaskInv, TablesOK
<1>3. RunsOK'
  BY <1>1, Absents DEF RunsOK, RunShape
<1>4. LockOK'
  BY <1>1, UnlockedIsOK
<1>5. CleaningOK'
  <2>1. Truthful(cleaning.task, cleaning.copy)'
    BY <1>1, Absents DEF Truthful
  <2> QED
    BY <1>1, <2>1, Absents DEF CleaningOK
<1>6. GitOK'
  BY <1>1, GitStays DEF TaskInv
<1>7. RestOK'
  BY <1>1, TaskAssumption DEF TaskInv, RestOK
<1> QED
  BY <1>2, <1>3, <1>4, <1>5, <1>6, <1>7 DEF TaskInv

-----------------------------------------------------------------------------
(* The invariant and what it says.                                         *)

LEMMA TaskInvInit == Init => TaskInv
<1> SUFFICES ASSUME Init PROVE TaskInv
  OBVIOUS
<1>1. TablesOK
  <2>1. \A t \in Tasks : tasks[t] = Absent /\ disk[t] = Absent
    BY DEF Init
  <2>2. \A t \in Tasks : Truthful(t, tasks[t]) /\ Truthful(t, disk[t])
    BY <2>1, Absents, NotDone
  <2> QED
    BY <2>2, Absents, TaskAssumption DEF Init, TablesOK
<1>2. RunsOK
  BY Absents DEF Init, RunsOK, RunShape
<1>3. LockOK
  <2>1. Truthful(lock.task, lock.copy)
    BY Absents DEF Init, Truthful
  <2> QED
    BY <2>1, Absents DEF Init, LockOK
<1>4. CleaningOK
  <2>1. Truthful(cleaning.task, cleaning.copy)
    BY Absents DEF Init, Truthful
  <2> QED
    BY <2>1, Absents DEF Init, CleaningOK
<1>5. GitOK
  <2>1. merges = <<>> /\ 0 \in 0 .. MaxCommits
    BY TaskAssumption DEF Init
  <2> QED
    BY <2>1 DEF Init, GitOK, MergedOnce
<1>6. RestOK
  BY TaskAssumption DEF Init, RestOK
<1> QED
  BY <1>1, <1>2, <1>3, <1>4, <1>5, <1>6 DEF TaskInv

LEMMA TaskInvStep == TaskInv /\ [Next]_vars => TaskInv'
<1> SUFFICES ASSUME TaskInv, [Next]_vars PROVE TaskInv'
  OBVIOUS
<1>1. ASSUME NEW r \in Runners, RunStep(r) PROVE TaskInv'
  BY <1>1, EndsKeep, BeginPrepareKeeps, EndPrepareKeeps, ExecuteKeeps, VerifyKeeps, CommitKeeps,
     IntegrateKeeps, FinishKeeps, ReleaseKeeps DEF RunStep
<1>2. ASSUME NEW r \in Runners, TimeOut(r) PROVE TaskInv'
  BY <1>2, TimeOutKeeps
<1>3. ASSUME NEW t \in Tasks, NEW auto \in BOOLEAN, Claim(t, auto) PROVE TaskInv'
  BY <1>3, ClaimKeeps
<1>4. ASSUME NEW t \in Tasks, NEW type \in Types,
             CreateTask(t, type) \/ CreateTaskByAgent(t, type)
      PROVE  TaskInv'
  BY <1>4, CreateTaskKeeps
<1>5. ASSUME NEW t \in Tasks,
             \/ RegisterHook(t) \/ SkipStart(t) \/ RetryMerge(t)
             \/ RequestCancel(t) \/ RequestCleanup(t)
      PROVE  TaskInv'
  BY <1>5, StartKeeps, RetryMergeKeeps, RequestCancelKeeps, RequestCleanupKeeps
<1>6. ASSUME LockStep PROVE TaskInv'
  BY <1>6, BlockKeeps, MergePrimaryKeeps, FinishMergeKeeps, LeaveKeeps, MarkCancellingKeeps,
     StopTaskKeeps DEF LockStep
<1>7. CASE RunCleanup
  BY <1>7, RunCleanupKeeps
<1>8. CASE Crash
  BY <1>8, CrashKeeps
<1>9. CASE UNCHANGED vars
  BY <1>9, TablesStay, RunsStay, LockStays, CleaningStays, GitStays, RestStays
  DEF TaskInv, vars, taskVars, gitVars
<1> QED
  BY <1>1, <1>2, <1>3, <1>4, <1>5, <1>6, <1>7, <1>8, <1>9 DEF Next

(* Every reachable state is as the invariant says: however copies of a task *)
(* overwrite each other, one that says done says so of a merged commit.     *)
THEOREM TaskInvHolds == Spec => []TaskInv
  BY TaskInvInit, TaskInvStep, PTL DEF Spec

(* The state keeps its types: no copy of a task, in a table, a run, the lock *)
(* or a cleanup, is anything but a task.                                     *)
THEOREM TaskTypes == Spec => []TypeOK
<1>1. TaskInv => TypeOK
  BY DEF TaskInv, TablesOK, RunsOK, LockOK, CleaningOK, GitOK, RestOK, RunnerRecord, LockRecord,
     TypeOK
<1> QED
  BY <1>1, TaskInvHolds, PTL

(* No two runs of a task are under way at once, whatever Service.Claim finds *)
(* its status overwritten with: a run keeps the task's handle to its end.    *)
THEOREM TaskRunsAreSerial == Spec => []OneRunPerTask
<1>1. TaskInv => OneRunPerTask
  BY TaskAssumption DEF TaskInv, RunsOK, RunShape, OneRunPerTask
<1> QED
  BY <1>1, TaskInvHolds, PTL

(* claimTaskIntegration to finishTaskMerge: a merge is never cancelled      *)
(* half-way, done means that the recorded commit was merged, and a commit   *)
(* is merged at most once.                                                  *)
THEOREM MergesAreAlwaysExact == Spec => []MergesAreExact
<1>1. TaskInv => MergeIsNeverCancelled
  BY DEF TaskInv, LockOK, Waits, MergeIsNeverCancelled
<1>2. TaskInv => DoneMeansMerged
  BY DEF TaskInv, TablesOK, Truthful, Merged, DoneMeansMerged
<1>3. TaskInv => MergedOnce
  BY DEF TaskInv, GitOK
<1>4. TaskInv => MergesAreExact
  BY <1>1, <1>2, <1>3 DEF MergesAreExact
<1> QED
  BY <1>4, TaskInvHolds, PTL

=============================================================================
