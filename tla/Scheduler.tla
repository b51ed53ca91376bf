------------------------------ MODULE Scheduler ------------------------------
(***************************************************************************)
(* The scheduler of background runs: scheduleAgentRun and its callers      *)
(* (cmd/karoz/scheduler.go), the worker goroutine of each agent            *)
(* (internal/runtime/scheduler_worker.go), the snapshot file               *)
(* agent-run-queue.json that saveScheduledRuns writes under                *)
(* schedulerPersistMu, agent deletion, crashes and the startup that        *)
(* recovers the queue from the snapshot.                                   *)
(*                                                                         *)
(* What a run does between its start and its end is its executor's and the *)
(* run lifecycle's business; here it may perform effects (each behind      *)
(* markScheduledRunEffectsStarted) and ends with one of three outcomes.    *)
(***************************************************************************)
EXTENDS SchedulerQueue

CONSTANTS Slots,         \* distinguishes goroutines of one agent, at least two
          NoJob,         \* a worker that holds no job
          Deletable,     \* agents that deleteProjectAgent may be called for
          FailingSaves   \* the save points at which writing the file may fail

SavePoints == {"enqueue", "claim", "effects", "completion", "deletion", "startup"}

ASSUME SchedulerAssumption ==
  /\ Slots # {}
  /\ NoJob \notin Jobs
  /\ Deletable \subseteq Agents
  /\ FailingSaves \subseteq SavePoints

VARIABLES phase,    \* "down", "loading", "ready" (loaded, not resumed) or "up"
          caller,   \* [Jobs -> CallerRecord], the call of scheduleAgentRun for a job
          worker,   \* [Agents \X Slots -> WorkerRecord], the worker goroutines
          deleter,  \* [Agents -> {"idle", "saving"}], deleteProjectAgent
          save,     \* the save in progress: holder of schedulerPersistMu and what it read
          disk,     \* agent-run-queue.json
          acted     \* history: the jobs some execution of which has performed an effect

vars == <<queues, jobs, active, dedup, completedMonitorFires, monitorFirePendingRemoved,
          phase, caller, worker, deleter, save, disk, acted>>

(* A refusal after which something is left of the run that was taken back:  *)
(* it was running ("undone"), or it was settled, so that its dedup key was  *)
(* perhaps another run's already ("unkeyed").                               *)
Refusals == {"rejected", "undone", "unkeyed"}
CallerPC == {"new", "saving", "rollback", "accepted", "lost"} \cup Refusals
CallerRecord == [pc : CallerPC, start : BOOLEAN]

WorkerPC == {"none", "loop", "claimed", "waiting", "executing", "marking", "completed"}
WorkerRecord == [pc : WorkerPC, job : Jobs \cup {NoJob}, effects : BOOLEAN]
NoWorker == [pc |-> "none", job |-> NoJob, effects |-> FALSE]
AtLoop   == [pc |-> "loop", job |-> NoJob, effects |-> FALSE]
Workers  == Agents \X Slots

Nobody == <<"nobody", "nobody">>
Loader == <<"loader", "loader">>
CallerOf(j)  == <<"caller", j>>
WorkerOf(w)  == <<"worker", w>>
DeleterOf(a) == <<"deleter", a>>
Processes == {Loader} \cup {CallerOf(j) : j \in Jobs} \cup {WorkerOf(w) : w \in Workers}
                      \cup {DeleterOf(a) : a \in Agents}

(* The processes that are at a call of saveScheduledRuns. *)
Saving(p) ==
  \/ p = Loader /\ phase = "loading"
  \/ \E j \in Jobs : p = CallerOf(j) /\ caller[j].pc = "saving"
  \/ \E w \in Workers : p = WorkerOf(w) /\ worker[w].pc \in {"claimed", "marking", "completed"}
  \/ \E a \in Agents : p = DeleterOf(a) /\ deleter[a] = "saving"

Snapshot == [jobs : JobTable, completed : SUBSET DedupKeys, pendingRemoved : SUBSET DedupKeys]
NoTable == [j \in Jobs |-> Absent]
EmptySnapshot == [jobs |-> NoTable, completed |-> {}, pendingRemoved |-> {}]

(* The three reads of saveScheduledRuns are three critical sections of      *)
(* queue.mu; the last of them and the write are one step, because nothing   *)
(* else reads or writes the file in between.                                *)
SaveRecord == [by : Processes \cup {Nobody}, read : 0..2,
               jobs : JobTable, completed : SUBSET DedupKeys]
NoSave == [by |-> Nobody, read |-> 0, jobs |-> NoTable, completed |-> {}]

TypeOK ==
  /\ QueueTypeOK
  /\ phase \in {"down", "loading", "ready", "up"}
  /\ caller \in [Jobs -> CallerRecord]
  /\ worker \in [Workers -> WorkerRecord]
  /\ deleter \in [Agents -> {"idle", "saving"}]
  /\ save \in SaveRecord
  /\ disk \in Snapshot
  /\ acted \subseteq Jobs

Init ==
  /\ QueueInit
  /\ phase = "down"
  /\ caller = [j \in Jobs |-> [pc |-> "new", start |-> FALSE]]
  /\ worker = [w \in Workers |-> NoWorker]
  /\ deleter = [a \in Agents |-> "idle"]
  /\ save = NoSave
  /\ disk = EmptySnapshot
  /\ acted = {}

-----------------------------------------------------------------------------
(* saveScheduledRuns *)

BeginSave(p) ==
  /\ save.by = Nobody
  /\ Saving(p)
  /\ save' = [by |-> p, read |-> 1, jobs |-> jobs, completed |-> {}]
  /\ UNCHANGED <<queueVars, phase, caller, worker, deleter, disk, acted>>

ReadCompletedFires ==
  /\ save.read = 1
  /\ save' = [save EXCEPT !.read = 2, !.completed = completedMonitorFires]
  /\ UNCHANGED <<queueVars, phase, caller, worker, deleter, disk, acted>>

(* The end of a save by p: the new file replaces the old one, or the save   *)
(* failed and the old one is still there (SaveJSONAtomic).                  *)
EndSave(p, point, ok) ==
  /\ save.by = p
  /\ save.read = 2
  /\ save' = NoSave
  /\ \/ ok /\ disk' = [jobs |-> save.jobs, completed |-> save.completed,
                       pendingRemoved |-> monitorFirePendingRemoved]
     \/ ~ ok /\ point \in FailingSaves /\ UNCHANGED disk

-----------------------------------------------------------------------------
(* scheduleAgentRun *)

FreeSlots(a) == {s \in Slots : worker[<<a, s>>].pc = "none"}

(* go a.runScheduledAgentQueue(key) *)
Spawn(a) ==
  /\ FreeSlots(a) # {}
  /\ worker' = [worker EXCEPT ![<<a, CHOOSE s \in FreeSlots(a) : TRUE>>] = AtLoop]

Serving == phase \in {"ready", "up"}

ScheduleRun(j) ==
  /\ Serving
  /\ caller[j].pc = "new"
  /\ Enqueue(j)
  /\ caller' = [caller EXCEPT ![j] = [pc |-> "saving", start |-> StartsWorker(j)]]
  /\ UNCHANGED <<phase, worker, deleter, save, disk, acted>>

ScheduleRefused(j) ==
  /\ Serving
  /\ caller[j].pc = "new"
  /\ ~ Admissible(j)
  /\ caller' = [caller EXCEPT ![j].pc = "rejected"]
  /\ UNCHANGED <<queueVars, phase, worker, deleter, save, disk, acted>>

AcceptRun(j) ==
  /\ caller[j].pc = "saving"
  /\ EndSave(CallerOf(j), "enqueue", TRUE)
  /\ IF caller[j].start THEN Spawn(AgentOf[j]) ELSE UNCHANGED worker
  /\ caller' = [caller EXCEPT ![j] = [pc |-> "accepted", start |-> FALSE]]
  /\ UNCHANGED <<queueVars, phase, deleter, acted>>

(* Slip: the error of the save is only logged, as it is at the other saves. *)
EnqueueSaveIgnored(j) ==
  /\ caller[j].pc = "saving"
  /\ EndSave(CallerOf(j), "enqueue", FALSE)
  /\ IF caller[j].start THEN Spawn(AgentOf[j]) ELSE UNCHANGED worker
  /\ caller' = [caller EXCEPT ![j] = [pc |-> "accepted", start |-> FALSE]]
  /\ UNCHANGED <<queueVars, phase, deleter, acted>>

EnqueueSaveFails(j) ==
  /\ caller[j].pc = "saving"
  /\ EndSave(CallerOf(j), "enqueue", FALSE)
  /\ caller' = [caller EXCEPT ![j].pc = "rollback"]
  /\ UNCHANGED <<queueVars, phase, worker, deleter, acted>>

RefusedAs(j) ==
  CASE jobs[j].status = "running"                -> "undone"
    [] jobs[j].status \in {"failed", "cancelled"} -> "unkeyed"
    [] OTHER                                     -> "rejected"

RollbackRun(j) ==
  /\ caller[j].pc = "rollback"
  /\ RollbackEnqueue(j, caller[j].start)
  /\ IF caller[j].start /\ Present(j) /\ queues'[AgentOf[j]] # <<>>
     THEN Spawn(AgentOf[j]) ELSE UNCHANGED worker
  /\ caller' = [caller EXCEPT ![j] = [pc |-> RefusedAs(j), start |-> FALSE]]
  /\ UNCHANGED <<phase, deleter, save, disk, acted>>

-----------------------------------------------------------------------------
(* SchedulerWorker.Run.  w = <<agent, slot>>. *)

ClaimJob(w, j) ==
  /\ worker[w].pc = "loop"
  /\ Claim(w[1], j)
  /\ worker' = [worker EXCEPT ![w] = [pc |-> "claimed", job |-> j, effects |-> FALSE]]
  /\ UNCHANGED <<phase, caller, deleter, save, disk, acted>>

WorkerReturns(w) ==
  /\ worker[w].pc = "loop"
  /\ ClaimNothing(w[1])
  /\ worker' = [worker EXCEPT ![w] = NoWorker]
  /\ UNCHANGED <<phase, caller, deleter, save, disk, acted>>

(* The Claimed hook: a failed save is only logged. *)
ClaimSaved(w, ok) ==
  /\ worker[w].pc = "claimed"
  /\ EndSave(WorkerOf(w), "claim", ok)
  /\ worker' = [worker EXCEPT ![w].pc = "waiting"]
  /\ UNCHANGED <<queueVars, phase, caller, deleter, acted>>

(* Begin succeeded, the run context is bound and not yet cancelled. *)
StartRun(w) ==
  /\ worker[w].pc = "waiting"
  /\ worker' = [worker EXCEPT ![w].pc = "executing"]
  /\ UNCHANGED <<queueVars, phase, caller, deleter, save, disk, acted>>

CompleteJob(w, outcome) ==
  /\ Complete(worker[w].job, outcome)
  /\ worker' = [worker EXCEPT ![w] =
                  IF Present(worker[w].job) THEN [AtLoop EXCEPT !.pc = "completed"] ELSE AtLoop]
  /\ UNCHANGED <<phase, caller, deleter, save, disk, acted>>

(* The agent stayed busy until the start deadline, the run vanished before  *)
(* Bind, or its context was cancelled before Execute.                       *)
StartFails(w, outcome) ==
  /\ worker[w].pc = "waiting"
  /\ outcome \in {"failed", "cancelled"}
  /\ CompleteJob(w, outcome)

FinishRun(w, outcome) ==
  /\ worker[w].pc = "executing"
  /\ CompleteJob(w, outcome)

(* handleScheduledRunCompletion: a failed save is only logged. *)
CompletionSaved(w, ok) ==
  /\ worker[w].pc = "completed"
  /\ EndSave(WorkerOf(w), "completion", ok)
  /\ worker' = [worker EXCEPT ![w] = AtLoop]
  /\ UNCHANGED <<queueVars, phase, caller, deleter, acted>>

(* The run performs an effect. *)
Act(w) ==
  /\ worker' = [worker EXCEPT ![w].pc = "executing", ![w].effects = TRUE]
  /\ acted' = acted \cup {worker[w].job}

(* Slip: a job that is already marked in memory is not saved again. *)
MarkEffectsOnce(w) ==
  /\ worker[w].pc = "executing"
  /\ MarkEffectsStarted(worker[w].job)
  /\ IF jobs[worker[w].job].effects
     THEN Act(w)
     ELSE worker' = [worker EXCEPT ![w].pc = "marking"] /\ UNCHANGED acted
  /\ UNCHANGED <<phase, caller, deleter, save, disk>>

(* markScheduledRunEffectsStarted, called by an executor or a tool right    *)
(* before an effect.  The mark is saved even when it was already set.  A    *)
(* job the table does not hold as running needs no mark: the call returns   *)
(* nil and the effect goes ahead.                                           *)
MarkEffects(w) ==
  /\ worker[w].pc = "executing"
  /\ MarkEffectsStarted(worker[w].job)
  /\ worker' = [worker EXCEPT ![w].pc = "marking"]
  /\ UNCHANGED <<phase, caller, deleter, save, disk, acted>>

EffectWithoutMark(w) ==
  /\ worker[w].pc = "executing"
  /\ ~ Markable(worker[w].job)
  /\ Act(w)
  /\ UNCHANGED <<queueVars, phase, caller, deleter, save, disk>>

EffectMarked(w) ==
  /\ worker[w].pc = "marking"
  /\ EndSave(WorkerOf(w), "effects", TRUE)
  /\ Act(w)
  /\ UNCHANGED <<queueVars, phase, caller, deleter>>

(* The save failed: the effect is not performed, the run goes on or ends. *)
EffectRefused(w) ==
  /\ worker[w].pc = "marking"
  /\ EndSave(WorkerOf(w), "effects", FALSE)
  /\ worker' = [worker EXCEPT ![w].pc = "executing"]
  /\ UNCHANGED <<queueVars, phase, caller, deleter, acted>>

-----------------------------------------------------------------------------
(* deleteProjectAgent, up to its save; the fence backgroundOwnerDeleting    *)
(* admits one deletion of an agent at a time.                               *)
DeleteAgent(a) ==
  /\ phase = "up"
  /\ a \in Deletable
  /\ deleter[a] = "idle"
  /\ CancelAgent(a)
  /\ deleter' = [deleter EXCEPT ![a] = "saving"]
  /\ UNCHANGED <<phase, caller, worker, save, disk, acted>>

DeletionSaved(a, ok) ==
  /\ deleter[a] = "saving"
  /\ EndSave(DeleterOf(a), "deletion", ok)
  /\ deleter' = [deleter EXCEPT ![a] = "idle"]
  /\ UNCHANGED <<queueVars, phase, caller, worker, acted>>

-----------------------------------------------------------------------------
(* The process dies at any point: everything but the file is gone, and a    *)
(* call of scheduleAgentRun that had not returned never does.               *)
Halt ==
  /\ phase' = "down"
  /\ queues' = EmptyQueues
  /\ jobs' = NoTable
  /\ active' = {}
  /\ dedup' = {}
  /\ completedMonitorFires' = {}
  /\ monitorFirePendingRemoved' = {}
  /\ caller' = [j \in Jobs |->
                  IF caller[j].pc \in {"saving", "rollback"}
                  THEN [pc |-> "lost", start |-> FALSE] ELSE caller[j]]
  /\ worker' = [w \in Workers |-> NoWorker]
  /\ deleter' = [a \in Agents |-> "idle"]
  /\ save' = NoSave
  /\ UNCHANGED <<disk, acted>>

Crash == phase # "down" /\ Halt

(* bootstrap: loadScheduledRuns, with a save when Recover normalized. *)
Load ==
  /\ phase = "down"
  /\ Recover(disk.jobs, disk.completed, disk.pendingRemoved)
  /\ phase' = IF Normalized(disk.jobs) THEN "loading" ELSE "ready"
  /\ UNCHANGED <<caller, worker, deleter, save, disk, acted>>

LoadSaved ==
  /\ phase = "loading"
  /\ EndSave(Loader, "startup", TRUE)
  /\ phase' = "ready"
  /\ UNCHANGED <<queueVars, caller, worker, deleter, acted>>

(* log.Fatalf("bootstrap: %v", err) *)
LoadSaveFails ==
  /\ phase = "loading"
  /\ save.by = Loader /\ save.read = 2
  /\ "startup" \in FailingSaves
  /\ Halt

(* resumeScheduledRuns: every agent with recovered jobs gets a worker. *)
ResumeScheduledRuns ==
  /\ phase = "ready"
  /\ phase' = "up"
  /\ ResumeKeys
  /\ \A a \in KeysToResume : FreeSlots(a) # {}
  /\ worker' = [w \in Workers |->
                  IF w[1] \in KeysToResume /\ w[2] = CHOOSE s \in FreeSlots(w[1]) : TRUE
                  THEN AtLoop ELSE worker[w]]
  /\ UNCHANGED <<caller, deleter, save, disk, acted>>

-----------------------------------------------------------------------------
CallerStep(j) ==
  \/ ScheduleRun(j) \/ ScheduleRefused(j)
  \/ AcceptRun(j) \/ EnqueueSaveFails(j) \/ RollbackRun(j)

WorkerStep(w) ==
  \/ \E j \in Jobs : ClaimJob(w, j)
  \/ WorkerReturns(w)
  \/ \E ok \in BOOLEAN : ClaimSaved(w, ok) \/ CompletionSaved(w, ok)
  \/ StartRun(w)
  \/ \E outcome \in Outcomes : StartFails(w, outcome) \/ FinishRun(w, outcome)
  \/ MarkEffects(w) \/ EffectWithoutMark(w) \/ EffectMarked(w) \/ EffectRefused(w)

DeleterStep(a) ==
  DeleteAgent(a) \/ \E ok \in BOOLEAN : DeletionSaved(a, ok)

SaveStep == ReadCompletedFires \/ \E p \in Processes : BeginSave(p)

StartupStep == Load \/ LoadSaved \/ LoadSaveFails \/ ResumeScheduledRuns

Next ==
  \/ \E j \in Jobs : CallerStep(j)
  \/ \E w \in Workers : WorkerStep(w)
  \/ \E a \in Agents : DeleterStep(a)
  \/ SaveStep
  \/ StartupStep
  \/ Crash

Spec == Init /\ [][Next]_vars

(* Goroutines are scheduled and locks are granted eventually (sync.Mutex    *)
(* turns to FIFO hand-off under contention); a run ends because its context *)
(* has a deadline, however often it marks effects before that, and the      *)
(* wait for a busy agent has one too.  Nothing is assumed of callers,       *)
(* deletions, effects or crashes.                                           *)
Fairness ==
  /\ WF_vars(Load) /\ WF_vars(LoadSaved \/ LoadSaveFails) /\ WF_vars(ResumeScheduledRuns)
  /\ WF_vars(ReadCompletedFires)
  /\ \A p \in Processes : SF_vars(BeginSave(p))
  /\ \A j \in Jobs : WF_vars(AcceptRun(j) \/ EnqueueSaveFails(j) \/ RollbackRun(j))
  /\ \A a \in Agents : WF_vars(\E ok \in BOOLEAN : DeletionSaved(a, ok))
  /\ \A w \in Workers :
       /\ WF_vars((\E j \in Jobs : ClaimJob(w, j)) \/ WorkerReturns(w))
       /\ WF_vars(\E ok \in BOOLEAN : ClaimSaved(w, ok) \/ CompletionSaved(w, ok))
       /\ WF_vars(EffectMarked(w) \/ EffectRefused(w))
       /\ WF_vars(StartRun(w) \/ \E outcome \in Outcomes : StartFails(w, outcome))
       /\ SF_vars(\E outcome \in Outcomes : FinishRun(w, outcome))

FairSpec == Spec /\ Fairness

-----------------------------------------------------------------------------
(* Properties *)

(* Who must drain an agent's queue: a worker goroutine of the agent, or a   *)
(* caller that Enqueue told to start one and that has not done so yet.      *)
Owners(a) ==
  {WorkerOf(w) : w \in {v \in Workers : v[1] = a /\ worker[v].pc # "none"}} \cup
  {CallerOf(j) : j \in {i \in Jobs : AgentOf[i] = a /\ caller[i].start}}

(* An agent never has two workers (its runs are serial), and the active     *)
(* flag is set exactly while someone is going to drain the queue: Claim's   *)
(* last look, Enqueue and RollbackEnqueue hand the duty over without a gap. *)
SingleOwner ==
  \A a \in Agents :
    /\ \A x, y \in Owners(a) : x = y
    /\ a \in active <=> Owners(a) # {}

(* No lost wake-up: once the server is up, a queue with a job in it has an  *)
(* owner.                                                                   *)
NoStrandedQueue ==
  phase = "up" => \A a \in Agents : queues[a] # <<>> => Owners(a) # {}

(* Every queue is drained by one worker, and by nobody only when it is      *)
(* empty: no interleaving of Claim's last look with Enqueue or with a       *)
(* rollback doubles the duty or loses it.                                   *)
QueuesAreServed == SingleOwner /\ NoStrandedQueue

(* The keys that RollbackEnqueue released for a run that was settled and    *)
(* did not hold its key any more: from then on the index may lack them.     *)
Astray == UNION {KeysOf(j) : j \in {i \in Jobs : caller[i].pc = "unkeyed"}}

(* Two live jobs never share a dedup key, and the dedup index holds exactly *)
(* the keys of live jobs: a key that leaked would mute its source for good, *)
(* one that was missing would let the same event run twice. No key ever     *)
(* leaks; one is missing or shared only when it went astray.                *)
DedupIsExact ==
  /\ dedup \subseteq UNION {KeysOf(j) : j \in Live(jobs)}
  /\ \A j \in Live(jobs) : KeysOf(j) \subseteq dedup \cup Astray
  /\ \A i, j \in Live(jobs) : i # j => KeysOf(i) \cap KeysOf(j) \subseteq Astray

(* A run that scheduleAgentRun accepted survives a crash at any moment: as  *)
(* long as it is queued or running in memory, the file has it queued or     *)
(* running too, whatever saves overlapped.                                  *)
AcceptedRunsAreDurable ==
  \A j \in Live(jobs) :
    caller[j].pc \notin {"saving", "rollback"} => j \in Live(disk.jobs)

(* Taken back while a worker was running it.                                *)
Undone(j) == j \in Jobs /\ caller[j].pc = "undone"

(* markScheduledRunEffectsStarted: "no effect may proceed until this call   *)
(* has successfully re-confirmed the marker on disk".  While a run that has *)
(* performed an effect is still executing, the file says so, unless its     *)
(* admission was taken back under the worker.                               *)
EffectsAreDurable ==
  \A w \in Workers :
    worker[w].pc \in {"executing", "marking"} /\ worker[w].effects /\ ~ Undone(worker[w].job)
      => disk.jobs[worker[w].job].status = "running" /\ disk.jobs[worker[w].job].effects

(* A run whose effects have started is never executed a second time, not by *)
(* a retry, not after a crash, not after saves that failed; one that was    *)
(* taken back while it was running escapes the table, and so the rule.      *)
EffectsAreNeverRepeated ==
  \A w \in Workers :
    \/ Undone(worker[w].job)
    \/ /\ worker[w].pc \in {"claimed", "waiting"} => worker[w].job \notin acted
       /\ worker[w].pc \in {"executing", "marking"} /\ worker[w].job \in acted => worker[w].effects

(* Run i of an agent is served before run j: it executes, or is queued      *)
(* nearer to the front.                                                     *)
Precedes(i, j) ==
  LET queue == queues[AgentOf[i]] IN
  /\ AgentOf[i] = AgentOf[j] /\ jobs[j].status = "queued"
  /\ \/ jobs[i].status = "running"
     \/ \E m, n \in DOMAIN queue : m < n /\ queue[m] = i /\ queue[n] = j

(* Runs are served in arrival order: while the server is up, nothing comes  *)
(* in front of a run that is queued or executing, and two runs never change *)
(* places, though others are retried (Complete puts a retry at the front    *)
(* for that) or taken back in between. A restart sorts anew by CreatedAt.   *)
ServedInArrivalOrder ==
  [][phase # "down" =>
       \A i \in Live(jobs) \cap Live(jobs'), j \in Live(jobs') :
         /\ j \in Live(jobs) /\ Precedes(i, j) => Precedes(i, j)'
         /\ j \notin Live(jobs) /\ AgentOf[i] = AgentOf[j] => Precedes(i, j)']_vars

(* Every run that is in the table is eventually out of it or settled, if    *)
(* the process stays up.                                                    *)
RunsSettle == <>[](phase = "up") => \A j \in Jobs : []<>(j \notin Live(jobs))

=============================================================================
