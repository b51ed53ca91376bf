--------------------------- MODULE SchedulerQueue ---------------------------
(***************************************************************************)
(* The in-memory queue of scheduled runs, internal/runtime/scheduler_queue *)
(* .go.  One FIFO of job IDs per agent, the table of jobs, the set of      *)
(* agents that have a worker goroutine ("active"), the dedup index, and    *)
(* the two proof sets that make the admission of a monitor fire            *)
(* idempotent.  Every operation of the Go type holds queue.mu from its     *)
(* first line to its last, so every operation is one action here.  The     *)
(* module has no Next of its own: Scheduler composes these actions with    *)
(* the callers, the worker goroutines, the snapshot file and crashes.      *)
(***************************************************************************)
EXTENDS Integers, SequencesExt

CONSTANTS Jobs,         \* identities of scheduled runs (ScheduledRun.ID)
          Agents,       \* queue keys, AgentKey(projectID, agentID)
          DedupKeys,    \* the non-empty values of ScheduledRun.DedupKey
          NoKey,        \* a job without a dedup key (DedupKey = "")
          AgentOf,      \* [Jobs -> Agents]
          KindOf,       \* [Jobs -> Kinds]
          DedupOf,      \* [Jobs -> DedupKeys \cup {NoKey}]
          Created,      \* [Jobs -> Nat], CreatedAt with ties broken by ID
          MaxAttempts   \* ScheduledRun.MaxAttempts, 3 unless the caller says

Kinds == {"handoff", "task_event", "plan_event", "idle_reconcile", "monitor_event"}

ASSUME QueueAssumption ==
  /\ IsFiniteSet(Jobs)
  /\ AgentOf \in [Jobs -> Agents]
  /\ KindOf \in [Jobs -> Kinds]
  /\ DedupOf \in [Jobs -> DedupKeys \cup {NoKey}]
  /\ NoKey \notin DedupKeys
  /\ Created \in [Jobs -> Nat]
  /\ \A i, j \in Jobs : Created[i] = Created[j] => i = j
  /\ MaxAttempts \in Nat \ {0}

VARIABLES queues,                    \* [Agents -> Seq(Jobs)]
          jobs,                      \* [Jobs -> JobRecord], "absent" when not in the table
          active,                    \* agents whose worker flag is set
          dedup,                     \* dedup keys of the jobs that hold one
          completedMonitorFires,     \* keys of monitor fires that succeeded
          monitorFirePendingRemoved  \* keys whose fire left monitors.json while a job existed

queueVars == <<queues, jobs, active, dedup, completedMonitorFires, monitorFirePendingRemoved>>

JobStatus == {"absent", "queued", "running", "failed", "cancelled"}
JobRecord == [status : JobStatus, attempt : 0..MaxAttempts, effects : BOOLEAN]
JobTable  == [Jobs -> JobRecord]

Absent == [status |-> "absent", attempt |-> 0, effects |-> FALSE]
Fresh  == [status |-> "queued", attempt |-> 0, effects |-> FALSE]

Present(j) == jobs[j].status # "absent"
Live(table) == {j \in Jobs : table[j].status \in {"queued", "running"}}

(* The dedup keys a job holds: none when DedupKey is empty. *)
KeysOf(j) == {DedupOf[j]} \ {NoKey}

QueueTypeOK ==
  /\ queues \in [Agents -> Seq(Jobs)]
  /\ jobs \in JobTable
  /\ active \subseteq Agents
  /\ dedup \subseteq DedupKeys
  /\ completedMonitorFires \subseteq DedupKeys
  /\ monitorFirePendingRemoved \subseteq DedupKeys

EmptyQueues == [a \in Agents |-> <<>>]

QueueInit ==
  /\ queues = EmptyQueues
  /\ jobs = [j \in Jobs |-> Absent]
  /\ active = {}
  /\ dedup = {}
  /\ completedMonitorFires = {}
  /\ monitorFirePendingRemoved = {}

-----------------------------------------------------------------------------
(* Enqueue.  Refused while the dedup key is held by a live job or proved    *)
(* complete, and while the ID is in the table; otherwise the caller is told *)
(* to start a worker when the agent has none.                               *)
Admissible(j) ==
  /\ KeysOf(j) \cap (dedup \cup completedMonitorFires) = {}
  /\ ~ Present(j)

StartsWorker(j) == AgentOf[j] \notin active

Enqueue(j) ==
  /\ Admissible(j)
  /\ dedup' = dedup \cup KeysOf(j)
  /\ jobs' = [jobs EXCEPT ![j] = Fresh]
  /\ queues' = [queues EXCEPT ![AgentOf[j]] = Append(@, j)]
  /\ active' = active \cup {AgentOf[j]}
  /\ UNCHANGED <<completedMonitorFires, monitorFirePendingRemoved>>

(* RollbackEnqueue, after the snapshot of an accepted job could not be      *)
(* saved.  The first occurrence of the ID leaves the queue; the caller that *)
(* was to start the worker keeps that duty when other jobs arrived in the   *)
(* meantime and gives up the active flag otherwise.                         *)
WithoutFirst(q, j) ==
  LET first == {i \in 1..Len(q) : q[i] = j /\ \A m \in 1..(i - 1) : q[m] # j}
  IN  IF first = {} THEN {q} ELSE {RemoveAt(q, i) : i \in first}

(* Slip: the caller gives up the worker flag whatever else is queued. *)
RollbackAlwaysYielding(j, startedWorker) ==
  LET a == AgentOf[j] IN
  IF Present(j)
  THEN /\ jobs' = [jobs EXCEPT ![j] = Absent]
       /\ dedup' = dedup \ KeysOf(j)
       /\ \E q \in WithoutFirst(queues[a], j) : queues' = [queues EXCEPT ![a] = q]
       /\ active' = IF startedWorker THEN active \ {a} ELSE active
       /\ UNCHANGED <<completedMonitorFires, monitorFirePendingRemoved>>
  ELSE UNCHANGED queueVars

RollbackEnqueue(j, startedWorker) ==
  LET a == AgentOf[j] IN
  IF Present(j)
  THEN /\ jobs' = [jobs EXCEPT ![j] = Absent]
       /\ dedup' = dedup \ KeysOf(j)
       /\ \E q \in WithoutFirst(queues[a], j) :
            /\ queues' = [queues EXCEPT ![a] = q]
            /\ active' = IF ~ startedWorker THEN active
                         ELSE IF q = <<>> THEN active \ {a}
                         ELSE active \cup {a}
       /\ UNCHANGED <<completedMonitorFires, monitorFirePendingRemoved>>
  ELSE UNCHANGED queueVars

(* Claim.  IDs that are no longer queued are dropped on the way to the      *)
(* first one that is; without one the queue and the worker flag go away,    *)
(* and the worker returns.                                                  *)
Runnable(a) ==
  {i \in 1..Len(queues[a]) :
     /\ jobs[queues[a][i]].status = "queued"
     /\ \A m \in 1..(i - 1) : jobs[queues[a][m]].status # "queued"}

Claim(a, j) ==
  \E i \in Runnable(a) :
    /\ j = queues[a][i]
    /\ queues' = [queues EXCEPT ![a] = SubSeq(@, i + 1, Len(@))]
    /\ jobs' = [jobs EXCEPT ![j].status = "running"]
    /\ UNCHANGED <<active, dedup, completedMonitorFires, monitorFirePendingRemoved>>

ClaimNothing(a) ==
  /\ Runnable(a) = {}
  /\ queues' = [queues EXCEPT ![a] = <<>>]
  /\ active' = active \ {a}
  /\ UNCHANGED <<jobs, dedup, completedMonitorFires, monitorFirePendingRemoved>>

-----------------------------------------------------------------------------
(* Complete, by outcome.  The job's present status is not examined.         *)

(* A monitor fire that succeeded is remembered, so that a second admission  *)
(* of the same fire is refused, unless the fire already left monitors.json. *)
CompleteSucceeded(j) ==
  /\ jobs' = [jobs EXCEPT ![j] = Absent]
  /\ dedup' = dedup \ KeysOf(j)
  /\ completedMonitorFires' =
       IF KindOf[j] = "monitor_event"
       THEN completedMonitorFires \cup (KeysOf(j) \ monitorFirePendingRemoved)
       ELSE completedMonitorFires
  /\ monitorFirePendingRemoved' = monitorFirePendingRemoved \ KeysOf(j)
  /\ UNCHANGED <<queues, active>>

CompleteCancelled(j) ==
  /\ jobs' = [jobs EXCEPT ![j].status = "cancelled"]
  /\ dedup' = dedup \ KeysOf(j)
  /\ UNCHANGED <<queues, active, completedMonitorFires, monitorFirePendingRemoved>>

(* A failure before any effect is retried at the FRONT of the agent's       *)
(* queue while attempts last; a failure after an effect never is.           *)
(* Slip: a retry although an effect has started. *)
RetryDespiteEffects(j) == jobs[j].attempt + 1 < MaxAttempts

MayRetry(j) == jobs[j].attempt + 1 < MaxAttempts /\ ~ jobs[j].effects

(* Slips: the dedup key is released before the retry is decided; the retry  *)
(* goes to the back of the queue; it is not queued at all.                  *)
ReleaseThenRetry(j) ==
  /\ jobs' = [jobs EXCEPT ![j].status = IF MayRetry(j) THEN "queued" ELSE "failed",
                          ![j].attempt = @ + 1]
  /\ queues' = IF MayRetry(j) THEN [queues EXCEPT ![AgentOf[j]] = <<j>> \o @] ELSE queues
  /\ dedup' = dedup \ KeysOf(j)
  /\ UNCHANGED <<active, completedMonitorFires, monitorFirePendingRemoved>>
RetryAtBack(j) ==
  /\ jobs' = [jobs EXCEPT ![j].status = IF MayRetry(j) THEN "queued" ELSE "failed",
                          ![j].attempt = @ + 1]
  /\ queues' = IF MayRetry(j) THEN [queues EXCEPT ![AgentOf[j]] = Append(@, j)] ELSE queues
  /\ dedup' = IF MayRetry(j) THEN dedup ELSE dedup \ KeysOf(j)
  /\ UNCHANGED <<active, completedMonitorFires, monitorFirePendingRemoved>>
RetryUnlisted(j) ==
  /\ jobs' = [jobs EXCEPT ![j].status = IF MayRetry(j) THEN "queued" ELSE "failed",
                          ![j].attempt = @ + 1]
  /\ dedup' = IF MayRetry(j) THEN dedup ELSE dedup \ KeysOf(j)
  /\ UNCHANGED <<queues, active, completedMonitorFires, monitorFirePendingRemoved>>

CompleteFailed(j) ==
  /\ IF MayRetry(j)
     THEN /\ jobs' = [jobs EXCEPT ![j].status = "queued", ![j].attempt = @ + 1]
          /\ queues' = [queues EXCEPT ![AgentOf[j]] = <<j>> \o @]
          /\ UNCHANGED dedup
     ELSE /\ jobs' = [jobs EXCEPT ![j].status = "failed", ![j].attempt = @ + 1]
          /\ dedup' = dedup \ KeysOf(j)
          /\ UNCHANGED queues
  /\ UNCHANGED <<active, completedMonitorFires, monitorFirePendingRemoved>>

Outcomes == {"succeeded", "cancelled", "failed"}

Complete(j, outcome) ==
  \/ ~ Present(j) /\ UNCHANGED queueVars
  \/ Present(j) /\ outcome = "succeeded" /\ CompleteSucceeded(j)
  \/ Present(j) /\ outcome = "cancelled" /\ CompleteCancelled(j)
  \/ Present(j) /\ outcome = "failed" /\ CompleteFailed(j)

-----------------------------------------------------------------------------
(* Recover, with RecoverCompletedMonitorFires and                           *)
(* RecoverPendingRemovalProofs, which loadScheduledRuns calls right after:  *)
(* a job that was running has spent an attempt; it is retried only when no  *)
(* effect had started; cancelled jobs are forgotten; the queues are rebuilt *)
(* in creation order and nobody owns a worker.                              *)
Exhausted(r) == r.attempt >= MaxAttempts

RecoveredRecord(r) ==
  LET spent == IF r.status = "running" THEN [r EXCEPT !.attempt = @ + 1] ELSE r IN
  CASE r.status \in {"absent", "cancelled"}        -> Absent
    [] r.status = "failed"                         -> r
    [] r.status = "running" /\ r.effects           -> [spent EXCEPT !.status = "failed"]
    [] r.status = "queued" \/ (r.status = "running" /\ ~ r.effects) ->
         [spent EXCEPT !.status = IF Exhausted(spent) THEN "failed" ELSE "queued"]

Recovered(table) == [j \in Jobs |-> RecoveredRecord(table[j])]

(* Recover reports Normalized when it changed anything but the order. *)
Normalized(table) == Recovered(table) # table

InCreationOrder(q) == \A m, n \in 1..Len(q) : m < n => Created[q[m]] < Created[q[n]]

(* The listings of a set of jobs by CreatedAt: exactly one. *)
Listings(S) == {q \in [1..Cardinality(S) -> S] : InCreationOrder(q)}
OrderedQueues == UNION {Listings(S) : S \in SUBSET Jobs}

Recover(table, completed, pendingRemoved) ==
  /\ jobs' = Recovered(table)
  /\ \E Q \in [Agents -> OrderedQueues] :
       /\ \A a \in Agents :
            Q[a] \in Listings({j \in Jobs : AgentOf[j] = a /\ jobs'[j].status = "queued"})
       /\ queues' = Q
  /\ dedup' = UNION {KeysOf(j) : j \in {i \in Jobs : jobs'[i].status = "queued"}}
  /\ active' = {}
  /\ completedMonitorFires' = completed
  /\ monitorFirePendingRemoved' = pendingRemoved

(* ResumeKeys: the agents that have jobs and no worker get the flag. *)
KeysToResume == {a \in Agents : queues[a] # <<>> /\ a \notin active}

ResumeKeys ==
  /\ active' = active \cup KeysToResume
  /\ UNCHANGED <<queues, jobs, dedup, completedMonitorFires, monitorFirePendingRemoved>>

(* MarkEffectsStarted: only a running job in the table can be marked. *)
Markable(j) == jobs[j].status = "running"

MarkEffectsStarted(j) ==
  /\ Markable(j)
  /\ jobs' = [jobs EXCEPT ![j].effects = TRUE]
  /\ UNCHANGED <<queues, active, dedup, completedMonitorFires, monitorFirePendingRemoved>>

(* CancelAgent: every job still in the agent's queue is cancelled.  A job   *)
(* the worker holds, and the worker flag, are left alone.                   *)
CancelAgent(a) ==
  LET waiting == {j \in Jobs : Present(j) /\ \E i \in 1..Len(queues[a]) : queues[a][i] = j} IN
  /\ jobs' = [j \in Jobs |-> IF j \in waiting THEN [jobs[j] EXCEPT !.status = "cancelled"]
                                              ELSE jobs[j]]
  /\ dedup' = dedup \ UNION {KeysOf(j) : j \in waiting}
  /\ queues' = [queues EXCEPT ![a] = <<>>]
  /\ UNCHANGED <<active, completedMonitorFires, monitorFirePendingRemoved>>

(* ConfirmMonitorFirePendingRemoval: the fire is gone from monitors.json,   *)
(* so its proof is no longer needed; while a job for it exists, note that   *)
(* its success need not be remembered.                                      *)
ConfirmMonitorFirePendingRemoval(k) ==
  /\ completedMonitorFires' = completedMonitorFires \ {k}
  /\ monitorFirePendingRemoved' =
       IF \E j \in Jobs : Present(j) /\ KindOf[j] = "monitor_event" /\ k \in KeysOf(j)
       THEN monitorFirePendingRemoved \cup {k}
       ELSE monitorFirePendingRemoved \ {k}
  /\ UNCHANGED <<queues, jobs, active, dedup>>

=============================================================================
