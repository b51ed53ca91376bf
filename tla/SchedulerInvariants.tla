------------------------- MODULE SchedulerInvariants -------------------------
(***************************************************************************)
(* The inductive invariant behind the safety theorems about Scheduler.     *)
(* SingleOwner and NoStrandedQueue are not inductive on their own: that a  *)
(* step of one goroutine cannot spoil them depends on what the queues list *)
(* (QueueShape), on what a worker holds (Holding), and on how far the      *)
(* calls of scheduleAgentRun have come (CallerShape).                      *)
(***************************************************************************)
EXTENDS Scheduler

(* A live or cancelled job has an attempt left, in memory and on disk.      *)
AttemptLeft(table) ==
  \A j \in Jobs : table[j].status \in {"queued", "running", "cancelled"}
                    => table[j].attempt < MaxAttempts

Attempts == AttemptLeft(jobs) /\ AttemptLeft(save.jobs) /\ AttemptLeft(disk.jobs)

(* A queue lists queued jobs of its own agent, none of them twice.          *)
QueueShape ==
  \A a \in Agents : \A m \in 1..Len(queues[a]) :
    /\ AgentOf[queues[a][m]] = a
    /\ jobs[queues[a][m]].status = "queued"
    /\ \A n \in 1..Len(queues[a]) : queues[a][m] = queues[a][n] => m = n

(* A worker between Claim and Complete holds a job of its agent, which is   *)
(* running unless a rollback took it out of the table.                      *)
Holding ==
  \A w \in Workers :
    /\ worker[w].pc \in {"none", "loop", "completed"} <=> worker[w].job = NoJob
    /\ worker[w].job \in Jobs =>
         /\ AgentOf[worker[w].job] = w[1]
         /\ jobs[worker[w].job].status \in {"running", "absent"}
         /\ caller[worker[w].job].pc # "new"

(* A job nobody has scheduled is nowhere; a caller that is to start the     *)
(* worker still has its job in the table, unclaimed.                        *)
CallerShape ==
  \A j \in Jobs :
    /\ caller[j].pc = "new" =>
         jobs[j].status = "absent" /\ save.jobs[j].status = "absent"
           /\ disk.jobs[j].status = "absent"
    /\ caller[j].start =>
         caller[j].pc \in {"saving", "rollback"} /\ jobs[j].status \in {"queued", "cancelled"}

(* Before the queue is loaded nothing runs.                                 *)
PhaseShape ==
  phase \notin {"ready", "up"} =>
    /\ active = {}
    /\ \A w \in Workers : worker[w] = NoWorker
    /\ \A j \in Jobs : ~ caller[j].start

IInv ==
  /\ TypeOK
  /\ Attempts
  /\ QueueShape
  /\ Holding
  /\ CallerShape
  /\ PhaseShape
  /\ SingleOwner
  /\ NoStrandedQueue

(* Nothing is forgotten: a queued job is in its agent's queue, and a running *)
(* one is held by a worker.                                                 *)
Listed(q, j) == \E m \in DOMAIN q : q[m] = j

ListShape ==
  \A j \in Jobs :
    /\ jobs[j].status = "queued" => Listed(queues[AgentOf[j]], j)
    /\ jobs[j].status = "running" => \E w \in Workers : worker[w].job = j

-----------------------------------------------------------------------------
(* Who is saving is at a save, and nobody is while the process is down.     *)
SaverShape ==
  /\ \A j \in Jobs : save.by = CallerOf(j) => caller[j].pc = "saving"
  /\ \A w \in Workers :
       save.by = WorkerOf(w) => worker[w].pc \in {"claimed", "marking", "completed"}
  /\ phase = "down" =>
       /\ save.by = Nobody
       /\ \A j \in Jobs : caller[j].pc \notin {"saving", "rollback"}
       /\ \A a \in Agents : deleter[a] = "idle"

(* What an accepted run leaves on disk: a run that is live was live when    *)
(* the save in progress was begun, so that no save can lose it.             *)
AcceptedShape ==
  \A j \in Live(jobs) :
    /\ caller[j].pc \notin {"saving", "rollback"} =>
         j \in Live(disk.jobs) /\ (save.by # Nobody => j \in Live(save.jobs))
    /\ save.by = CallerOf(j) => j \in Live(save.jobs)

(* A worker's job is in the table, running, unless it was taken back.       *)
HeldIsRunning ==
  \A w \in Workers :
    worker[w].job \in Jobs /\ ~ Undone(worker[w].job) => jobs[worker[w].job].status = "running"

Marked(r) == r.status = "running" /\ r.effects

(* A record by which a job is not executed again.                           *)
Spent(r) == r.status \in {"queued", "running"} => Marked(r)

(* A job that has acted is spent in memory, in the save and on disk.        *)
ActedShape ==
  \A j \in acted :
    /\ caller[j].pc # "new"
    /\ Undone(j) \/ (Spent(jobs[j]) /\ Spent(save.jobs[j]) /\ Spent(disk.jobs[j]))

(* How far a worker's mark has come.                                        *)
WorkerMarks(w) ==
  LET j == worker[w].job
      begun == worker[w].pc \in {"executing", "marking"}
  IN
  \/ Undone(j)
  \/ /\ worker[w].pc \in {"claimed", "waiting"} => j \notin acted /\ ~ worker[w].effects
     /\ worker[w].pc = "marking" =>
          jobs[j].effects /\ (save.by = WorkerOf(w) => Marked(save.jobs[j]))
     /\ begun /\ j \in acted => worker[w].effects
     /\ begun /\ worker[w].effects =>
          jobs[j].effects /\ Marked(disk.jobs[j]) /\ (save.by # Nobody => Marked(save.jobs[j]))

EffectShape == HeldIsRunning /\ ActedShape /\ \A w \in Workers : WorkerMarks(w)

(* Dedup keys are apart in the file too, from which the index is rebuilt.   *)
KeysApart(table) ==
  \A i, j \in Live(table) : i # j => KeysOf(i) \cap KeysOf(j) \subseteq Astray
KeyShape == DedupIsExact /\ KeysApart(save.jobs) /\ KeysApart(disk.jobs)

=============================================================================
