--------------------------- MODULE SchedulerProofs ---------------------------
(***************************************************************************)
(* Proofs about Scheduler for every set of jobs, agents and goroutines.    *)
(* The invariant is split so that each action disturbs few parts of it:    *)
(* Shape restates IInv without the sets of names in Owners (ShapeIsIInv),  *)
(* one lemma per action or group of actions shows that it is preserved     *)
(* (AcceptShape, ClaimShape, CompleteShape, ...), NextShape collects them, *)
(* and the theorems of the memory follow; then those of the file; and      *)
(* last the order of service (NextOrder).                                  *)
(***************************************************************************)
EXTENDS SchedulerInvariants, SequenceTheorems, FiniteSetTheorems, TLAPS

(* What Append does to a queue: one longer, the new job last.               *)
LEMMA AppendQueue ==
  ASSUME NEW S, NEW q \in Seq(S), NEW e \in S
  PROVE  /\ Append(q, e) \in Seq(S)
         /\ Len(Append(q, e)) = Len(q) + 1
         /\ \A i \in 1..Len(Append(q, e)) :
              Append(q, e)[i] = IF i = Len(q) + 1 THEN e ELSE q[i]
  BY AppendProperties

(* What putting a job in front of a queue (a retry) does to it.             *)
LEMMA ConsQueue ==
  ASSUME NEW S, NEW q \in Seq(S), NEW e \in S
  PROVE  /\ <<e>> \o q \in Seq(S)
         /\ Len(<<e>> \o q) = Len(q) + 1
         /\ \A i \in 1..Len(<<e>> \o q) :
              (<<e>> \o q)[i] = IF i = 1 THEN e ELSE q[i - 1]
  OBVIOUS

(* What is left of a queue when Claim has dropped its first jobs.           *)
LEMMA SubSeqQueue ==
  ASSUME NEW S, NEW q \in Seq(S), NEW i \in 1..Len(q)
  PROVE  /\ SubSeq(q, i + 1, Len(q)) \in Seq(S)
         /\ Len(SubSeq(q, i + 1, Len(q))) = Len(q) - i
         /\ \A n \in 1..Len(SubSeq(q, i + 1, Len(q))) :
              SubSeq(q, i + 1, Len(q))[n] = q[i + n]
  OBVIOUS

(* What is left of a queue when a rollback has taken out one job.           *)
LEMMA RemoveAtQueue ==
  ASSUME NEW S, NEW q \in Seq(S), NEW i \in 1..Len(q)
  PROVE  /\ RemoveAt(q, i) \in Seq(S)
         /\ Len(RemoveAt(q, i)) = Len(q) - 1
         /\ \A n \in 1..Len(RemoveAt(q, i)) :
              RemoveAt(q, i)[n] = IF n < i THEN q[n] ELSE q[n + 1]
<1>1. /\ SubSeq(q, 1, i - 1) \in Seq(S)
      /\ Len(SubSeq(q, 1, i - 1)) = i - 1
      /\ \A n \in 1..(i - 1) : SubSeq(q, 1, i - 1)[n] = q[n]
  OBVIOUS
<1>2. /\ SubSeq(q, i + 1, Len(q)) \in Seq(S)
      /\ Len(SubSeq(q, i + 1, Len(q))) = Len(q) - i
      /\ \A n \in 1..(Len(q) - i) : SubSeq(q, i + 1, Len(q))[n] = q[i + n]
  BY SubSeqQueue
<1> DEFINE front == SubSeq(q, 1, i - 1)
           back  == SubSeq(q, i + 1, Len(q))
<1>3. /\ front \o back \in Seq(S)
      /\ Len(front \o back) = Len(front) + Len(back)
      /\ \A n \in 1..Len(front \o back) :
           (front \o back)[n] = IF n <= Len(front) THEN front[n] ELSE back[n - Len(front)]
  <2> HIDE DEF front, back
  <2>1. front \in Seq(S) /\ back \in Seq(S)
    BY <1>1, <1>2 DEF front, back
  <2> QED
    BY <2>1, ConcatProperties
<1>4. RemoveAt(q, i) = front \o back
  BY DEF RemoveAt
<1> HIDE DEF front, back
<1>5. /\ Len(front) = i - 1 /\ \A n \in 1..(i - 1) : front[n] = q[n]
      /\ Len(back) = Len(q) - i /\ \A n \in 1..(Len(q) - i) : back[n] = q[i + n]
  BY <1>1, <1>2 DEF front, back
<1>6. Len(front \o back) = Len(q) - 1
  BY <1>3, <1>5
<1>7. ASSUME NEW n \in 1..Len(front \o back)
      PROVE  (front \o back)[n] = IF n < i THEN q[n] ELSE q[n + 1]
  <2>1. CASE n < i
    BY <2>1, <1>3, <1>5
  <2>2. CASE ~ (n < i)
    <3>1. n - (i - 1) \in 1..(Len(q) - i)
      BY <2>2, <1>6
    <3>2. back[n - (i - 1)] = q[i + (n - (i - 1))]
      BY <3>1, <1>5
    <3>3. i + (n - (i - 1)) = n + 1
      OBVIOUS
    <3>4. (front \o back)[n] = back[n - (i - 1)]
      BY <2>2, <1>3, <1>5
    <3> QED
      BY <2>2, <3>2, <3>3, <3>4
  <2> QED
    BY <2>1, <2>2
<1> QED
  BY <1>3, <1>4, <1>6, <1>7

-----------------------------------------------------------------------------
(* SingleOwner without process names: what the provers work with. *)

Busy(a, s) == worker[<<a, s>>].pc # "none"
Starting(a, j) == AgentOf[j] = a /\ caller[j].start

OnlyOne(a) ==
  /\ \A s, t \in Slots : Busy(a, s) /\ Busy(a, t) => s = t
  /\ \A i, j \in Jobs : Starting(a, i) /\ Starting(a, j) => i = j
  /\ \A s \in Slots, j \in Jobs : ~ (Busy(a, s) /\ Starting(a, j))

OwnerShape ==
  \A a \in Agents :
    /\ OnlyOne(a)
    /\ a \in active <=> (\E s \in Slots : Busy(a, s)) \/ (\E j \in Jobs : Starting(a, j))

(* Workers and callers are told apart by their names.                       *)
LEMMA ProcessNames ==
  /\ \A w, v : WorkerOf(w) = WorkerOf(v) => w = v
  /\ \A i, j : CallerOf(i) = CallerOf(j) => i = j
  /\ \A w, j : WorkerOf(w) # CallerOf(j)
  BY DEF WorkerOf, CallerOf

(* The owners of a queue are its busy goroutines and its starting callers.  *)
LEMMA OwnersOf ==
  ASSUME NEW a \in Agents
  PROVE  \A x : x \in Owners(a) <=>
           \/ \E s \in Slots : Busy(a, s) /\ x = WorkerOf(<<a, s>>)
           \/ \E j \in Jobs : Starting(a, j) /\ x = CallerOf(j)
<1> TAKE x
<1>1. x \in {WorkerOf(w) : w \in {v \in Workers : v[1] = a /\ worker[v].pc # "none"}}
        <=> \E w \in Workers : w[1] = a /\ worker[w].pc # "none" /\ x = WorkerOf(w)
  OBVIOUS
<1>2. (\E w \in Workers : w[1] = a /\ worker[w].pc # "none" /\ x = WorkerOf(w))
        <=> \E s \in Slots : Busy(a, s) /\ x = WorkerOf(<<a, s>>)
  <2>1. \A w \in Workers : w[1] = a => \E s \in Slots : w = <<a, s>>
    BY DEF Workers
  <2>2. \A s \in Slots : <<a, s>> \in Workers /\ <<a, s>>[1] = a
    BY DEF Workers
  <2> QED
    BY <2>1, <2>2 DEF Busy
<1>3. x \in {CallerOf(j) : j \in {i \in Jobs : AgentOf[i] = a /\ caller[i].start}}
        <=> \E j \in Jobs : Starting(a, j) /\ x = CallerOf(j)
  BY DEF Starting
<1> QED
  BY <1>1, <1>2, <1>3 DEF Owners

(* OnlyOne says, without a set of names, that there is one owner at most.   *)
LEMMA OnlyOneOwner ==
  ASSUME NEW a \in Agents
  PROVE  OnlyOne(a) <=> \A x, y \in Owners(a) : x = y
<1>1. \A s, t : <<a, s>> = <<a, t>> => s = t
  <2> TAKE s, t
  <2>1. <<a, s>>[2] = s /\ <<a, t>>[2] = t
    OBVIOUS
  <2> QED
    BY <2>1
<1>2. /\ \A s, t \in Slots : WorkerOf(<<a, s>>) = WorkerOf(<<a, t>>) => s = t
      /\ \A i, j \in Jobs : CallerOf(i) = CallerOf(j) => i = j
      /\ \A s \in Slots, j \in Jobs : WorkerOf(<<a, s>>) # CallerOf(j)
  BY <1>1, ProcessNames
<1>3. \A x : x \in Owners(a) <=>
        \/ \E s \in Slots : Busy(a, s) /\ x = WorkerOf(<<a, s>>)
        \/ \E j \in Jobs : Starting(a, j) /\ x = CallerOf(j)
  BY OwnersOf
<1>4. ASSUME \A x, y \in Owners(a) : x = y
      PROVE  OnlyOne(a)
  <2>1. /\ \A s \in Slots : Busy(a, s) => WorkerOf(<<a, s>>) \in Owners(a)
        /\ \A j \in Jobs : Starting(a, j) => CallerOf(j) \in Owners(a)
    BY <1>3
  <2> QED
    BY <1>2, <1>4, <2>1 DEF OnlyOne
<1>5. ASSUME OnlyOne(a)
      PROVE  \A x, y \in Owners(a) : x = y
  <2> TAKE x, y \in Owners(a)
  <2> DEFINE IsWorker(z) == \E s \in Slots : Busy(a, s) /\ z = WorkerOf(<<a, s>>)
             IsCaller(z) == \E j \in Jobs : Starting(a, j) /\ z = CallerOf(j)
  <2>1. (IsWorker(x) \/ IsCaller(x)) /\ (IsWorker(y) \/ IsCaller(y))
    BY <1>3
  <2>2. CASE IsWorker(x) /\ IsWorker(y)
    BY <1>5, <2>2 DEF OnlyOne
  <2>3. CASE IsCaller(x) /\ IsCaller(y)
    BY <1>5, <2>3 DEF OnlyOne
  <2>4. ~ (IsWorker(x) /\ IsCaller(y)) /\ ~ (IsCaller(x) /\ IsWorker(y))
    BY <1>5 DEF OnlyOne
  <2> QED
    BY <2>1, <2>2, <2>3, <2>4
<1> QED
  BY <1>4, <1>5

(* OwnerShape is SingleOwner, stated for the provers.                       *)
LEMMA OwnerShapeIsSingleOwner == OwnerShape <=> SingleOwner
<1>1. \A a \in Agents :
        Owners(a) # {} <=> (\E s \in Slots : Busy(a, s)) \/ (\E j \in Jobs : Starting(a, j))
  BY OwnersOf
<1>2. \A a \in Agents : OnlyOne(a) <=> \A x, y \in Owners(a) : x = y
  BY OnlyOneOwner
<1>3. ASSUME OwnerShape PROVE SingleOwner
  BY <1>1, <1>2, <1>3 DEF OwnerShape, SingleOwner
<1>4. ASSUME SingleOwner PROVE OwnerShape
  BY <1>1, <1>2, <1>4 DEF OwnerShape, SingleOwner
<1> QED
  BY <1>3, <1>4

-----------------------------------------------------------------------------
(* The invariant the steps are proved to preserve: IInv, with ownership     *)
(* stated by OwnerShape.                                                    *)
Shape ==
  /\ Attempts
  /\ QueueShape
  /\ Holding
  /\ CallerShape
  /\ PhaseShape
  /\ OwnerShape
  /\ phase = "up" => \A a \in Agents : queues[a] # <<>> => a \in active

(* Shape with the types is the inductive invariant.                         *)
LEMMA ShapeIsIInv == IInv <=> TypeOK /\ Shape
<1>1. ASSUME SingleOwner
      PROVE  NoStrandedQueue <=>
               (phase = "up" => \A a \in Agents : queues[a] # <<>> => a \in active)
  BY <1>1 DEF SingleOwner, NoStrandedQueue
<1> QED
  BY <1>1, OwnerShapeIsSingleOwner DEF IInv, Shape

(* The invariant holds when the process has never run.                      *)
LEMMA InitShape == Init => TypeOK /\ Shape
<1> SUFFICES ASSUME Init PROVE TypeOK /\ Shape
  OBVIOUS
<1> USE DEF Init, QueueInit
<1>0. 0 \in 0..MaxAttempts /\ 0 < MaxAttempts
  BY QueueAssumption
<1>1. /\ Absent \in JobRecord
      /\ NoTable \in JobTable
      /\ jobs \in JobTable
  BY <1>0 DEF Absent, JobRecord, JobStatus, NoTable, JobTable
<1>2. QueueTypeOK
  BY <1>1 DEF QueueTypeOK, EmptyQueues
<1>3. save \in SaveRecord
  BY <1>1 DEF SaveRecord, NoSave
<1>4. disk \in Snapshot
  BY <1>1 DEF Snapshot, EmptySnapshot
<1>5. worker \in [Workers -> WorkerRecord]
  BY DEF NoWorker, WorkerRecord, WorkerPC
<1>6. caller \in [Jobs -> CallerRecord]
  BY DEF CallerRecord, CallerPC
<1>7. TypeOK
  BY <1>2, <1>3, <1>4, <1>5, <1>6 DEF TypeOK
<1>8. Attempts /\ CallerShape
  BY DEF Attempts, AttemptLeft, CallerShape, NoSave, EmptySnapshot, NoTable, Absent
<1>9. QueueShape
  BY DEF QueueShape, EmptyQueues
<1>10. Holding
  BY SchedulerAssumption DEF Holding, NoWorker
<1>11. PhaseShape
  BY DEF PhaseShape
<1>12. OwnerShape
  BY DEF OwnerShape, OnlyOne, Busy, Starting, Workers, NoWorker
<1> QED
  BY <1>7, <1>8, <1>9, <1>10, <1>11, <1>12 DEF Shape

-----------------------------------------------------------------------------
(* Steps of the save itself. *)

(* What a step must leave of the save and the file. *)
SaveSound ==
  /\ save' \in SaveRecord /\ disk' \in Snapshot
  /\ AttemptLeft(save'.jobs) /\ AttemptLeft(disk'.jobs)
  /\ \A j \in Jobs : caller[j].pc = "new" =>
       save'.jobs[j].status = "absent" /\ disk'.jobs[j].status = "absent"

(* A step that saves nothing keeps what was read and written sound.         *)
LEMMA SaveUnchanged ==
  ASSUME TypeOK, Shape, UNCHANGED <<save, disk>>
  PROVE  SaveSound
BY DEF TypeOK, Shape, Attempts, CallerShape, SaveSound

(* The end of a save leaves a file in which every live run has an attempt left. *)
LEMMA EndSaveShape ==
  ASSUME TypeOK, Shape, NEW p, NEW point, NEW ok, EndSave(p, point, ok)
  PROVE  SaveSound
<1> USE DEF EndSave
<1>1. NoTable \in JobTable
  BY QueueAssumption DEF NoTable, JobTable, JobRecord, JobStatus, Absent
<1>2. save' \in SaveRecord
  BY <1>1 DEF NoSave, SaveRecord
<1>3. disk' \in Snapshot
  BY DEF TypeOK, QueueTypeOK, SaveRecord, Snapshot
<1>4. AttemptLeft(save'.jobs)
  BY DEF NoSave, NoTable, Absent, AttemptLeft
<1>5. AttemptLeft(disk'.jobs)
  BY DEF Shape, Attempts, AttemptLeft
<1>6. \A j \in Jobs : caller[j].pc = "new" =>
        save'.jobs[j].status = "absent" /\ disk'.jobs[j].status = "absent"
  BY DEF Shape, CallerShape, NoSave, NoTable, Absent
<1> QED
  BY <1>2, <1>3, <1>4, <1>5, <1>6 DEF SaveSound

(* Nobody's duty changes when workers, callers and flags do not.            *)
LEMMA OwnerFrame ==
  ASSUME OwnerShape, UNCHANGED active,
         \A a \in Agents, s \in Slots : Busy(a, s)' <=> Busy(a, s),
         \A a \in Agents, j \in Jobs : Starting(a, j)' <=> Starting(a, j)
  PROVE  OwnerShape'
<1>1. \A a \in Agents : OnlyOne(a)'
  BY DEF OwnerShape, OnlyOne
<1>2. \A a \in Agents :
        a \in active' <=> (\E s \in Slots : Busy(a, s)') \/ (\E j \in Jobs : Starting(a, j)')
  BY DEF OwnerShape
<1> QED
  BY <1>1, <1>2 DEF OwnerShape

(* The reads of a save preserve the invariant.                              *)
LEMMA SaveShape ==
  ASSUME TypeOK, Shape, SaveStep
  PROVE  TypeOK' /\ Shape'
<1>1. UNCHANGED <<queueVars, phase, caller, worker, deleter, disk, acted>>
  BY DEF SaveStep, BeginSave, ReadCompletedFires
<1>2. save' \in SaveRecord /\ save'.jobs \in {jobs, save.jobs}
  <2>1. CASE ReadCompletedFires
    <3>1. save' = [save EXCEPT !.read = 2, !.completed = completedMonitorFires]
      BY <2>1 DEF ReadCompletedFires
    <3>2. save \in SaveRecord /\ completedMonitorFires \in SUBSET DedupKeys
      BY DEF TypeOK, QueueTypeOK
    <3>3. save' \in SaveRecord
      <4>1. /\ save.by \in Processes \cup {Nobody}
            /\ save.jobs \in JobTable
            /\ save = [by |-> save.by, read |-> save.read,
                       jobs |-> save.jobs, completed |-> save.completed]
        BY <3>2 DEF SaveRecord
      <4>2. save' = [by |-> save.by, read |-> 2,
                     jobs |-> save.jobs, completed |-> completedMonitorFires]
        BY <3>1, <4>1
      <4> QED
        BY <3>2, <4>1, <4>2 DEF SaveRecord
    <3>4. save'.jobs = save.jobs
      BY <3>1, <3>2 DEF SaveRecord
    <3> QED
      BY <3>3, <3>4
  <2>2. CASE \E p \in Processes : BeginSave(p)
    <3> PICK p \in Processes : BeginSave(p)
      BY <2>2
    <3>1. save' = [by |-> p, read |-> 1, jobs |-> jobs, completed |-> {}]
      BY DEF BeginSave
    <3> QED
      BY <3>1 DEF TypeOK, QueueTypeOK, SaveRecord
  <2> QED
    BY <2>1, <2>2 DEF SaveStep
<1>3. TypeOK'
  BY <1>1, <1>2 DEF TypeOK, QueueTypeOK, queueVars
<1>4. Attempts' /\ CallerShape'
  BY <1>1, <1>2 DEF Shape, Attempts, AttemptLeft, CallerShape, queueVars
<1>5. QueueShape' /\ Holding' /\ PhaseShape'
  BY <1>1 DEF Shape, QueueShape, Holding, PhaseShape, queueVars
<1>6. OwnerShape'
  BY <1>1, OwnerFrame DEF Shape, Busy, Starting, queueVars
<1> QED
  BY <1>1, <1>3, <1>4, <1>5, <1>6 DEF Shape, queueVars

-----------------------------------------------------------------------------
(* Steps of a worker that holds on to its job. *)

(* A worker that exists and goes on existing changes nobody's duty.         *)
LEMMA WorkerMoves ==
  ASSUME TypeOK, Shape, NEW w \in Workers, NEW r \in WorkerRecord,
         worker[w].pc # "none", r.pc # "none",
         worker' = [worker EXCEPT ![w] = r], UNCHANGED <<active, caller, phase>>
  PROVE  /\ worker' \in [Workers -> WorkerRecord]
         /\ phase \in {"ready", "up"}
         /\ PhaseShape'
         /\ OwnerShape'
<1>1. worker \in [Workers -> WorkerRecord]
  BY DEF TypeOK
<1>2. phase \in {"ready", "up"}
  BY DEF Shape, PhaseShape, NoWorker
<1>3. \A v \in Workers : worker'[v].pc # "none" <=> worker[v].pc # "none"
  BY <1>1
<1>4. \A a \in Agents, s \in Slots : Busy(a, s)' <=> Busy(a, s)
  BY <1>3 DEF Busy, Workers
<1>5. OwnerShape'
  BY <1>4, OwnerFrame DEF Shape, Starting
<1> QED
  BY <1>1, <1>2, <1>5 DEF PhaseShape

QuietStep(w) ==
  \/ StartRun(w) \/ EffectWithoutMark(w) \/ EffectMarked(w) \/ EffectRefused(w)
  \/ \E ok \in BOOLEAN : ClaimSaved(w, ok) \/ CompletionSaved(w, ok)

KeepsJob(w, r) ==
  /\ r \in WorkerRecord
  /\ worker' = [worker EXCEPT ![w] = r]
  /\ worker[w].pc # "none" /\ r.pc # "none"
  /\ r.job = worker[w].job
  /\ r.pc \in {"loop", "completed"} <=> worker[w].pc \in {"loop", "completed"}

(* The steps of a worker that keeps its job preserve the invariant.         *)
LEMMA QuietShape ==
  ASSUME TypeOK, Shape, NEW w \in Workers, QuietStep(w)
  PROVE  TypeOK' /\ Shape'
<1> USE DEF KeepsJob, WorkerRecord, WorkerPC
<1>1. worker \in [Workers -> WorkerRecord] /\ worker[w] \in WorkerRecord
  BY DEF TypeOK
<1>2. /\ \E r : KeepsJob(w, r)
      /\ UNCHANGED <<queueVars, phase, caller, deleter>>
      /\ UNCHANGED <<save, disk>> \/ \E point, ok : EndSave(WorkerOf(w), point, ok)
      /\ UNCHANGED acted \/ (acted' = acted \cup {worker[w].job}
                                /\ worker[w].pc \in {"executing", "marking"})
  <2>1. CASE StartRun(w)
    <3>1. KeepsJob(w, [worker[w] EXCEPT !.pc = "executing"])
      BY <1>1, <2>1 DEF StartRun
    <3> QED BY <2>1, <3>1 DEF StartRun
  <2>2. CASE EffectWithoutMark(w)
    <3>1. KeepsJob(w, [worker[w] EXCEPT !.pc = "executing", !.effects = TRUE])
      BY <1>1, <2>2 DEF EffectWithoutMark, Act
    <3> QED BY <2>2, <3>1 DEF EffectWithoutMark, Act
  <2>3. CASE EffectMarked(w)
    <3>1. KeepsJob(w, [worker[w] EXCEPT !.pc = "executing", !.effects = TRUE])
      BY <1>1, <2>3 DEF EffectMarked, Act
    <3> QED BY <2>3, <3>1 DEF EffectMarked, Act
  <2>4. CASE EffectRefused(w)
    <3>1. KeepsJob(w, [worker[w] EXCEPT !.pc = "executing"])
      BY <1>1, <2>4 DEF EffectRefused
    <3> QED BY <2>4, <3>1 DEF EffectRefused
  <2>5. CASE \E ok \in BOOLEAN : ClaimSaved(w, ok)
    <3>1. KeepsJob(w, [worker[w] EXCEPT !.pc = "waiting"])
      BY <1>1, <2>5 DEF ClaimSaved
    <3> QED BY <2>5, <3>1 DEF ClaimSaved
  <2>6. CASE \E ok \in BOOLEAN : CompletionSaved(w, ok)
    <3>1. worker[w].job = NoJob
      BY <2>6 DEF CompletionSaved, Shape, Holding
    <3>2. KeepsJob(w, AtLoop)
      BY <1>1, <2>6, <3>1 DEF CompletionSaved, AtLoop
    <3> QED BY <2>6, <3>2 DEF CompletionSaved
  <2> QED
    BY <2>1, <2>2, <2>3, <2>4, <2>5, <2>6 DEF QuietStep
<1>3. PICK r : KeepsJob(w, r)
  BY <1>2
<1>4. SaveSound
  BY <1>2, SaveUnchanged, EndSaveShape
<1>5. /\ worker' \in [Workers -> WorkerRecord] /\ phase \in {"ready", "up"}
      /\ PhaseShape' /\ OwnerShape'
  BY <1>2, <1>3, WorkerMoves DEF queueVars
<1>6. acted' \subseteq Jobs
  BY <1>1, <1>2 DEF TypeOK, Shape, Holding
<1>7. TypeOK'
  BY <1>2, <1>4, <1>5, <1>6 DEF TypeOK, QueueTypeOK, queueVars, SaveSound
<1>8. Attempts' /\ CallerShape' /\ QueueShape'
  BY <1>2, <1>4 DEF Shape, Attempts, AttemptLeft, CallerShape, QueueShape, SaveSound, queueVars
<1>9. Holding'
  BY <1>1, <1>2, <1>3 DEF Shape, Holding, queueVars
<1> QED
  BY <1>2, <1>5, <1>7, <1>8, <1>9 DEF Shape, queueVars

-----------------------------------------------------------------------------
(* Steps of a call of scheduleAgentRun. *)

(* A step that concerns one agent has only that agent's duty to restore.    *)
LEMMA OwnerChange ==
  ASSUME OwnerShape, NEW a \in Agents,
         \A b \in Agents \ {a} :
           /\ b \in active' <=> b \in active
           /\ \A s \in Slots : Busy(b, s)' <=> Busy(b, s)
           /\ \A j \in Jobs : Starting(b, j)' <=> Starting(b, j),
         OnlyOne(a)',
         a \in active' <=> (\E s \in Slots : Busy(a, s)') \/ (\E j \in Jobs : Starting(a, j)')
  PROVE  OwnerShape'
<1>1. \A b \in Agents : OnlyOne(b)'
  BY DEF OwnerShape, OnlyOne
<1>2. \A b \in Agents :
        b \in active' <=> (\E s \in Slots : Busy(b, s)') \/ (\E j \in Jobs : Starting(b, j)')
  BY DEF OwnerShape
<1> QED
  BY <1>1, <1>2 DEF OwnerShape

(* Spawn makes one free goroutine busy and no other.                        *)
LEMMA SpawnShape ==
  ASSUME TypeOK, NEW a \in Agents, Spawn(a)
  PROVE  /\ worker' \in [Workers -> WorkerRecord]
         /\ \A w \in Workers : worker'[w] \in {worker[w], AtLoop}
         /\ \E s \in Slots :
              /\ ~ Busy(a, s)
              /\ \A b \in Agents, t \in Slots : Busy(b, t)' <=> Busy(b, t) \/ (b = a /\ t = s)
<1> DEFINE s == CHOOSE t \in FreeSlots(a) : TRUE
<1>1. s \in Slots /\ worker[<<a, s>>].pc = "none"
  BY DEF Spawn, FreeSlots
<1>2. worker' = [worker EXCEPT ![<<a, s>>] = AtLoop]
  BY DEF Spawn
<1> HIDE DEF s
<1>3. worker \in [Workers -> WorkerRecord] /\ <<a, s>> \in Workers
  BY <1>1 DEF TypeOK, Workers
<1>4. AtLoop \in WorkerRecord /\ AtLoop.pc = "loop"
  BY DEF AtLoop, WorkerRecord, WorkerPC
<1>5. \A w \in Workers : worker'[w] = IF w = <<a, s>> THEN AtLoop ELSE worker[w]
  BY <1>2, <1>3
<1>6. \A b \in Agents, t \in Slots : <<b, t>> \in Workers /\ (<<b, t>> = <<a, s>> <=> b = a /\ t = s)
  BY DEF Workers
<1>7. \A b \in Agents, t \in Slots : Busy(b, t)' <=> Busy(b, t) \/ (b = a /\ t = s)
  BY <1>4, <1>5, <1>6 DEF Busy
<1>8. ~ Busy(a, s)
  BY <1>1 DEF Busy
<1> QED
  BY <1>1, <1>2, <1>3, <1>4, <1>5, <1>7, <1>8

(* The caller of j that was to start the worker has done so.                *)
LEMMA CallerSpawns ==
  ASSUME TypeOK, Shape, NEW j \in Jobs, caller[j].start, Spawn(AgentOf[j]),
         NEW r \in CallerRecord, ~ r.start, caller' = [caller EXCEPT ![j] = r],
         UNCHANGED active
  PROVE  OwnerShape'
<1> DEFINE a == AgentOf[j]
<1>0. a \in Agents /\ caller \in [Jobs -> CallerRecord]
  BY QueueAssumption DEF TypeOK
<1>1. PICK s \in Slots :
        \A b \in Agents, t \in Slots : Busy(b, t)' <=> Busy(b, t) \/ (b = a /\ t = s)
  BY <1>0, SpawnShape
<1>2. \A b \in Agents, i \in Jobs : Starting(b, i)' <=> Starting(b, i) /\ i # j
  BY <1>0 DEF Starting
<1>3. Starting(a, j) /\ \A b \in Agents \ {a} : ~ Starting(b, j)
  BY DEF Starting
<1> HIDE DEF a
<1>4. /\ \A t \in Slots : ~ Busy(a, t)
      /\ \A i \in Jobs : Starting(a, i) => i = j
      /\ a \in active
  BY <1>0, <1>3 DEF Shape, OwnerShape, OnlyOne
<1>5. (\A i \in Jobs : ~ Starting(a, i)') /\ (\A t \in Slots : Busy(a, t)' <=> t = s)
  BY <1>0, <1>1, <1>2, <1>4
<1>6. OnlyOne(a)'
  BY <1>5 DEF OnlyOne
<1> QED
  BY <1>0, <1>1, <1>2, <1>3, <1>4, <1>5, <1>6, OwnerChange DEF Shape

(* An accepted admission preserves the invariant: the duty passes to a worker. *)
LEMMA AcceptShape ==
  ASSUME TypeOK, Shape, NEW j \in Jobs, AcceptRun(j)
  PROVE  TypeOK' /\ Shape'
<1> DEFINE r == [pc |-> "accepted", start |-> FALSE]
<1>1. /\ caller' = [caller EXCEPT ![j] = r]
      /\ EndSave(CallerOf(j), "enqueue", TRUE)
      /\ UNCHANGED <<queueVars, phase, deleter, acted>>
      /\ caller[j].pc = "saving"
  BY DEF AcceptRun
<1>2. r \in CallerRecord /\ ~ r.start /\ r.pc = "accepted"
  BY DEF CallerRecord, CallerPC
<1> HIDE DEF r
<1>3. caller \in [Jobs -> CallerRecord] /\ caller' \in [Jobs -> CallerRecord]
  BY <1>1, <1>2 DEF TypeOK
<1>4. SaveSound
  BY <1>1, EndSaveShape
<1>5. /\ worker' \in [Workers -> WorkerRecord]
      /\ \A w \in Workers : worker'[w] \in {worker[w], AtLoop} /\ (worker'[w] # worker[w] => caller[j].start)
      /\ worker' # worker => caller[j].start
      /\ \A w \in Workers : worker'[w] # worker[w] => worker[w].pc = "none"
      /\ OwnerShape'
  <2>1. CASE caller[j].start
    <3>1. Spawn(AgentOf[j]) /\ AgentOf[j] \in Agents
      BY <2>1, QueueAssumption DEF AcceptRun
    <3>2. \A w \in Workers : worker'[w] # worker[w] => worker[w].pc = "none"
      BY <3>1 DEF Spawn, FreeSlots, TypeOK, Workers
    <3> QED
      BY <1>1, <1>2, <2>1, <3>1, <3>2, SpawnShape, CallerSpawns DEF queueVars
  <2>2. CASE ~ caller[j].start
    <3>1. UNCHANGED worker
      BY <2>2 DEF AcceptRun
    <3>2. \A a \in Agents, i \in Jobs : Starting(a, i)' <=> Starting(a, i)
      BY <1>1, <1>2, <1>3, <2>2 DEF Starting
    <3>3. OwnerShape'
      BY <1>1, <3>1, <3>2, OwnerFrame DEF Shape, Busy, queueVars
    <3> QED
      BY <3>1, <3>3 DEF TypeOK
  <2> QED
    BY <2>1, <2>2
<1>6. TypeOK'
  BY <1>1, <1>3, <1>4, <1>5 DEF TypeOK, QueueTypeOK, queueVars, SaveSound
<1>7. Attempts' /\ QueueShape'
  BY <1>1, <1>4 DEF Shape, Attempts, AttemptLeft, QueueShape, SaveSound, queueVars
<1>8. CallerShape'
  BY <1>1, <1>2, <1>3, <1>4 DEF Shape, CallerShape, SaveSound, queueVars
<1>9. Holding'
  BY <1>1, <1>2, <1>3, <1>5, SchedulerAssumption DEF Shape, Holding, AtLoop, queueVars
<1>10. PhaseShape'
  BY <1>1, <1>2, <1>3, <1>5 DEF Shape, PhaseShape, queueVars
<1> QED
  BY <1>1, <1>6, <1>7, <1>8, <1>9, <1>10, <1>5 DEF Shape, queueVars

(* A refused admission and a failed save of one preserve the invariant.     *)
LEMMA CallerWaitsShape ==
  ASSUME TypeOK, Shape, NEW j \in Jobs, ScheduleRefused(j) \/ EnqueueSaveFails(j)
  PROVE  TypeOK' /\ Shape'
<1> DEFINE Waits(r) == /\ r \in CallerRecord
                       /\ caller' = [caller EXCEPT ![j] = r]
                       /\ r.start = caller[j].start
                       /\ r.pc # "new"
                       /\ caller[j].start => r.pc = "rollback"
<1>1. PICK r : Waits(r)
  <2>1. caller[j] \in CallerRecord
    BY DEF TypeOK
  <2>2. CASE ScheduleRefused(j)
    <3>1. ~ caller[j].start
      BY <2>2 DEF ScheduleRefused, Shape, CallerShape
    <3>2. Waits([caller[j] EXCEPT !.pc = "rejected"])
      BY <2>1, <2>2, <3>1 DEF ScheduleRefused, CallerRecord, CallerPC, Refusals
    <3> QED
      BY <3>2
  <2>3. CASE EnqueueSaveFails(j)
    <3>1. Waits([caller[j] EXCEPT !.pc = "rollback"])
      BY <2>1, <2>3 DEF EnqueueSaveFails, CallerRecord, CallerPC
    <3> QED
      BY <3>1
  <2> QED
    BY <2>2, <2>3
<1>2. /\ UNCHANGED <<queueVars, phase, worker, deleter, acted>>
      /\ UNCHANGED <<save, disk>> \/ \E p, point, ok : EndSave(p, point, ok)
  BY DEF ScheduleRefused, EnqueueSaveFails
<1>3. SaveSound
  BY <1>2, SaveUnchanged, EndSaveShape
<1>4. caller \in [Jobs -> CallerRecord] /\ caller' \in [Jobs -> CallerRecord]
  BY <1>1 DEF TypeOK
<1>5. TypeOK'
  BY <1>2, <1>3, <1>4 DEF TypeOK, QueueTypeOK, queueVars, SaveSound
<1>6. Attempts' /\ QueueShape'
  BY <1>2, <1>3 DEF Shape, Attempts, AttemptLeft, QueueShape, SaveSound, queueVars
<1>7. CallerShape'
  BY <1>1, <1>2, <1>3, <1>4 DEF Shape, CallerShape, SaveSound, queueVars
<1>8. Holding' /\ PhaseShape'
  BY <1>1, <1>2, <1>4 DEF Shape, Holding, PhaseShape, queueVars
<1>9. \A a \in Agents, i \in Jobs : Starting(a, i)' <=> Starting(a, i)
  BY <1>1, <1>4 DEF Starting
<1>10. OwnerShape'
  BY <1>2, <1>9, OwnerFrame DEF Shape, Busy, queueVars
<1> QED
  BY <1>2, <1>5, <1>6, <1>7, <1>8, <1>10 DEF Shape, queueVars

(* Enqueue, by a caller, preserves the invariant.                           *)
LEMMA ScheduleShape ==
  ASSUME TypeOK, Shape, NEW j \in Jobs, ScheduleRun(j)
  PROVE  TypeOK' /\ Shape'
<1> DEFINE a == AgentOf[j]
           r == [pc |-> "saving", start |-> StartsWorker(j)]
<1>1. /\ caller[j].pc = "new" /\ phase \in {"ready", "up"} /\ jobs[j].status = "absent"
      /\ caller' = [caller EXCEPT ![j] = r]
      /\ jobs' = [jobs EXCEPT ![j] = Fresh]
      /\ queues' = [queues EXCEPT ![a] = Append(@, j)]
      /\ active' = active \cup {a}
      /\ dedup' = dedup \cup KeysOf(j)
      /\ UNCHANGED <<completedMonitorFires, monitorFirePendingRemoved, phase, worker, deleter,
                     save, disk, acted>>
  BY DEF ScheduleRun, Serving, Enqueue, Admissible, Present
<1>2. r \in CallerRecord /\ r.pc = "saving" /\ (r.start <=> a \notin active)
  BY DEF CallerRecord, CallerPC, StartsWorker
<1>3. Fresh \in JobRecord /\ Fresh.status = "queued" /\ Fresh.attempt < MaxAttempts
  BY QueueAssumption DEF Fresh, JobRecord, JobStatus
<1>4. a \in Agents /\ a = AgentOf[j]
  BY QueueAssumption
<1> HIDE DEF r, a
<1>5. /\ caller \in [Jobs -> CallerRecord] /\ jobs \in JobTable
      /\ queues \in [Agents -> Seq(Jobs)]
  BY DEF TypeOK, QueueTypeOK
<1>6. SaveSound
  BY <1>1, SaveUnchanged
<1>7. caller' \in [Jobs -> CallerRecord] /\ jobs' \in JobTable
  BY <1>1, <1>2, <1>3, <1>5 DEF JobTable
<1>8. /\ queues' \in [Agents -> Seq(Jobs)]
      /\ \A b \in Agents \ {a} : queues'[b] = queues[b]
      /\ Len(queues'[a]) = Len(queues[a]) + 1
      /\ \A m \in 1..Len(queues'[a]) :
           queues'[a][m] = IF m = Len(queues[a]) + 1 THEN j ELSE queues[a][m]
  <2>1. queues'[a] = Append(queues[a], j) /\ queues[a] \in Seq(Jobs)
    BY <1>1, <1>4, <1>5
  <2> QED
    BY <2>1, <1>1, <1>4, <1>5, AppendQueue
<1>9. TypeOK'
  <2>1. KeysOf(j) \subseteq DedupKeys
    BY QueueAssumption DEF KeysOf
  <2> QED
    BY <1>1, <1>4, <1>6, <1>7, <1>8, <2>1 DEF TypeOK, QueueTypeOK, SaveSound
<1>10. Attempts'
  BY <1>1, <1>3, <1>5, <1>6 DEF Shape, Attempts, AttemptLeft, SaveSound, JobTable
<1>11. QueueShape'
  <2>1. \A b \in Agents : \A m \in 1..Len(queues[b]) :
          /\ AgentOf[queues[b][m]] = b
          /\ queues[b][m] # j
          /\ jobs'[queues[b][m]].status = "queued"
          /\ \A n \in 1..Len(queues[b]) : queues[b][m] = queues[b][n] => m = n
    BY <1>1, <1>5 DEF Shape, QueueShape, JobTable
  <2>2. jobs'[j].status = "queued" /\ AgentOf[j] = a
    BY <1>1, <1>3, <1>4, <1>5 DEF JobTable
  <2>3. \A b \in Agents \ {a} : \A m \in 1..Len(queues'[b]) :
          /\ AgentOf[queues'[b][m]] = b
          /\ jobs'[queues'[b][m]].status = "queued"
          /\ \A n \in 1..Len(queues'[b]) : queues'[b][m] = queues'[b][n] => m = n
    BY <1>8, <2>1
  <2>4. \A m \in 1..Len(queues'[a]) : m # Len(queues[a]) + 1 => m \in 1..Len(queues[a])
    BY <1>4, <1>5, <1>8
  <2>5. \A m \in 1..Len(queues'[a]) :
          /\ AgentOf[queues'[a][m]] = a
          /\ jobs'[queues'[a][m]].status = "queued"
          /\ \A n \in 1..Len(queues'[a]) : queues'[a][m] = queues'[a][n] => m = n
    <3> TAKE m \in 1..Len(queues'[a])
    <3>1. CASE m = Len(queues[a]) + 1
      <4>1. queues'[a][m] = j
        BY <1>8, <3>1
      <4>2. ASSUME NEW n \in 1..Len(queues'[a]), n # m PROVE queues'[a][n] # j
        BY <1>4, <1>8, <2>1, <2>4, <3>1, <4>2
      <4> QED
        BY <2>2, <4>1, <4>2
    <3>2. CASE m # Len(queues[a]) + 1
      <4>1. m \in 1..Len(queues[a]) /\ queues'[a][m] = queues[a][m]
        BY <1>8, <2>4, <3>2
      <4>2. ASSUME NEW n \in 1..Len(queues'[a]), queues'[a][m] = queues'[a][n] PROVE m = n
        <5>1. n # Len(queues[a]) + 1
          BY <1>4, <1>8, <2>1, <4>1, <4>2
        <5>2. n \in 1..Len(queues[a]) /\ queues'[a][n] = queues[a][n]
          BY <1>8, <2>4, <5>1
        <5>3. queues[a][m] = queues[a][n]
          BY <4>1, <4>2, <5>2
        <5>4. \A x, y \in 1..Len(queues[a]) : queues[a][x] = queues[a][y] => x = y
          BY <1>4, <2>1
        <5> QED
          BY <4>1, <5>2, <5>3, <5>4
      <4> QED
        BY <1>4, <2>1, <4>1, <4>2
    <3> QED
      BY <3>1, <3>2
  <2> QED
    BY <2>3, <2>5 DEF QueueShape
<1>12. Holding'
  BY <1>1, <1>2, <1>5 DEF Shape, Holding, JobTable
<1>13. CallerShape'
  BY <1>1, <1>2, <1>3, <1>5 DEF Shape, CallerShape, JobTable
<1>14. PhaseShape'
  BY <1>1 DEF PhaseShape
<1>15. OwnerShape'
  <2>1. \A b \in Agents, s \in Slots : Busy(b, s)' <=> Busy(b, s)
    BY <1>1 DEF Busy
  <2>2. \A b \in Agents, i \in Jobs :
          Starting(b, i)' <=> Starting(b, i) \/ (i = j /\ b = a /\ a \notin active)
    <3>1. ~ caller[j].start
      BY <1>1 DEF Shape, CallerShape
    <3> QED
      BY <1>1, <1>2, <1>4, <1>5, <3>1 DEF Starting
  <2>3. \A b \in Agents \ {a} :
           /\ b \in active' <=> b \in active
           /\ \A s \in Slots : Busy(b, s)' <=> Busy(b, s)
           /\ \A i \in Jobs : Starting(b, i)' <=> Starting(b, i)
    BY <1>1, <2>1, <2>2
  <2>4. CASE a \in active
    BY <1>1, <2>1, <2>2, <2>4, OwnerFrame DEF Shape
  <2>5. CASE a \notin active
    <3>1. (\A s \in Slots : ~ Busy(a, s)) /\ (\A i \in Jobs : ~ Starting(a, i))
      BY <1>4, <2>5 DEF Shape, OwnerShape
    <3>2. (\A s \in Slots : ~ Busy(a, s)') /\ (\A i \in Jobs : Starting(a, i)' <=> i = j)
      BY <1>4, <2>1, <2>2, <2>5, <3>1
    <3>3. OnlyOne(a)'
      BY <3>2 DEF OnlyOne
    <3>4. a \in active'
      BY <1>1
    <3> QED
      BY <1>4, <2>3, <3>2, <3>3, <3>4, OwnerChange DEF Shape
  <2> QED
    BY <2>4, <2>5
<1>16. \A b \in Agents : queues'[b] # <<>> => b \in active' \/ phase' # "up"
  BY <1>1, <1>8 DEF Shape
<1> QED
  BY <1>9, <1>10, <1>11, <1>12, <1>13, <1>14, <1>15, <1>16 DEF Shape

(* A queue that a step only shortens keeps its shape as long as what it     *)
(* still lists is still queued.                                             *)
Thinned(q, old) ==
  /\ q \in Seq(Jobs)
  /\ \A m \in 1..Len(q) : \E n \in 1..Len(old) : q[m] = old[n]
  /\ \A m, n \in 1..Len(q) : q[m] = q[n] => m = n

(* Queues that only lose jobs keep their shape.                             *)
LEMMA ThinnedQueues ==
  ASSUME TypeOK, Shape, jobs' \in JobTable,
         DOMAIN queues' = Agents, \A b \in Agents : Thinned(queues'[b], queues[b]),
         \A b \in Agents : \A m \in 1..Len(queues'[b]) : jobs'[queues'[b][m]].status = "queued"
  PROVE  QueueShape'
BY DEF Shape, QueueShape, Thinned

(* A queue that loses nothing is a thinned one.                             *)
LEMMA SameIsThinned ==
  ASSUME TypeOK, Shape, NEW b \in Agents
  PROVE  Thinned(queues[b], queues[b])
BY DEF TypeOK, QueueTypeOK, Shape, QueueShape, Thinned

(* A rollback's queue is a thinned one that no longer lists the job.        *)
LEMMA WithoutFirstQueue ==
  ASSUME TypeOK, Shape, NEW j \in Jobs, NEW a \in Agents, NEW q \in WithoutFirst(queues[a], j)
  PROVE  /\ Thinned(q, queues[a])
         /\ \A m \in 1..Len(q) : q[m] # j
         /\ q # <<>> => queues[a] # <<>>
<1> DEFINE old == queues[a]
           first == {i \in 1..Len(old) : old[i] = j /\ \A m \in 1..(i - 1) : old[m] # j}
<1>1. /\ old \in Seq(Jobs)
      /\ \A m, n \in 1..Len(old) : old[m] = old[n] => m = n
  BY DEF TypeOK, QueueTypeOK, Shape, QueueShape
<1>2. q \in IF first = {} THEN {old} ELSE {RemoveAt(old, i) : i \in first}
  BY DEF WithoutFirst
<1>3. \A i \in 1..Len(old) : old[i] = j => i \in first
  <2> SUFFICES ASSUME NEW i \in 1..Len(old), old[i] = j,
                      NEW m \in 1..(i - 1), old[m] = j
               PROVE  FALSE
    OBVIOUS
  <2>1. m \in 1..Len(old) /\ m # i
    BY <1>1
  <2> QED
    BY <1>1, <2>1
<1> HIDE DEF old
<1>4. CASE first = {}
  <2>1. q = old
    BY <1>2, <1>4
  <2> QED
    BY <1>1, <1>3, <1>4, <2>1 DEF Thinned, old
<1>5. CASE first # {}
  <2>1. PICK i \in 1..Len(old) : q = RemoveAt(old, i) /\ old[i] = j
    BY <1>2, <1>5
  <2>2. /\ q \in Seq(Jobs)
        /\ Len(q) = Len(old) - 1
        /\ \A n \in 1..Len(q) : q[n] = IF n < i THEN old[n] ELSE old[n + 1]
    BY <1>1, <2>1, RemoveAtQueue
  <2> DEFINE from(n) == IF n < i THEN n ELSE n + 1
  <2>3. \A n \in 1..Len(q) : from(n) \in 1..Len(old) /\ from(n) # i /\ q[n] = old[from(n)]
    BY <1>1, <2>2
  <2>4. \A m, n \in 1..Len(q) : from(m) = from(n) => m = n
    OBVIOUS
  <2> HIDE DEF from
  <2>5. \A n \in 1..Len(q) : q[n] # j
    BY <1>1, <2>1, <2>3
  <2>6. \A m, n \in 1..Len(q) : q[m] = q[n] => m = n
    BY <1>1, <2>3, <2>4
  <2>7. q # <<>> => old # <<>>
    BY <1>1, <2>1
  <2> QED
    BY <2>2, <2>3, <2>5, <2>6, <2>7 DEF Thinned, old
<1> QED
  BY <1>4, <1>5

(* A rollback preserves the invariant, whoever has the duty afterwards.     *)
LEMMA RollbackShape ==
  ASSUME TypeOK, Shape, NEW j \in Jobs, RollbackRun(j)
  PROVE  TypeOK' /\ Shape'
<1> DEFINE a == AgentOf[j]
           r == [pc |-> RefusedAs(j), start |-> FALSE]
<1>0. /\ a \in Agents /\ r \in CallerRecord /\ r.pc \notin {"new", "saving", "rollback"} /\ ~ r.start
      /\ caller \in [Jobs -> CallerRecord] /\ jobs \in JobTable
      /\ queues \in [Agents -> Seq(Jobs)]
      /\ worker \in [Workers -> WorkerRecord]
  BY QueueAssumption DEF CallerRecord, CallerPC, Refusals, RefusedAs, TypeOK, QueueTypeOK
<1>1. /\ caller[j].pc = "rollback"
      /\ RollbackEnqueue(j, caller[j].start)
      /\ caller' = [caller EXCEPT ![j] = r]
      /\ IF caller[j].start /\ Present(j) /\ queues'[a] # <<>> THEN Spawn(a) ELSE UNCHANGED worker
      /\ UNCHANGED <<phase, deleter, save, disk, acted>>
  BY DEF RollbackRun
<1> HIDE DEF r, a
<1>2. SaveSound
  BY <1>1, SaveUnchanged
<1>3. caller' \in [Jobs -> CallerRecord]
  BY <1>0, <1>1
<1>4. CASE ~ Present(j)
  <2>1. UNCHANGED <<queueVars, worker>> /\ ~ caller[j].start
    BY <1>0, <1>1, <1>4 DEF RollbackEnqueue, Shape, CallerShape, Present
  <2>2. TypeOK' /\ Attempts' /\ QueueShape' /\ Holding' /\ PhaseShape'
    BY <1>0, <1>1, <1>2, <1>3, <2>1
       DEF TypeOK, QueueTypeOK, Shape, Attempts, AttemptLeft, QueueShape, Holding, PhaseShape,
           SaveSound, queueVars
  <2>3. CallerShape'
    BY <1>0, <1>1, <2>1 DEF Shape, CallerShape, queueVars
  <2>4. \A b \in Agents, i \in Jobs : Starting(b, i)' <=> Starting(b, i)
    BY <1>0, <1>1, <2>1 DEF Starting
  <2>5. OwnerShape'
    BY <2>1, <2>4, OwnerFrame DEF Shape, Busy, queueVars
  <2> QED
    BY <1>1, <2>1, <2>2, <2>3, <2>5 DEF Shape, queueVars
<1>5. CASE Present(j)
  <2>1. PICK q \in WithoutFirst(queues[a], j) :
          /\ queues' = [queues EXCEPT ![a] = q]
          /\ active' = IF ~ caller[j].start THEN active
                       ELSE IF q = <<>> THEN active \ {a} ELSE active \cup {a}
    BY <1>1, <1>5 DEF RollbackEnqueue, a
  <2>2. /\ jobs' = [jobs EXCEPT ![j] = Absent]
        /\ dedup' = dedup \ KeysOf(j)
        /\ UNCHANGED <<completedMonitorFires, monitorFirePendingRemoved>>
    BY <1>1, <1>5 DEF RollbackEnqueue
  <2>3. Absent \in JobRecord /\ Absent.status = "absent" /\ jobs' \in JobTable
    BY <1>0, <2>2, QueueAssumption DEF Absent, JobRecord, JobStatus, JobTable
  <2>4. /\ Thinned(q, queues[a]) /\ \A m \in 1..Len(q) : q[m] # j
        /\ q # <<>> => queues[a] # <<>>
    BY <1>0, WithoutFirstQueue
  <2>5. queues' \in [Agents -> Seq(Jobs)] /\ \A b \in Agents : Thinned(queues'[b], queues[b])
    <3>1. q \in Seq(Jobs)
      BY <2>4 DEF Thinned
    <3>2. queues' \in [Agents -> Seq(Jobs)]
      BY <1>0, <2>1, <3>1
    <3>3. \A b \in Agents : queues'[b] = IF b = a THEN q ELSE queues[b]
      BY <1>0, <2>1
    <3> QED
      BY <2>4, <3>2, <3>3, SameIsThinned
  <2>6. QueueShape'
    <3>1. \A b \in Agents : \A m \in 1..Len(queues'[b]) :
            jobs'[queues'[b][m]].status = "queued"
      <4> TAKE b \in Agents
      <4> TAKE m \in 1..Len(queues'[b])
      <4>1. PICK n \in 1..Len(queues[b]) : queues'[b][m] = queues[b][n]
        BY <2>5 DEF Thinned
      <4>2. jobs[queues[b][n]].status = "queued" /\ AgentOf[queues[b][n]] = b
        BY DEF Shape, QueueShape
      <4>3. queues[b][n] \in Jobs
        BY <1>0
      <4>4. queues[b][n] # j
        <5>1. CASE b = a
          BY <1>0, <2>1, <2>4, <4>1, <5>1
        <5>2. CASE b # a
          BY <4>2, <5>2 DEF a
        <5> QED
          BY <5>1, <5>2
      <4> QED
        BY <1>0, <2>2, <4>1, <4>2, <4>3, <4>4 DEF JobTable
    <3> QED
      BY <2>3, <2>5, <3>1, ThinnedQueues
  <2>7. Attempts'
    BY <1>0, <1>2, <2>2, <2>3 DEF Shape, Attempts, AttemptLeft, SaveSound, JobTable
  <2>8. CallerShape'
    BY <1>0, <1>1, <2>2, <2>3 DEF Shape, CallerShape, JobTable
  <2>9. /\ worker' \in [Workers -> WorkerRecord]
        /\ \A w \in Workers : worker'[w] \in {worker[w], AtLoop}
        /\ worker' # worker => caller[j].start
    BY <1>0, <1>1, SpawnShape
  <2>10. OwnerShape'
    <3>1. CASE caller[j].start /\ q # <<>>
      <4>1. Starting(a, j)
        BY <3>1 DEF Starting, a
      <4>2. a \in active
        BY <1>0, <4>1 DEF Shape, OwnerShape
      <4>3. UNCHANGED active
        BY <2>1, <3>1, <4>2
      <4>4. Spawn(a)
        BY <1>0, <1>1, <1>5, <2>1, <3>1
      <4> QED
        BY <1>0, <1>1, <3>1, <4>3, <4>4, CallerSpawns DEF a
    <3>2. CASE caller[j].start /\ q = <<>>
      <4>1. UNCHANGED worker /\ active' = active \ {a}
        BY <1>0, <1>1, <2>1, <3>2
      <4>2. Starting(a, j) /\ \A b \in Agents \ {a} : ~ Starting(b, j)
        BY <3>2 DEF Starting, a
      <4>3. /\ \A t \in Slots : ~ Busy(a, t)
            /\ \A i \in Jobs : Starting(a, i) => i = j
        BY <1>0, <4>2 DEF Shape, OwnerShape, OnlyOne
      <4>4. \A b \in Agents, i \in Jobs : Starting(b, i)' <=> Starting(b, i) /\ i # j
        BY <1>0, <1>1 DEF Starting
      <4>5. (\A t \in Slots : ~ Busy(a, t)') /\ (\A i \in Jobs : ~ Starting(a, i)')
        BY <1>0, <4>1, <4>3, <4>4 DEF Busy
      <4>6. OnlyOne(a)'
        BY <4>5 DEF OnlyOne
      <4>7. \A b \in Agents \ {a} :
              /\ b \in active' <=> b \in active
              /\ \A s \in Slots : Busy(b, s)' <=> Busy(b, s)
              /\ \A i \in Jobs : Starting(b, i)' <=> Starting(b, i)
        BY <4>1, <4>2, <4>4 DEF Busy
      <4> QED
        BY <1>0, <4>1, <4>5, <4>6, <4>7, OwnerChange DEF Shape
    <3>3. CASE ~ caller[j].start
      <4>1. UNCHANGED <<worker, active>>
        BY <1>1, <2>1, <3>3
      <4>2. \A b \in Agents, i \in Jobs : Starting(b, i)' <=> Starting(b, i)
        BY <1>0, <1>1, <3>3 DEF Starting
      <4> QED
        BY <4>1, <4>2, OwnerFrame DEF Shape, Busy
    <3> QED
      BY <3>1, <3>2, <3>3
  <2>11. TypeOK'
    BY <1>0, <1>1, <1>2, <1>3, <2>1, <2>2, <2>3, <2>5, <2>9 DEF TypeOK, QueueTypeOK, SaveSound
  <2>12. Holding'
    <3>1. \A w \in Workers : worker'[w] = AtLoop => worker'[w].job = NoJob /\ worker'[w].pc = "loop"
      BY DEF AtLoop
    <3> QED
      BY <1>0, <1>1, <2>2, <2>3, <2>9, <3>1, SchedulerAssumption DEF Shape, Holding, JobTable
  <2>13. PhaseShape'
    BY <1>0, <1>1, <2>1, <2>9 DEF Shape, PhaseShape
  <2>14. \A b \in Agents : queues'[b] # <<>> => b \in active' \/ phase' # "up"
    BY <1>0, <1>1, <2>1, <2>4 DEF Shape
  <2> QED
    BY <2>6, <2>7, <2>8, <2>10, <2>11, <2>12, <2>13, <2>14 DEF Shape
<1> QED
  BY <1>4, <1>5

-----------------------------------------------------------------------------
(* Steps in which a worker takes or gives up a job. *)

(* A worker that exists is its agent's only one, and the agent is active.   *)
LEMMA WorkerFacts ==
  ASSUME TypeOK, Shape, NEW w \in Workers, worker[w].pc # "none"
  PROVE  /\ w[1] \in Agents /\ w[2] \in Slots /\ w = <<w[1], w[2]>>
         /\ worker[w] \in WorkerRecord
         /\ Busy(w[1], w[2])
         /\ w[1] \in active
         /\ phase \in {"ready", "up"}
         /\ \A v \in Workers : v[1] = w[1] /\ worker[v].pc # "none" => v = w
         /\ \A j \in Jobs : ~ Starting(w[1], j)
<1>1. \A v \in Workers : v[1] \in Agents /\ v[2] \in Slots /\ v = <<v[1], v[2]>>
  BY DEF Workers
<1>2. \A v \in Workers : worker[v].pc # "none" <=> Busy(v[1], v[2])
  BY <1>1 DEF Busy
<1>3. OnlyOne(w[1]) /\ w[1] \in active /\ \A j \in Jobs : ~ Starting(w[1], j)
  BY <1>1, <1>2 DEF Shape, OwnerShape, OnlyOne
<1>4. ASSUME NEW v \in Workers, v[1] = w[1], worker[v].pc # "none" PROVE v = w
  <2>1. v[2] = w[2]
    BY <1>1, <1>2, <1>3, <1>4 DEF OnlyOne
  <2> QED
    BY <1>1, <1>4, <2>1
<1>5. phase \in {"ready", "up"}
  BY DEF Shape, PhaseShape, NoWorker
<1>6. worker[w] \in WorkerRecord
  BY DEF TypeOK
<1> QED
  BY <1>1, <1>2, <1>3, <1>4, <1>5, <1>6

(* Claim preserves the invariant: the job it takes is held by one worker.   *)
LEMMA ClaimShape ==
  ASSUME TypeOK, Shape, NEW w \in Workers, NEW j \in Jobs, ClaimJob(w, j)
  PROVE  TypeOK' /\ Shape'
<1> DEFINE a == w[1]
           r == [pc |-> "claimed", job |-> j, effects |-> FALSE]
<1>1. /\ worker[w].pc = "loop" /\ Claim(a, j)
      /\ worker' = [worker EXCEPT ![w] = r]
      /\ UNCHANGED <<phase, caller, deleter, save, disk, acted>>
  BY DEF ClaimJob
<1>2. /\ r \in WorkerRecord /\ r.pc = "claimed" /\ r.job = j /\ j # NoJob
  BY SchedulerAssumption DEF WorkerRecord, WorkerPC
<1>3. /\ a \in Agents /\ a \in active
      /\ \A i \in Jobs : ~ Starting(a, i)
  BY <1>1, WorkerFacts
<1> HIDE DEF r, a
<1>4. PICK i \in Runnable(a) :
        /\ j = queues[a][i]
        /\ queues' = [queues EXCEPT ![a] = SubSeq(@, i + 1, Len(@))]
        /\ jobs' = [jobs EXCEPT ![j].status = "running"]
        /\ UNCHANGED <<active, dedup, completedMonitorFires, monitorFirePendingRemoved>>
  BY <1>1 DEF Claim
<1>5. i \in 1..Len(queues[a]) /\ queues \in [Agents -> Seq(Jobs)] /\ jobs \in JobTable
  BY DEF Runnable, TypeOK, QueueTypeOK
<1>6. /\ AgentOf[j] = a /\ jobs[j].status = "queued"
      /\ \A m, n \in 1..Len(queues[a]) : queues[a][m] = queues[a][n] => m = n
  BY <1>3, <1>4, <1>5 DEF Shape, QueueShape
<1>7. caller[j].pc # "new" /\ ~ caller[j].start
  BY <1>3, <1>6 DEF Shape, CallerShape, Starting
<1>8. jobs' \in JobTable
  BY <1>4, <1>5 DEF JobTable, JobRecord, JobStatus
<1>9. /\ queues'[a] = SubSeq(queues[a], i + 1, Len(queues[a]))
      /\ \A b \in Agents \ {a} : queues'[b] = queues[b]
      /\ DOMAIN queues' = Agents
  BY <1>3, <1>4, <1>5
<1>10. /\ queues'[a] \in Seq(Jobs)
       /\ Len(queues'[a]) = Len(queues[a]) - i
       /\ \A n \in 1..Len(queues'[a]) : queues'[a][n] = queues[a][i + n]
  BY <1>3, <1>5, <1>9, SubSeqQueue
<1>11. queues' \in [Agents -> Seq(Jobs)]
  <2>1. queues' = [queues EXCEPT ![a] = queues'[a]]
    BY <1>3, <1>4, <1>5
  <2> QED
    BY <1>3, <1>5, <1>10, <2>1
<1>12. \A n \in 1..Len(queues'[a]) : i + n \in 1..Len(queues[a]) /\ i + n # i
  BY <1>3, <1>5, <1>10
<1>13. Thinned(queues'[a], queues[a]) /\ \A n \in 1..Len(queues'[a]) : queues'[a][n] # j
  <2>1. \A n \in 1..Len(queues'[a]) : queues'[a][n] # j
    BY <1>4, <1>5, <1>6, <1>10, <1>12
  <2>2. ASSUME NEW m \in 1..Len(queues'[a]), NEW n \in 1..Len(queues'[a]),
               queues'[a][m] = queues'[a][n]
        PROVE  m = n
    <3>1. i + m = i + n
      BY <1>6, <1>10, <1>12, <2>2
    <3> QED
      BY <3>1, <1>5
  <2> QED
    BY <1>10, <1>12, <2>1, <2>2 DEF Thinned
<1>14. QueueShape'
  <2>1. \A b \in Agents : Thinned(queues'[b], queues[b])
    BY <1>9, <1>13, SameIsThinned
  <2>2. \A b \in Agents : \A m \in 1..Len(queues'[b]) : jobs'[queues'[b][m]].status = "queued"
    <3> TAKE b \in Agents
    <3> TAKE m \in 1..Len(queues'[b])
    <3>1. PICK n \in 1..Len(queues[b]) : queues'[b][m] = queues[b][n]
      BY <2>1 DEF Thinned
    <3>2. jobs[queues[b][n]].status = "queued" /\ AgentOf[queues[b][n]] = b
      BY DEF Shape, QueueShape
    <3>3. queues[b][n] \in Jobs
      BY <1>5
    <3>4. queues[b][n] # j
      BY <1>6, <1>13, <3>1, <3>2
    <3> QED
      BY <1>4, <1>5, <3>1, <3>2, <3>3, <3>4 DEF JobTable
  <2> QED
    BY <1>8, <1>9, <2>1, <2>2, ThinnedQueues
<1>15. /\ worker' \in [Workers -> WorkerRecord] /\ PhaseShape' /\ OwnerShape'
  BY <1>1, <1>2, <1>4, WorkerMoves
<1>16. SaveSound
  BY <1>1, SaveUnchanged
<1>17. TypeOK'
  BY <1>1, <1>4, <1>8, <1>11, <1>15, <1>16 DEF TypeOK, QueueTypeOK, SaveSound
<1>18. Attempts'
  BY <1>1, <1>4, <1>5, <1>6, <1>16
     DEF Shape, Attempts, AttemptLeft, SaveSound, JobTable, JobRecord
<1>19. CallerShape'
  BY <1>1, <1>4, <1>5, <1>7 DEF Shape, CallerShape, JobTable, JobRecord
<1>20. Holding'
  <2>1. worker \in [Workers -> WorkerRecord] /\ jobs'[j].status = "running"
    BY <1>4, <1>5 DEF TypeOK, JobTable, JobRecord
  <2> QED
    BY <1>1, <1>2, <1>4, <1>5, <1>6, <1>7, <2>1 DEF Shape, Holding, JobTable, JobRecord, a
<1>21. \A b \in Agents : queues'[b] # <<>> => b \in active' \/ phase' # "up"
  BY <1>1, <1>3, <1>4, <1>9 DEF Shape
<1> QED
  BY <1>14, <1>15, <1>17, <1>18, <1>19, <1>20, <1>21 DEF Shape

(* A worker that returns leaves an empty queue and an inactive agent.       *)
LEMMA ReturnShape ==
  ASSUME TypeOK, Shape, NEW w \in Workers, WorkerReturns(w)
  PROVE  TypeOK' /\ Shape'
<1> DEFINE a == w[1]
           s == w[2]
<1>1. /\ worker[w].pc = "loop" /\ worker' = [worker EXCEPT ![w] = NoWorker]
      /\ queues' = [queues EXCEPT ![a] = <<>>] /\ active' = active \ {a}
      /\ UNCHANGED <<jobs, dedup, completedMonitorFires, monitorFirePendingRemoved,
                     phase, caller, deleter, save, disk, acted>>
  BY DEF WorkerReturns, ClaimNothing
<1>2. /\ a \in Agents /\ s \in Slots /\ w = <<a, s>> /\ phase \in {"ready", "up"}
      /\ \A v \in Workers : v[1] = a /\ worker[v].pc # "none" => v = w
      /\ \A j \in Jobs : ~ Starting(a, j)
  BY <1>1, WorkerFacts
<1>3. /\ NoWorker \in WorkerRecord /\ NoWorker.pc = "none" /\ NoWorker.job = NoJob
  BY DEF NoWorker, WorkerRecord, WorkerPC
<1> HIDE DEF a, s
<1>4. worker \in [Workers -> WorkerRecord] /\ queues \in [Agents -> Seq(Jobs)]
  BY DEF TypeOK, QueueTypeOK
<1>5. queues' \in [Agents -> Seq(Jobs)] /\ \A b \in Agents :
        queues'[b] = IF b = a THEN <<>> ELSE queues[b]
  BY <1>1, <1>2, <1>4
<1>6. SaveSound
  BY <1>1, SaveUnchanged
<1>7. TypeOK'
  BY <1>1, <1>3, <1>4, <1>5, <1>6 DEF TypeOK, QueueTypeOK, SaveSound
<1>8. Attempts' /\ CallerShape'
  BY <1>1, <1>6 DEF Shape, Attempts, AttemptLeft, CallerShape, SaveSound
<1>9. QueueShape'
  BY <1>1, <1>5 DEF Shape, QueueShape
<1>10. Holding' /\ PhaseShape'
  BY <1>1, <1>2, <1>3, <1>4, SchedulerAssumption DEF Shape, Holding, PhaseShape
<1>11. OwnerShape'
  <2>1. \A b \in Agents, t \in Slots :
          <<b, t>> \in Workers /\ <<b, t>>[1] = b /\ <<b, t>>[2] = t
    BY DEF Workers
  <2>2. \A v \in Workers : worker'[v].pc # "none" <=> worker[v].pc # "none" /\ v # w
    BY <1>1, <1>3, <1>4
  <2>3. \A b \in Agents, t \in Slots : Busy(b, t)' <=> Busy(b, t) /\ b # a
    <3> TAKE b \in Agents, t \in Slots
    <3>1. Busy(b, t)' <=> Busy(b, t) /\ <<b, t>> # w
      BY <2>1, <2>2 DEF Busy
    <3>2. Busy(b, t) /\ b = a => <<b, t>> = w
      BY <1>2, <2>1 DEF Busy
    <3>3. <<b, t>> = w => b = a
      BY <1>2, <2>1
    <3> QED
      BY <3>1, <3>2, <3>3
  <2>4. \A b \in Agents, j \in Jobs : Starting(b, j)' <=> Starting(b, j)
    BY <1>1 DEF Starting
  <2>5. (\A t \in Slots : ~ Busy(a, t)') /\ (\A j \in Jobs : ~ Starting(a, j)')
    BY <1>2, <2>3, <2>4
  <2>6. OnlyOne(a)'
    BY <2>5 DEF OnlyOne
  <2> QED
    BY <1>1, <1>2, <2>3, <2>4, <2>5, <2>6, OwnerChange DEF Shape
<1>12. \A b \in Agents : queues'[b] # <<>> => b \in active' \/ phase' # "up"
  BY <1>1, <1>5 DEF Shape
<1> QED
  BY <1>7, <1>8, <1>9, <1>10, <1>11, <1>12 DEF Shape

(* What a step of w that touches nothing but its own job j has to leave.    *)
LEMMA OwnJobShape ==
  ASSUME TypeOK, Shape, NEW w \in Workers, NEW j \in Jobs, worker[w].job = j,
         NEW r \in WorkerRecord, r.pc # "none", worker' = [worker EXCEPT ![w] = r],
         NEW e \in JobRecord, jobs' = [jobs EXCEPT ![j] = e],
         jobs[j].status = "running",
         e.status \in {"queued", "running", "cancelled"} => e.attempt < MaxAttempts,
         \/ r.job = NoJob /\ r.pc \in {"loop", "completed"}
         \/ r.job = j /\ r.pc \notin {"loop", "completed"} /\ e.status = "running",
         UNCHANGED <<active, phase, caller, save, disk>>
  PROVE  /\ jobs' \in JobTable /\ worker' \in [Workers -> WorkerRecord]
         /\ worker[w].pc # "none" /\ AgentOf[j] = w[1] /\ w[1] \in active
         /\ SaveSound
         /\ Attempts' /\ CallerShape' /\ Holding' /\ PhaseShape' /\ OwnerShape'
<1>1. /\ jobs \in JobTable /\ worker \in [Workers -> WorkerRecord]
      /\ worker[w].pc # "none" /\ AgentOf[j] = w[1] /\ caller[j].pc # "new"
  BY SchedulerAssumption DEF TypeOK, QueueTypeOK, Shape, Holding
<1>2. /\ w[1] \in active
      /\ \A v \in Workers : v[1] = w[1] /\ worker[v].pc # "none" => v = w
  BY <1>1, WorkerFacts
<1>3. jobs' \in JobTable
  BY <1>1 DEF JobTable
<1>4. SaveSound
  BY SaveUnchanged
<1>5. worker' \in [Workers -> WorkerRecord] /\ PhaseShape' /\ OwnerShape'
  BY <1>1, WorkerMoves
<1>6. Attempts'
  BY <1>1, <1>4 DEF Shape, Attempts, AttemptLeft, SaveSound, JobTable
<1>7. CallerShape'
  <2>1. ~ caller[j].start
    BY DEF Shape, CallerShape
  <2> QED
    BY <1>1, <2>1 DEF Shape, CallerShape, JobTable
<1>8. Holding'
  <2>1. \A v \in Workers : worker[v].job = j => v = w
    BY <1>1, <1>2, SchedulerAssumption DEF Shape, Holding
  <2> QED
    BY <1>1, <2>1, SchedulerAssumption DEF Shape, Holding, JobTable
<1> QED
  BY <1>1, <1>2, <1>3, <1>4, <1>5, <1>6, <1>7, <1>8

(* Marking effects preserves the invariant.                                 *)
LEMMA MarkShape ==
  ASSUME TypeOK, Shape, NEW w \in Workers, MarkEffects(w)
  PROVE  TypeOK' /\ Shape'
<1> DEFINE j == worker[w].job
           r == [worker[w] EXCEPT !.pc = "marking"]
           e == [jobs[j] EXCEPT !.effects = TRUE]
<1>1. /\ worker[w].pc = "executing" /\ worker' = [worker EXCEPT ![w] = r]
      /\ jobs[j].status = "running" /\ jobs' = [jobs EXCEPT ![j] = e]
      /\ UNCHANGED <<queues, active, dedup, completedMonitorFires, monitorFirePendingRemoved,
                     phase, caller, deleter, save, disk, acted>>
  BY DEF MarkEffects, MarkEffectsStarted, Markable
<1>2. worker[w] \in WorkerRecord /\ jobs \in JobTable /\ j \in Jobs
  BY <1>1 DEF TypeOK, QueueTypeOK, Shape, Holding, WorkerRecord
<1>3. r \in WorkerRecord /\ r.pc = "marking" /\ r.job = j
  BY <1>2 DEF WorkerRecord, WorkerPC
<1>4. e \in JobRecord /\ e.status = "running" /\ e.attempt = jobs[j].attempt
  BY <1>1, <1>2 DEF JobTable, JobRecord
<1>5. e.attempt < MaxAttempts
  BY <1>1, <1>2, <1>4 DEF Shape, Attempts, AttemptLeft
<1> HIDE DEF j, r, e
<1>7. /\ jobs' \in JobTable /\ worker' \in [Workers -> WorkerRecord]
      /\ SaveSound
      /\ Attempts' /\ CallerShape' /\ Holding' /\ PhaseShape' /\ OwnerShape'
  BY <1>1, <1>2, <1>3, <1>4, <1>5, OwnJobShape DEF j
<1>8. QueueShape'
  BY <1>1, <1>2, <1>4 DEF Shape, QueueShape, JobTable, TypeOK, QueueTypeOK
<1>9. TypeOK'
  BY <1>1, <1>7 DEF TypeOK, QueueTypeOK, SaveSound
<1> QED
  BY <1>1, <1>7, <1>8, <1>9 DEF Shape

(* Complete, with each outcome, preserves the invariant.                    *)
LEMMA CompleteShape ==
  ASSUME TypeOK, Shape, NEW w \in Workers, NEW outcome \in Outcomes,
         StartFails(w, outcome) \/ FinishRun(w, outcome)
  PROVE  TypeOK' /\ Shape'
<1> DEFINE j == worker[w].job
           a == w[1]
<1>1. /\ worker[w].pc \in {"waiting", "executing"}
      /\ Complete(j, outcome)
      /\ worker' = [worker EXCEPT ![w] =
                      IF Present(j) THEN [AtLoop EXCEPT !.pc = "completed"] ELSE AtLoop]
      /\ UNCHANGED <<phase, caller, deleter, save, disk, acted>>
  BY DEF StartFails, FinishRun, CompleteJob
<1>2. /\ worker[w] \in WorkerRecord /\ jobs \in JobTable /\ queues \in [Agents -> Seq(Jobs)]
      /\ j \in Jobs /\ jobs[j].status \in {"running", "absent"} /\ AgentOf[j] = a /\ a \in Agents
  BY <1>1, QueueAssumption, ZenonT(60) DEF TypeOK, QueueTypeOK, Shape, Holding, WorkerRecord
<1>3. /\ AtLoop \in WorkerRecord /\ AtLoop.pc = "loop" /\ AtLoop.job = NoJob
      /\ [AtLoop EXCEPT !.pc = "completed"] \in WorkerRecord
      /\ [AtLoop EXCEPT !.pc = "completed"].pc = "completed"
      /\ [AtLoop EXCEPT !.pc = "completed"].job = NoJob
  BY DEF AtLoop, WorkerRecord, WorkerPC
<1>4. CASE ~ Present(j)
  <2>1. UNCHANGED queueVars /\ worker' = [worker EXCEPT ![w] = AtLoop]
    BY <1>1, <1>4 DEF Complete
  <2>2. /\ worker' \in [Workers -> WorkerRecord] /\ PhaseShape' /\ OwnerShape'
    BY <1>1, <1>3, <2>1, WorkerMoves DEF queueVars
  <2>3. SaveSound
    BY <1>1, SaveUnchanged
  <2>4. TypeOK' /\ Attempts' /\ QueueShape' /\ CallerShape'
    BY <1>1, <2>1, <2>2, <2>3
       DEF TypeOK, QueueTypeOK, Shape, Attempts, AttemptLeft, QueueShape, CallerShape,
           SaveSound, queueVars
  <2>5. Holding'
    BY <1>1, <1>3, <2>1, SchedulerAssumption DEF TypeOK, Shape, Holding, queueVars
  <2> QED
    BY <1>1, <2>1, <2>2, <2>4, <2>5 DEF Shape, queueVars
<1>5. CASE Present(j)
  <2> DEFINE r == [AtLoop EXCEPT !.pc = "completed"]
  <2>1. jobs[j].status = "running" /\ jobs[j].attempt \in 0..MaxAttempts
    BY <1>2, <1>5 DEF Present, JobTable, JobRecord
  <2>2. jobs[j].attempt < MaxAttempts
    BY <1>2, <2>1 DEF Shape, Attempts, AttemptLeft
  <2>3. worker' = [worker EXCEPT ![w] = r] /\ r \in WorkerRecord
          /\ r.pc = "completed" /\ r.job = NoJob
    BY <1>1, <1>3, <1>5
  <2> HIDE DEF r, j, a
  <2> DEFINE Stays == UNCHANGED queues
             NewQueue == queues' = [queues EXCEPT ![a] = <<j>> \o @]
  <2>4. \E e \in JobRecord :
          /\ jobs' = [jobs EXCEPT ![j] = e]
          /\ e.status \in {"queued", "running", "cancelled"} => e.attempt < MaxAttempts
          /\ Stays \/ (NewQueue /\ e.status = "queued")
    <3>1. CASE outcome = "succeeded"
      <4>1. CompleteSucceeded(j)
        BY <1>1, <1>5, <3>1 DEF Complete
      <4>2. Absent \in JobRecord /\ Absent.status = "absent"
        BY QueueAssumption DEF Absent, JobRecord, JobStatus
      <4> QED
        BY <4>1, <4>2 DEF CompleteSucceeded
    <3>2. CASE outcome = "cancelled"
      <4> DEFINE e == [jobs[j] EXCEPT !.status = "cancelled"]
      <4>1. CompleteCancelled(j)
        BY <1>1, <1>5, <3>2 DEF Complete
      <4>2. e \in JobRecord /\ e.attempt = jobs[j].attempt
        BY <1>2 DEF JobTable, JobRecord, JobStatus
      <4>3. jobs' = [jobs EXCEPT ![j] = e] /\ Stays
        BY <4>1 DEF CompleteCancelled
      <4> HIDE DEF e
      <4> QED
        BY <2>2, <4>2, <4>3
    <3>3. CASE outcome = "failed"
      <4>1. CompleteFailed(j)
        BY <1>1, <1>5, <3>3 DEF Complete
      <4>2. jobs[j].attempt + 1 \in 0..MaxAttempts
        BY <2>1, <2>2, QueueAssumption
      <4>3. CASE MayRetry(j)
        <5> DEFINE e == [jobs[j] EXCEPT !.status = "queued", !.attempt = @ + 1]
        <5>1. e \in JobRecord /\ e.status = "queued" /\ e.attempt = jobs[j].attempt + 1
          <6>1. jobs[j] \in JobRecord
            BY <1>2 DEF JobTable
          <6> QED
            BY <4>2, <6>1 DEF JobRecord, JobStatus
        <5>2. jobs' = [jobs EXCEPT ![j] = e] /\ NewQueue
          BY <1>2, <4>1, <4>3 DEF CompleteFailed, JobTable, JobRecord
        <5>3. e.attempt < MaxAttempts
          BY <4>3, <5>1 DEF MayRetry
        <5> HIDE DEF e
        <5> QED
          BY <5>1, <5>2, <5>3
      <4>4. CASE ~ MayRetry(j)
        <5> DEFINE e == [jobs[j] EXCEPT !.status = "failed", !.attempt = @ + 1]
        <5>1. e \in JobRecord /\ e.status = "failed"
          <6>1. jobs[j] \in JobRecord
            BY <1>2 DEF JobTable
          <6> QED
            BY <4>2, <6>1 DEF JobRecord, JobStatus
        <5>2. jobs' = [jobs EXCEPT ![j] = e] /\ Stays
          BY <1>2, <4>1, <4>4 DEF CompleteFailed, JobTable, JobRecord
        <5> HIDE DEF e
        <5> QED
          BY <5>1, <5>2
      <4> QED
        BY <4>3, <4>4
    <3> QED
      BY <3>1, <3>2, <3>3 DEF Outcomes
  <2>5. PICK e \in JobRecord :
          /\ jobs' = [jobs EXCEPT ![j] = e]
          /\ e.status \in {"queued", "running", "cancelled"} => e.attempt < MaxAttempts
          /\ Stays \/ (NewQueue /\ e.status = "queued")
    BY <2>4
  <2>6. UNCHANGED active /\ dedup' \subseteq DedupKeys /\ completedMonitorFires' \subseteq DedupKeys
          /\ monitorFirePendingRemoved' \subseteq DedupKeys
    <3>1. KeysOf(j) \subseteq DedupKeys
      BY <1>2, QueueAssumption DEF KeysOf
    <3> QED
      BY <1>1, <1>5, <3>1 DEF Complete, CompleteSucceeded, CompleteCancelled, CompleteFailed,
                              TypeOK, QueueTypeOK, j
  <2>7. /\ jobs' \in JobTable /\ worker' \in [Workers -> WorkerRecord]
        /\ a \in active /\ AgentOf[j] = a
        /\ SaveSound
        /\ Attempts' /\ CallerShape' /\ Holding' /\ PhaseShape' /\ OwnerShape'
    BY <1>1, <1>2, <2>1, <2>3, <2>5, <2>6, OwnJobShape DEF j, a
  <2>8. \A b \in Agents : \A m \in 1..Len(queues[b]) :
          queues[b][m] \in Jobs \ {j} /\ jobs'[queues[b][m]] = jobs[queues[b][m]]
    BY <1>2, <2>1, <2>5 DEF Shape, QueueShape, JobTable
  <2>9. QueueShape' /\ queues' \in [Agents -> Seq(Jobs)]
          /\ \A b \in Agents \ {a} : queues'[b] = queues[b]
    <3>1. CASE Stays
      BY <1>2, <2>8, <3>1 DEF Shape, QueueShape
    <3>2. CASE NewQueue /\ e.status = "queued"
      <4>1. /\ <<j>> \o queues[a] \in Seq(Jobs)
            /\ Len(<<j>> \o queues[a]) = Len(queues[a]) + 1
            /\ \A i \in 1..Len(<<j>> \o queues[a]) :
                 (<<j>> \o queues[a])[i] = IF i = 1 THEN j ELSE queues[a][i - 1]
        BY <1>2, ConsQueue
      <4>2. queues'[a] = <<j>> \o queues[a] /\ \A b \in Agents \ {a} : queues'[b] = queues[b]
        BY <1>2, <3>2
      <4>3. queues' \in [Agents -> Seq(Jobs)]
        BY <1>2, <3>2, <4>1
      <4>4. jobs'[j].status = "queued" /\ AgentOf[j] = a
        BY <1>2, <2>5, <2>7, <3>2 DEF JobTable
      <4>5. \A b \in Agents : \A m \in 1..Len(queues[b]) :
              /\ AgentOf[queues[b][m]] = b /\ queues[b][m] # j
              /\ jobs'[queues[b][m]].status = "queued"
              /\ \A n \in 1..Len(queues[b]) : queues[b][m] = queues[b][n] => m = n
        BY <2>8 DEF Shape, QueueShape
      <4>6. \A m \in 1..Len(queues'[a]) :
              \/ m = 1 /\ queues'[a][m] = j
              \/ m # 1 /\ m - 1 \in 1..Len(queues[a]) /\ queues'[a][m] = queues[a][m - 1]
        BY <1>2, <4>1, <4>2
      <4>7. \A m \in 1..Len(queues'[a]) :
              AgentOf[queues'[a][m]] = a /\ jobs'[queues'[a][m]].status = "queued"
        BY <1>2, <4>4, <4>5, <4>6
      <4>8. ASSUME NEW m \in 1..Len(queues'[a]), NEW n \in 1..Len(queues'[a]),
                   queues'[a][m] = queues'[a][n]
            PROVE  m = n
        <5>1. CASE m = 1 \/ n = 1
          BY <1>2, <4>5, <4>6, <4>8, <5>1
        <5>2. CASE m # 1 /\ n # 1
          <6>1. m - 1 = n - 1
            BY <1>2, <4>5, <4>6, <4>8, <5>2, SMTT(40)
          <6> QED
            BY <6>1
        <5> QED
          BY <5>1, <5>2
      <4>9. \A b \in Agents \ {a} : \A m \in 1..Len(queues'[b]) :
              /\ AgentOf[queues'[b][m]] = b
              /\ jobs'[queues'[b][m]].status = "queued"
              /\ \A n \in 1..Len(queues'[b]) : queues'[b][m] = queues'[b][n] => m = n
        <5> SUFFICES ASSUME NEW b \in Agents \ {a}
                     PROVE  \A m \in 1..Len(queues'[b]) :
                              /\ AgentOf[queues'[b][m]] = b
                              /\ jobs'[queues'[b][m]].status = "queued"
                              /\ \A n \in 1..Len(queues'[b]) : queues'[b][m] = queues'[b][n] => m = n
          OBVIOUS
        <5>1. queues'[b] = queues[b]
          BY <4>2
        <5> QED
          BY <4>5, <5>1, SMTT(60)
      <4>10. QueueShape'
        BY <4>7, <4>8, <4>9 DEF QueueShape
      <4> QED
        BY <4>2, <4>3, <4>10
    <3> QED
      BY <2>5, <3>1, <3>2
  <2>10. TypeOK'
    BY <1>1, <2>6, <2>7, <2>9 DEF TypeOK, QueueTypeOK, SaveSound
  <2>11. \A b \in Agents : queues'[b] # <<>> => b \in active' \/ phase' # "up"
    BY <1>1, <2>6, <2>7, <2>9 DEF Shape
  <2> QED
    BY <2>7, <2>9, <2>10, <2>11 DEF Shape
<1> QED
  BY <1>4, <1>5

-----------------------------------------------------------------------------
(* Agent deletion, crash and startup. *)

(* The deletion of an agent preserves the invariant.                        *)
LEMMA DeleteShape ==
  ASSUME TypeOK, Shape, NEW a \in Agents, DeleteAgent(a)
  PROVE  TypeOK' /\ Shape'
<1> DEFINE waiting == {j \in Jobs : Present(j) /\ \E i \in 1..Len(queues[a]) : queues[a][i] = j}
<1>1. /\ jobs' = [j \in Jobs |-> IF j \in waiting THEN [jobs[j] EXCEPT !.status = "cancelled"]
                                                  ELSE jobs[j]]
      /\ dedup' = dedup \ UNION {KeysOf(j) : j \in waiting}
      /\ queues' = [queues EXCEPT ![a] = <<>>]
      /\ deleter' = [deleter EXCEPT ![a] = "saving"]
      /\ UNCHANGED <<active, completedMonitorFires, monitorFirePendingRemoved,
                     phase, caller, worker, save, disk, acted>>
  BY SMTT(60) DEF DeleteAgent, CancelAgent
<1>2. /\ jobs \in JobTable /\ queues \in [Agents -> Seq(Jobs)]
      /\ \A j \in waiting : jobs[j].status = "queued" /\ AgentOf[j] = a
      /\ \A j \in Jobs : (\E i \in 1..Len(queues[a]) : queues[a][i] = j) => AgentOf[j] = a
  BY DEF TypeOK, QueueTypeOK, Shape, QueueShape
<1> HIDE DEF waiting
<1>3. \A j \in Jobs :
        /\ jobs'[j] \in JobRecord /\ jobs'[j].attempt = jobs[j].attempt
        /\ j \in waiting => jobs'[j].status = "cancelled"
        /\ j \notin waiting => jobs'[j] = jobs[j]
  BY <1>1, <1>2 DEF JobTable, JobRecord, JobStatus
<1>4. jobs' \in JobTable
  BY <1>1, <1>3 DEF JobTable
<1>5. queues' \in [Agents -> Seq(Jobs)] /\ \A b \in Agents :
        queues'[b] = IF b = a THEN <<>> ELSE queues[b]
  BY <1>1, <1>2
<1>6. SaveSound
  BY <1>1, SaveUnchanged
<1>7. TypeOK'
  BY <1>1, <1>4, <1>5, <1>6 DEF TypeOK, QueueTypeOK, SaveSound
<1>8. Attempts'
  BY <1>2, <1>3, <1>6 DEF Shape, Attempts, AttemptLeft, SaveSound
<1>9. QueueShape'
  <2>1. \A b \in Agents \ {a} : \A m \in 1..Len(queues[b]) :
          queues[b][m] \in Jobs \ waiting /\ jobs'[queues[b][m]].status = "queued"
    BY <1>2, <1>3 DEF Shape, QueueShape
  <2> QED
    BY <1>5, <2>1 DEF Shape, QueueShape
<1>10. CallerShape'
  BY <1>1, <1>2, <1>3 DEF Shape, CallerShape
<1>11. Holding' /\ PhaseShape'
  <2>1. \A w \in Workers : worker[w].job \in Jobs => worker[w].job \notin waiting
    BY <1>2 DEF Shape, Holding
  <2> QED
    BY <1>1, <1>3, <2>1 DEF Shape, Holding, PhaseShape
<1>12. OwnerShape'
  BY <1>1, OwnerFrame DEF Shape, Busy, Starting
<1>13. \A b \in Agents : queues'[b] # <<>> => b \in active' \/ phase' # "up"
  BY <1>1, <1>5 DEF Shape
<1> QED
  BY <1>7, <1>8, <1>9, <1>10, <1>11, <1>12, <1>13 DEF Shape

(* The end of a save by the deleter or by the loader.                       *)
LEMMA OtherSaveShape ==
  ASSUME TypeOK, Shape,
         LoadSaved \/ \E a \in Agents, ok \in BOOLEAN : DeletionSaved(a, ok)
  PROVE  TypeOK' /\ Shape'
<1>1. /\ \E p, point, ok : EndSave(p, point, ok)
      /\ UNCHANGED <<queueVars, caller, worker, acted>>
      /\ deleter' \in [Agents -> {"idle", "saving"}]
      /\ phase' = phase \/ phase' = "ready"
  BY DEF LoadSaved, DeletionSaved, TypeOK
<1>2. SaveSound
  BY <1>1, EndSaveShape
<1>3. TypeOK'
  BY <1>1, <1>2 DEF TypeOK, QueueTypeOK, SaveSound, queueVars
<1>4. Attempts' /\ QueueShape' /\ Holding' /\ CallerShape' /\ PhaseShape'
  BY <1>1, <1>2 DEF Shape, Attempts, AttemptLeft, QueueShape, Holding, CallerShape, PhaseShape,
                    SaveSound, queueVars
<1>5. OwnerShape'
  BY <1>1, OwnerFrame DEF Shape, Busy, Starting, queueVars
<1> QED
  BY <1>1, <1>3, <1>4, <1>5 DEF Shape, queueVars

(* A crash preserves the invariant.                                         *)
LEMMA HaltShape ==
  ASSUME TypeOK, Shape, Halt
  PROVE  TypeOK' /\ Shape'
<1> USE DEF Halt
<1>1. caller' \in [Jobs -> CallerRecord] /\ \A j \in Jobs :
        ~ caller'[j].start /\ (caller'[j].pc = "new" => caller[j].pc = "new")
  BY DEF TypeOK, CallerRecord, CallerPC, Shape, CallerShape
<1>2. /\ NoWorker \in WorkerRecord /\ NoWorker.pc = "none" /\ NoWorker.job = NoJob
      /\ Absent \in JobRecord /\ Absent.status = "absent" /\ NoTable \in JobTable
      /\ \A j \in Jobs : NoTable[j] = Absent
      /\ NoSave \in SaveRecord /\ NoSave.jobs = NoTable
  BY QueueAssumption DEF NoWorker, WorkerRecord, WorkerPC, Absent, JobRecord, JobStatus,
                         NoTable, JobTable, NoSave, SaveRecord
<1>3. queues' \in [Agents -> Seq(Jobs)] /\ \A a \in Agents : queues'[a] = <<>>
  BY DEF EmptyQueues
<1>4. TypeOK'
  BY <1>1, <1>2, <1>3 DEF TypeOK, QueueTypeOK
<1>5. Attempts' /\ QueueShape' /\ CallerShape'
  BY <1>1, <1>2, <1>3 DEF Shape, Attempts, AttemptLeft, QueueShape, CallerShape
<1>6. \A w \in Workers : worker'[w] = NoWorker
  OBVIOUS
<1>7. Holding' /\ PhaseShape'
  BY <1>1, <1>2, <1>6, SchedulerAssumption DEF Holding, PhaseShape
<1>8. \A a \in Agents :
        (\A s \in Slots : ~ Busy(a, s)') /\ (\A j \in Jobs : ~ Starting(a, j)') /\ a \notin active'
  BY <1>1, <1>2, <1>6 DEF Busy, Starting, Workers
<1>9. OwnerShape'
  BY <1>8 DEF OwnerShape, OnlyOne
<1> QED
  BY <1>4, <1>5, <1>7, <1>9 DEF Shape

(* What Recover makes of the file: nothing runs, and what is queued may.    *)
LEMMA RecoveredTable ==
  ASSUME NEW table \in JobTable, AttemptLeft(table)
  PROVE  /\ Recovered(table) \in JobTable
         /\ AttemptLeft(Recovered(table))
         /\ \A j \in Jobs : table[j].status = "absent" => Recovered(table)[j].status = "absent"
<1> SUFFICES ASSUME NEW j \in Jobs
             PROVE  /\ RecoveredRecord(table[j]) \in JobRecord
                    /\ RecoveredRecord(table[j]).status \in {"queued", "running", "cancelled"}
                         => RecoveredRecord(table[j]).attempt < MaxAttempts
                    /\ table[j].status = "absent"
                         => RecoveredRecord(table[j]).status = "absent"
  BY DEF Recovered, JobTable, AttemptLeft
<1> DEFINE r == table[j]
           spent == IF r.status = "running" THEN [r EXCEPT !.attempt = @ + 1] ELSE r
<1>1. /\ r \in JobRecord /\ MaxAttempts \in Nat
      /\ r.status \in {"queued", "running", "cancelled"} => r.attempt < MaxAttempts
  BY QueueAssumption DEF JobTable, AttemptLeft
<1>2. spent \in JobRecord /\ spent.status = r.status
  BY <1>1 DEF JobRecord
<1>3. Absent \in JobRecord /\ Absent.status = "absent"
  BY QueueAssumption DEF Absent, JobRecord, JobStatus
<1> HIDE DEF r, spent
<1>4. RecoveredRecord(table[j]) =
        CASE r.status \in {"absent", "cancelled"}        -> Absent
          [] r.status = "failed"                         -> r
          [] r.status = "running" /\ r.effects           -> [spent EXCEPT !.status = "failed"]
          [] r.status = "queued" \/ (r.status = "running" /\ ~ r.effects) ->
               [spent EXCEPT !.status = IF Exhausted(spent) THEN "failed" ELSE "queued"]
  BY DEF RecoveredRecord, r, spent
<1>5. CASE r.status \in {"absent", "cancelled"}
  BY <1>3, <1>4, <1>5 DEF r
<1>6. CASE r.status = "failed"
  BY <1>1, <1>4, <1>6 DEF r
<1>7. CASE r.status = "running" /\ r.effects
  BY <1>1, <1>2, <1>4, <1>7 DEF r, JobRecord, JobStatus
<1>8. CASE r.status = "queued" \/ (r.status = "running" /\ ~ r.effects)
  <2>1. RecoveredRecord(table[j]) =
          [spent EXCEPT !.status = IF Exhausted(spent) THEN "failed" ELSE "queued"]
    BY <1>4, <1>8
  <2>2. /\ RecoveredRecord(table[j]) \in JobRecord
        /\ RecoveredRecord(table[j]).attempt = spent.attempt
        /\ RecoveredRecord(table[j]).status = IF Exhausted(spent) THEN "failed" ELSE "queued"
    BY <1>2, <2>1 DEF JobRecord, JobStatus
  <2>3. spent.attempt \in Nat
    BY <1>1, <1>2 DEF JobRecord
  <2> QED
    BY <1>1, <1>8, <2>2, <2>3 DEF Exhausted, r
<1>9. r.effects \in BOOLEAN /\ r.status \in JobStatus
  BY <1>1 DEF JobRecord
<1> QED
  BY <1>5, <1>6, <1>7, <1>8, <1>9 DEF JobStatus

(* A listing of a set of jobs is a queue of exactly those, each once.       *)
LEMMA ListingQueue ==
  ASSUME NEW S \in SUBSET Jobs, NEW q \in Listings(S)
  PROVE  /\ q \in Seq(Jobs)
         /\ \A m \in 1..Len(q) : q[m] \in S
         /\ \A m, n \in 1..Len(q) : q[m] = q[n] => m = n
<1>1. Cardinality(S) \in Nat
  BY QueueAssumption, FS_Subset, FS_CardinalityType
<1>2. q \in [1..Cardinality(S) -> S] /\ InCreationOrder(q)
  BY DEF Listings
<1>3. q \in Seq(Jobs) /\ Len(q) = Cardinality(S)
  BY <1>1, <1>2
<1>4. \A m, n \in 1..Len(q) : m < n => q[m] # q[n]
  BY <1>2, <1>3, QueueAssumption DEF InCreationOrder
<1>5. \A m, n \in 1..Len(q) : q[m] = q[n] => m = n
  BY <1>1, <1>3, <1>4
<1> QED
  BY <1>2, <1>3, <1>5

(* Loading the file preserves the invariant.                                *)
LEMMA LoadShape ==
  ASSUME TypeOK, Shape, Load
  PROVE  TypeOK' /\ Shape'
<1> DEFINE S(a) == {j \in Jobs : AgentOf[j] = a /\ jobs'[j].status = "queued"}
<1>1. /\ phase = "down" /\ phase' \in {"loading", "ready"}
      /\ jobs' = Recovered(disk.jobs) /\ active' = {}
      /\ dedup' = UNION {KeysOf(j) : j \in {i \in Jobs : jobs'[i].status = "queued"}}
      /\ completedMonitorFires' = disk.completed
      /\ monitorFirePendingRemoved' = disk.pendingRemoved
      /\ UNCHANGED <<caller, worker, deleter, save, disk, acted>>
  BY DEF Load, Recover
<1>2. queues' \in [Agents -> OrderedQueues] /\ \A a \in Agents : queues'[a] \in Listings(S(a))
  BY DEF Load, Recover
<1>3. /\ jobs' \in JobTable /\ AttemptLeft(jobs')
      /\ \A j \in Jobs : disk.jobs[j].status = "absent" => jobs'[j].status = "absent"
  BY <1>1, RecoveredTable DEF TypeOK, Snapshot, Shape, Attempts
<1>4. \A a \in Agents :
        /\ queues'[a] \in Seq(Jobs)
        /\ \A m \in 1..Len(queues'[a]) : queues'[a][m] \in S(a)
        /\ \A m, n \in 1..Len(queues'[a]) : queues'[a][m] = queues'[a][n] => m = n
  BY <1>2, ListingQueue
<1>5. queues' \in [Agents -> Seq(Jobs)]
  BY <1>2, <1>4
<1>6. dedup' \subseteq DedupKeys
  BY <1>1, QueueAssumption DEF KeysOf
<1>7. SaveSound
  BY <1>1, SaveUnchanged
<1>8. TypeOK'
  BY <1>1, <1>3, <1>5, <1>6, <1>7 DEF TypeOK, QueueTypeOK, SaveSound, Snapshot
<1>9. Attempts' /\ CallerShape'
  BY <1>1, <1>3, <1>7 DEF Shape, Attempts, AttemptLeft, CallerShape, PhaseShape, SaveSound
<1>10. QueueShape'
  BY <1>4 DEF QueueShape
<1>11. \A w \in Workers : worker[w] = NoWorker
  BY <1>1 DEF Shape, PhaseShape
<1>12. Holding' /\ PhaseShape'
  <2>1. NoWorker.pc = "none" /\ NoWorker.job = NoJob
    BY DEF NoWorker
  <2>2. Holding'
    BY <1>1, <1>11, <2>1, SchedulerAssumption DEF Holding
  <2>3. PhaseShape'
    BY <1>1, <1>11 DEF Shape, PhaseShape
  <2> QED
    BY <2>2, <2>3
<1>13. OwnerShape'
  <2>1. UNCHANGED active
    BY <1>1 DEF Shape, PhaseShape
  <2> QED
    BY <1>1, <2>1, OwnerFrame DEF Shape, Busy, Starting
<1> QED
  BY <1>1, <1>8, <1>9, <1>10, <1>12, <1>13 DEF Shape

(* The resumption gives every agent with queued runs one worker.            *)
LEMMA ResumeShape ==
  ASSUME TypeOK, Shape, ResumeScheduledRuns
  PROVE  TypeOK' /\ Shape'
<1> DEFINE slot(a) == CHOOSE s \in FreeSlots(a) : TRUE
<1>1. /\ phase = "ready" /\ phase' = "up" /\ active' = active \cup KeysToResume
      /\ worker' = [w \in Workers |->
                      IF w[1] \in KeysToResume /\ w[2] = slot(w[1]) THEN AtLoop ELSE worker[w]]
      /\ UNCHANGED <<queues, jobs, dedup, completedMonitorFires, monitorFirePendingRemoved,
                     caller, deleter, save, disk, acted>>
  BY DEF ResumeScheduledRuns, ResumeKeys
<1>2. \A a \in KeysToResume : a \in Agents /\ slot(a) \in Slots
  BY DEF ResumeScheduledRuns, FreeSlots, KeysToResume
<1> HIDE DEF slot
<1>3. /\ AtLoop \in WorkerRecord /\ AtLoop.pc = "loop" /\ AtLoop.job = NoJob
      /\ worker \in [Workers -> WorkerRecord]
  BY DEF AtLoop, WorkerRecord, WorkerPC, TypeOK
<1>4. \A w \in Workers : worker'[w] \in {worker[w], AtLoop}
  BY <1>1
<1>5. worker' \in [Workers -> WorkerRecord]
  BY <1>1, <1>3
<1>6. SaveSound
  BY <1>1, SaveUnchanged
<1>7. TypeOK'
  <2>1. KeysToResume \subseteq Agents
    BY DEF KeysToResume
  <2> QED
    BY <1>1, <1>5, <1>6, <2>1 DEF TypeOK, QueueTypeOK, SaveSound
<1>8. Attempts' /\ QueueShape' /\ CallerShape' /\ PhaseShape'
  BY <1>1, <1>6 DEF Shape, Attempts, AttemptLeft, QueueShape, CallerShape, PhaseShape, SaveSound
<1>9. Holding'
  BY <1>1, <1>3, <1>4, SchedulerAssumption DEF Shape, Holding
<1>10. OwnerShape'
  <2>1. \A a \in Agents, s \in Slots :
          <<a, s>> \in Workers /\ <<a, s>>[1] = a /\ <<a, s>>[2] = s
    BY DEF Workers
  <2>2. \A a \in Agents, s \in Slots :
          Busy(a, s)' <=> Busy(a, s) \/ (a \in KeysToResume /\ s = slot(a))
    BY <1>1, <1>3, <2>1 DEF Busy
  <2>3. \A a \in Agents, j \in Jobs : Starting(a, j)' <=> Starting(a, j)
    BY <1>1 DEF Starting
  <2>4. ASSUME NEW a \in Agents, a \in KeysToResume
        PROVE  OnlyOne(a)' /\ a \in active' /\ \E s \in Slots : Busy(a, s)'
    <3>1. (\A s \in Slots : ~ Busy(a, s)) /\ (\A j \in Jobs : ~ Starting(a, j))
      BY <2>4 DEF Shape, OwnerShape, KeysToResume
    <3>2. (\A s \in Slots : Busy(a, s)' <=> s = slot(a)) /\ (\A j \in Jobs : ~ Starting(a, j)')
      BY <2>2, <2>3, <2>4, <3>1
    <3> QED
      BY <1>1, <1>2, <2>4, <3>2 DEF OnlyOne
  <2>5. ASSUME NEW a \in Agents, a \notin KeysToResume
        PROVE  /\ OnlyOne(a)'
               /\ a \in active' <=> (\E s \in Slots : Busy(a, s)') \/ (\E j \in Jobs : Starting(a, j)')
    <3>1. /\ \A s \in Slots : Busy(a, s)' <=> Busy(a, s)
          /\ \A j \in Jobs : Starting(a, j)' <=> Starting(a, j)
          /\ a \in active' <=> a \in active
      BY <1>1, <2>2, <2>3, <2>5
    <3> QED
      BY <3>1 DEF Shape, OwnerShape, OnlyOne
  <2> QED
    BY <2>4, <2>5 DEF OwnerShape
<1>11. \A a \in Agents : queues'[a] # <<>> => a \in active'
  BY <1>1 DEF KeysToResume
<1> QED
  BY <1>7, <1>8, <1>9, <1>10, <1>11 DEF Shape

-----------------------------------------------------------------------------
(* Every step preserves the invariant.                                      *)
LEMMA NextShape ==
  ASSUME TypeOK, Shape, [Next]_vars
  PROVE  TypeOK' /\ Shape'
<1>1. CASE UNCHANGED vars
  <2>1. TypeOK' /\ Attempts' /\ QueueShape' /\ Holding' /\ CallerShape' /\ PhaseShape'
    BY <1>1 DEF TypeOK, QueueTypeOK, Shape, Attempts, AttemptLeft, QueueShape, Holding,
                CallerShape, PhaseShape, vars
  <2>2. OwnerShape'
    BY <1>1, OwnerFrame DEF Shape, Busy, Starting, vars
  <2> QED
    BY <1>1, <2>1, <2>2 DEF Shape, vars
<1>2. CASE \E j \in Jobs : CallerStep(j)
  BY <1>2, ScheduleShape, CallerWaitsShape, AcceptShape, RollbackShape DEF CallerStep
<1>3. CASE \E w \in Workers : WorkerStep(w)
  BY <1>3, ClaimShape, ReturnShape, QuietShape, CompleteShape, MarkShape
     DEF WorkerStep, QuietStep
<1>4. CASE \E a \in Agents : DeleterStep(a)
  BY <1>4, DeleteShape, OtherSaveShape DEF DeleterStep
<1>5. CASE SaveStep
  BY <1>5, SaveShape
<1>6. CASE StartupStep
  BY <1>6, LoadShape, OtherSaveShape, HaltShape, ResumeShape DEF StartupStep, LoadSaveFails
<1>7. CASE Crash
  BY <1>7, HaltShape DEF Crash
<1> QED
  BY <1>1, <1>2, <1>3, <1>4, <1>5, <1>6, <1>7 DEF Next

(* The invariant holds in every reachable state, for any number of jobs,    *)
(* agents and goroutines, with crashes and failed saves anywhere.           *)
THEOREM InvariantHolds == Spec => []IInv
<1>1. Init => TypeOK /\ Shape
  BY InitShape
<1>2. TypeOK /\ Shape /\ [Next]_vars => TypeOK' /\ Shape'
  BY NextShape
<1> QED
  BY <1>1, <1>2, ShapeIsIInv, PTL DEF Spec

(* The variables keep their types; with QueueTypeOK, a retry never takes a  *)
(* job beyond MaxAttempts.                                                  *)
THEOREM TypesHold == Spec => []TypeOK
<1>1. IInv => TypeOK
  BY DEF IInv
<1> QED
  BY <1>1, InvariantHolds, PTL

(* An agent's runs are serial: at every moment at most one goroutine works  *)
(* through its queue, and the active flag says exactly whether there is one *)
(* or a caller about to start it.                                           *)
THEOREM RunsAreSerial == Spec => []SingleOwner
<1>1. IInv => SingleOwner
  BY DEF IInv
<1> QED
  BY <1>1, InvariantHolds, PTL

(* No wake-up is lost between Enqueue, Claim's last look, RollbackEnqueue   *)
(* and the resumption after a restart.                                      *)
THEOREM NoQueueIsStranded == Spec => []NoStrandedQueue
<1>1. IInv => NoStrandedQueue
  BY DEF IInv
<1> QED
  BY <1>1, InvariantHolds, PTL

(* Both together, as the runs check them: whoever schedules, claims, rolls  *)
(* back or resumes, the duty to drain a queue is neither doubled nor lost.  *)
THEOREM QueuesAreAlwaysServed == Spec => []QueuesAreServed
<1> QED
  BY RunsAreSerial, NoQueueIsStranded, PTL DEF QueuesAreServed

-----------------------------------------------------------------------------
(* What the snapshot file keeps. A run that was accepted is never lost;     *)
(* and, where the save of an admission does not fail, effects are marked on *)
(* disk, no effect is repeated, and the dedup index is exact. The first     *)
(* holds of the code as it is; without the condition the others do not.     *)

-----------------------------------------------------------------------------
(* Who is saving.                                                           *)

LEMMA SaverQuiet ==
  ASSUME SaverShape, UNCHANGED save, phase' = "down" => phase = "down",
         \A j \in Jobs : caller'[j].pc = caller[j].pc
                           \/ (phase # "down" /\ caller[j].pc # "saving"),
         \A w \in Workers : worker'[w].pc = worker[w].pc
                           \/ worker[w].pc \notin {"claimed", "marking", "completed"},
         UNCHANGED deleter \/ phase # "down"
  PROVE  SaverShape'
  BY DEF SaverShape

LEMMA SaverDone ==
  ASSUME SaverShape, save' = NoSave, phase # "down" \/ UNCHANGED <<caller, deleter>>,
         phase' = "down" => phase = "down"
  PROVE  SaverShape'
<1>1. save'.by = Nobody /\ (\A j : CallerOf(j) # Nobody) /\ (\A w : WorkerOf(w) # Nobody)
  BY DEF NoSave, CallerOf, WorkerOf, Nobody
<1> QED
  BY <1>1 DEF SaverShape

LEMMA SaverStep ==
  ASSUME TypeOK, Shape, SaverShape, [Next]_vars
  PROVE  SaverShape'
<1> /\ caller \in [Jobs -> CallerRecord] /\ worker \in [Workers -> WorkerRecord]
    /\ deleter \in [Agents -> {"idle", "saving"}]
  BY DEF TypeOK
<1>1. ASSUME NEW w \in Workers, worker[w].pc # "none" PROVE phase \in {"ready", "up"}
  BY <1>1, WorkerFacts
<1>2. ASSUME NEW j \in Jobs, CallerStep(j) PROVE SaverShape'
  <2>1. CASE ScheduleRun(j) \/ ScheduleRefused(j)
    BY <2>1, SaverQuiet DEF ScheduleRun, ScheduleRefused, Serving
  <2>2. CASE AcceptRun(j) \/ EnqueueSaveFails(j)
    <3>1. caller[j].pc = "saving" /\ save' = NoSave /\ UNCHANGED phase
      BY <2>2 DEF AcceptRun, EnqueueSaveFails, EndSave
    <3> QED
      BY <3>1, SaverDone DEF SaverShape
  <2>3. CASE RollbackRun(j)
    <3>1. /\ caller[j].pc = "rollback" /\ UNCHANGED <<save, phase, deleter>>
          /\ \A i \in Jobs : i # j => caller'[i] = caller[i]
      BY <2>3 DEF RollbackRun
    <3>2. phase # "down"
      BY <3>1 DEF SaverShape
    <3>3. \A w \in Workers : worker'[w].pc = worker[w].pc \/ worker[w].pc = "none"
      BY <2>3 DEF RollbackRun, Spawn, FreeSlots
    <3> QED
      BY <3>1, <3>2, <3>3, SaverQuiet
  <2> QED
    BY <1>2, <2>1, <2>2, <2>3 DEF CallerStep
<1>3. ASSUME NEW w \in Workers, WorkerStep(w) PROVE SaverShape'
  <2>1. worker[w].pc # "none" /\ UNCHANGED <<phase, caller, deleter>>
    BY <1>3 DEF WorkerStep, ClaimJob, WorkerReturns, ClaimSaved, CompletionSaved, StartRun,
         StartFails, FinishRun, CompleteJob, MarkEffects, EffectWithoutMark, EffectMarked,
         EffectRefused
  <2>2. phase # "down"
    BY <1>1, <2>1
  <2>3. CASE save' = NoSave
    BY <2>1, <2>2, <2>3, SaverDone
  <2>4. CASE save' # NoSave
    <3>1. /\ UNCHANGED save /\ worker[w].pc \notin {"claimed", "marking", "completed"}
          /\ \A v \in Workers : v # w => worker'[v] = worker[v]
      BY <1>3, <2>4 DEF WorkerStep, ClaimJob, WorkerReturns, ClaimSaved, CompletionSaved, StartRun,
           StartFails, FinishRun, CompleteJob, MarkEffects, EffectWithoutMark, EffectMarked,
           EffectRefused, EndSave, Act
    <3> QED
      BY <2>1, <3>1, SaverQuiet
  <2> QED
    BY <2>3, <2>4
<1>4. ASSUME NEW a \in Agents, DeleterStep(a) PROVE SaverShape'
  <2>1. CASE DeleteAgent(a)
    BY <2>1, SaverQuiet DEF DeleteAgent
  <2>2. ASSUME NEW ok \in BOOLEAN, DeletionSaved(a, ok) PROVE SaverShape'
    <3>1. phase # "down" /\ save' = NoSave /\ UNCHANGED phase
      BY <2>2 DEF DeletionSaved, SaverShape, EndSave
    <3> QED
      BY <3>1, SaverDone
  <2> QED
    BY <1>4, <2>1, <2>2 DEF DeleterStep
<1>5. CASE ReadCompletedFires
  <2>1. save'.by = save.by /\ UNCHANGED <<phase, caller, worker, deleter>>
    BY <1>5 DEF ReadCompletedFires, TypeOK, SaveRecord
  <2> QED
    BY <2>1 DEF SaverShape
<1>6. ASSUME NEW p \in Processes, BeginSave(p) PROVE SaverShape'
  <2>1. save'.by = p /\ Saving(p) /\ UNCHANGED <<phase, caller, worker, deleter>>
    BY <1>6 DEF BeginSave
  <2>2. \A j \in Jobs : p = CallerOf(j) => caller[j].pc = "saving"
    BY <2>1 DEF Saving, CallerOf, WorkerOf, DeleterOf, Loader
  <2>3. \A w \in Workers : p = WorkerOf(w) => worker[w].pc \in {"claimed", "marking", "completed"}
    BY <2>1 DEF Saving, CallerOf, WorkerOf, DeleterOf, Loader
  <2>4. phase # "down"
    BY <2>1, <1>1 DEF Saving, SaverShape
  <2> QED
    BY <2>1, <2>2, <2>3, <2>4 DEF SaverShape
<1>7. CASE Load \/ ResumeScheduledRuns
  <2>1. UNCHANGED <<save, caller, deleter>> /\ phase' # "down"
    BY <1>7 DEF Load, ResumeScheduledRuns
  <2>2. \A w \in Workers : worker'[w].pc = worker[w].pc \/ worker[w].pc = "none"
    <3> DEFINE slot(a) == CHOOSE s \in FreeSlots(a) : TRUE
    <3>1. CASE ResumeScheduledRuns
      <4>1. /\ \A a \in KeysToResume : slot(a) \in FreeSlots(a)
            /\ \A w \in Workers : worker'[w] =
                 IF w[1] \in KeysToResume /\ w[2] = slot(w[1]) THEN AtLoop ELSE worker[w]
        BY <3>1 DEF ResumeScheduledRuns
      <4> HIDE DEF slot
      <4>2. \A w \in Workers : w = <<w[1], w[2]>>
        BY DEF Workers
      <4>3. ASSUME NEW w \in Workers, w[1] \in KeysToResume, w[2] = slot(w[1])
            PROVE  worker[w].pc = "none"
        <5>1. worker[<<w[1], w[2]>>].pc = "none"
          BY <4>1, <4>3 DEF FreeSlots
        <5> QED
          BY <4>2, <5>1
      <4> QED
        BY <4>1, <4>3
    <3> QED
      BY <1>7, <3>1 DEF Load
  <2> QED
    BY <2>1, <2>2, SaverQuiet
<1>8. CASE LoadSaved
  BY <1>8, SaverDone DEF LoadSaved, EndSave
<1>9. CASE LoadSaveFails \/ Crash
  BY <1>9 DEF LoadSaveFails, Crash, Halt, SaverShape, NoSave, Nobody, CallerOf, WorkerOf
<1>10. CASE UNCHANGED vars
  BY <1>10 DEF vars, SaverShape
<1> QED
  BY <1>2, <1>3, <1>4, <1>5, <1>6, <1>7, <1>8, <1>9, <1>10
     DEF Next, SaveStep, StartupStep

-----------------------------------------------------------------------------
(* Accepted runs.                                                          *)

(* A step that saves nothing and makes no job live.                         *)
LEMMA AcceptedStay ==
  ASSUME AcceptedShape, Live(jobs') \subseteq Live(jobs), UNCHANGED <<save, disk>>,
         \A j \in Live(jobs') : caller'[j].pc \notin {"saving", "rollback"} =>
                                  caller[j].pc \notin {"saving", "rollback"}
  PROVE  AcceptedShape'
  BY DEF AcceptedShape

(* The end of a save: what is accepted with it was read by it.              *)
LEMMA AcceptedSaved ==
  ASSUME AcceptedShape, NEW p, NEW point, NEW ok, EndSave(p, point, ok), p # Nobody,
         UNCHANGED jobs,
         \A j \in Live(jobs) : caller'[j].pc \notin {"saving", "rollback"} =>
           caller[j].pc \notin {"saving", "rollback"} \/ (ok /\ p = CallerOf(j))
  PROVE  AcceptedShape'
<1>1. save'.by = Nobody
  BY DEF EndSave, NoSave
<1>2. \A j : CallerOf(j) # Nobody
  BY DEF CallerOf, Nobody
<1>3. ASSUME NEW j \in Live(jobs), caller'[j].pc \notin {"saving", "rollback"}
      PROVE  j \in Live(disk'.jobs)
  BY <1>3 DEF AcceptedShape, EndSave
<1> QED
  BY <1>1, <1>2, <1>3 DEF AcceptedShape

(* No operation of the queue but Enqueue and Recover makes a job live.      *)
LEMMA LiveOnly ==
  ASSUME TypeOK, NEW j \in Jobs,
         \/ \E started : RollbackEnqueue(j, started)
         \/ \E a \in Agents : Claim(a, j) \/ CancelAgent(a)
         \/ \E outcome \in Outcomes : jobs[j].status \in {"running", "absent"} /\ Complete(j, outcome)
         \/ MarkEffectsStarted(j)
  PROVE  Live(jobs') \subseteq Live(jobs)
<1>1. \A i \in Jobs : jobs[i] \in JobRecord
  BY DEF TypeOK, QueueTypeOK, JobTable
<1>2. CASE \E started : RollbackEnqueue(j, started)
  BY <1>1, <1>2 DEF TypeOK, QueueTypeOK, JobTable, RollbackEnqueue, Live, Absent, queueVars
<1>3. CASE \E a \in Agents : Claim(a, j)
  <2>1. jobs[j].status = "queued" /\ jobs' = [jobs EXCEPT ![j].status = "running"]
    BY <1>3 DEF Claim, Runnable
  <2> QED
    BY <2>1 DEF TypeOK, QueueTypeOK, JobTable, Live
<1>4. CASE \E a \in Agents : CancelAgent(a)
  <2>1. \A i \in Jobs : jobs'[i] = jobs[i] \/ jobs'[i] = [jobs[i] EXCEPT !.status = "cancelled"]
    BY <1>4 DEF CancelAgent
  <2>2. ASSUME NEW i \in Jobs, jobs'[i].status \in {"queued", "running"}
        PROVE  jobs[i].status \in {"queued", "running"}
    BY <1>1, <2>1, <2>2 DEF JobRecord
  <2> QED
    BY <2>2 DEF Live
<1>5. CASE \E outcome \in Outcomes : jobs[j].status \in {"running", "absent"} /\ Complete(j, outcome)
  <2>1. \A i \in Jobs \ {j} : jobs'[i] = jobs[i]
    BY <1>5 DEF TypeOK, QueueTypeOK, JobTable, Complete, CompleteSucceeded, CompleteCancelled,
                CompleteFailed, queueVars
  <2>2. jobs[j].status = "absent" => jobs'[j] = jobs[j]
    BY <1>5 DEF Complete, Present, queueVars
  <2> QED
    BY <1>5, <2>1, <2>2 DEF Live
<1>6. CASE MarkEffectsStarted(j)
  BY <1>6 DEF MarkEffectsStarted, TypeOK, QueueTypeOK, JobTable, JobRecord, Live
<1> QED
  BY <1>2, <1>3, <1>4, <1>5, <1>6

LEMMA AcceptedByCaller ==
  ASSUME TypeOK, Shape, SaverShape, AcceptedShape, NEW j \in Jobs, CallerStep(j)
  PROVE  AcceptedShape'
<1> \A i \in Jobs : caller[i] \in CallerRecord
  BY DEF TypeOK
<1>1. CASE ScheduleRun(j)
  <2>1. /\ jobs' = [jobs EXCEPT ![j] = Fresh] /\ UNCHANGED <<phase, save, disk>>
        /\ caller' = [caller EXCEPT ![j] = [pc |-> "saving", start |-> StartsWorker(j)]]
        /\ caller[j].pc = "new" /\ phase \in {"ready", "up"}
    BY <1>1 DEF ScheduleRun, Enqueue, Serving
  <2>2. caller'[j].pc = "saving" /\ \A i \in Jobs \ {j} : caller'[i] = caller[i]
    BY <2>1 DEF TypeOK
  <2>3. Live(jobs') \subseteq Live(jobs) \cup {j}
    BY <2>1 DEF TypeOK, QueueTypeOK, JobTable, Live
  <2>4. save.by # CallerOf(j)
    BY <2>1 DEF SaverShape
  <2> QED
    BY <2>1, <2>2, <2>3, <2>4 DEF AcceptedShape
<1>2. CASE ScheduleRefused(j)
  <2>1. caller[j].pc = "new" /\ jobs[j].status = "absent"
    BY <1>2 DEF ScheduleRefused, Shape, CallerShape
  <2> QED
    BY <1>2, <2>1, AcceptedStay DEF ScheduleRefused, queueVars, TypeOK, Live
<1>3. CASE AcceptRun(j)
  <2>1. EndSave(CallerOf(j), "enqueue", TRUE) /\ UNCHANGED jobs
        /\ caller' = [caller EXCEPT ![j] = [pc |-> "accepted", start |-> FALSE]]
    BY <1>3 DEF AcceptRun, queueVars
  <2>2. CallerOf(j) # Nobody
    BY DEF CallerOf, Nobody
  <2>3. \A i \in Live(jobs) : i # j => caller'[i] = caller[i]
    BY <2>1 DEF TypeOK, Live
  <2> QED
    BY <2>1, <2>2, <2>3, AcceptedSaved DEF Live
<1>4. CASE EnqueueSaveFails(j)
  <2>1. EndSave(CallerOf(j), "enqueue", FALSE) /\ UNCHANGED jobs
        /\ caller' = [caller EXCEPT ![j].pc = "rollback"] /\ CallerOf(j) # Nobody
    BY <1>4 DEF EnqueueSaveFails, queueVars, CallerOf, Nobody
  <2>2. \A i \in Live(jobs) : caller'[i] = caller[i] \/ caller'[i].pc = "rollback"
    BY <2>1 DEF TypeOK, Live, CallerRecord
  <2> QED
    BY <2>1, <2>2, AcceptedSaved
<1>5. CASE RollbackRun(j)
  <2>1. /\ RollbackEnqueue(j, caller[j].start) /\ UNCHANGED <<phase, save, disk>>
        /\ caller' = [caller EXCEPT ![j] = [pc |-> RefusedAs(j), start |-> FALSE]]
    BY <1>5 DEF RollbackRun
  <2>2. Live(jobs') \subseteq Live(jobs) /\ j \notin Live(jobs')
    <3>1. jobs'[j].status = "absent"
      BY <2>1 DEF RollbackEnqueue, Present, queueVars, TypeOK, QueueTypeOK, JobTable, Absent
    <3> QED
      BY <2>1, <3>1, LiveOnly DEF Live
  <2>3. \A i \in Jobs \ {j} : caller'[i] = caller[i]
    BY <2>1 DEF TypeOK
  <2> QED
    BY <2>1, <2>2, <2>3, AcceptedStay DEF Live
<1> QED
  BY <1>1, <1>2, <1>3, <1>4, <1>5 DEF CallerStep

LEMMA AcceptedByWorker ==
  ASSUME TypeOK, Shape, AcceptedShape, NEW w \in Workers, WorkerStep(w)
  PROVE  AcceptedShape'
<1>1. WorkerOf(w) # Nobody
  BY DEF WorkerOf, Nobody
<1>2. ASSUME NEW j \in Jobs, ClaimJob(w, j) PROVE AcceptedShape'
  <2>1. w[1] \in Agents
    BY DEF Workers
  <2> QED
    BY <1>2, <2>1, LiveOnly, AcceptedStay DEF ClaimJob
<1>3. CASE \/ WorkerReturns(w) \/ StartRun(w) \/ EffectWithoutMark(w)
  BY <1>3, AcceptedStay DEF WorkerReturns, ClaimNothing, StartRun, EffectWithoutMark, queueVars
<1>4. ASSUME NEW ok \in BOOLEAN, ClaimSaved(w, ok) \/ CompletionSaved(w, ok)
      PROVE  AcceptedShape'
  BY <1>1, <1>4, AcceptedSaved DEF ClaimSaved, CompletionSaved, queueVars
<1>5. CASE EffectMarked(w) \/ EffectRefused(w)
  BY <1>1, <1>5, AcceptedSaved DEF EffectMarked, EffectRefused, queueVars
<1>6. ASSUME NEW outcome \in Outcomes, StartFails(w, outcome) \/ FinishRun(w, outcome)
      PROVE  AcceptedShape'
  <2>1. worker[w].pc \in {"waiting", "executing"} /\ CompleteJob(w, outcome)
    BY <1>6 DEF StartFails, FinishRun
  <2>2. worker[w].job \in Jobs /\ jobs[worker[w].job].status \in {"running", "absent"}
    BY <2>1 DEF TypeOK, WorkerRecord, Shape, Holding
  <2> QED
    BY <2>1, <2>2, LiveOnly, AcceptedStay DEF CompleteJob
<1>7. CASE MarkEffects(w)
  <2>1. worker[w].job \in Jobs
    BY <1>7 DEF MarkEffects, TypeOK, WorkerRecord, Shape, Holding
  <2> QED
    BY <1>7, <2>1, LiveOnly, AcceptedStay DEF MarkEffects
<1> QED
  BY <1>2, <1>3, <1>4, <1>5, <1>6, <1>7 DEF WorkerStep

(* Recover gives nothing back that the file did not hold as live.           *)
LEMMA RecoveredLive ==
  ASSUME NEW table \in JobTable, NEW j \in Live(Recovered(table))
  PROVE  j \in Live(table)
<1>1. j \in Jobs /\ table[j].status \in JobStatus
  BY DEF Live, JobTable, JobRecord
<1>2. RecoveredRecord(table[j]).status \in {"queued", "running"}
  BY <1>1 DEF Live, Recovered
<1>3. CASE table[j].status \in {"absent", "cancelled", "failed"}
  BY <1>2, <1>3 DEF RecoveredRecord, Absent
<1> QED
  BY <1>1, <1>3 DEF JobStatus, Live

LEMMA AcceptedByOthers ==
  ASSUME TypeOK, Shape, SaverShape, AcceptedShape,
         (\E a \in Agents : DeleterStep(a)) \/ SaveStep \/ StartupStep \/ Crash
  PROVE  AcceptedShape'
<1>1. ASSUME NEW a \in Agents, DeleteAgent(a) PROVE AcceptedShape'
  <2>1. CASE Jobs = {}
    BY <2>1 DEF AcceptedShape, Live
  <2>2. CASE Jobs # {}
    BY <1>1, <2>2, LiveOnly, AcceptedStay DEF DeleteAgent
  <2> QED
    BY <2>1, <2>2
<1>2. ASSUME NEW a \in Agents, NEW ok \in BOOLEAN, DeletionSaved(a, ok) PROVE AcceptedShape'
  <2>1. DeleterOf(a) # Nobody
    BY DEF DeleterOf, Nobody
  <2> QED
    BY <1>2, <2>1, AcceptedSaved DEF DeletionSaved, queueVars
<1>3. CASE ReadCompletedFires
  BY <1>3 DEF ReadCompletedFires, AcceptedShape, TypeOK, SaveRecord, queueVars
<1>4. ASSUME NEW p \in Processes, BeginSave(p) PROVE AcceptedShape'
  BY <1>4 DEF BeginSave, AcceptedShape, queueVars
<1>5. CASE Load
  <2>1. /\ save.by = Nobody /\ jobs' = Recovered(disk.jobs) /\ UNCHANGED <<caller, save, disk>>
    BY <1>5 DEF Load, Recover, SaverShape
  <2>2. \A j \in Jobs : j \in Live(jobs') => j \in Live(disk.jobs)
    BY <2>1, RecoveredLive DEF TypeOK, Snapshot
  <2>3. \A j \in Jobs : CallerOf(j) # Nobody
    BY DEF CallerOf, Nobody
  <2> QED
    BY <2>1, <2>2, <2>3 DEF AcceptedShape, Live
<1>6. CASE LoadSaved
  <2>1. Loader # Nobody
    BY DEF Loader, Nobody
  <2> QED
    BY <1>6, <2>1, AcceptedSaved DEF LoadSaved, queueVars
<1>7. CASE LoadSaveFails \/ Crash
  BY <1>7 DEF LoadSaveFails, Crash, Halt, AcceptedShape, Live, NoTable, Absent, NoSave
<1>8. CASE ResumeScheduledRuns
  BY <1>8, AcceptedStay DEF ResumeScheduledRuns, ResumeKeys
<1> QED
  BY <1>1, <1>2, <1>3, <1>4, <1>5, <1>6, <1>7, <1>8 DEF DeleterStep, SaveStep, StartupStep

LEMMA AcceptedStep ==
  ASSUME TypeOK, Shape, SaverShape, AcceptedShape, [Next]_vars
  PROVE  AcceptedShape'
<1>1. CASE UNCHANGED vars
  BY <1>1 DEF vars, AcceptedShape
<1> QED
  BY <1>1, AcceptedByCaller, AcceptedByWorker, AcceptedByOthers DEF Next

(* A run that scheduleAgentRun accepted is never lost: at every moment at   *)
(* which it is live in memory the file holds it live, whichever saves fail  *)
(* and however they overlap.                                                *)
THEOREM AcceptedRunsAreNeverLost == Spec => []AcceptedRunsAreDurable
<1> DEFINE Inv == TypeOK /\ Shape /\ SaverShape /\ AcceptedShape
<1>1. Init => Inv
  <2>1. Init => SaverShape /\ AcceptedShape
    BY DEF Init, QueueInit, SaverShape, AcceptedShape, NoSave, Nobody, CallerOf, WorkerOf, Live, Absent
  <2> QED
    BY <2>1, InitShape
<1>2. Inv /\ [Next]_vars => Inv'
  BY NextShape, SaverStep, AcceptedStep
<1>3. Inv => AcceptedRunsAreDurable
  BY DEF AcceptedShape, AcceptedRunsAreDurable
<1> QED
  BY <1>1, <1>2, <1>3, PTL DEF Spec

-----------------------------------------------------------------------------
(* Effects.                                                                 *)

LEMMA HolderIsUnique ==
  ASSUME TypeOK, Shape, NEW w \in Workers, NEW v \in Workers,
         worker[w].job \in Jobs, worker[v].job = worker[w].job
  PROVE  v = w
<1>1. w[1] = AgentOf[worker[w].job] /\ v[1] = AgentOf[worker[v].job]
  BY DEF Shape, Holding
<1>2. worker[w].pc # "none" /\ worker[v].pc # "none"
  BY SchedulerAssumption DEF Shape, Holding
<1> QED
  BY <1>1, <1>2, WorkerFacts

(* Between Claim and Complete a worker holds a job of the table.            *)
LEMMA HeldJob ==
  ASSUME TypeOK, Shape, NEW w \in Workers,
         worker[w].pc \in {"claimed", "waiting", "executing", "marking"}
  PROVE  worker[w].job \in Jobs
  BY DEF TypeOK, WorkerRecord, Shape, Holding

Rests(r) == r.pc \in {"none", "loop", "completed"} /\ r.job = NoJob

SavesNothingOrEnds == UNCHANGED <<save, disk>> \/ \E p, point, ok : p # Nobody /\ EndSave(p, point, ok)

(* A step that leaves a worker and its job alone leaves its mark.           *)
LEMMA MarksStay ==
  ASSUME TypeOK, Shape, NEW v \in Workers, WorkerMarks(v), worker'[v] = worker[v],
         worker[v].job \in Jobs =>
           /\ jobs'[worker[v].job] = jobs[worker[v].job]
           /\ worker[v].job \in acted' => worker[v].job \in acted
           /\ caller[worker[v].job].pc = "undone" => caller'[worker[v].job].pc = "undone",
         SavesNothingOrEnds
  PROVE  WorkerMarks(v)'
<1>1. WorkerOf(v) # Nobody
  BY DEF WorkerOf, Nobody
<1>4. CASE Undone(worker[v].job)
  BY <1>4 DEF WorkerMarks, Undone
<1>2. CASE worker[v].pc \notin {"claimed", "waiting", "executing", "marking"}
  BY <1>2 DEF WorkerMarks
<1>3. CASE ~ Undone(worker[v].job) /\ worker[v].pc \in {"claimed", "waiting", "executing", "marking"}
  <2>1. worker[v].job \in Jobs
    BY <1>3, HeldJob
  <2>2. CASE UNCHANGED <<save, disk>>
    BY <1>3, <2>1, <2>2 DEF WorkerMarks
  <2>3. ASSUME NEW p, NEW point, NEW ok, p # Nobody, EndSave(p, point, ok) PROVE WorkerMarks(v)'
    <3>1. save'.by = Nobody /\ save.by # Nobody /\ disk'.jobs \in {save.jobs, disk.jobs}
      BY <2>3 DEF EndSave, NoSave
    <3> QED
      BY <1>1, <1>3, <2>1, <3>1 DEF WorkerMarks
  <2> QED
    BY <2>2, <2>3 DEF SavesNothingOrEnds
<1> QED
  BY <1>2, <1>3, <1>4

(* What a step other than the start of a save must do for EffectShape.      *)
LEMMA EffectFrame ==
  ASSUME TypeOK, Shape, EffectShape, SavesNothingOrEnds,
         \A j \in Jobs : /\ caller'[j].pc = "new" => caller[j].pc = "new"
                         /\ caller[j].pc = "undone" => caller'[j].pc = "undone",
         acted' \subseteq Jobs,
         \A j \in acted' : caller'[j].pc = "undone" \/ Spent(jobs'[j]),
         \A j \in acted' \ acted :
           /\ caller[j].pc # "new"
           /\ caller'[j].pc = "undone" \/ (Spent(save'.jobs[j]) /\ Spent(disk'.jobs[j])),
         \A v \in Workers :
           \/ Rests(worker'[v])
           \/ /\ worker'[v] = worker[v]
              /\ worker[v].job \in Jobs =>
                   /\ jobs'[worker[v].job] = jobs[worker[v].job]
                   /\ worker[v].job \in acted' => worker[v].job \in acted
           \/ /\ WorkerMarks(v)'
              /\ worker'[v].job \in Jobs =>
                   caller'[worker'[v].job].pc = "undone" \/ jobs'[worker'[v].job].status = "running"
  PROVE  EffectShape'
<1>1. HeldIsRunning'
  BY SchedulerAssumption DEF EffectShape, HeldIsRunning, Rests, Undone
<1>2. ASSUME NEW v \in Workers PROVE WorkerMarks(v)'
  <2>1. CASE Rests(worker'[v])
    BY <2>1 DEF Rests, WorkerMarks
  <2> QED
    BY <2>1, MarksStay DEF EffectShape
<1>3. \A j \in acted \cap Jobs : Undone(j) \/ (Spent(save'.jobs[j]) /\ Spent(disk'.jobs[j]))
  <2>1. \A j \in Jobs : Spent(NoTable[j])
    BY DEF NoTable, Absent, Spent
  <2> QED
    BY <2>1 DEF SavesNothingOrEnds, EndSave, EffectShape, ActedShape, NoSave
<1>4. ActedShape'
  BY <1>3 DEF EffectShape, ActedShape, Undone
<1> QED
  BY <1>1, <1>2, <1>4 DEF EffectShape

LEMMA EffectByCaller ==
  ASSUME TypeOK, Shape, SaverShape, EffectShape, NEW j \in Jobs, CallerStep(j)
  PROVE  EffectShape'
<1>1. /\ caller \in [Jobs -> CallerRecord] /\ worker \in [Workers -> WorkerRecord]
      /\ jobs \in [Jobs -> JobRecord] /\ acted \subseteq Jobs /\ acted' = acted
  BY DEF TypeOK, QueueTypeOK, JobTable, CallerStep, ScheduleRun, ScheduleRefused, AcceptRun,
         EnqueueSaveFails, RollbackRun
<1>2. \A i \in acted : caller[i].pc # "new" /\ (caller[i].pc = "undone" \/ Spent(jobs[i]))
  BY <1>1 DEF EffectShape, ActedShape, Undone
<1>3. CASE ScheduleRun(j)
  <2>1. /\ caller[j].pc = "new" /\ ~ Present(j) /\ jobs' = [jobs EXCEPT ![j] = Fresh]
        /\ caller' = [caller EXCEPT ![j] = [pc |-> "saving", start |-> StartsWorker(j)]]
        /\ UNCHANGED <<worker, save, disk>>
    BY <1>3 DEF ScheduleRun, Enqueue, Admissible
  <2>2. \A i \in Jobs : i # j => jobs'[i] = jobs[i]
    BY <1>1, <2>1
  <2>3. \A v \in Workers : worker[v].job # j
    BY <2>1 DEF Shape, Holding
  <2>4. \A i \in Jobs : /\ caller'[i].pc = "new" => caller[i].pc = "new"
                        /\ caller[i].pc = "undone" => caller'[i].pc = "undone"
    BY <1>1, <1>2, <2>1
  <2> QED
    BY <1>1, <1>2, <2>1, <2>2, <2>3, <2>4, EffectFrame DEF SavesNothingOrEnds
<1>4. CASE ScheduleRefused(j)
  <2>1. /\ caller[j].pc = "new" /\ UNCHANGED <<jobs, worker, save, disk>>
        /\ caller' = [caller EXCEPT ![j].pc = "rejected"]
    BY <1>4 DEF ScheduleRefused, queueVars
  <2>2. \A i \in Jobs : /\ caller'[i].pc = "new" => caller[i].pc = "new"
                        /\ caller[i].pc = "undone" => caller'[i].pc = "undone"
    BY <1>1, <1>2, <2>1 DEF CallerRecord
  <2> QED
    BY <1>1, <1>2, <2>1, <2>2, EffectFrame DEF SavesNothingOrEnds
<1>5. CASE AcceptRun(j)
  <2>1. /\ EndSave(CallerOf(j), "enqueue", TRUE) /\ UNCHANGED jobs /\ caller[j].pc = "saving"
        /\ caller' = [caller EXCEPT ![j] = [pc |-> "accepted", start |-> FALSE]]
    BY <1>5 DEF AcceptRun, queueVars
  <2>2. CallerOf(j) # Nobody
    BY DEF CallerOf, Nobody
  <2>3. \A i \in Jobs : /\ caller'[i].pc = "new" => caller[i].pc = "new"
                        /\ caller[i].pc = "undone" => caller'[i].pc = "undone"
    BY <1>1, <1>2, <2>1
  <2>4. \A v \in Workers : Rests(worker'[v]) \/ worker'[v] = worker[v]
    <3>1. Rests(AtLoop)
      BY DEF Rests, AtLoop
    <3>2. UNCHANGED worker \/ \E x : worker' = [worker EXCEPT ![x] = AtLoop]
      BY <1>5 DEF AcceptRun, Spawn
    <3>3. \A v \in Workers : worker'[v] = AtLoop \/ worker'[v] = worker[v]
      BY <1>1, <3>2
    <3> QED
      BY <3>1, <3>3
  <2>5. SavesNothingOrEnds
    BY <2>1, <2>2 DEF SavesNothingOrEnds
  <2> QED
    BY <1>1, <1>2, <2>1, <2>3, <2>4, <2>5, EffectFrame
<1>6. CASE EnqueueSaveFails(j)
  <2>1. /\ EndSave(CallerOf(j), "enqueue", FALSE) /\ UNCHANGED <<jobs, worker>>
        /\ caller[j].pc = "saving" /\ caller' = [caller EXCEPT ![j].pc = "rollback"]
    BY <1>6 DEF EnqueueSaveFails, queueVars
  <2>2. CallerOf(j) # Nobody
    BY DEF CallerOf, Nobody
  <2>3. \A i \in Jobs : /\ caller'[i].pc = "new" => caller[i].pc = "new"
                        /\ caller[i].pc = "undone" => caller'[i].pc = "undone"
    BY <1>1, <1>2, <2>1 DEF CallerRecord
  <2>4. SavesNothingOrEnds
    BY <2>1, <2>2 DEF SavesNothingOrEnds
  <2> QED
    BY <1>1, <1>2, <2>1, <2>3, <2>4, EffectFrame
<1>7. CASE RollbackRun(j)
  <2>1. /\ caller[j].pc = "rollback" /\ RollbackEnqueue(j, caller[j].start)
        /\ caller' = [caller EXCEPT ![j] = [pc |-> RefusedAs(j), start |-> FALSE]]
        /\ UNCHANGED <<save, disk>>
    BY <1>7 DEF RollbackRun
  <2>2. RefusedAs(j) \in Refusals /\ (jobs[j].status = "running" => RefusedAs(j) = "undone")
    BY DEF RefusedAs, Refusals
  <2>3. \A i \in Jobs : /\ caller'[i].pc = "new" => caller[i].pc = "new"
                        /\ caller[i].pc = "undone" => caller'[i].pc = "undone"
    BY <1>1, <2>1, <2>2 DEF Refusals
  <2>4. jobs'[j].status = "absent" /\ \A i \in Jobs : i # j => jobs'[i] = jobs[i]
    BY <1>1, <2>1 DEF RollbackEnqueue, Present, Absent, queueVars
  <2>5. \A i \in acted : caller'[i].pc = "undone" \/ Spent(jobs'[i])
    <3>1. Spent(jobs'[j])
      BY <2>4 DEF Spent
    <3>2. ASSUME NEW i \in acted, i # j PROVE caller'[i].pc = "undone" \/ Spent(jobs'[i])
      <4>1. i \in Jobs /\ jobs'[i] = jobs[i]
        BY <1>1, <2>4, <3>2
      <4> QED
        BY <1>2, <2>3, <4>1
    <3> QED
      BY <3>1, <3>2
  <2>6. \A v \in Workers : Rests(worker'[v]) \/ worker'[v] = worker[v]
    <3>1. Rests(AtLoop)
      BY DEF Rests, AtLoop
    <3>2. UNCHANGED worker \/ \E x : worker' = [worker EXCEPT ![x] = AtLoop]
      BY <1>7 DEF RollbackRun, Spawn
    <3>3. \A v \in Workers : worker'[v] = AtLoop \/ worker'[v] = worker[v]
      BY <1>1, <3>2
    <3> QED
      BY <3>1, <3>3
  <2>7. ASSUME NEW v \in Workers, worker[v].job = j PROVE caller'[j].pc = "undone"
    <3>1. ~ Undone(j)
      BY <2>1 DEF Undone
    <3>2. jobs[j].status = "running"
      BY <2>7, <3>1 DEF EffectShape, HeldIsRunning
    <3> QED
      BY <1>1, <2>1, <2>2, <3>2
  <2>8. ASSUME NEW v \in Workers, worker[v].job = j, worker'[v] = worker[v]
        PROVE  WorkerMarks(v)' /\ caller'[worker'[v].job].pc = "undone"
    BY <2>7, <2>8 DEF WorkerMarks, Undone
  <2>9. SavesNothingOrEnds
    BY <2>1 DEF SavesNothingOrEnds
  <2>10. \A v \in Workers :
           \/ Rests(worker'[v])
           \/ /\ worker'[v] = worker[v]
              /\ worker[v].job \in Jobs =>
                   /\ jobs'[worker[v].job] = jobs[worker[v].job]
                   /\ worker[v].job \in acted' => worker[v].job \in acted
           \/ /\ WorkerMarks(v)'
              /\ worker'[v].job \in Jobs =>
                   caller'[worker'[v].job].pc = "undone" \/ jobs'[worker'[v].job].status = "running"
    <3> TAKE v \in Workers
    <3>1. CASE worker[v].job = j /\ worker'[v] = worker[v]
      BY <2>8, <3>1
    <3>2. CASE worker[v].job # j /\ worker'[v] = worker[v]
      BY <1>1, <2>4, <3>2
    <3> QED
      BY <2>6, <3>1, <3>2
  <2>11. \A i \in acted' : caller'[i].pc = "undone" \/ Spent(jobs'[i])
    BY <1>1, <2>5
  <2>12. acted' \subseteq Jobs /\ acted' \ acted = {}
    BY <1>1
  <2> QED
    BY <2>3, <2>9, <2>10, <2>11, <2>12, EffectFrame
<1> QED
  BY <1>3, <1>4, <1>5, <1>6, <1>7 DEF CallerStep

LEMMA EffectByWorker ==
  ASSUME TypeOK, Shape, SaverShape, EffectShape, NEW w \in Workers, WorkerStep(w)
  PROVE  EffectShape'
<1> DEFINE j == worker[w].job
<1>1. /\ worker \in [Workers -> WorkerRecord] /\ worker[w] \in WorkerRecord
      /\ jobs \in [Jobs -> JobRecord] /\ acted \subseteq Jobs
      /\ WorkerOf(w) # Nobody
  BY DEF TypeOK, QueueTypeOK, JobTable, WorkerOf, Nobody
<1>2. /\ \A i \in acted : caller[i].pc = "undone" \/ Spent(jobs[i])
      /\ \A v \in Workers : WorkerMarks(v)
      /\ \A v \in Workers : worker[v].job \in Jobs =>
           caller[worker[v].job].pc = "undone" \/ jobs[worker[v].job].status = "running"
      /\ \A v \in Workers : worker[v].job \in Jobs => jobs[worker[v].job].status # "queued"
  BY DEF EffectShape, HeldIsRunning, ActedShape, Undone, Shape, Holding
<1>3. UNCHANGED caller
  BY DEF WorkerStep, ClaimJob, WorkerReturns, ClaimSaved, CompletionSaved, StartRun,
         StartFails, FinishRun, CompleteJob, MarkEffects, EffectWithoutMark, EffectMarked,
         EffectRefused
<1>4. ASSUME j \in Jobs, NEW v \in Workers, v # w PROVE worker[v].job # j
  BY <1>4, HolderIsUnique
<1>5. ASSUME NEW i \in Jobs, ClaimJob(w, i) PROVE EffectShape'
  <2>1. /\ jobs[i].status = "queued" /\ jobs' = [jobs EXCEPT ![i].status = "running"]
        /\ worker' = [worker EXCEPT ![w] = [pc |-> "claimed", job |-> i, effects |-> FALSE]]
        /\ UNCHANGED <<save, disk, acted>>
    BY <1>5 DEF ClaimJob, Claim, Runnable
  <2>2. caller[i].pc = "undone" \/ i \notin acted
    BY <1>2, <2>1 DEF Spent, Marked
  <2>3. \A k \in Jobs : k # i => jobs'[k] = jobs[k]
    BY <1>1, <2>1
  <2>4. jobs'[i].status = "running"
    BY <1>1, <2>1 DEF JobRecord
  <2>5. \A v \in Workers : worker[v].job # i
    BY <1>2, <2>1
  <2>6. WorkerMarks(w)' /\ jobs'[worker'[w].job].status = "running"
    BY <1>1, <1>3, <2>1, <2>2, <2>4 DEF WorkerMarks, Undone
  <2>7. \A v \in Workers : v # w => worker'[v] = worker[v]
    BY <1>1, <2>1
  <2> QED
    BY <1>1, <1>2, <1>3, <2>1, <2>2, <2>3, <2>5, <2>6, <2>7, EffectFrame DEF SavesNothingOrEnds
<1>6. CASE WorkerReturns(w) \/ \E ok \in BOOLEAN : CompletionSaved(w, ok)
  <2>1. Rests(AtLoop) /\ Rests(NoWorker)
    BY DEF Rests, AtLoop, NoWorker
  <2>2. /\ UNCHANGED <<jobs, acted>> /\ SavesNothingOrEnds
        /\ worker' \in {[worker EXCEPT ![w] = NoWorker], [worker EXCEPT ![w] = AtLoop]}
    BY <1>1, <1>6 DEF WorkerReturns, ClaimNothing, CompletionSaved, SavesNothingOrEnds, queueVars
  <2>3. \A v \in Workers : worker'[v] \in {worker[v], AtLoop, NoWorker}
    BY <1>1, <2>2
  <2> QED
    BY <1>1, <1>2, <1>3, <2>1, <2>2, <2>3, EffectFrame
<1>7. CASE \E ok \in BOOLEAN : ClaimSaved(w, ok)
  <2>1. /\ worker[w].pc = "claimed" /\ worker' = [worker EXCEPT ![w].pc = "waiting"]
        /\ UNCHANGED <<jobs, acted>> /\ SavesNothingOrEnds
    BY <1>1, <1>7 DEF ClaimSaved, SavesNothingOrEnds, queueVars
  <2>2. worker'[w].pc = "waiting" /\ worker'[w].job = j /\ worker'[w].effects = worker[w].effects
    BY <1>1, <2>1 DEF WorkerRecord
  <2>3. WorkerMarks(w)'
    BY <1>2, <1>3, <2>1, <2>2 DEF WorkerMarks, Undone
  <2>4. \A v \in Workers : v # w => worker'[v] = worker[v]
    BY <1>1, <2>1
  <2> QED
    BY <1>1, <1>2, <1>3, <2>1, <2>2, <2>3, <2>4, EffectFrame
<1>8. CASE StartRun(w)
  <2>1. /\ worker[w].pc = "waiting" /\ worker' = [worker EXCEPT ![w].pc = "executing"]
        /\ UNCHANGED <<jobs, acted, save, disk>>
    BY <1>8 DEF StartRun, queueVars
  <2>2. worker'[w].pc = "executing" /\ worker'[w].job = j /\ worker'[w].effects = worker[w].effects
    BY <1>1, <2>1 DEF WorkerRecord
  <2>3. WorkerMarks(w)'
    BY <1>2, <1>3, <2>1, <2>2 DEF WorkerMarks, Undone
  <2>4. \A v \in Workers : v # w => worker'[v] = worker[v]
    BY <1>1, <2>1
  <2> QED
    BY <1>1, <1>2, <1>3, <2>1, <2>2, <2>3, <2>4, EffectFrame DEF SavesNothingOrEnds
<1>9. ASSUME NEW outcome \in Outcomes, StartFails(w, outcome) \/ FinishRun(w, outcome)
      PROVE  EffectShape'
  <2>1. /\ worker[w].pc \in {"waiting", "executing"} /\ Complete(j, outcome)
        /\ worker' = [worker EXCEPT ![w] =
                        IF Present(j) THEN [AtLoop EXCEPT !.pc = "completed"] ELSE AtLoop]
        /\ UNCHANGED <<save, disk, acted>>
    BY <1>9 DEF StartFails, FinishRun, CompleteJob
  <2>2. /\ j \in Jobs /\ jobs[j].status \in {"running", "absent"}
        /\ caller[j].pc = "undone" \/ jobs[j].status = "running"
    BY <1>2, <2>1, HeldJob DEF Shape, Holding
  <2> HIDE DEF j
  <2>3. \A i \in Jobs : i # j => jobs'[i] = jobs[i]
    BY <1>1, <2>1, <2>2 DEF Complete, CompleteSucceeded, CompleteCancelled, CompleteFailed, queueVars
  <2>4. j \in acted => caller[j].pc = "undone" \/ jobs[j].effects
    BY <1>2, <2>1 DEF WorkerMarks, Undone, j
  <2>5. j \in acted => caller[j].pc = "undone" \/ jobs'[j].status \in {"absent", "cancelled", "failed"}
    <3>1. jobs[j] \in JobRecord
      BY <1>1, <2>2
    <3> QED
      BY <1>1, <2>1, <2>2, <2>4, <3>1 DEF Complete, CompleteSucceeded, CompleteCancelled,
         CompleteFailed, MayRetry, Present, Absent, JobRecord
  <2>6. Spent(jobs'[j]) \/ j \notin acted \/ caller[j].pc = "undone"
    BY <2>5 DEF Spent
  <2>7. Rests(worker'[w])
    BY <1>1, <2>1 DEF Rests, AtLoop
  <2>8. \A v \in Workers : v # w => worker'[v] = worker[v] /\ worker[v].job # j
    BY <1>1, <1>4, <2>1, <2>2 DEF j
  <2> QED
    BY <1>1, <1>2, <1>3, <2>1, <2>3, <2>6, <2>7, <2>8, EffectFrame DEF SavesNothingOrEnds
<1>10. CASE MarkEffects(w)
  <2>1. /\ worker[w].pc = "executing" /\ jobs' = [jobs EXCEPT ![j].effects = TRUE]
        /\ worker' = [worker EXCEPT ![w].pc = "marking"]
        /\ UNCHANGED <<save, disk, acted>>
    BY <1>10 DEF MarkEffects, MarkEffectsStarted
  <2>2. j \in Jobs /\ jobs[j].status = "running"
    BY <1>10, <2>1, HeldJob DEF MarkEffects, MarkEffectsStarted, Markable
  <2>3. \A i \in Jobs : i # j => jobs'[i] = jobs[i]
    BY <1>1, <2>1
  <2>4. jobs'[j].effects /\ jobs'[j].status = "running"
    BY <1>1, <2>1, <2>2 DEF JobRecord
  <2>5. worker'[w].pc = "marking" /\ worker'[w].job = j /\ worker'[w].effects = worker[w].effects
    BY <1>1, <2>1 DEF WorkerRecord
  <2>6. save.by # WorkerOf(w)
    BY <2>1 DEF SaverShape
  <2>7. WorkerMarks(w)'
    BY <1>2, <1>3, <2>1, <2>4, <2>5, <2>6 DEF WorkerMarks, Undone
  <2>8. \A v \in Workers : v # w => worker'[v] = worker[v] /\ worker[v].job # j
    BY <1>1, <1>4, <2>1, <2>2
  <2>9. Spent(jobs'[j])
    BY <2>4 DEF Spent, Marked
  <2> HIDE DEF j
  <2> QED
    BY <1>1, <1>2, <1>3, <2>1, <2>3, <2>4, <2>5, <2>7, <2>8, <2>9, EffectFrame DEF SavesNothingOrEnds
<1>11. CASE EffectWithoutMark(w)
  <2>1. /\ worker[w].pc = "executing" /\ jobs[j].status # "running"
        /\ worker' = [worker EXCEPT ![w].pc = "executing", ![w].effects = TRUE]
        /\ acted' = acted \cup {j} /\ UNCHANGED <<jobs, save, disk>>
    BY <1>11 DEF EffectWithoutMark, Markable, Act, queueVars
  <2>2. j \in Jobs /\ caller[j].pc = "undone"
    BY <1>2, <2>1, HeldJob
  <2>3. worker'[w].job = j
    BY <1>1, <2>1 DEF WorkerRecord
  <2>4. WorkerMarks(w)'
    BY <1>3, <2>2, <2>3 DEF WorkerMarks, Undone
  <2>5. \A v \in Workers : v # w => worker'[v] = worker[v] /\ worker[v].job # j
    BY <1>1, <1>4, <2>1, <2>2
  <2> HIDE DEF j
  <2> QED
    BY <1>1, <1>2, <1>3, <2>1, <2>2, <2>3, <2>4, <2>5, EffectFrame DEF SavesNothingOrEnds
<1>12. CASE EffectMarked(w)
  <2>1. /\ worker[w].pc = "marking" /\ EndSave(WorkerOf(w), "effects", TRUE) /\ UNCHANGED jobs
        /\ worker' = [worker EXCEPT ![w].pc = "executing", ![w].effects = TRUE]
        /\ acted' = acted \cup {j}
    BY <1>12 DEF EffectMarked, Act, queueVars
  <2>2. j \in Jobs /\ (caller[j].pc = "undone" \/ jobs[j].status = "running")
    BY <1>2, <2>1, HeldJob
  <2>3. /\ save.by = WorkerOf(w) /\ save' = NoSave /\ disk'.jobs = save.jobs /\ save'.by = Nobody
        /\ save'.jobs = NoTable
    BY <2>1 DEF EndSave, NoSave
  <2>4. caller[j].pc = "undone" \/ (Marked(jobs[j]) /\ Marked(disk'.jobs[j]))
    BY <1>2, <2>1, <2>2, <2>3 DEF WorkerMarks, Marked, Undone
  <2>5. caller[j].pc = "undone" \/ (Spent(jobs[j]) /\ Spent(disk'.jobs[j]) /\ Spent(save'.jobs[j]))
    BY <2>2, <2>3, <2>4 DEF Spent, NoTable, Absent
  <2>6. worker'[w].pc = "executing" /\ worker'[w].job = j /\ worker'[w].effects
    BY <1>1, <2>1 DEF WorkerRecord
  <2>7. WorkerMarks(w)'
    BY <1>1, <1>3, <2>1, <2>2, <2>3, <2>4, <2>6 DEF WorkerMarks, Marked, Undone
  <2>8. \A v \in Workers : v # w => worker'[v] = worker[v] /\ worker[v].job # j
    BY <1>1, <1>4, <2>1, <2>2
  <2>9. caller[j].pc # "new" /\ (caller[j].pc = "undone" \/ jobs[j].status = "running")
    BY <2>2 DEF Shape, Holding
  <2>10. SavesNothingOrEnds
    BY <1>1, <2>1 DEF SavesNothingOrEnds
  <2> HIDE DEF j
  <2> QED
    BY <1>1, <1>2, <1>3, <2>1, <2>2, <2>5, <2>6, <2>7, <2>8, <2>9, <2>10, EffectFrame
<1>13. CASE EffectRefused(w)
  <2>1. /\ worker[w].pc = "marking" /\ EndSave(WorkerOf(w), "effects", FALSE)
        /\ worker' = [worker EXCEPT ![w].pc = "executing"] /\ UNCHANGED <<jobs, acted>>
    BY <1>13 DEF EffectRefused, queueVars
  <2>2. save' = NoSave /\ save'.by = Nobody /\ UNCHANGED disk /\ SavesNothingOrEnds
    BY <1>1, <2>1 DEF EndSave, NoSave, SavesNothingOrEnds
  <2>3. worker'[w].pc = "executing" /\ worker'[w].job = j /\ worker'[w].effects = worker[w].effects
    BY <1>1, <2>1 DEF WorkerRecord
  <2>4. WorkerMarks(w)'
    BY <1>2, <1>3, <2>1, <2>2, <2>3 DEF WorkerMarks, Undone
  <2>5. \A v \in Workers : v # w => worker'[v] = worker[v]
    BY <1>1, <2>1
  <2> QED
    BY <1>1, <1>2, <1>3, <2>1, <2>2, <2>3, <2>4, <2>5, EffectFrame
<1> QED
  BY <1>5, <1>6, <1>7, <1>8, <1>9, <1>10, <1>11, <1>12, <1>13 DEF WorkerStep

(* Recover never gives an executed job back.                                *)
LEMMA RecoveredSpent ==
  ASSUME NEW table \in JobTable, NEW j \in Jobs
  PROVE  /\ Recovered(table)[j].status # "running"
         /\ Spent(table[j]) => Spent(Recovered(table)[j])
<1> DEFINE r == table[j]
           spent == IF r.status = "running" THEN [r EXCEPT !.attempt = @ + 1] ELSE r
<1>1. r \in JobRecord /\ Recovered(table)[j] = RecoveredRecord(r)
  BY DEF JobTable, Recovered
<1>2. spent.status = r.status /\ spent = [spent EXCEPT !.status = spent.status]
  BY <1>1 DEF JobRecord
<1>3. spent \in [status : JobStatus, attempt : Int, effects : BOOLEAN]
  BY <1>1, QueueAssumption DEF JobRecord
<1> HIDE DEF r, spent
<1>4. RecoveredRecord(r) =
        CASE r.status \in {"absent", "cancelled"}        -> Absent
          [] r.status = "failed"                         -> r
          [] r.status = "running" /\ r.effects           -> [spent EXCEPT !.status = "failed"]
          [] r.status = "queued" \/ (r.status = "running" /\ ~ r.effects) ->
               [spent EXCEPT !.status = IF Exhausted(spent) THEN "failed" ELSE "queued"]
  BY DEF RecoveredRecord, spent
<1>5. CASE r.status \in {"absent", "cancelled"}
  BY <1>1, <1>4, <1>5 DEF Absent, Spent
<1>6. CASE r.status = "failed"
  BY <1>1, <1>4, <1>6 DEF Spent
<1>7. CASE r.status = "running" /\ r.effects
  BY <1>1, <1>3, <1>4, <1>7 DEF Spent
<1>8. CASE r.status = "queued" \/ (r.status = "running" /\ ~ r.effects)
  <2>1. RecoveredRecord(r) = [spent EXCEPT !.status = IF Exhausted(spent) THEN "failed" ELSE "queued"]
    BY <1>4, <1>8
  <2>2. RecoveredRecord(r).status # "running"
    BY <1>3, <2>1
  <2>3. ~ Spent(r)
    BY <1>1, <1>8 DEF Spent, Marked, JobRecord
  <2> QED
    BY <1>1, <2>2, <2>3 DEF r
<1> QED
  BY <1>1, <1>5, <1>6, <1>7, <1>8 DEF JobRecord, JobStatus

LEMMA EffectByOthers ==
  ASSUME TypeOK, Shape, EffectShape,
         (\E a \in Agents : DeleterStep(a)) \/ SaveStep \/ StartupStep \/ Crash
  PROVE  EffectShape'
<1>1. /\ worker \in [Workers -> WorkerRecord] /\ jobs \in [Jobs -> JobRecord] /\ acted \subseteq Jobs
      /\ disk.jobs \in JobTable
  BY DEF TypeOK, QueueTypeOK, JobTable, Snapshot
<1>2. /\ \A i \in acted :
           /\ caller[i].pc # "new"
           /\ \/ caller[i].pc = "undone"
              \/ Spent(jobs[i]) /\ Spent(save.jobs[i]) /\ Spent(disk.jobs[i])
      /\ \A v \in Workers : WorkerMarks(v)
      /\ \A v \in Workers : worker[v].job \in Jobs => jobs[worker[v].job].status # "queued"
  BY DEF EffectShape, ActedShape, Undone, Shape, Holding
<1>3. Rests(AtLoop) /\ Rests(NoWorker)
  BY DEF Rests, AtLoop, NoWorker
<1>4. ASSUME NEW a \in Agents, DeleteAgent(a) PROVE EffectShape'
  <2>1. /\ UNCHANGED <<caller, worker, save, disk, acted>>
        /\ \A i \in Jobs : \/ jobs'[i] = jobs[i]
                           \/ /\ jobs'[i] = [jobs[i] EXCEPT !.status = "cancelled"]
                              /\ \E m \in 1..Len(queues[a]) : queues[a][m] = i
    BY <1>4 DEF DeleteAgent, CancelAgent
  <2>2. ASSUME NEW i \in Jobs, jobs'[i] # jobs[i]
        PROVE  jobs[i].status = "queued" /\ Spent(jobs'[i])
    <3>1. jobs[i] \in JobRecord /\ jobs'[i] = [jobs[i] EXCEPT !.status = "cancelled"]
      BY <1>1, <2>1, <2>2
    <3>2. PICK m \in 1..Len(queues[a]) : queues[a][m] = i
      BY <2>1, <2>2
    <3>3. jobs[i].status = "queued"
      BY <3>2 DEF Shape, QueueShape
    <3>4. jobs'[i].status = "cancelled"
      BY <3>1 DEF JobRecord
    <3> QED
      BY <3>3, <3>4 DEF Spent
  <2>3. \A i \in acted : caller[i].pc = "undone" \/ Spent(jobs'[i])
    BY <1>1, <1>2, <2>2
  <2>4. \A v \in Workers : worker[v].job \in Jobs => jobs'[worker[v].job] = jobs[worker[v].job]
    BY <1>2, <2>2
  <2> QED
    BY <1>1, <1>2, <2>1, <2>3, <2>4, EffectFrame DEF SavesNothingOrEnds
<1>5. ASSUME NEW a \in Agents, NEW ok \in BOOLEAN, DeletionSaved(a, ok) PROVE EffectShape'
  <2>1. DeleterOf(a) # Nobody
    BY DEF DeleterOf, Nobody
  <2>2. SavesNothingOrEnds /\ UNCHANGED <<jobs, caller, worker, acted>>
    BY <1>5, <2>1 DEF DeletionSaved, SavesNothingOrEnds, queueVars
  <2> QED
    BY <1>1, <1>2, <2>2, EffectFrame
<1>6. CASE ReadCompletedFires
  <2>1. /\ save'.by = save.by /\ save'.jobs = save.jobs
        /\ UNCHANGED <<jobs, caller, worker, disk, acted>>
    BY <1>6 DEF ReadCompletedFires, queueVars, TypeOK, SaveRecord
  <2> QED
    BY <1>1, <1>2, <2>1 DEF EffectShape, HeldIsRunning, ActedShape, WorkerMarks, Undone
<1>7. ASSUME NEW p \in Processes, BeginSave(p) PROVE EffectShape'
  <2>1. /\ save'.by = p /\ save'.jobs = jobs /\ save.by = Nobody
        /\ UNCHANGED <<jobs, caller, worker, disk, acted>>
    BY <1>7 DEF BeginSave, queueVars
  <2>2. ASSUME NEW v \in Workers PROVE WorkerMarks(v)'
    <3>1. CASE worker[v].pc \in {"executing", "marking"} /\ ~ Undone(worker[v].job)
      <4>1. worker[v].job \in Jobs /\ jobs[worker[v].job].status = "running"
        BY <3>1, HeldJob DEF EffectShape, HeldIsRunning
      <4> QED
        BY <1>2, <2>1, <3>1, <4>1 DEF WorkerMarks, Marked, Undone
    <3>2. CASE worker[v].pc \notin {"executing", "marking"} \/ Undone(worker[v].job)
      BY <1>2, <2>1, <3>2 DEF WorkerMarks, Undone
    <3> QED
      BY <3>1, <3>2
  <2> QED
    BY <1>1, <1>2, <2>1, <2>2 DEF EffectShape, HeldIsRunning, ActedShape, Undone
<1>8. CASE Load
  <2>1. /\ phase = "down" /\ jobs' = Recovered(disk.jobs)
        /\ UNCHANGED <<caller, worker, save, disk, acted>>
    BY <1>8 DEF Load, Recover
  <2>2. \A v \in Workers : Rests(worker'[v])
    BY <1>3, <2>1 DEF Shape, PhaseShape
  <2>3. \A i \in acted : caller[i].pc = "undone" \/ Spent(jobs'[i])
    BY <1>1, <1>2, <2>1, RecoveredSpent
  <2> QED
    BY <1>1, <1>2, <2>1, <2>2, <2>3, EffectFrame DEF SavesNothingOrEnds
<1>9. CASE LoadSaved
  <2>1. Loader # Nobody
    BY DEF Loader, Nobody
  <2>2. SavesNothingOrEnds /\ UNCHANGED <<jobs, caller, worker, acted>>
    BY <1>9, <2>1 DEF LoadSaved, SavesNothingOrEnds, queueVars
  <2> QED
    BY <1>1, <1>2, <2>2, EffectFrame
<1>10. CASE LoadSaveFails \/ Crash
  <2>1. /\ jobs' = NoTable /\ save' = NoSave /\ UNCHANGED <<disk, acted>>
        /\ worker' = [w \in Workers |-> NoWorker]
        /\ caller' = [j \in Jobs |-> IF caller[j].pc \in {"saving", "rollback"}
                                     THEN [pc |-> "lost", start |-> FALSE] ELSE caller[j]]
    BY <1>10 DEF LoadSaveFails, Crash, Halt
  <2>2. \A i \in Jobs : Spent(NoTable[i]) /\ Spent(NoSave.jobs[i])
    BY DEF NoTable, NoSave, Absent, Spent
  <2>3. HeldIsRunning'
    BY <1>2, <1>3, <2>1, SchedulerAssumption DEF HeldIsRunning, Rests
  <2>4. ActedShape'
    BY <1>1, <1>2, <2>1, <2>2 DEF ActedShape, Undone
  <2>5. \A v \in Workers : WorkerMarks(v)'
    BY <2>1 DEF WorkerMarks, NoWorker
  <2> QED
    BY <2>3, <2>4, <2>5 DEF EffectShape
<1>11. CASE ResumeScheduledRuns
  <2>1. UNCHANGED <<jobs, caller, save, disk, acted>> /\ \A v \in Workers : worker'[v] \in {AtLoop, worker[v]}
    BY <1>11 DEF ResumeScheduledRuns, ResumeKeys
  <2> QED
    BY <1>1, <1>2, <1>3, <2>1, EffectFrame DEF SavesNothingOrEnds
<1> QED
  BY <1>4, <1>5, <1>6, <1>7, <1>8, <1>9, <1>10, <1>11 DEF DeleterStep, SaveStep, StartupStep

LEMMA EffectStep ==
  ASSUME TypeOK, Shape, SaverShape, EffectShape, [Next]_vars
  PROVE  EffectShape'
<1>1. CASE UNCHANGED vars
  BY <1>1 DEF vars, EffectShape, HeldIsRunning, ActedShape, WorkerMarks, Undone
<1> QED
  BY <1>1, EffectByCaller, EffectByWorker, EffectByOthers DEF Next

-----------------------------------------------------------------------------
(* Dedup keys.                                                              *)

(* A key that went astray stays so.                                         *)
LEMMA AstrayStays ==
  ASSUME TypeOK, Next
  PROVE  Astray \subseteq Astray'
<1>1. ASSUME NEW j \in Jobs, CallerStep(j) PROVE \A i \in Jobs : caller[i].pc = "unkeyed" => caller'[i].pc = "unkeyed"
  <2>1. /\ caller[j].pc \in {"new", "saving", "rollback"} /\ caller[j] \in CallerRecord
        /\ \E c : caller' = [caller EXCEPT ![j] = c]
    BY <1>1 DEF CallerStep, ScheduleRun, ScheduleRefused, AcceptRun, EnqueueSaveFails, RollbackRun, TypeOK
  <2> QED
    BY <2>1 DEF TypeOK
<1>2. CASE Crash \/ LoadSaveFails
  BY <1>2 DEF Crash, LoadSaveFails, Halt, Astray
<1>3. CASE (\E w \in Workers : WorkerStep(w)) \/ (\E a \in Agents : DeleterStep(a)) \/ SaveStep
  BY <1>3 DEF WorkerStep, ClaimJob, WorkerReturns, ClaimSaved, CompletionSaved, StartRun, StartFails,
       FinishRun, CompleteJob, MarkEffects, EffectWithoutMark, EffectMarked, EffectRefused,
       DeleterStep, DeleteAgent, DeletionSaved, SaveStep, ReadCompletedFires, BeginSave, Astray
<1>4. CASE Load \/ LoadSaved \/ ResumeScheduledRuns
  <2>1. UNCHANGED caller
    BY <1>4 DEF Load, LoadSaved, ResumeScheduledRuns
  <2> QED
    BY <2>1 DEF Astray
<1>5. CASE \E j \in Jobs : CallerStep(j)
  BY <1>1, <1>5 DEF Astray
<1> QED
  BY <1>2, <1>3, <1>4, <1>5 DEF Next, StartupStep

(* Jobs that stop being live give up exactly their keys.                    *)
LEMMA KeysReleased ==
  ASSUME DedupIsExact, NEW S \in SUBSET Live(jobs), Live(jobs') = Live(jobs) \ S,
         dedup' = dedup \ UNION {KeysOf(j) : j \in S}, Astray \subseteq Astray'
  PROVE  DedupIsExact'
<1>1. /\ dedup \subseteq UNION {KeysOf(j) : j \in Live(jobs)}
      /\ \A j \in Live(jobs) : KeysOf(j) \subseteq dedup \cup Astray
      /\ \A i, j \in Live(jobs) : i # j => KeysOf(i) \cap KeysOf(j) \subseteq Astray
  BY DEF DedupIsExact
<1>2. dedup' \subseteq UNION {KeysOf(j) : j \in Live(jobs')}
  BY <1>1
<1>3. ASSUME NEW i \in Live(jobs'), NEW k \in KeysOf(i) PROVE k \in dedup' \cup Astray'
  <2>1. i \in Live(jobs) /\ i \notin S
    BY <1>3
  <2>2. CASE \E j \in S : k \in KeysOf(j)
    BY <1>1, <1>3, <2>1, <2>2
  <2> QED
    BY <1>1, <1>3, <2>1, <2>2
<1>4. \A i, j \in Live(jobs') : i # j => KeysOf(i) \cap KeysOf(j) \subseteq Astray'
  BY <1>1
<1> QED
  BY <1>2, <1>3, <1>4 DEF DedupIsExact

LEMMA KeysSaved ==
  ASSUME KeyShape, UNCHANGED <<save, disk>> \/ \E p, point, ok : EndSave(p, point, ok),
         Astray \subseteq Astray'
  PROVE  KeysApart(save.jobs)' /\ KeysApart(disk.jobs)'
<1>1. save'.jobs \in {save.jobs, NoTable} /\ disk'.jobs \in {disk.jobs, save.jobs}
  BY DEF EndSave, NoSave
<1>2. Live(NoTable) = {}
  BY DEF Live, NoTable, Absent
<1>3. \A table \in {save.jobs, disk.jobs, NoTable} :
        \A i, j \in Live(table) : i # j => KeysOf(i) \cap KeysOf(j) \subseteq Astray
  BY <1>2 DEF KeyShape, KeysApart
<1>4. \A table \in {save.jobs, disk.jobs, NoTable} :
        \A i, j \in Live(table) : i # j => KeysOf(i) \cap KeysOf(j) \subseteq Astray'
  BY <1>3
<1>5. save'.jobs \in {save.jobs, disk.jobs, NoTable} /\ disk'.jobs \in {save.jobs, disk.jobs, NoTable}
  BY <1>1
<1> QED
  BY <1>4, <1>5 DEF KeysApart

LEMMA KeyByCaller ==
  ASSUME TypeOK, Shape, KeyShape, NEW j \in Jobs, CallerStep(j)
  PROVE  KeyShape'
<1>0. Astray \subseteq Astray'
  BY AstrayStays DEF Next
<1>1. KeysApart(save.jobs)' /\ KeysApart(disk.jobs)'
  <2>1. UNCHANGED <<save, disk>> \/ \E p, point, ok : EndSave(p, point, ok)
    BY DEF CallerStep, ScheduleRun, ScheduleRefused, AcceptRun, EnqueueSaveFails, RollbackRun
  <2> QED
    BY <1>0, <2>1, KeysSaved
<1>5. /\ dedup \subseteq UNION {KeysOf(i) : i \in Live(jobs)}
      /\ \A i \in Live(jobs) : KeysOf(i) \subseteq dedup \cup Astray
      /\ \A i, k \in Live(jobs) : i # k => KeysOf(i) \cap KeysOf(k) \subseteq Astray
  BY DEF KeyShape, DedupIsExact
<1>2. CASE ScheduleRun(j)
  <2>1. /\ KeysOf(j) \cap dedup = {} /\ ~ Present(j)
        /\ dedup' = dedup \cup KeysOf(j) /\ jobs' = [jobs EXCEPT ![j] = Fresh]
    BY <1>2 DEF ScheduleRun, Enqueue, Admissible
  <2>2. Live(jobs') = Live(jobs) \cup {j} /\ j \notin Live(jobs)
    BY <2>1 DEF Live, Fresh, Present, TypeOK, QueueTypeOK, JobTable
  <2>5. \A i, k \in Live(jobs') : i # k => KeysOf(i) \cap KeysOf(k) \subseteq Astray'
    BY <1>0, <1>5, <2>1, <2>2
  <2>6. \A i \in Live(jobs') : KeysOf(i) \subseteq dedup' \cup Astray'
    BY <1>0, <1>5, <2>1, <2>2
  <2>7. dedup' \subseteq UNION {KeysOf(i) : i \in Live(jobs')}
    BY <1>5, <2>1, <2>2
  <2> QED
    BY <1>1, <2>5, <2>6, <2>7 DEF KeyShape, DedupIsExact
<1>3. CASE ScheduleRefused(j) \/ AcceptRun(j) \/ EnqueueSaveFails(j) \/ (RollbackRun(j) /\ ~ Present(j))
  <2>1. UNCHANGED <<jobs, dedup>>
    BY <1>3 DEF ScheduleRefused, AcceptRun, EnqueueSaveFails, RollbackRun, RollbackEnqueue, queueVars
  <2> QED
    BY <1>0, <1>1, <1>5, <2>1 DEF KeyShape, DedupIsExact
<1>4. CASE RollbackRun(j) /\ Present(j)
  <2>1. /\ jobs' = [jobs EXCEPT ![j] = Absent] /\ dedup' = dedup \ KeysOf(j)
        /\ caller' = [caller EXCEPT ![j] = [pc |-> RefusedAs(j), start |-> FALSE]]
    BY <1>4 DEF RollbackRun, RollbackEnqueue
  <2>2. Live(jobs') = Live(jobs) \ {j}
    BY <2>1 DEF Live, Absent, TypeOK, QueueTypeOK, JobTable
  <2>3. CASE j \in Live(jobs)
    <3>1. UNION {KeysOf(i) : i \in {j}} = KeysOf(j)
      OBVIOUS
    <3>2. DedupIsExact'
      BY <1>0, <2>1, <2>2, <2>3, <3>1, KeysReleased DEF KeyShape
    <3> QED
      BY <1>1, <3>2 DEF KeyShape
  <2>4. CASE j \notin Live(jobs)
    <3>1. jobs[j].status \in {"failed", "cancelled"}
      BY <1>4, <2>4 DEF Live, Present, TypeOK, QueueTypeOK, JobTable, JobRecord, JobStatus
    <3>2. caller'[j].pc = "unkeyed"
      BY <2>1, <3>1 DEF RefusedAs, TypeOK
    <3>3. KeysOf(j) \subseteq Astray'
      BY <3>2 DEF Astray
    <3>4. Live(jobs') = Live(jobs)
      BY <2>2, <2>4
    <3>5. dedup' \subseteq UNION {KeysOf(i) : i \in Live(jobs')}
      BY <1>5, <2>1, <3>4
    <3>6. \A i \in Live(jobs') : KeysOf(i) \subseteq dedup' \cup Astray'
      BY <1>0, <1>5, <2>1, <3>3, <3>4
    <3>7. \A i, k \in Live(jobs') : i # k => KeysOf(i) \cap KeysOf(k) \subseteq Astray'
      BY <1>0, <1>5, <3>4
    <3> QED
      BY <1>1, <3>5, <3>6, <3>7 DEF KeyShape, DedupIsExact
  <2> QED
    BY <2>3, <2>4
<1> QED
  BY <1>2, <1>3, <1>4 DEF CallerStep

LEMMA KeyByWorker ==
  ASSUME TypeOK, Shape, KeyShape, NEW w \in Workers, WorkerStep(w)
  PROVE  KeyShape'
<1> DEFINE j == worker[w].job
<1>0. UNCHANGED caller /\ Astray \subseteq Astray'
  BY DEF WorkerStep, ClaimJob, WorkerReturns, ClaimSaved, CompletionSaved, StartRun,
       StartFails, FinishRun, CompleteJob, MarkEffects, EffectWithoutMark, EffectMarked,
       EffectRefused, Astray
<1>1. KeysApart(save.jobs)' /\ KeysApart(disk.jobs)'
  <2>1. UNCHANGED <<save, disk>> \/ \E p, point, ok : EndSave(p, point, ok)
    BY DEF WorkerStep, ClaimJob, WorkerReturns, ClaimSaved, CompletionSaved, StartRun,
         StartFails, FinishRun, CompleteJob, MarkEffects, EffectWithoutMark, EffectMarked,
         EffectRefused
  <2> QED
    BY <1>0, <2>1, KeysSaved
<1>2. jobs \in [Jobs -> JobRecord]
  BY DEF TypeOK, QueueTypeOK, JobTable
<1>3. CASE UNCHANGED dedup /\ Live(jobs') = Live(jobs)
  BY <1>0, <1>1, <1>3 DEF KeyShape, DedupIsExact, Astray
<1>4. ASSUME NEW i \in Jobs, ClaimJob(w, i) PROVE Live(jobs') = Live(jobs) /\ UNCHANGED dedup
  <2>1. /\ jobs[i].status = "queued" /\ jobs' = [jobs EXCEPT ![i].status = "running"]
        /\ UNCHANGED dedup
    BY <1>4 DEF ClaimJob, Claim, Runnable
  <2>2. jobs'[i].status = "running" /\ \A k \in Jobs : k # i => jobs'[k] = jobs[k]
    BY <1>2, <2>1 DEF JobRecord
  <2> QED
    BY <2>1, <2>2 DEF Live
<1>5. CASE MarkEffects(w)
  <2>1. /\ jobs[j].status = "running" /\ jobs' = [jobs EXCEPT ![j].effects = TRUE]
        /\ worker[w].pc = "executing" /\ UNCHANGED dedup
    BY <1>5 DEF MarkEffects, MarkEffectsStarted, Markable
  <2>2. j \in Jobs
    BY <2>1, HeldJob
  <2>3. jobs'[j].status = jobs[j].status /\ \A k \in Jobs : k # j => jobs'[k] = jobs[k]
    BY <1>2, <2>1, <2>2 DEF JobRecord
  <2> HIDE DEF j
  <2>4. Live(jobs') = Live(jobs)
    BY <2>3 DEF Live
  <2> QED
    BY <1>3, <2>1, <2>4
<1>6. ASSUME NEW outcome \in Outcomes, StartFails(w, outcome) \/ FinishRun(w, outcome)
      PROVE  KeyShape'
  <2>1. worker[w].pc \in {"waiting", "executing"} /\ Complete(j, outcome)
    BY <1>6 DEF StartFails, FinishRun, CompleteJob
  <2>2. j \in Jobs /\ jobs[j].status \in {"running", "absent"}
    BY <2>1, HeldJob DEF Shape, Holding
  <2> HIDE DEF j
  <2>8. CASE jobs[j].status = "absent"
    <3>1. UNCHANGED <<jobs, dedup>>
      BY <2>1, <2>8 DEF Complete, Present, queueVars
    <3> QED
      BY <1>3, <3>1
  <2> SUFFICES ASSUME jobs[j].status = "running" PROVE KeyShape'
    BY <2>2, <2>8
  <2>3. jobs[j] \in JobRecord /\ Present(j) /\ j \in Live(jobs)
    BY <1>2, <2>2 DEF Present, Live
  <2>4. \A i \in Jobs : i # j => jobs'[i] = jobs[i]
    BY <1>2, <2>1, <2>2 DEF Complete, CompleteSucceeded, CompleteCancelled, CompleteFailed, queueVars
  <2>5. \/ jobs'[j].status = "queued" /\ UNCHANGED dedup
        \/ jobs'[j].status \in {"absent", "cancelled", "failed"} /\ dedup' = dedup \ KeysOf(j)
    BY <1>2, <2>1, <2>2, <2>3 DEF Complete, CompleteSucceeded, CompleteCancelled, CompleteFailed,
       Absent, JobRecord
  <2>6. CASE jobs'[j].status = "queued" /\ UNCHANGED dedup
    <3>1. Live(jobs') = Live(jobs)
      BY <2>3, <2>4, <2>6 DEF Live
    <3> QED
      BY <1>3, <2>6, <3>1
  <2>7. CASE jobs'[j].status \in {"absent", "cancelled", "failed"} /\ dedup' = dedup \ KeysOf(j)
    <3>1. Live(jobs') = Live(jobs) \ {j}
      BY <2>3, <2>4, <2>7 DEF Live
    <3>2. UNION {KeysOf(i) : i \in {j}} = KeysOf(j)
      OBVIOUS
    <3>3. DedupIsExact'
      BY <1>0, <2>3, <2>7, <3>1, <3>2, KeysReleased DEF KeyShape
    <3> QED
      BY <1>1, <3>3 DEF KeyShape
  <2> QED
    BY <2>5, <2>6, <2>7
<1>7. CASE \/ WorkerReturns(w) \/ StartRun(w) \/ EffectWithoutMark(w) \/ EffectMarked(w)
           \/ EffectRefused(w) \/ \E ok \in BOOLEAN : ClaimSaved(w, ok) \/ CompletionSaved(w, ok)
  <2>1. UNCHANGED <<jobs, dedup>>
    BY <1>7 DEF WorkerReturns, ClaimNothing, StartRun, EffectWithoutMark, EffectMarked, EffectRefused,
         ClaimSaved, CompletionSaved, queueVars
  <2> QED
    BY <1>3, <2>1
<1> QED
  BY <1>3, <1>4, <1>5, <1>6, <1>7 DEF WorkerStep

LEMMA KeyByOthers ==
  ASSUME TypeOK, Shape, SaverShape, KeyShape,
         (\E a \in Agents : DeleterStep(a)) \/ SaveStep \/ StartupStep \/ Crash
  PROVE  KeyShape'
<1>0. Astray \subseteq Astray'
  BY AstrayStays DEF Next
<1>1. jobs \in [Jobs -> JobRecord] /\ disk.jobs \in JobTable
  BY DEF TypeOK, QueueTypeOK, JobTable, Snapshot
<1>2. ASSUME NEW a \in Agents, DeleteAgent(a) PROVE KeyShape'
  <2> DEFINE waiting == {j \in Jobs : Present(j) /\ \E i \in 1..Len(queues[a]) : queues[a][i] = j}
  <2>1. /\ jobs' = [j \in Jobs |-> IF j \in waiting THEN [jobs[j] EXCEPT !.status = "cancelled"]
                                                     ELSE jobs[j]]
        /\ dedup' = dedup \ UNION {KeysOf(j) : j \in waiting}
        /\ UNCHANGED <<save, disk>>
    BY <1>2 DEF DeleteAgent, CancelAgent
  <2>2. \A j \in waiting : jobs[j].status = "queued"
    BY DEF Shape, QueueShape
  <2>3. waiting \subseteq Live(jobs)
    BY <2>2 DEF Live
  <2>4. waiting \subseteq Jobs
    OBVIOUS
  <2> HIDE DEF waiting
  <2>5. \A j \in Jobs : /\ j \in waiting => jobs'[j].status = "cancelled"
                        /\ j \notin waiting => jobs'[j] = jobs[j]
    BY <1>1, <2>1 DEF JobRecord
  <2>6. Live(jobs') = Live(jobs) \ waiting
    BY <2>5 DEF Live
  <2>7. DedupIsExact'
    BY <1>0, <2>1, <2>3, <2>6, KeysReleased DEF KeyShape
  <2> QED
    BY <1>0, <2>1, <2>7, KeysSaved DEF KeyShape
<1>3. ASSUME NEW a \in Agents, NEW ok \in BOOLEAN, DeletionSaved(a, ok) PROVE KeyShape'
  BY <1>0, <1>3, KeysSaved DEF DeletionSaved, queueVars, KeyShape, DedupIsExact, Astray
<1>4. CASE LoadSaved \/ ResumeScheduledRuns
  BY <1>0, <1>4, KeysSaved DEF LoadSaved, ResumeScheduledRuns, ResumeKeys, queueVars, KeyShape,
       DedupIsExact, Astray
<1>5. CASE ReadCompletedFires
  <2>1. save'.jobs = save.jobs /\ UNCHANGED <<jobs, dedup, disk, caller>>
    BY <1>5 DEF ReadCompletedFires, queueVars, TypeOK, SaveRecord
  <2> QED
    BY <2>1 DEF KeyShape, DedupIsExact, KeysApart, Astray
<1>6. ASSUME NEW p \in Processes, BeginSave(p) PROVE KeyShape'
  BY <1>6 DEF BeginSave, queueVars, KeyShape, DedupIsExact, KeysApart, Astray
<1>7. CASE Load
  <2>1. /\ jobs' = Recovered(disk.jobs) /\ UNCHANGED <<save, disk>>
        /\ dedup' = UNION {KeysOf(j) : j \in {i \in Jobs : jobs'[i].status = "queued"}}
    BY <1>7 DEF Load, Recover
  <2>2. \A j \in Jobs : jobs'[j].status # "running"
    BY <1>1, <2>1, RecoveredSpent
  <2>3. {i \in Jobs : jobs'[i].status = "queued"} = Live(jobs')
    BY <2>2 DEF Live
  <2>4. Live(jobs') \subseteq Live(disk.jobs)
    BY <1>1, <2>1, RecoveredLive
  <2>5. DedupIsExact'
    <3>1. \A i, j \in Live(jobs') : i # j => KeysOf(i) \cap KeysOf(j) \subseteq Astray'
      BY <1>0, <2>4 DEF KeyShape, KeysApart
    <3> QED
      BY <2>1, <2>3, <3>1 DEF DedupIsExact
  <2> QED
    BY <1>0, <2>1, <2>5, KeysSaved DEF KeyShape
<1>8. CASE LoadSaveFails \/ Crash
  <2>1. jobs' = NoTable /\ dedup' = {} /\ save' = NoSave /\ UNCHANGED disk
    BY <1>8 DEF LoadSaveFails, Crash, Halt
  <2>2. Live(NoTable) = {}
    BY DEF Live, NoTable, Absent
  <2>3. save'.jobs = NoTable
    BY <2>1 DEF NoSave
  <2> QED
    <3>1. KeysApart(disk.jobs)'
      BY <1>0, <2>1 DEF KeyShape, KeysApart
    <3> QED
      BY <2>1, <2>2, <2>3, <3>1 DEF KeyShape, KeysApart, DedupIsExact
<1> QED
  BY <1>2, <1>3, <1>4, <1>5, <1>6, <1>7, <1>8 DEF DeleterStep, SaveStep, StartupStep

LEMMA KeyStep ==
  ASSUME TypeOK, Shape, SaverShape, KeyShape, [Next]_vars
  PROVE  KeyShape'
<1>1. CASE UNCHANGED vars
  BY <1>1 DEF vars, KeyShape, DedupIsExact, KeysApart, Astray
<1> QED
  BY <1>1, KeyByCaller, KeyByWorker, KeyByOthers DEF Next

-----------------------------------------------------------------------------
DurableInv == TypeOK /\ Shape /\ SaverShape /\ EffectShape /\ KeyShape

LEMMA DurableInit == Init => DurableInv
<1> SUFFICES ASSUME Init PROVE DurableInv
  OBVIOUS
<1>1. TypeOK /\ Shape
  BY InitShape
<1>2. SaverShape
  BY DEF Init, SaverShape, NoSave, Nobody, CallerOf, WorkerOf
<1>3. EffectShape
  BY SchedulerAssumption DEF Init, EffectShape, HeldIsRunning, ActedShape, WorkerMarks, NoWorker
<1>4. Live(jobs) = {} /\ dedup = {} /\ Live(save.jobs) = {} /\ Live(disk.jobs) = {}
  BY DEF Init, QueueInit, NoSave, EmptySnapshot, NoTable, Absent, Live
<1>5. KeyShape
  BY <1>4 DEF KeyShape, DedupIsExact, KeysApart
<1> QED
  BY <1>1, <1>2, <1>3, <1>5 DEF DurableInv

LEMMA DurableInvHolds == Spec => []DurableInv
<1>1. Init => DurableInv
  BY DurableInit
<1>2. DurableInv /\ [Next]_vars => DurableInv'
  BY NextShape, SaverStep, EffectStep, KeyStep DEF DurableInv
<1> QED
  BY <1>1, <1>2, PTL DEF Spec

(* No effect goes ahead unmarked: while a run that has performed one is     *)
(* executing, the file says so (markScheduledRunEffectsStarted), whatever   *)
(* saves fail or overlap. Only a run that scheduleAgentRun took back while  *)
(* a worker was running it escapes the table and with it the marker.        *)
THEOREM EffectsAreAlwaysDurable == Spec => []EffectsAreDurable
<1>1. DurableInv => EffectsAreDurable
  BY DEF DurableInv, EffectShape, WorkerMarks, Marked, EffectsAreDurable
<1> QED
  BY <1>1, DurableInvHolds, PTL

(* A run whose effects have started is never executed again: not by a       *)
(* retry, not by a recovery, after any number of crashes and of failures of *)
(* any save. The one exception is a run taken back under its worker.        *)
THEOREM EffectsAreAtMostOnce == Spec => []EffectsAreNeverRepeated
<1>1. DurableInv => EffectsAreNeverRepeated
  BY DEF DurableInv, EffectShape, WorkerMarks, EffectsAreNeverRepeated
<1> QED
  BY <1>1, DurableInvHolds, PTL

(* The dedup index is exact: no key leaks through a deletion, a retry, an   *)
(* end, a rollback or a recovery, and no key is missing or shared but one   *)
(* that RollbackEnqueue released for a run that was settled already.        *)
THEOREM DedupIsAlwaysExact == Spec => []DedupIsExact
<1>1. DurableInv => DedupIsExact
  BY DEF DurableInv, KeyShape
<1> QED
  BY <1>1, DurableInvHolds, PTL

-----------------------------------------------------------------------------
(* The order in which runs are served. Beside the shape of the queues it    *)
(* needs that they forget nothing (ListShape): a new run comes behind every *)
(* queued one because each is listed, and no run overtakes an executing one *)
(* because a worker holds it, so that the agent's queue is not being served.*)

(* Job i is listed nearer to the front than job j.                          *)
Ahead(q, i, j) == \E m, n \in DOMAIN q : m < n /\ q[m] = i /\ q[n] = j

(* What a step must leave of the order; ServedInArrivalOrder asks it of     *)
(* every step while the server is not down.                                 *)
OrderKept ==
  \A i \in Live(jobs) \cap Live(jobs'), j \in Live(jobs') :
    /\ j \in Live(jobs) /\ Precedes(i, j) => Precedes(i, j)'
    /\ j \notin Live(jobs) /\ AgentOf[i] = AgentOf[j] => Precedes(i, j)'

(* A queue in which only jobs of R may be missing, the others in order.     *)
LosesOnly(R, q, old) ==
  /\ \A i \in Jobs \ R : Listed(old, i) => Listed(q, i)
  /\ \A i, j \in Jobs \ R : Ahead(old, i, j) => Ahead(q, i, j)

(* A new job is listed behind all the others.                               *)
LEMMA AppendOrder ==
  ASSUME NEW q \in Seq(Jobs), NEW k \in Jobs
  PROVE  /\ LosesOnly({}, Append(q, k), q)
         /\ Listed(Append(q, k), k)
         /\ \A i \in Jobs : Listed(q, i) => Ahead(Append(q, k), i, k)
<1> DEFINE new == Append(q, k)
<1>1. /\ DOMAIN q = 1..Len(q) /\ DOMAIN new = 1..(Len(q) + 1) /\ Len(q) \in Nat
      /\ new[Len(q) + 1] = k /\ \A m \in 1..Len(q) : new[m] = q[m]
  BY AppendQueue
<1> HIDE DEF new
<1>2. \A m \in DOMAIN q : m \in DOMAIN new /\ new[m] = q[m] /\ m < Len(q) + 1
  BY <1>1
<1>3. Len(q) + 1 \in DOMAIN new
  BY <1>1
<1>4. LosesOnly({}, new, q)
  BY <1>2 DEF LosesOnly, Listed, Ahead
<1>5. Listed(new, k) /\ \A i \in Jobs : Listed(q, i) => Ahead(new, i, k)
  BY <1>1, <1>2, <1>3 DEF Listed, Ahead
<1> QED
  BY <1>4, <1>5 DEF new

(* A retried job is listed before all the others.                           *)
LEMMA ConsOrder ==
  ASSUME NEW q \in Seq(Jobs), NEW k \in Jobs
  PROVE  /\ LosesOnly({}, <<k>> \o q, q)
         /\ Listed(<<k>> \o q, k)
         /\ \A j \in Jobs : Listed(q, j) => Ahead(<<k>> \o q, k, j)
<1> DEFINE new == <<k>> \o q
<1>1. /\ DOMAIN q = 1..Len(q) /\ Len(q) \in Nat
      /\ new \in Seq(Jobs) /\ Len(new) = Len(q) + 1
      /\ \A i \in 1..Len(new) : new[i] = IF i = 1 THEN k ELSE q[i - 1]
  BY ConsQueue
<1> HIDE DEF new
<1>2. DOMAIN new = 1..(Len(q) + 1)
  BY <1>1
<1>3. \A m \in DOMAIN q : m + 1 \in DOMAIN new /\ new[m + 1] = q[m] /\ 1 < m + 1
  BY <1>1, <1>2
<1>4. 1 \in DOMAIN new /\ new[1] = k
  BY <1>1, <1>2
<1>5. \A m, n \in DOMAIN q : m < n => m + 1 < n + 1
  BY <1>1
<1>6. LosesOnly({}, new, q)
  <2>1. ASSUME NEW i, NEW j, Ahead(q, i, j) PROVE Ahead(new, i, j)
    <3>1. PICK m, n \in DOMAIN q : m < n /\ q[m] = i /\ q[n] = j
      BY <2>1 DEF Ahead
    <3>2. /\ m + 1 \in DOMAIN new /\ n + 1 \in DOMAIN new /\ m + 1 < n + 1
          /\ new[m + 1] = i /\ new[n + 1] = j
      BY <1>3, <1>5, <3>1
    <3> QED BY <3>2 DEF Ahead
  <2> QED BY <1>3, <2>1 DEF LosesOnly, Listed
<1>7. Listed(new, k)
  BY <1>4 DEF Listed
<1>8. ASSUME NEW j, Listed(q, j) PROVE Ahead(new, k, j)
  <2>1. PICK m \in DOMAIN q : q[m] = j
    BY <1>8 DEF Listed
  <2>2. m + 1 \in DOMAIN new /\ new[m + 1] = j /\ 1 < m + 1
    BY <1>3, <2>1
  <2> QED BY <1>4, <2>2 DEF Ahead
<1> QED
  BY <1>6, <1>7, <1>8 DEF new

(* Taking one entry out of a queue loses that job only.                     *)
LEMMA RemoveOrder ==
  ASSUME NEW q \in Seq(Jobs), NEW p \in 1..Len(q)
  PROVE  LosesOnly({q[p]}, RemoveAt(q, p), q)
<1> DEFINE new == RemoveAt(q, p)
           to(m) == IF m < p THEN m ELSE m - 1
<1>1. /\ DOMAIN q = 1..Len(q) /\ Len(q) \in Nat /\ new \in Seq(Jobs)
      /\ Len(new) = Len(q) - 1
      /\ \A n \in 1..Len(new) : new[n] = IF n < p THEN q[n] ELSE q[n + 1]
  BY RemoveAtQueue
<1> HIDE DEF new
<1>2. DOMAIN new = 1..(Len(q) - 1)
  BY <1>1
<1>3. ASSUME NEW m \in DOMAIN q, m # p
      PROVE  to(m) \in DOMAIN new /\ new[to(m)] = q[m]
  <2>1. CASE m < p
    BY <1>1, <1>2, <2>1
  <2>2. CASE ~ (m < p)
    <3>1. m - 1 \in 1..Len(new) /\ ~ (m - 1 < p)
      BY <1>1, <1>3, <2>2
    <3>2. new[m - 1] = q[(m - 1) + 1] /\ (m - 1) + 1 = m
      BY <1>1, <3>1
    <3> QED BY <1>1, <1>2, <2>2, <3>1, <3>2
  <2> QED BY <2>1, <2>2
<1>4. \A m, n \in DOMAIN q : m < n /\ m # p /\ n # p => to(m) < to(n)
  BY <1>1
<1> HIDE DEF to
<1>5. ASSUME NEW i, i # q[p], Listed(q, i) PROVE Listed(new, i)
  BY <1>3, <1>5 DEF Listed
<1>6. ASSUME NEW i, NEW j, i # q[p], j # q[p], Ahead(q, i, j) PROVE Ahead(new, i, j)
  <2>1. PICK m, n \in DOMAIN q : m < n /\ q[m] = i /\ q[n] = j
    BY <1>6 DEF Ahead
  <2>2. m # p /\ n # p
    BY <1>6, <2>1
  <2>3. /\ to(m) \in DOMAIN new /\ to(n) \in DOMAIN new /\ to(m) < to(n)
        /\ new[to(m)] = i /\ new[to(n)] = j
    BY <1>3, <1>4, <2>1, <2>2
  <2> QED BY <2>3 DEF Ahead
<1> QED
  BY <1>5, <1>6 DEF LosesOnly, new

(* A queue that does not change loses nothing.                              *)
LEMMA SameOrder ==
  ASSUME NEW R, NEW q
  PROVE  LosesOnly(R, q, q)
  BY DEF LosesOnly

(* A rollback loses its own job only.                                       *)
LEMMA WithoutFirstOrder ==
  ASSUME NEW old \in Seq(Jobs), NEW j \in Jobs, NEW q \in WithoutFirst(old, j)
  PROVE  LosesOnly({j}, q, old)
<1> DEFINE first == {i \in 1..Len(old) : old[i] = j /\ \A m \in 1..(i - 1) : old[m] # j}
<1>1. q \in IF first = {} THEN {old} ELSE {RemoveAt(old, i) : i \in first}
  BY DEF WithoutFirst
<1>2. q = old \/ \E i \in 1..Len(old) : old[i] = j /\ q = RemoveAt(old, i)
  BY <1>1
<1> QED
  BY <1>2, SameOrder, RemoveOrder

-----------------------------------------------------------------------------
(* A step in which the jobs of R go for good, the others keep their status, *)
(* their places and their workers.                                          *)
LEMMA LeavingFrame ==
  ASSUME TypeOK, ListShape, NEW R,
         \A j \in Jobs \cap R : jobs'[j].status \notin {"queued", "running"},
         \A j \in Jobs \ R : jobs'[j].status = jobs[j].status,
         \A a \in Agents : LosesOnly(R, queues'[a], queues[a]),
         \A w \in Workers :
           \/ worker'[w].job = worker[w].job
           \/ worker[w].job \notin Jobs \ R
           \/ jobs[worker[w].job].status # "running"
  PROVE  ListShape' /\ OrderKept
<1>1. \A j \in Jobs : AgentOf[j] \in Agents
  BY QueueAssumption
<1>2. ASSUME NEW j \in Jobs, jobs'[j].status \in {"queued", "running"}
      PROVE  j \notin R /\ jobs[j].status = jobs'[j].status
  BY <1>2
<1>3. ListShape'
  <2>1. ASSUME NEW j \in Jobs, jobs'[j].status = "queued"
        PROVE  Listed(queues'[AgentOf[j]], j)
    <3>1. j \in Jobs \ R /\ Listed(queues[AgentOf[j]], j)
      BY <1>2, <2>1 DEF ListShape
    <3> QED BY <1>1, <3>1 DEF LosesOnly
  <2>2. ASSUME NEW j \in Jobs, jobs'[j].status = "running"
        PROVE  \E w \in Workers : worker'[w].job = j
    <3>1. j \in Jobs \ R /\ jobs[j].status = "running"
      BY <1>2, <2>2
    <3>2. PICK w \in Workers : worker[w].job = j
      BY <3>1 DEF ListShape
    <3> QED BY <3>1, <3>2
  <2> QED BY <2>1, <2>2 DEF ListShape
<1>4. OrderKept
  <2> SUFFICES ASSUME NEW i \in Live(jobs) \cap Live(jobs'), NEW j \in Live(jobs')
               PROVE  /\ Precedes(i, j) => Precedes(i, j)'
                      /\ j \in Live(jobs)
    BY DEF OrderKept
  <2>1. /\ i \in Jobs \ R /\ j \in Jobs \ R
        /\ jobs'[i].status = jobs[i].status /\ jobs'[j].status = jobs[j].status
    BY <1>2 DEF Live
  <2>2. j \in Live(jobs)
    BY <2>1 DEF Live
  <2>3. Ahead(queues[AgentOf[i]], i, j) => Ahead(queues'[AgentOf[i]], i, j)
    BY <1>1, <2>1 DEF LosesOnly
  <2> QED
    BY <2>1, <2>2, <2>3 DEF Precedes, Ahead
<1> QED
  BY <1>3, <1>4

(* A step that changes no queue and no status, nor the job of a worker that *)
(* holds a running one.                                                     *)
LEMMA StillFrame ==
  ASSUME TypeOK, ListShape, UNCHANGED queues,
         \A j \in Jobs : jobs'[j].status = jobs[j].status,
         \A w \in Workers :
           \/ worker'[w].job = worker[w].job
           \/ worker[w].job \notin Jobs
           \/ jobs[worker[w].job].status # "running"
  PROVE  ListShape' /\ OrderKept
<1>1. \A a \in Agents : LosesOnly({}, queues'[a], queues[a])
  BY SameOrder
<1> QED
  BY <1>1, LeavingFrame

(* A worker in no run holds no job.                                         *)
LEMMA FreeHands ==
  ASSUME TypeOK, Shape, NEW w \in Workers, worker[w].pc \in {"none", "loop", "completed"}
  PROVE  worker[w].job \notin Jobs
  BY SchedulerAssumption DEF Shape, Holding

(* Spawn takes no job from a worker.                                        *)
LEMMA SpawnFrees ==
  ASSUME TypeOK, Shape, NEW a, Spawn(a)
  PROVE  \A w \in Workers : worker'[w].job = worker[w].job \/ worker[w].job \notin Jobs
<1> DEFINE s == CHOOSE t \in FreeSlots(a) : TRUE
<1>1. worker[<<a, s>>].pc = "none" /\ worker' = [worker EXCEPT ![<<a, s>>] = AtLoop]
  BY DEF Spawn, FreeSlots
<1> HIDE DEF s
<1> SUFFICES ASSUME NEW w \in Workers
             PROVE  worker'[w].job = worker[w].job \/ worker[w].job \notin Jobs
  OBVIOUS
<1>2. worker \in [Workers -> WorkerRecord]
  BY DEF TypeOK
<1>3. CASE w = <<a, s>>
  BY <1>1, <1>3, FreeHands
<1>4. CASE w # <<a, s>>
  BY <1>1, <1>2, <1>4
<1> QED
  BY <1>3, <1>4

-----------------------------------------------------------------------------
(* An admission puts the new run behind all the others of its agent.        *)
LEMMA ScheduleOrder ==
  ASSUME TypeOK, Shape, ListShape, NEW k \in Jobs, ScheduleRun(k)
  PROVE  ListShape' /\ OrderKept
<1> DEFINE a == AgentOf[k]
<1>1. /\ jobs[k].status = "absent" /\ jobs' = [jobs EXCEPT ![k] = Fresh]
      /\ queues' = [queues EXCEPT ![a] = Append(@, k)] /\ UNCHANGED worker
  BY DEF ScheduleRun, Enqueue, Admissible, Present
<1>2. /\ a \in Agents /\ jobs \in [Jobs -> JobRecord] /\ queues \in [Agents -> Seq(Jobs)]
      /\ \A j \in Jobs : AgentOf[j] \in Agents
  BY QueueAssumption DEF TypeOK, QueueTypeOK, JobTable
<1>3. /\ jobs'[k].status = "queued"
      /\ \A j \in Jobs : j # k => jobs'[j].status = jobs[j].status
  BY <1>1, <1>2 DEF Fresh
<1>4. /\ \A b \in Agents : LosesOnly({}, queues'[b], queues[b])
      /\ Listed(queues'[a], k)
      /\ \A i \in Jobs : Listed(queues[a], i) => Ahead(queues'[a], i, k)
  <2>1. queues'[a] = Append(queues[a], k) /\ \A b \in Agents : b # a => queues'[b] = queues[b]
    BY <1>1, <1>2
  <2> QED BY <1>2, <2>1, AppendOrder, SameOrder
<1> HIDE DEF a
<1>5. ListShape'
  <2>1. \A j \in Jobs : j # k /\ jobs[j].status = "queued" => Listed(queues'[AgentOf[j]], j)
    BY <1>2, <1>4 DEF ListShape, LosesOnly
  <2> QED BY <1>1, <1>3, <1>4, <2>1 DEF ListShape, a
<1>6. OrderKept
  <2> SUFFICES ASSUME NEW i \in Live(jobs) \cap Live(jobs'), NEW j \in Live(jobs')
               PROVE  /\ j \in Live(jobs) /\ Precedes(i, j) => Precedes(i, j)'
                      /\ j \notin Live(jobs) /\ AgentOf[i] = AgentOf[j] => Precedes(i, j)'
    BY DEF OrderKept
  <2>1. i \in Jobs /\ j \in Jobs /\ i # k /\ jobs'[i].status = jobs[i].status
    BY <1>1, <1>3 DEF Live
  <2>2. CASE j \in Live(jobs)
    <3>1. j # k /\ jobs'[j].status = jobs[j].status
      BY <1>1, <1>3, <2>1, <2>2 DEF Live
    <3>2. Ahead(queues[AgentOf[i]], i, j) => Ahead(queues'[AgentOf[i]], i, j)
      BY <1>2, <1>4, <2>1 DEF LosesOnly
    <3> QED BY <2>1, <2>2, <3>1, <3>2 DEF Precedes, Ahead
  <2>3. CASE j \notin Live(jobs) /\ AgentOf[i] = AgentOf[j]
    <3>1. j = k
      BY <1>3, <2>1, <2>3 DEF Live
    <3>2. jobs[i].status = "running" \/ Listed(queues[a], i)
      BY <2>1, <2>3, <3>1 DEF Live, ListShape, a
    <3>3. jobs'[i].status = "running" \/ Ahead(queues'[a], i, k)
      BY <1>4, <2>1, <3>2
    <3> QED BY <1>3, <2>3, <3>1, <3>3 DEF Precedes, Ahead, a
  <2> QED BY <2>2, <2>3
<1> QED
  BY <1>5, <1>6

(* The other steps of a call of scheduleAgentRun: a run that is taken back  *)
(* leaves the others where they were.                                       *)
LEMMA CallerOrder ==
  ASSUME TypeOK, Shape, ListShape, NEW k \in Jobs, CallerStep(k)
  PROVE  ListShape' /\ OrderKept
<1> DEFINE a == AgentOf[k]
<1>1. /\ a \in Agents /\ jobs \in [Jobs -> JobRecord] /\ queues \in [Agents -> Seq(Jobs)]
  BY QueueAssumption DEF TypeOK, QueueTypeOK, JobTable
<1>2. ASSUME UNCHANGED <<queues, jobs>>, Spawn(a) \/ UNCHANGED worker
      PROVE  ListShape' /\ OrderKept
  <2>1. \A w \in Workers : worker'[w].job = worker[w].job \/ worker[w].job \notin Jobs
    BY <1>2, SpawnFrees
  <2> QED BY <1>2, <2>1, StillFrame
<1>3. CASE AcceptRun(k)
  BY <1>2, <1>3 DEF AcceptRun, queueVars
<1>4. CASE ScheduleRefused(k) \/ EnqueueSaveFails(k)
  BY <1>2, <1>4 DEF ScheduleRefused, EnqueueSaveFails, queueVars
<1>5. CASE RollbackRun(k)
  <2>1. RollbackEnqueue(k, caller[k].start) /\ (Spawn(a) \/ UNCHANGED worker)
    BY <1>5 DEF RollbackRun
  <2>2. CASE ~ Present(k)
    BY <1>2, <2>1, <2>2 DEF RollbackEnqueue, queueVars
  <2>3. CASE Present(k)
    <3>1. PICK q \in WithoutFirst(queues[a], k) : queues' = [queues EXCEPT ![a] = q]
      BY <2>1, <2>3 DEF RollbackEnqueue
    <3>2. jobs' = [jobs EXCEPT ![k] = Absent]
      BY <2>1, <2>3 DEF RollbackEnqueue
    <3>3. \A b \in Agents : LosesOnly({k}, queues'[b], queues[b])
      <4>1. queues'[a] = q /\ \A b \in Agents : b # a => queues'[b] = queues[b]
        BY <1>1, <3>1
      <4>2. LosesOnly({k}, q, queues[a])
        BY <1>1, WithoutFirstOrder
      <4> QED BY <4>1, <4>2, SameOrder
    <3>4. \A w \in Workers : worker'[w].job = worker[w].job \/ worker[w].job \notin Jobs
      BY <2>1, SpawnFrees
    <3>5. /\ jobs'[k].status = "absent"
          /\ \A j \in Jobs \ {k} : jobs'[j].status = jobs[j].status
      BY <1>1, <3>2 DEF Absent
    <3> QED BY <3>3, <3>4, <3>5, LeavingFrame
  <2> QED BY <2>2, <2>3
<1> QED
  BY <1>3, <1>4, <1>5, ScheduleOrder DEF CallerStep

-----------------------------------------------------------------------------
(* A claim takes the first job of the queue; the others move up.            *)
LEMMA ClaimOrder ==
  ASSUME TypeOK, Shape, ListShape, NEW w \in Workers, NEW k \in Jobs, ClaimJob(w, k)
  PROVE  ListShape' /\ OrderKept
<1> DEFINE a == w[1]
           q == queues[a]
<1>1. /\ worker[w].pc = "loop" /\ Claim(a, k)
      /\ worker' = [worker EXCEPT ![w] = [pc |-> "claimed", job |-> k, effects |-> FALSE]]
  BY DEF ClaimJob
<1>2. /\ a \in Agents /\ worker[w].job \notin Jobs
      /\ \A v \in Workers : v[1] = a /\ worker[v].pc # "none" => v = w
      /\ jobs \in [Jobs -> JobRecord] /\ queues \in [Agents -> Seq(Jobs)]
      /\ worker \in [Workers -> WorkerRecord]
      /\ q \in Seq(Jobs) /\ DOMAIN q = 1..Len(q)
  BY <1>1, WorkerFacts, FreeHands DEF TypeOK, QueueTypeOK, JobTable
<1>3. PICK p \in Runnable(a) :
        /\ k = q[p]
        /\ queues' = [queues EXCEPT ![a] = SubSeq(@, p + 1, Len(@))]
        /\ jobs' = [jobs EXCEPT ![k].status = "running"]
  BY <1>1 DEF Claim
<1>4. p = 1 /\ 1 \in 1..Len(q)
  <2>1. p \in 1..Len(q) /\ \A m \in 1..(p - 1) : jobs[q[m]].status # "queued"
    BY DEF Runnable
  <2>2. \A m \in 1..Len(q) : jobs[q[m]].status = "queued"
    BY <1>2 DEF Shape, QueueShape
  <2>3. p = 1
    <3> SUFFICES ASSUME p # 1 PROVE FALSE
      OBVIOUS
    <3>1. 1 \in 1..(p - 1) /\ 1 \in 1..Len(q)
      BY <1>2, <2>1
    <3> QED BY <2>1, <2>2, <3>1
  <2> QED BY <2>1, <2>3
<1>5. /\ AgentOf[k] = a /\ jobs[k].status = "queued" /\ k = q[1]
      /\ \A m \in 1..Len(q) : q[m] = k => m = 1
  BY <1>2, <1>3, <1>4 DEF Shape, QueueShape
<1>6. /\ jobs'[k].status = "running"
      /\ \A j \in Jobs : j # k => jobs'[j].status = jobs[j].status
  BY <1>2, <1>3 DEF JobRecord
<1>7. \A i \in Jobs : jobs[i].status = "running" => AgentOf[i] # a
  <2> SUFFICES ASSUME NEW i \in Jobs, jobs[i].status = "running", AgentOf[i] = a PROVE FALSE
    OBVIOUS
  <2>1. PICK v \in Workers : worker[v].job = i
    BY DEF ListShape
  <2>2. v[1] = a /\ worker[v].pc # "none"
    BY <2>1, SchedulerAssumption DEF Shape, Holding
  <2> QED BY <1>2, <2>1, <2>2
<1>8. \A b \in Agents : LosesOnly({k}, queues'[b], queues[b])
  <2>1. queues'[a] = SubSeq(q, 2, Len(q)) /\ \A b \in Agents : b # a => queues'[b] = queues[b]
    BY <1>2, <1>3, <1>4
  <2>2. RemoveAt(q, 1) = SubSeq(q, 2, Len(q))
    <3>1. RemoveAt(q, 1) = SubSeq(q, 1, 0) \o SubSeq(q, 2, Len(q))
      BY DEF RemoveAt
    <3>2. SubSeq(q, 1, 0) = << >> /\ SubSeq(q, 2, Len(q)) \in Seq(Jobs)
      BY <1>2, <1>4
    <3> QED BY <3>1, <3>2
  <2>3. LosesOnly({k}, RemoveAt(q, 1), q)
    BY <1>2, <1>4, <1>5, RemoveOrder
  <2> QED BY <2>1, <2>2, <2>3, SameOrder
<1> HIDE DEF a, q
<1>9. \A j \in Jobs : AgentOf[j] \in Agents
  BY QueueAssumption
<1>10. ListShape'
  <2>1. ASSUME NEW j \in Jobs, jobs'[j].status = "queued" PROVE Listed(queues'[AgentOf[j]], j)
    <3>1. j # k /\ jobs[j].status = "queued"
      BY <1>6, <2>1
    <3> QED BY <1>8, <1>9, <3>1 DEF ListShape, LosesOnly
  <2>2. ASSUME NEW j \in Jobs, jobs'[j].status = "running" PROVE \E v \in Workers : worker'[v].job = j
    <3>1. CASE j = k
      BY <1>1, <1>2, <3>1
    <3>2. CASE j # k
      <4>1. PICK v \in Workers : worker[v].job = j
        BY <1>6, <2>2, <3>2 DEF ListShape
      <4>2. v # w
        BY <1>2, <4>1
      <4> QED BY <1>1, <1>2, <4>1, <4>2
    <3> QED BY <3>1, <3>2
  <2> QED BY <2>1, <2>2 DEF ListShape
<1>11. OrderKept
  <2> SUFFICES ASSUME NEW i \in Live(jobs) \cap Live(jobs'), NEW j \in Live(jobs')
               PROVE  /\ Precedes(i, j) => Precedes(i, j)'
                      /\ j \in Live(jobs)
    BY DEF OrderKept
  <2>1. i \in Jobs /\ j \in Jobs /\ j \in Live(jobs)
    BY <1>5, <1>6 DEF Live
  <2>2. ASSUME Precedes(i, j) PROVE Precedes(i, j)'
    <3>1. AgentOf[i] = AgentOf[j] /\ jobs[j].status = "queued"
          /\ (jobs[i].status = "running" \/ Ahead(queues[AgentOf[i]], i, j))
      BY <2>2 DEF Precedes, Ahead
    <3>2. j # k
      <4> SUFFICES ASSUME j = k PROVE FALSE
        OBVIOUS
      <4>1. AgentOf[i] = a
        BY <1>5, <3>1
      <4>2. PICK m, n \in DOMAIN q : m < n /\ q[n] = k
        BY <1>7, <2>1, <3>1, <4>1 DEF Ahead, q
      <4>3. n = 1 /\ m \in 1..Len(q)
        BY <1>2, <1>5, <4>2
      <4> QED BY <4>2, <4>3
    <3>3. jobs'[j].status = "queued"
      BY <1>6, <2>1, <3>1, <3>2
    <3>4. CASE i = k \/ jobs[i].status = "running"
      <4>1. jobs'[i].status = "running"
        BY <1>6, <2>1, <3>4
      <4> QED BY <3>1, <3>3, <4>1 DEF Precedes
    <3>5. CASE i # k /\ Ahead(queues[AgentOf[i]], i, j)
      <4>1. Ahead(queues'[AgentOf[i]], i, j)
        BY <1>8, <1>9, <2>1, <3>2, <3>5 DEF LosesOnly
      <4> QED BY <3>1, <3>3, <4>1 DEF Precedes, Ahead
    <3> QED BY <3>1, <3>4, <3>5
  <2> QED BY <2>1, <2>2
<1> QED
  BY <1>10, <1>11

-----------------------------------------------------------------------------
Retried(k) ==
  /\ jobs' = [jobs EXCEPT ![k].status = "queued", ![k].attempt = @ + 1]
  /\ queues' = [queues EXCEPT ![AgentOf[k]] = <<k>> \o @]

(* A retry goes before the others, in whose front the run was executing.    *)
LEMMA RetryOrder ==
  ASSUME TypeOK, Shape, ListShape, NEW w \in Workers, NEW k \in Jobs, worker[w].job = k,
         jobs[k].status = "running", AgentOf[k] = w[1],
         \A v \in Workers : v # w => worker'[v].job = worker[v].job,
         Retried(k)
  PROVE  ListShape' /\ OrderKept
<1> DEFINE a == AgentOf[k]
<1>1. /\ a \in Agents /\ jobs \in [Jobs -> JobRecord] /\ queues \in [Agents -> Seq(Jobs)]
      /\ \A j \in Jobs : AgentOf[j] \in Agents
  BY QueueAssumption DEF TypeOK, QueueTypeOK, JobTable
<1>2. /\ jobs'[k].status = "queued"
      /\ \A j \in Jobs : j # k => jobs'[j].status = jobs[j].status
  BY <1>1 DEF JobRecord, Retried
<1>3. /\ \A b \in Agents : LosesOnly({}, queues'[b], queues[b])
      /\ Listed(queues'[a], k)
      /\ \A j \in Jobs : Listed(queues[a], j) => Ahead(queues'[a], k, j)
  <2>1. queues'[a] = <<k>> \o queues[a] /\ \A b \in Agents : b # a => queues'[b] = queues[b]
    BY <1>1 DEF Retried
  <2> QED BY <1>1, <2>1, ConsOrder, SameOrder, ZenonT(60)
<1> HIDE DEF a
<1>4. ListShape'
  <2>1. \A j \in Jobs : j # k /\ jobs[j].status = "queued" => Listed(queues'[AgentOf[j]], j)
    BY <1>1, <1>3 DEF ListShape, LosesOnly
  <2>2. ASSUME NEW j \in Jobs, jobs'[j].status = "running" PROVE \E v \in Workers : worker'[v].job = j
    <3>1. j # k /\ jobs[j].status = "running"
      BY <1>2, <2>2
    <3>2. PICK v \in Workers : worker[v].job = j
      BY <3>1 DEF ListShape
    <3> QED BY <3>1, <3>2
  <2>3. ASSUME NEW j \in Jobs, jobs'[j].status = "queued" PROVE Listed(queues'[AgentOf[j]], j)
    <3>1. CASE j = k
      BY <1>3, <3>1 DEF a
    <3>2. CASE j # k
      BY <1>2, <2>1, <2>3, <3>2
    <3> QED BY <3>1, <3>2
  <2> QED BY <2>2, <2>3, Zenon DEF ListShape
<1>5. OrderKept
  <2> SUFFICES ASSUME NEW i \in Live(jobs) \cap Live(jobs'), NEW j \in Live(jobs')
               PROVE  /\ Precedes(i, j) => Precedes(i, j)'
                      /\ j \in Live(jobs)
    BY DEF OrderKept
  <2>1. i \in Jobs /\ j \in Jobs /\ j \in Live(jobs)
    BY <1>2 DEF Live
  <2>2. ASSUME Precedes(i, j) PROVE Precedes(i, j)'
    <3>1. AgentOf[i] = AgentOf[j] /\ jobs[j].status = "queued" /\ j # k
          /\ (jobs[i].status = "running" \/ Ahead(queues[AgentOf[i]], i, j))
      BY <2>2 DEF Precedes, Ahead
    <3>2. jobs'[j].status = "queued"
      BY <1>2, <2>1, <3>1
    <3>3. CASE i = k
      <4>1. Listed(queues[a], j)
        BY <2>1, <3>1, <3>3 DEF ListShape, a
      <4>2. Ahead(queues'[a], i, j)
        BY <1>3, <2>1, <3>3, <4>1
      <4> QED BY <3>1, <3>2, <3>3, <4>2 DEF Precedes, Ahead, a
    <3>4. CASE i # k /\ jobs[i].status = "running"
      <4>1. jobs'[i].status = "running"
        BY <1>2, <2>1, <3>4
      <4> QED BY <3>1, <3>2, <4>1 DEF Precedes
    <3>5. CASE i # k /\ Ahead(queues[AgentOf[i]], i, j)
      <4>1. Ahead(queues'[AgentOf[i]], i, j)
        BY <1>1, <1>3, <2>1, <3>5 DEF LosesOnly
      <4> QED BY <3>1, <3>2, <4>1 DEF Precedes, Ahead
    <3> QED BY <3>1, <3>3, <3>4, <3>5
  <2> QED BY <2>1, <2>2
<1> QED
  BY <1>4, <1>5

(* The end of a run: it leaves for good or goes back to the front.          *)
LEMMA CompleteOrder ==
  ASSUME TypeOK, Shape, ListShape, NEW w \in Workers, NEW outcome \in Outcomes,
         StartFails(w, outcome) \/ FinishRun(w, outcome)
  PROVE  ListShape' /\ OrderKept
<1> DEFINE k == worker[w].job
<1>1. /\ worker[w].pc \in {"waiting", "executing"} /\ Complete(k, outcome)
      /\ \E r : worker' = [worker EXCEPT ![w] = r]
  BY DEF StartFails, FinishRun, CompleteJob
<1>2. /\ k \in Jobs /\ jobs[k].status \in {"running", "absent"} /\ AgentOf[k] = w[1]
      /\ jobs \in [Jobs -> JobRecord]
  BY <1>1, HeldJob DEF Shape, Holding, TypeOK, QueueTypeOK, JobTable
<1>3. \A v \in Workers : v # w => worker'[v].job = worker[v].job
  BY <1>1 DEF TypeOK
<1> HIDE DEF k
<1>4. \A b \in Agents : LosesOnly({k}, queues[b], queues[b])
  BY SameOrder
<1>5. \A j \in Jobs \ {k} : \A v \in Workers : worker[v].job = j => v # w
  BY DEF k
<1>6. ASSUME UNCHANGED queues, jobs'[k].status \notin {"queued", "running"},
             \A j \in Jobs \ {k} : jobs'[j].status = jobs[j].status
      PROVE  ListShape' /\ OrderKept
  <2>1. \A v \in Workers : worker'[v].job = worker[v].job \/ worker[v].job \notin Jobs \ {k}
    BY <1>3 DEF k
  <2> QED BY <1>4, <1>6, <2>1, LeavingFrame
<1>7. CASE ~ Present(k)
  <2>1. UNCHANGED <<queues, jobs>> /\ jobs[k].status = "absent"
    BY <1>1, <1>7 DEF Complete, queueVars, Present
  <2> QED BY <1>6, <2>1
<1>8. CASE Present(k) /\ outcome = "succeeded"
  <2>1. UNCHANGED queues /\ jobs' = [jobs EXCEPT ![k] = Absent]
    BY <1>1, <1>8 DEF Complete, CompleteSucceeded
  <2> QED BY <1>2, <1>6, <2>1 DEF Absent
<1>9. CASE Present(k) /\ outcome = "cancelled"
  <2>1. UNCHANGED queues /\ jobs' = [jobs EXCEPT ![k].status = "cancelled"]
    BY <1>1, <1>9 DEF Complete, CompleteCancelled
  <2> QED BY <1>2, <1>6, <2>1 DEF JobRecord
<1>10. CASE Present(k) /\ outcome = "failed"
  <2>1. CompleteFailed(k)
    BY <1>1, <1>10 DEF Complete
  <2>2. CASE ~ MayRetry(k)
    <3>1. UNCHANGED queues /\ jobs' = [jobs EXCEPT ![k].status = "failed", ![k].attempt = @ + 1]
      BY <2>1, <2>2 DEF CompleteFailed
    <3> QED BY <1>2, <1>6, <3>1 DEF JobRecord
  <2>3. CASE MayRetry(k)
    <3>1. Retried(k)
      BY <2>1, <2>3 DEF CompleteFailed, Retried
    <3>2. jobs[k].status = "running" /\ worker[w].job = k
      BY <1>2, <1>10 DEF Present, k
    <3> QED BY <1>2, <1>3, <3>1, <3>2, RetryOrder
  <2> QED BY <2>2, <2>3
<1> QED
  BY <1>1, <1>7, <1>8, <1>9, <1>10 DEF Complete

(* A worker returns from an empty queue.                                    *)
LEMMA ReturnOrder ==
  ASSUME TypeOK, Shape, ListShape, NEW w \in Workers, WorkerReturns(w)
  PROVE  ListShape' /\ OrderKept
<1> DEFINE a == w[1]
<1>1. /\ worker[w].pc = "loop" /\ worker' = [worker EXCEPT ![w] = NoWorker]
      /\ Runnable(a) = {} /\ queues' = [queues EXCEPT ![a] = <<>>] /\ UNCHANGED jobs
  BY DEF WorkerReturns, ClaimNothing
<1>2. /\ a \in Agents /\ worker[w].job \notin Jobs
      /\ queues \in [Agents -> Seq(Jobs)] /\ worker \in [Workers -> WorkerRecord]
  BY <1>1, WorkerFacts, FreeHands DEF TypeOK, QueueTypeOK
<1>3. queues[a] = <<>>
  <2> SUFFICES ASSUME queues[a] # <<>> PROVE FALSE
    OBVIOUS
  <2>1. 1 \in 1..Len(queues[a])
    BY <1>2
  <2>2. jobs[queues[a][1]].status = "queued"
    BY <1>2, <2>1 DEF Shape, QueueShape
  <2>3. 1 \in Runnable(a)
    BY <2>1, <2>2 DEF Runnable
  <2> QED BY <1>1, <2>3
<1> HIDE DEF a
<1>4. UNCHANGED queues
  BY <1>1, <1>2, <1>3
<1>5. \A v \in Workers : worker'[v].job = worker[v].job \/ worker[v].job \notin Jobs
  BY <1>1, <1>2
<1> QED
  BY <1>1, <1>4, <1>5, StillFrame

(* No other step of a worker moves a run.                                   *)
LEMMA WorkerOrder ==
  ASSUME TypeOK, Shape, ListShape, NEW w \in Workers, WorkerStep(w)
  PROVE  ListShape' /\ OrderKept
<1>1. /\ jobs \in [Jobs -> JobRecord] /\ worker \in [Workers -> WorkerRecord]
  BY DEF TypeOK, QueueTypeOK, JobTable
<1>2. ASSUME UNCHANGED queues, \A j \in Jobs : jobs'[j].status = jobs[j].status,
             \A v \in Workers : worker'[v].job = worker[v].job \/ worker[v].job \notin Jobs
      PROVE  ListShape' /\ OrderKept
  BY <1>2, StillFrame
<1>3. CASE QuietStep(w)
  <2>1. UNCHANGED <<queues, jobs>>
    BY <1>3 DEF QuietStep, StartRun, EffectWithoutMark, EffectMarked, EffectRefused, ClaimSaved,
                CompletionSaved, queueVars
  <2>2. CASE \E ok \in BOOLEAN : CompletionSaved(w, ok)
    <3>1. worker[w].pc = "completed" /\ worker' = [worker EXCEPT ![w] = AtLoop]
      BY <2>2 DEF CompletionSaved
    <3>2. \A v \in Workers : worker'[v].job = worker[v].job \/ worker[v].job \notin Jobs
      BY <1>1, <3>1, FreeHands
    <3> QED BY <1>2, <2>1, <3>2
  <2>3. CASE ~ \E ok \in BOOLEAN : CompletionSaved(w, ok)
    <3>1. PICK r : worker' = [worker EXCEPT ![w] = r] /\ r.job = worker[w].job
      <4>1. worker[w] \in WorkerRecord
        BY <1>1
      <4>2. CASE StartRun(w) \/ EffectRefused(w) \/ \E ok \in BOOLEAN : ClaimSaved(w, ok)
        <5>1. \E c : worker' = [worker EXCEPT ![w] = [worker[w] EXCEPT !.pc = c]]
          BY <1>1, <4>2 DEF StartRun, EffectRefused, ClaimSaved
        <5> QED BY <4>1, <5>1 DEF WorkerRecord
      <4>3. CASE EffectWithoutMark(w) \/ EffectMarked(w)
        <5> DEFINE r == [worker[w] EXCEPT !.pc = "executing", !.effects = TRUE]
        <5>1. worker' = [worker EXCEPT ![w] = r]
          BY <1>1, <4>3 DEF EffectWithoutMark, EffectMarked, Act
        <5>2. r.job = worker[w].job
          BY <4>1 DEF WorkerRecord
        <5> HIDE DEF r
        <5> QED BY <5>1, <5>2
      <4> QED BY <1>3, <2>3, <4>2, <4>3 DEF QuietStep
    <3>3. \A v \in Workers : worker'[v].job = worker[v].job
      BY <1>1, <3>1
    <3> QED BY <1>2, <2>1, <3>3
  <2> QED BY <2>2, <2>3
<1>4. CASE MarkEffects(w)
  <2>1. /\ UNCHANGED queues /\ jobs' = [jobs EXCEPT ![worker[w].job].effects = TRUE]
        /\ worker' = [worker EXCEPT ![w].pc = "marking"]
    BY <1>4 DEF MarkEffects, MarkEffectsStarted
  <2>2. \A j \in Jobs : jobs'[j].status = jobs[j].status
    BY <1>1, <2>1 DEF JobRecord
  <2>3. \A v \in Workers : worker'[v].job = worker[v].job
    BY <1>1, <2>1 DEF WorkerRecord
  <2> QED BY <1>2, <2>1, <2>2, <2>3
<1> QED
  BY <1>3, <1>4, ClaimOrder, ReturnOrder, CompleteOrder DEF WorkerStep, QuietStep

(* A deletion cancels every queued run of its agent.                        *)
LEMMA DeleteOrder ==
  ASSUME TypeOK, Shape, ListShape, NEW a \in Agents, DeleteAgent(a)
  PROVE  ListShape' /\ OrderKept
<1> DEFINE waiting == {j \in Jobs : Present(j) /\ \E i \in 1..Len(queues[a]) : queues[a][i] = j}
           R == {j \in Jobs : AgentOf[j] = a /\ jobs[j].status = "queued"}
<1>1. /\ jobs' = [j \in Jobs |-> IF j \in waiting THEN [jobs[j] EXCEPT !.status = "cancelled"]
                                                  ELSE jobs[j]]
      /\ queues' = [queues EXCEPT ![a] = <<>>] /\ UNCHANGED worker
  BY DEF DeleteAgent, CancelAgent
<1>2. jobs \in [Jobs -> JobRecord] /\ queues \in [Agents -> Seq(Jobs)]
  BY DEF TypeOK, QueueTypeOK, JobTable
<1>3. waiting = R
  <2>1. \A j \in waiting : j \in R
    BY <1>2 DEF Shape, QueueShape
  <2>2. ASSUME NEW j \in R PROVE j \in waiting
    <3>1. Listed(queues[a], j)
      BY DEF ListShape
    <3>2. DOMAIN queues[a] = 1..Len(queues[a])
      BY <1>2
    <3> QED BY <3>1, <3>2 DEF Listed, Present
  <2> QED BY <2>1, <2>2
<1> HIDE DEF waiting
<1>4. /\ \A j \in Jobs \cap R : jobs'[j].status = "cancelled"
      /\ \A j \in Jobs \ R : jobs'[j].status = jobs[j].status
  BY <1>1, <1>2, <1>3 DEF JobRecord
<1>5. \A b \in Agents : LosesOnly(R, queues'[b], queues[b])
  <2>1. ASSUME NEW j \in Jobs \ R PROVE ~ Listed(queues[a], j)
    BY <1>2, <2>1 DEF Shape, QueueShape, Listed
  <2>2. \A i, j \in Jobs \ R : ~ Ahead(queues[a], i, j)
    BY <2>1 DEF Ahead, Listed
  <2>3. LosesOnly(R, queues'[a], queues[a])
    BY <2>1, <2>2 DEF LosesOnly
  <2>4. \A b \in Agents : b # a => queues'[b] = queues[b]
    BY <1>1, <1>2
  <2> QED BY <2>3, <2>4, SameOrder
<1> HIDE DEF R
<1> QED
  BY <1>1, <1>4, <1>5, LeavingFrame

(* The listing of a set of jobs lists every one of them.                    *)
LEMMA ListingLists ==
  ASSUME NEW S \in SUBSET Jobs, NEW q \in Listings(S), NEW j \in S
  PROVE  Listed(q, j)
<1>1. IsFiniteSet(S) /\ Cardinality(S) \in Nat
  BY QueueAssumption, FS_Subset, FS_CardinalityType
<1>2. q \in [1..Cardinality(S) -> S] /\ DOMAIN q = 1..Cardinality(S)
  BY DEF Listings
<1>3. \A m, n \in 1..Cardinality(S) : q[m] = q[n] => m = n
  <2>1. Len(q) = Cardinality(S)
    BY <1>1, <1>2
  <2> QED BY <2>1, ListingQueue
<1>4. q \in Injection(1..Cardinality(S), S)
  BY <1>2, <1>3 DEF Injection, IsInjective
<1>5. Cardinality(1..Cardinality(S)) = Cardinality(S)
  BY <1>1, FS_Interval
<1>6. q \in Surjection(1..Cardinality(S), S)
  BY <1>1, <1>4, <1>5, FS_Injection
<1> QED
  BY <1>2, <1>6 DEF Surjection, Listed

(* What a restart loads: every queued run is listed, none is running.       *)
LEMMA LoadLists ==
  ASSUME TypeOK, Shape, Load
  PROVE  ListShape'
<1> DEFINE S(a) == {j \in Jobs : AgentOf[j] = a /\ jobs'[j].status = "queued"}
<1>1. jobs' = Recovered(disk.jobs) /\ \A a \in Agents : queues'[a] \in Listings(S(a))
  BY DEF Load, Recover
<1>2. \A j \in Jobs : AgentOf[j] \in Agents
  BY QueueAssumption
<1>3. \A j \in Jobs : jobs'[j].status = "queued" => Listed(queues'[AgentOf[j]], j)
  BY <1>1, <1>2, ListingLists
<1>4. \A j \in Jobs : jobs'[j].status # "running"
  BY <1>1, RecoveredSpent DEF TypeOK, Snapshot
<1> QED
  BY <1>3, <1>4 DEF ListShape

(* The resumption takes no job from a worker.                               *)
LEMMA ResumeOrder ==
  ASSUME TypeOK, Shape, ListShape, ResumeScheduledRuns
  PROVE  ListShape' /\ OrderKept
<1> DEFINE slot(a) == CHOOSE s \in FreeSlots(a) : TRUE
<1>1. /\ worker' = [w \in Workers |->
                     IF w[1] \in KeysToResume /\ w[2] = slot(w[1]) THEN AtLoop ELSE worker[w]]
      /\ \A a \in KeysToResume : FreeSlots(a) # {}
      /\ UNCHANGED <<queues, jobs>>
  BY DEF ResumeScheduledRuns, ResumeKeys
<1>2. \A a \in KeysToResume : worker[<<a, slot(a)>>].pc = "none"
  BY <1>1 DEF FreeSlots
<1> HIDE DEF slot
<1>3. ASSUME NEW w \in Workers
      PROVE  worker'[w].job = worker[w].job \/ worker[w].job \notin Jobs
  <2>1. w = <<w[1], w[2]>>
    BY DEF Workers
  <2>2. CASE w[1] \in KeysToResume /\ w[2] = slot(w[1])
    BY <1>2, <2>1, <2>2, FreeHands
  <2>3. CASE ~ (w[1] \in KeysToResume /\ w[2] = slot(w[1]))
    BY <1>1, <2>3
  <2> QED BY <2>2, <2>3
<1> QED
  BY <1>1, <1>3, StillFrame

(* When the process goes, nothing is live.                                  *)
LEMMA HaltOrder ==
  ASSUME Halt
  PROVE  ListShape' /\ OrderKept
<1>1. \A j \in Jobs : jobs'[j].status = "absent"
  BY DEF Halt, NoTable, Absent
<1> QED
  BY <1>1 DEF ListShape, OrderKept, Live

(* Every step keeps the order, but a restart, which sorts the queues anew.  *)
LEMMA NextOrder ==
  ASSUME TypeOK, Shape, ListShape, [Next]_vars
  PROVE  ListShape' /\ (phase # "down" => OrderKept)
<1>1. CASE UNCHANGED vars
  BY <1>1, StillFrame DEF vars
<1>2. CASE \E j \in Jobs : CallerStep(j)
  BY <1>2, CallerOrder
<1>3. CASE \E w \in Workers : WorkerStep(w)
  BY <1>3, WorkerOrder
<1>4. CASE \E a \in Agents : DeleteAgent(a)
  BY <1>4, DeleteOrder
<1>5. CASE SaveStep \/ LoadSaved \/ \E a \in Agents, ok \in BOOLEAN : DeletionSaved(a, ok)
  <2>1. UNCHANGED <<queues, jobs, worker>>
    BY <1>5 DEF SaveStep, BeginSave, ReadCompletedFires, LoadSaved, DeletionSaved, queueVars
  <2> QED BY <2>1, StillFrame
<1>6. CASE Load
  BY <1>6, LoadLists DEF Load
<1>7. CASE ResumeScheduledRuns
  BY <1>7, ResumeOrder
<1>8. CASE LoadSaveFails \/ Crash
  BY <1>8, HaltOrder DEF LoadSaveFails, Crash
<1> QED
  BY <1>1, <1>2, <1>3, <1>4, <1>5, <1>6, <1>7, <1>8 DEF Next, DeleterStep, StartupStep

(* The runs of an agent are served in the order in which they arrived:      *)
(* nothing overtakes a queued or executing run, whatever is retried, taken  *)
(* back, cancelled or claimed in between; a restart sorts by CreatedAt.     *)
THEOREM RunsAreServedInArrivalOrder == Spec => ServedInArrivalOrder
<1> DEFINE Inv == TypeOK /\ Shape /\ ListShape
           Kept == phase # "down" => OrderKept
<1>1. Init => Inv
  <2>1. Init => ListShape
    BY DEF Init, QueueInit, Absent, ListShape
  <2> QED BY <2>1, InitShape
<1>2. Inv /\ [Next]_vars => Inv' /\ Kept
  BY NextShape, NextOrder
<1>3. Kept => (phase # "down" =>
                \A i \in Live(jobs) \cap Live(jobs'), j \in Live(jobs') :
                  /\ j \in Live(jobs) /\ Precedes(i, j) => Precedes(i, j)'
                  /\ j \notin Live(jobs) /\ AgentOf[i] = AgentOf[j] => Precedes(i, j)')
  BY DEF OrderKept
<1> HIDE DEF Inv, Kept
<1> QED
  BY <1>1, <1>2, <1>3, PTL DEF Spec, ServedInArrivalOrder

=============================================================================
