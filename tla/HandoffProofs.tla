---------------------------- MODULE HandoffProofs ----------------------------
(***************************************************************************)
(* For any number of requests, answers, attempts, restarts and other turns *)
(* of the agents: the runs of a message answer it once, a run reported as  *)
(* a success leaves its message settled, and what is forgotten is what     *)
(* Overlooked names.                                                       *)
(*                                                                         *)
(* What makes the three inductive is where a message can be: a message     *)
(* that is being created is in the hands of one thread and has no run yet, *)
(* a message's own run is the only one to act on it while it has the turn  *)
(* of its agent, and every other thread can only settle it.                *)
(***************************************************************************)
EXTENDS Handoff, TLAPS

MessageRecord == [status : Statuses, kind : Kinds, to : Agents,
                  about : Messages \cup {NoMsg}, result : Answers \cup {NoMsg}, run : BOOLEAN]
JobRecord == [state : {"none", "queued", "running", "failed", "cancelled"},
              attempt : 0..MaxAttempts, effects : BOOLEAN]
ThreadRecord == [pc : Points, on : Messages \cup {NoMsg},
                 op : {"none", "request", "tool", "auto", "decline", "failure"},
                 answer : Messages \cup {NoMsg}, back : Points]

Started(m) == inbox[m].status \notin {"absent", "queued"}

Calls == Sending \cup {"ack", "original"}
Serving == {"start", "success", "failure", "cancelled"} \cup InTurn
Creating == {"deliver", "settle", "result", "trigger"}

(* A call made by the thread of a message: the tool that sends it, the      *)
(* notice of its failure, a tool in its turn or the automatic answer.       *)
OwnCall(m) ==
  \/ /\ thread[m].op = "request" /\ thread[m].answer = m /\ thread[m].pc \in {"deliver", "trigger"}
     /\ job[m].state = "none" /\ thread[m].back = "idle"
  \/ /\ thread[m].op = "failure" /\ thread[m].pc \in {"append", "deliver", "result", "trigger"}
     /\ job[m].state = "failed" /\ thread[m].back = "idle"
  \/ /\ thread[m].op = "decline" /\ thread[m].pc \in {"append", "deliver", "result", "trigger"}
     /\ job[m].state = "running" /\ job[m].effects /\ thread[m].back = "turn"
  \/ thread[m].op = "tool" /\ job[m].state = "running" /\ job[m].effects /\ thread[m].back = "turn"
  \/ thread[m].op = "auto" /\ job[m].state = "running" /\ job[m].effects /\ thread[m].back = "success"

Placed(m) ==
  /\ thread[m].pc # "idle" => thread[m].on = m
  /\ inbox[m].status = "absent" => job[m].state = "none" /\ thread[m].pc = "idle"
  /\ job[m].state # "none" => Started(m)
  /\ job[m].state \in {"queued", "running"} => job[m].attempt < MaxAttempts
  /\ thread[m].pc \in Calls => OwnCall(m)
  /\ thread[m].pc \notin Calls => thread[m].op = "none"
  /\ thread[m].pc \in Serving => job[m].state = "running"
  /\ thread[m].pc = "complete" => job[m].effects
  /\ thread[m].pc = "retry" => job[m].state = "queued"
  /\ thread[m].pc = "notify" => job[m].state = "failed"
  /\ thread[m].pc = "idle" => job[m].state # "running"

(* A run that begins finds its message neither claimed nor failed.          *)
StatusFits(m) ==
  /\ inbox[m].status = "failed" =>
       \/ thread[m].pc \in {"failure", "cancelled", "retry"}
       \/ job[m].state \in {"none", "failed", "cancelled"}
  /\ (job[m].state = "queued" /\ thread[m].pc = "idle") \/ thread[m].pc \in {"start", "check", "claim"} =>
       inbox[m].status \notin {"claimed", "working"}
  /\ thread[m].op \in {"tool", "auto"} /\ thread[m].pc \in {"append", "deliver", "settle"} =>
       inbox[m].status \in {"delivered", "claimed", "working", "replied", "closed"}
  /\ thread[m].op = "decline" => inbox[m].status \in {"declined", "closed"}

SuccessSettles(m) ==
  thread[m].pc = "success" \/ (thread[m].back = "success" /\ thread[m].pc \in {"result", "trigger", "original"}) =>
    Settled(m) \/ LimitReached

(* The answers a message has from its own runs, and where it is when it has *)
(* one: settled, about to be, or failed for good with the notice sent.      *)
ByOwnRun(m) == {n \in Answers : ByItsRun(n, m)}
Declines(m) == \A n \in ByOwnRun(m) : inbox[n].kind = "decline"

Answered(m) ==
  /\ ByOwnRun(m) # {} =>
       \/ inbox[m].status \in {"replied", "closed"}
       \/ inbox[m].status = "declined" /\ Declines(m)
       \/ thread[m].op \in {"tool", "auto"} /\ thread[m].pc \in {"deliver", "settle"}
       \/ /\ job[m].state = "failed"
          /\ \/ thread[m].pc = "idle"
             \/ thread[m].pc = "notify" /\ inbox[m].status # "failed"
             \/ thread[m].op = "failure" /\ thread[m].pc \in {"deliver", "result", "trigger"}
  /\ thread[m].pc = "append" => ByOwnRun(m) = {} \/ (thread[m].op = "decline" /\ Declines(m))

Creates(t, m) == thread[t].pc \in Creating /\ thread[t].answer = m
HasCreator(m) == \E t \in Threads : Creates(t, m)

(* While the program has not restarted and the conversation has room, a     *)
(* message without a run is settled or being created, and one that failed   *)
(* for good has its notice or is about to get it.                           *)
Remembered(m) ==
  crashes = 0 /\ ~ LimitReached /\ inbox[m].status # "absent" =>
    /\ job[m].state = "none" => Settled(m) \/ HasCreator(m)
    /\ job[m].state = "failed" /\ inbox[m].status = "failed" /\ inbox[m].result = NoMsg =>
         \/ thread[m].pc = "notify"
         \/ thread[m].op = "failure" /\ thread[m].pc \in {"append", "deliver", "result"}

MessageInv(m) == Placed(m) /\ StatusFits(m) /\ SuccessSettles(m) /\ Answered(m) /\ Remembered(m)

(* What a thread works on, and what an answer is about, was delivered.      *)
OnShape ==
  /\ \A t \in Threads : thread[t].pc # "idle" /\ thread[t].op # "request" =>
                          thread[t].on \in Messages /\ Started(thread[t].on)
  /\ \A t \in Threads : thread[t].pc = "original" => inbox[thread[t].on].about \in Messages
  /\ \A t \in Threads : thread[t].pc \in Creating =>
                          thread[t].answer \in Messages /\ (thread[t].op # "request" => thread[t].answer \in Answers)
  /\ \A n \in Answers : inbox[n].status # "absent" => inbox[n].about \in Messages /\ Started(inbox[n].about)
  /\ \A m \in Messages : inbox[m].about # NoMsg => m \in Answers /\ inbox[m].status # "absent"

(* A message is created by one thread, before anything else happens to it.  *)
Created(m) ==
  \A t \in Threads : Creates(t, m) =>
    /\ job[m].state = "none" /\ ByOwnRun(m) = {}
    /\ t = m \/ thread[m].pc = "idle"
    /\ IF thread[t].pc = "deliver" THEN inbox[m].status = "queued"
       ELSE inbox[m].status \in {"delivered", "replied", "declined", "closed"}
    /\ \A u \in Threads : Creates(u, m) => u = t

OneTurn == \A m \in Messages : HasTurn(m, inbox[m].to) => ~ HasTurn(Visitor, inbox[m].to)

VisitorShape ==
  thread[Visitor].pc # "idle" =>
    thread[Visitor].pc \in Calls /\ thread[Visitor].op \in {"tool", "decline"} /\ thread[Visitor].back = "idle"

SharedInv == OnShape /\ (\A m \in Messages : Created(m)) /\ OneTurn /\ VisitorShape /\ AnsweredOnceByItsRuns

HandoffInv == TypeOK /\ (\A m \in Messages : MessageInv(m)) /\ SharedInv

USE DEF Messages, Threads
-----------------------------------------------------------------------------
(* What every step keeps of the inbox, and what a step of thread t does to  *)
(* the messages of the others.                                              *)

Kept ==
  \A m \in Messages :
    /\ Started(m) => Started(m)'
    /\ inbox[m].status # "absent" =>
         /\ inbox'[m].status # "absent" /\ inbox'[m].kind = inbox[m].kind /\ inbox'[m].to = inbox[m].to
         /\ inbox'[m].about = inbox[m].about /\ inbox'[m].run = inbox[m].run

OthersStay(t) == \A u \in Threads : u # t => thread'[u] = thread[u]

Moved(t, m) ==
  \/ inbox'[m].status = inbox[m].status
  \/ Started(m) /\ inbox'[m].status = "closed"
  \/ /\ Started(m) /\ inbox'[m].status \in {"replied", "declined"} /\ Can(m, inbox'[m].status)
     /\ ~ HasTurn(m, inbox[m].to)
  \/ inbox[m].status = "absent" /\ inbox'[m].status = "queued" /\ Creates(t, m)'
  \/ inbox[m].status = "queued" /\ inbox'[m].status = "delivered" /\ Creates(t, m)'

Foreign(t, m) ==
  /\ Started(m) /\ inbox[m].result # NoMsg => inbox'[m].result # NoMsg
  /\ ByOwnRun(m)' = ByOwnRun(m)
  /\ Creates(t, m) /\ job'[m].state = "none" => Creates(t, m)'
  /\ \/ job'[m] = job[m] /\ Moved(t, m)
     \/ /\ Creates(t, m) /\ thread[t].pc = "trigger"
        /\ job'[m] = [NoJob EXCEPT !.state = "queued"] /\ inbox'[m].status = inbox[m].status

LEMMA KeptLimit ==
  ASSUME Kept, LimitReached
  PROVE  LimitReached'
  BY DEF Kept, LimitReached, Free

LEMMA KeptDeclines ==
  ASSUME Kept, NEW m \in Messages, ByOwnRun(m)' = ByOwnRun(m)
  PROVE  Declines(m)' <=> Declines(m)
  BY DEF Kept, Declines, ByOwnRun, ByItsRun

LEMMA KeptOnce ==
  ASSUME Kept, AnsweredOnceByItsRuns, \A m \in Messages : ByOwnRun(m)' = ByOwnRun(m)
  PROVE  AnsweredOnceByItsRuns'
<1> SUFFICES ASSUME NEW m \in Messages, NEW a \in Answers, NEW b \in Answers,
                    ByItsRun(a, m)', ByItsRun(b, m)', a # b
             PROVE  inbox'[a].kind = "decline" /\ inbox'[b].kind = "decline"
  BY DEF AnsweredOnceByItsRuns
<1>1. ByItsRun(a, m) /\ ByItsRun(b, m)
  BY DEF ByOwnRun
<1> QED BY <1>1 DEF AnsweredOnceByItsRuns, ByItsRun, Kept

-----------------------------------------------------------------------------
(* A message none of whose own steps is taken.                              *)

LEMMA ForeignPlaced ==
  ASSUME HandoffInv, NEW t \in Threads, NEW m \in Messages, t # m, thread'[m] = thread[m], Foreign(t, m)
  PROVE  Placed(m)' /\ StatusFits(m)'
<1>0. Placed(m) /\ StatusFits(m) /\ Created(m) /\ MaxAttempts \in Nat \ {0}
  BY HandoffAssumption DEF HandoffInv, SharedInv, MessageInv
<1>1. CASE job'[m] = job[m] /\ Moved(t, m)
  <2>1. Placed(m)'
    BY <1>0, <1>1 DEF Placed, Moved, OwnCall, Started
  <2>2. StatusFits(m)'
    BY <1>0, <1>1, HandoffAssumption DEF Placed, Moved, OwnCall, Started, StatusFits, HasTurn, Calls, Sending
  <2> QED BY <2>1, <2>2
<1>2. CASE /\ Creates(t, m) /\ thread[t].pc = "trigger"
           /\ job'[m] = [NoJob EXCEPT !.state = "queued"] /\ inbox'[m].status = inbox[m].status
  <2>1. thread[m].pc = "idle" /\ thread[m].op = "none" /\ inbox[m].status \in {"delivered", "replied", "declined", "closed"}
    BY <1>0, <1>2 DEF Created, Placed, Calls, Sending
  <2>2. job'[m].state = "queued" /\ job'[m].attempt = 0
    BY <1>2 DEF NoJob
  <2> QED BY <1>0, <1>2, <2>1, <2>2 DEF Placed, StatusFits, Started, Calls, Sending, Serving, InTurn
<1> QED BY <1>1, <1>2 DEF Foreign

LEMMA ForeignAnswered ==
  ASSUME HandoffInv, NEW t \in Threads, NEW m \in Messages, t # m, thread'[m] = thread[m], Foreign(t, m), Kept
  PROVE  SuccessSettles(m)' /\ Answered(m)'
<1>0. Placed(m) /\ StatusFits(m) /\ Created(m) /\ Answered(m) /\ SuccessSettles(m)
  BY DEF HandoffInv, SharedInv, MessageInv
<1>1. SuccessSettles(m)'
  <2>1. Settled(m) => Settled(m)'
    BY DEF Foreign, Moved, Settled, Started, Can, ValidHandoffTransition
  <2> QED BY <1>0, <2>1, KeptLimit DEF SuccessSettles
<1>2. ByOwnRun(m)' = ByOwnRun(m) /\ (Declines(m)' <=> Declines(m))
  BY KeptDeclines DEF Foreign
<1>3. CASE job'[m] = job[m] /\ Moved(t, m)
  <2>1. thread[m].op \in {"tool", "auto"} /\ thread[m].pc \in {"deliver", "settle"} => HasTurn(m, inbox[m].to)
    BY <1>0, HandoffAssumption DEF Placed, HasTurn, Sending
  <2>2. inbox'[m].status = "failed" => inbox[m].status = "failed"
    BY <1>3 DEF Moved
  <2> QED BY <1>0, <1>1, <1>2, <1>3, <2>1, <2>2 DEF Answered, Moved, Started, Can, ValidHandoffTransition
<1>4. CASE Creates(t, m)
  BY <1>0, <1>1, <1>2, <1>4 DEF Created, Answered
<1> QED BY <1>3, <1>4 DEF Foreign

LEMMA ForeignRemembered ==
  ASSUME HandoffInv, NEW t \in Threads, NEW m \in Messages, t # m, OthersStay(t), Foreign(t, m), Kept,
         crashes' = crashes
  PROVE  Remembered(m)'
<1>0. Remembered(m) /\ Placed(m) /\ thread'[m] = thread[m]
  BY DEF HandoffInv, MessageInv, OthersStay
<1> SUFFICES ASSUME crashes = 0, ~ LimitReached, inbox'[m].status # "absent"
             PROVE  /\ job'[m].state = "none" => Settled(m)' \/ HasCreator(m)'
                    /\ job'[m].state = "failed" /\ inbox'[m].status = "failed" /\ inbox'[m].result = NoMsg =>
                         \/ thread[m].pc = "notify"
                         \/ thread[m].op = "failure" /\ thread[m].pc \in {"append", "deliver", "result"}
  BY <1>0, KeptLimit DEF Remembered
<1>1. HasCreator(m) /\ job'[m].state = "none" => HasCreator(m)'
  BY DEF HasCreator, Foreign, OthersStay, Creates
<1>2. Creates(t, m)' => HasCreator(m)'
  BY DEF HasCreator
<1>3. CASE job'[m] = job[m] /\ Moved(t, m)
  BY <1>0, <1>1, <1>2, <1>3 DEF Moved, Remembered, Settled, Started, Foreign, Can, ValidHandoffTransition
<1>4. CASE job'[m] = [NoJob EXCEPT !.state = "queued"]
  BY <1>4 DEF NoJob
<1> QED BY <1>3, <1>4 DEF Foreign

-----------------------------------------------------------------------------
(* A step of a message's own run changes the message's status, its run and  *)
(* its thread; nobody is creating the message then.                         *)

OwnOnly(m) ==
  /\ OthersStay(m)
  /\ \A x \in Messages \ {m} : inbox'[x] = inbox[x] /\ job'[x] = job[x]
  /\ inbox'[m].kind = inbox[m].kind /\ inbox'[m].to = inbox[m].to /\ inbox'[m].about = inbox[m].about
  /\ inbox'[m].result = inbox[m].result /\ inbox'[m].run = inbox[m].run
  /\ Started(m) /\ Started(m)'
  /\ UNCHANGED crashes

LEMMA OwnKept ==
  ASSUME NEW m \in Messages, OwnOnly(m)
  PROVE  /\ Kept /\ (LimitReached' <=> LimitReached)
         /\ \A x \in Messages : ByOwnRun(x)' = ByOwnRun(x)
<1>1. \A x \in Messages : (inbox'[x].status = "absent" <=> inbox[x].status = "absent")
                          /\ inbox'[x].kind = inbox[x].kind /\ inbox'[x].to = inbox[x].to
                          /\ inbox'[x].about = inbox[x].about /\ inbox'[x].run = inbox[x].run
  BY DEF OwnOnly, Started
<1>2. \A x \in Messages : Started(x) => Started(x)'
  BY DEF OwnOnly, Started
<1> QED BY <1>1, <1>2 DEF Kept, LimitReached, Free, ByOwnRun, ByItsRun

(* What the step has to show of the thread it leaves. *)
Serves(m) ==
  /\ thread'[m].pc \notin Creating \cup {"original"}
  /\ thread'[m].pc # "idle" => thread'[m].on = m
  /\ HasTurn(m, inbox[m].to)' => HasTurn(m, inbox[m].to) \/ ~ HasTurn(Visitor, inbox[m].to)

LEMMA OwnStep ==
  ASSUME HandoffInv, NEW m \in Messages, OwnOnly(m), Serves(m), TypeOK',
         thread[m].pc # "idle" \/ job[m].state # "none", thread[m].pc \notin Creating,
         MessageInv(m)'
  PROVE  HandoffInv'
<1>0. /\ OnShape /\ OneTurn /\ VisitorShape /\ AnsweredOnceByItsRuns
      /\ \A x \in Messages : MessageInv(x) /\ Created(x)
      /\ Kept /\ (LimitReached' <=> LimitReached)
      /\ \A x \in Messages : ByOwnRun(x)' = ByOwnRun(x)
  BY OwnKept DEF HandoffInv, SharedInv
<1>1. \A t \in Threads : ~ Creates(t, m)
  BY <1>0 DEF Created, Creates
<1>2. \A t \in Threads, x \in Messages : Creates(t, x)' => Creates(t, x) /\ t # m /\ x # m /\ thread'[t] = thread[t]
  BY <1>1 DEF Creates, OwnOnly, OthersStay, Serves
<1>3. \A x \in Messages : MessageInv(x)'
  <2> SUFFICES ASSUME NEW x \in Messages, x # m
               PROVE  MessageInv(x)'
    OBVIOUS
  <2>1. Foreign(m, x)
    <3>1. ~ Creates(m, x)
      BY DEF Creates
    <3> QED BY <1>0, <3>1 DEF OwnOnly, Foreign, Moved
  <2>2. thread'[x] = thread[x] /\ OthersStay(m) /\ m \in Threads /\ crashes' = crashes
    BY DEF OwnOnly, OthersStay
  <2> QED BY <1>0, <2>1, <2>2, ForeignPlaced, ForeignAnswered, ForeignRemembered DEF MessageInv
<1>4. OnShape'
  <2>1. \A t \in Threads : thread'[t].pc # "idle" /\ thread'[t].op # "request" =>
                             thread'[t].on \in Messages /\ Started(thread[t].on)'
    BY <1>0 DEF OnShape, OwnOnly, OthersStay, Serves, Kept
  <2>2. \A t \in Threads : thread'[t].pc = "original" => inbox'[thread'[t].on].about \in Messages
    <3> SUFFICES ASSUME NEW t \in Threads, thread'[t].pc = "original"
                 PROVE  inbox'[thread'[t].on].about \in Messages
      OBVIOUS
    <3>1. thread'[t] = thread[t] /\ thread[t].op # "request"
      <4>1. t # m /\ thread'[t] = thread[t]
        BY DEF OwnOnly, OthersStay, Serves
      <4>2. t \in Messages => Placed(t)
        BY <1>0 DEF MessageInv
      <4> QED BY <1>0, <4>1, <4>2 DEF Placed, OwnCall, Calls, VisitorShape
    <3>2. thread[t].on \in Messages /\ inbox[thread[t].on].about \in Messages
      BY <1>0, <3>1 DEF OnShape
    <3> QED BY <1>0, <3>1, <3>2 DEF Kept, OnShape, Started
  <2>3. \A t \in Threads : thread'[t].pc \in Creating =>
                             thread'[t].answer \in Messages /\ (thread'[t].op # "request" => thread'[t].answer \in Answers)
    BY <1>0 DEF OnShape, OwnOnly, OthersStay, Serves
  <2>4. \A n \in Answers : inbox'[n].status # "absent" => inbox'[n].about \in Messages /\ Started(inbox[n].about)'
    BY <1>0 DEF OnShape, OwnOnly, Kept, Started
  <2>5. \A x \in Messages : inbox'[x].about # NoMsg => x \in Answers /\ inbox'[x].status # "absent"
    BY <1>0 DEF OnShape, OwnOnly, Kept
  <2> QED BY <2>1, <2>2, <2>3, <2>4, <2>5 DEF OnShape
<1>5. \A x \in Messages : Created(x)'
  <2> SUFFICES ASSUME NEW x \in Messages, NEW t \in Threads, Creates(t, x)'
               PROVE  /\ job'[x].state = "none" /\ ByOwnRun(x)' = {}
                      /\ t = x \/ thread'[x].pc = "idle"
                      /\ IF thread'[t].pc = "deliver" THEN inbox'[x].status = "queued"
                         ELSE inbox'[x].status \in {"delivered", "replied", "declined", "closed"}
                      /\ \A u \in Threads : Creates(u, x)' => u = t
    BY DEF Created
  <2>1. Creates(t, x) /\ t # m /\ x # m /\ thread'[t] = thread[t]
    BY <1>2
  <2>2. thread'[x] = thread[x] /\ inbox'[x] = inbox[x] /\ job'[x] = job[x]
    BY <2>1 DEF OwnOnly, OthersStay
  <2> QED BY <1>0, <1>2, <2>1, <2>2 DEF Created
<1>6. OneTurn'
  <2>1. \A t \in Threads, a \in Agents : t # m /\ HasTurn(t, a)' => HasTurn(t, a)
    BY <1>0 DEF HasTurn, OwnOnly, OthersStay, OnShape, InTurn, Sending, Kept, Started
  <2>2. \A x \in Messages : inbox[x].to \in Agents /\ inbox'[x].to = inbox[x].to /\ x # Visitor
    BY HandoffAssumption DEF HandoffInv, TypeOK, OwnOnly
  <2> QED BY <1>0, <2>1, <2>2 DEF OneTurn, Serves
<1>7. VisitorShape'
  BY <1>0, HandoffAssumption DEF VisitorShape, OwnOnly, OthersStay
<1>8. AnsweredOnceByItsRuns'
  BY <1>0, KeptOnce
<1> QED BY <1>3, <1>4, <1>5, <1>6, <1>7, <1>8 DEF HandoffInv, SharedInv

-----------------------------------------------------------------------------
(* The parts steps are made of.                                             *)

LEMMA Typed ==
  /\ TypeOK <=> /\ inbox \in [Messages -> MessageRecord] /\ job \in [Messages -> JobRecord]
                /\ thread \in [Threads -> ThreadRecord]
                /\ crashes \in 0..MaxCrashes /\ visits \in 0..MaxVisits
  /\ TypeOK' <=> /\ inbox' \in [Messages -> MessageRecord] /\ job' \in [Messages -> JobRecord]
                 /\ thread' \in [Threads -> ThreadRecord]
                 /\ crashes' \in 0..MaxCrashes /\ visits' \in 0..MaxVisits
  BY DEF TypeOK, MessageRecord, JobRecord, ThreadRecord

LEMMA Records ==
  /\ Idle \in ThreadRecord /\ Idle.pc = "idle" /\ Idle.on = NoMsg /\ Idle.op = "none" /\ Idle.answer = NoMsg /\ Idle.back = "idle"
  /\ NoJob \in JobRecord /\ NoJob.state = "none" /\ NoJob.attempt = 0 /\ ~ NoJob.effects
  /\ Absent \in MessageRecord /\ Absent.status = "absent" /\ Absent.about = NoMsg /\ Absent.result = NoMsg
<1>1. Idle \in ThreadRecord
  BY DEF Idle, ThreadRecord, Points
<1>2. NoJob \in JobRecord
  BY HandoffAssumption DEF NoJob, JobRecord
<1>3. Absent \in MessageRecord
  BY DEF Absent, MessageRecord, Statuses, Kinds, Agents
<1> QED BY <1>1, <1>2, <1>3 DEF Idle, NoJob, Absent

LEMMA SetThread ==
  ASSUME thread \in [Threads -> ThreadRecord], NEW t \in Threads, NEW k \in ThreadRecord,
         thread' = [thread EXCEPT ![t] = k]
  PROVE  thread' \in [Threads -> ThreadRecord] /\ thread'[t] = k /\ OthersStay(t)
  BY DEF OthersStay

LEMMA Goes ==
  ASSUME thread \in [Threads -> ThreadRecord], NEW t \in Threads, NEW pc \in Points, Goto(t, pc)
  PROVE  /\ thread' \in [Threads -> ThreadRecord] /\ OthersStay(t)
         /\ thread'[t].pc = pc /\ thread'[t].on = thread[t].on /\ thread'[t].op = thread[t].op
         /\ thread'[t].answer = thread[t].answer /\ thread'[t].back = thread[t].back
<1>1. PICK k \in ThreadRecord : /\ thread' = [thread EXCEPT ![t] = k]
                                /\ k.pc = pc /\ k.on = thread[t].on /\ k.op = thread[t].op
                                /\ k.answer = thread[t].answer /\ k.back = thread[t].back
  <2>1. [thread[t] EXCEPT !.pc = pc] \in ThreadRecord
    BY DEF ThreadRecord
  <2> QED BY <2>1 DEF Goto, ThreadRecord
<1> QED BY <1>1, SetThread

LEMMA Rests ==
  ASSUME thread \in [Threads -> ThreadRecord], NEW t \in Threads, thread' = [thread EXCEPT ![t] = Idle]
  PROVE  /\ thread' \in [Threads -> ThreadRecord] /\ OthersStay(t)
         /\ thread'[t].pc = "idle" /\ thread'[t].op = "none" /\ thread'[t].back = "idle"
  BY SetThread, Records

LEMMA Calling ==
  ASSUME thread \in [Threads -> ThreadRecord], NEW t \in Threads, NEW pc \in Points, NEW m \in Messages,
         NEW op \in {"tool", "auto", "decline", "failure"}, NEW back \in Points, Call(t, pc, m, op, back)
  PROVE  /\ thread' \in [Threads -> ThreadRecord] /\ OthersStay(t)
         /\ thread'[t].pc = pc /\ thread'[t].on = m /\ thread'[t].op = op /\ thread'[t].back = back
<1>1. PICK k \in ThreadRecord : /\ thread' = [thread EXCEPT ![t] = k]
                                /\ k.pc = pc /\ k.on = m /\ k.op = op /\ k.back = back
  <2>1. [pc |-> pc, on |-> m, op |-> op, answer |-> NoMsg, back |-> back] \in ThreadRecord
    BY DEF ThreadRecord
  <2> QED BY <2>1 DEF Call
<1> QED BY <1>1, SetThread

LEMMA Returns ==
  ASSUME thread \in [Threads -> ThreadRecord], NEW t \in Threads, Return(t),
         thread[t].back # "idle" => t \in Messages
  PROVE  /\ thread' \in [Threads -> ThreadRecord] /\ OthersStay(t)
         /\ thread'[t].pc = thread[t].back /\ thread'[t].op = "none" /\ thread'[t].back = "idle"
         /\ thread'[t].pc # "idle" => thread'[t].on = t
<1>1. CASE thread[t].back = "idle"
  <2>1. thread' = [thread EXCEPT ![t] = Idle]
    BY <1>1 DEF Return
  <2> QED BY <1>1, <2>1, Rests
<1>2. CASE thread[t].back # "idle"
  <2>1. PICK k \in ThreadRecord : /\ thread' = [thread EXCEPT ![t] = k]
                                  /\ k.pc = thread[t].back /\ k.on = t /\ k.op = "none" /\ k.back = "idle"
    <3>1. [[Idle EXCEPT !.pc = thread[t].back] EXCEPT !.on = t] \in ThreadRecord
      BY <1>2, Records DEF ThreadRecord
    <3>2. thread' = [thread EXCEPT ![t] = [Idle EXCEPT !.pc = thread[t].back, !.on = t]]
      BY <1>2 DEF Return
    <3> QED BY <3>1, <3>2, Records DEF ThreadRecord
  <2> QED BY <2>1, SetThread
<1> QED BY <1>1, <1>2

OthersMail(m) == \A x \in Messages \ {m} : inbox'[x] = inbox[x]

LEMMA Transits ==
  ASSUME inbox \in [Messages -> MessageRecord], NEW m \in Messages, Started(m),
         NEW to \in Statuses \ {"absent", "queued"}, Transition(m, to)
  PROVE  /\ inbox' \in [Messages -> MessageRecord] /\ OthersMail(m)
         /\ inbox'[m].kind = inbox[m].kind /\ inbox'[m].to = inbox[m].to /\ inbox'[m].about = inbox[m].about
         /\ inbox'[m].result = inbox[m].result /\ inbox'[m].run = inbox[m].run
         /\ inbox'[m].status = IF ValidHandoffTransition(inbox[m].status, to) THEN to ELSE inbox[m].status
         /\ Started(m)' /\ (Can(m, to) <=> ValidHandoffTransition(inbox[m].status, to))
<1>1. Can(m, to) <=> ValidHandoffTransition(inbox[m].status, to)
  BY DEF Can, Started
<1>2. CASE Can(m, to)
  <2>1. inbox' = [inbox EXCEPT ![m].status = to]
    BY <1>2 DEF Transition
  <2> QED BY <1>1, <1>2, <2>1 DEF MessageRecord, OthersMail, Started
<1>3. CASE ~ Can(m, to)
  BY <1>1, <1>3 DEF Transition, OthersMail, Started
<1> QED BY <1>2, <1>3

LEMMA Unsent ==
  ASSUME inbox \in [Messages -> MessageRecord], UNCHANGED inbox, NEW m \in Messages, Started(m)
  PROVE  /\ inbox' \in [Messages -> MessageRecord] /\ OthersMail(m) /\ Started(m)'
         /\ inbox'[m].status = inbox[m].status
         /\ inbox'[m].kind = inbox[m].kind /\ inbox'[m].to = inbox[m].to /\ inbox'[m].about = inbox[m].about
         /\ inbox'[m].result = inbox[m].result /\ inbox'[m].run = inbox[m].run
  BY DEF OthersMail, Started

OthersJobs(m) == \A x \in Messages \ {m} : job'[x] = job[x]

LEMMA JobStays ==
  ASSUME job \in [Messages -> JobRecord], UNCHANGED job, NEW m \in Messages
  PROVE  job' \in [Messages -> JobRecord] /\ OthersJobs(m) /\ job'[m] = job[m]
  BY DEF OthersJobs

LEMMA SetJob ==
  ASSUME job \in [Messages -> JobRecord], NEW m \in Messages, NEW j \in JobRecord, job' = [job EXCEPT ![m] = j]
  PROVE  job' \in [Messages -> JobRecord] /\ OthersJobs(m) /\ job'[m] = j
  BY DEF OthersJobs

-----------------------------------------------------------------------------
(* The steps of a message's run.                                            *)

LEMMA Known ==
  ASSUME HandoffInv, NEW m \in Messages
  PROVE  /\ inbox \in [Messages -> MessageRecord] /\ job \in [Messages -> JobRecord]
         /\ thread \in [Threads -> ThreadRecord] /\ m \in Threads
         /\ Placed(m) /\ StatusFits(m) /\ SuccessSettles(m) /\ Answered(m) /\ Remembered(m)
         /\ crashes \in 0..MaxCrashes /\ visits \in 0..MaxVisits /\ MaxAttempts \in Nat \ {0}
  BY Typed, HandoffAssumption DEF HandoffInv, MessageInv

LEMMA OwnChange ==
  ASSUME NEW m \in Messages, HandoffInv, UNCHANGED counters, Started(m), Started(m)',
         thread' \in [Threads -> ThreadRecord], OthersStay(m),
         inbox' \in [Messages -> MessageRecord], OthersMail(m),
         inbox'[m].kind = inbox[m].kind, inbox'[m].to = inbox[m].to, inbox'[m].about = inbox[m].about,
         inbox'[m].result = inbox[m].result, inbox'[m].run = inbox[m].run,
         job' \in [Messages -> JobRecord], OthersJobs(m)
  PROVE  TypeOK' /\ OwnOnly(m) /\ ByOwnRun(m)' = ByOwnRun(m)
         /\ (Declines(m)' <=> Declines(m)) /\ (LimitReached' <=> LimitReached)
<1>1. TypeOK'
  BY Known, Typed DEF counters
<1>2. OwnOnly(m)
  BY DEF OwnOnly, OthersMail, OthersJobs, counters
<1> QED BY <1>1, <1>2, OwnKept, KeptDeclines

LEMMA StepClaimJob ==
  ASSUME HandoffInv, NEW m \in Messages, ClaimJob(m)
  PROVE  HandoffInv'
<1>1. /\ job[m].state = "queued" /\ Started(m) /\ thread[m].pc = "idle" /\ inbox[m].status \notin {"claimed", "working"}
      /\ inbox[m].status # "failed" /\ thread[m].op = "none"
  BY Known DEF ClaimJob, WorkerFree, At, Placed, StatusFits, OwnCall, Started, Calls, Sending
<1>2. /\ thread' \in [Threads -> ThreadRecord] /\ OthersStay(m)
      /\ thread'[m].pc = "start" /\ thread'[m].on = m /\ thread'[m].op = "none" /\ thread'[m].back = "idle"
  <2>1. PICK k \in ThreadRecord : /\ thread' = [thread EXCEPT ![m] = k]
                                  /\ k.pc = "start" /\ k.on = m /\ k.op = "none" /\ k.back = "idle"
    <3>1. [[Idle EXCEPT !.pc = "start"] EXCEPT !.on = m] \in ThreadRecord
      BY Records DEF ThreadRecord, Points
    <3> QED BY <3>1, Records DEF ClaimJob, ThreadRecord
  <2> QED BY <2>1, Known, SetThread
<1>3. /\ job' \in [Messages -> JobRecord] /\ OthersJobs(m)
      /\ job'[m].state = "running" /\ job'[m].attempt = job[m].attempt
  BY Known DEF ClaimJob, JobRecord, OthersJobs
<1>4. inbox' = inbox /\ UNCHANGED counters
  BY DEF ClaimJob
<1>5. /\ TypeOK' /\ OwnOnly(m) /\ ByOwnRun(m)' = ByOwnRun(m)
      /\ (Declines(m)' <=> Declines(m)) /\ (LimitReached' <=> LimitReached)
  BY Known, Unsent, <1>1, <1>2, <1>3, <1>4, OwnChange
<1>6. MessageInv(m)'
  <2>1. Placed(m)' /\ StatusFits(m)' /\ SuccessSettles(m)'
    BY Known, <1>1, <1>2, <1>3, <1>4
       DEF Placed, StatusFits, SuccessSettles, Started, Calls, Sending, Serving, InTurn
  <2>2. Answered(m)'
    BY Known, <1>1, <1>2, <1>3, <1>4, <1>5 DEF Answered
  <2>3. Remembered(m)'
    BY <1>3 DEF Remembered
  <2> QED BY <2>1, <2>2, <2>3 DEF MessageInv
<1>7. Serves(m)
  BY <1>2, HandoffAssumption DEF Serves, Creating, HasTurn, InTurn, Sending
<1> QED BY <1>1, <1>5, <1>6, <1>7, OwnStep DEF Creating

LEMMA StepStart ==
  ASSUME HandoffInv, NEW m \in Messages, Start(m) \/ StartTimesOut(m) \/ Check(m)
  PROVE  HandoffInv'
<1>1. /\ thread[m].pc \in {"start", "check"} /\ thread[m].on = m /\ thread[m].op = "none"
      /\ job[m].state = "running" /\ Started(m)
  BY Known DEF Start, StartTimesOut, Check, At, Placed, Serving, InTurn, Calls, Sending
<1>2. PICK pc \in {"check", "failure", "claim", "success"} :
        /\ Goto(m, pc)
        /\ pc = "claim" => IsOpen(m)
        /\ pc = "success" => ~ IsOpen(m)
        /\ thread[m].pc = "start" /\ pc # "failure" => ~ HasTurn(Visitor, inbox[m].to)
  BY DEF Start, StartTimesOut, Check, At
<1>3. /\ thread' \in [Threads -> ThreadRecord] /\ OthersStay(m)
      /\ thread'[m].pc = pc /\ thread'[m].on = m /\ thread'[m].op = "none" /\ thread'[m].back = thread[m].back
  BY Known, Goes, <1>1, <1>2 DEF Points, InTurn
<1>4. inbox' = inbox /\ job' = job /\ UNCHANGED counters
  BY DEF Start, StartTimesOut, Check
<1>5. /\ TypeOK' /\ OwnOnly(m) /\ ByOwnRun(m)' = ByOwnRun(m)
      /\ (Declines(m)' <=> Declines(m)) /\ (LimitReached' <=> LimitReached)
  BY Known, Unsent, JobStays, <1>1, <1>3, <1>4, OwnChange
<1>6. MessageInv(m)'
  <2>1. Placed(m)' /\ StatusFits(m)'
    BY Known, <1>1, <1>3, <1>4 DEF Placed, StatusFits, Started, Calls, Sending, Serving, InTurn
  <2>2. SuccessSettles(m)'
    <3>1. pc = "success" => Settled(m)
      <4>1. inbox[m].status # "failed"
        BY Known, <1>1 DEF StatusFits
      <4>2. inbox[m].status \in Statuses
        BY Known DEF MessageRecord
      <4> QED BY <1>1, <1>2, <4>1, <4>2 DEF IsOpen, Open, Settled, Statuses, Started
    <3> QED BY <1>3, <1>4, <3>1 DEF SuccessSettles, Settled
  <2>3. Answered(m)'
    BY Known, <1>1, <1>3, <1>4, <1>5 DEF Answered
  <2>4. Remembered(m)'
    BY <1>1, <1>4 DEF Remembered
  <2> QED BY <2>1, <2>2, <2>3, <2>4 DEF MessageInv
<1>7. Serves(m)
  BY <1>1, <1>2, <1>3, <1>4, HandoffAssumption DEF Serves, Creating, HasTurn, InTurn, Sending
<1> QED BY <1>1, <1>5, <1>6, <1>7, OwnStep DEF Creating

(* A claim that is not allowed finds the message settled. *)
LEMMA StepClaimHandoff ==
  ASSUME HandoffInv, NEW m \in Messages, ClaimHandoff(m)
  PROVE  HandoffInv'
<1>1. /\ thread[m].pc \in {"claim", "work"} /\ thread[m].on = m /\ thread[m].op = "none"
      /\ job[m].state = "running" /\ Started(m) /\ inbox[m].status # "failed" /\ inbox[m].status \in Statuses
      /\ thread[m].pc = "claim" => inbox[m].status \notin {"claimed", "working"}
  BY Known DEF ClaimHandoff, At, Placed, StatusFits, Serving, InTurn, Calls, Sending, MessageRecord
<1>2. PICK to \in {"claimed", "working"} :
        /\ Transition(m, to) /\ (to = "claimed" <=> thread[m].pc = "claim")
        /\ Goto(m, IF Can(m, to) THEN IF to = "claimed" THEN "work" ELSE "turn" ELSE "success")
  BY DEF ClaimHandoff, At
<1>3. /\ inbox' \in [Messages -> MessageRecord] /\ OthersMail(m)
      /\ inbox'[m].kind = inbox[m].kind /\ inbox'[m].to = inbox[m].to /\ inbox'[m].about = inbox[m].about
      /\ inbox'[m].result = inbox[m].result /\ inbox'[m].run = inbox[m].run
      /\ inbox'[m].status = IF ValidHandoffTransition(inbox[m].status, to) THEN to ELSE inbox[m].status
      /\ Started(m)' /\ (Can(m, to) <=> ValidHandoffTransition(inbox[m].status, to))
  BY Known, <1>1, <1>2, Transits DEF Statuses, Open
<1>4. PICK pc \in {"work", "turn", "success"} : Goto(m, pc) /\ (pc = "success" <=> ~ Can(m, to))
  BY <1>2
<1>5. /\ thread' \in [Threads -> ThreadRecord] /\ OthersStay(m)
      /\ thread'[m].pc = pc /\ thread'[m].on = m /\ thread'[m].op = "none" /\ thread'[m].back = thread[m].back
  BY Known, Goes, <1>1, <1>4 DEF Points, InTurn
<1>6. job' = job /\ UNCHANGED counters
  BY DEF ClaimHandoff
<1>7. /\ TypeOK' /\ OwnOnly(m) /\ ByOwnRun(m)' = ByOwnRun(m)
      /\ (Declines(m)' <=> Declines(m)) /\ (LimitReached' <=> LimitReached)
  BY Known, JobStays, <1>1, <1>3, <1>5, <1>6, OwnChange
<1>8. MessageInv(m)'
  <2>1. Placed(m)'
    BY Known, <1>1, <1>3, <1>5, <1>6 DEF Placed, Started, Calls, Sending, Serving, InTurn
  <2>2. StatusFits(m)'
    BY <1>1, <1>2, <1>3, <1>5, <1>6 DEF StatusFits, ValidHandoffTransition
  <2>3. SuccessSettles(m)'
    BY <1>1, <1>2, <1>3, <1>4, <1>5 DEF SuccessSettles, Settled, ValidHandoffTransition, Statuses, Open, Started
  <2>4. Answered(m)'
    <3>1. inbox[m].status \in {"replied", "declined", "closed"} => inbox'[m].status = inbox[m].status
      BY <1>2, <1>3 DEF ValidHandoffTransition
    <3> QED BY Known, <1>1, <1>5, <1>6, <1>7, <3>1 DEF Answered
  <2>5. Remembered(m)'
    BY <1>1, <1>6 DEF Remembered
  <2> QED BY <2>1, <2>2, <2>3, <2>4, <2>5 DEF MessageInv
<1>9. Serves(m)
  BY <1>1, <1>3, <1>5, HandoffAssumption DEF Serves, Creating, HasTurn, InTurn, Sending
<1> QED BY <1>1, <1>7, <1>8, <1>9, OwnStep DEF Creating

LEMMA StepEndTurn ==
  ASSUME HandoffInv, NEW m \in Messages, EndTurn(m) \/ CancelTurn(m)
  PROVE  HandoffInv'
<1>1. /\ thread[m].pc = "turn" /\ thread[m].on = m /\ thread[m].op = "none"
      /\ job[m].state = "running" /\ Started(m)
  BY Known DEF EndTurn, CancelTurn, At, Placed, Serving, InTurn, Calls, Sending
<1>2. PICK pc \in {"mark", "failure", "cancelled"} :
        /\ Goto(m, pc)
        /\ IF pc = "mark" THEN UNCHANGED inbox ELSE Transition(m, "failed")
  BY DEF EndTurn, CancelTurn
<1>3. /\ inbox' \in [Messages -> MessageRecord] /\ OthersMail(m)
      /\ inbox'[m].kind = inbox[m].kind /\ inbox'[m].to = inbox[m].to /\ inbox'[m].about = inbox[m].about
      /\ inbox'[m].result = inbox[m].result /\ inbox'[m].run = inbox[m].run /\ Started(m)'
      /\ \/ inbox'[m].status = inbox[m].status
         \/ /\ pc # "mark" /\ inbox'[m].status = "failed"
            /\ inbox[m].status \notin {"replied", "declined", "closed"}
  <2>1. CASE pc = "mark"
    BY Known, <1>1, <1>2, <2>1, Unsent
  <2>2. CASE pc # "mark"
    <3>1. Transition(m, "failed") /\ "failed" \in Statuses \ {"absent", "queued"}
      BY <1>2, <2>2 DEF Statuses
    <3>2. ValidHandoffTransition(inbox[m].status, "failed") => inbox[m].status \notin {"replied", "declined", "closed"}
      BY DEF ValidHandoffTransition
    <3> QED BY Known, <1>1, <2>2, <3>1, <3>2, Transits
  <2> QED BY <2>1, <2>2
<1>5. /\ thread' \in [Threads -> ThreadRecord] /\ OthersStay(m)
      /\ thread'[m].pc = pc /\ thread'[m].on = m /\ thread'[m].op = "none" /\ thread'[m].back = thread[m].back
  BY Known, Goes, <1>1, <1>2 DEF Points, InTurn
<1>6. job' = job /\ UNCHANGED counters
  BY DEF EndTurn, CancelTurn
<1>7. /\ TypeOK' /\ OwnOnly(m) /\ ByOwnRun(m)' = ByOwnRun(m)
      /\ (Declines(m)' <=> Declines(m)) /\ (LimitReached' <=> LimitReached)
  BY Known, JobStays, <1>1, <1>3, <1>5, <1>6, OwnChange
<1>8. MessageInv(m)'
  <2>1. Placed(m)' /\ SuccessSettles(m)'
    BY Known, <1>1, <1>3, <1>5, <1>6 DEF Placed, SuccessSettles, Started, Calls, Sending, Serving, InTurn
  <2>2. StatusFits(m)'
    BY Known, <1>1, <1>3, <1>5, <1>6 DEF StatusFits
  <2>3. Answered(m)'
    BY Known, <1>1, <1>3, <1>5, <1>6, <1>7 DEF Answered
  <2>4. Remembered(m)'
    BY <1>1, <1>6 DEF Remembered
  <2> QED BY <2>1, <2>2, <2>3, <2>4 DEF MessageInv
<1>9. Serves(m)
  BY <1>1, <1>3, <1>5, HandoffAssumption DEF Serves, Creating, HasTurn, InTurn, Sending
<1> QED BY <1>1, <1>7, <1>8, <1>9, OwnStep DEF Creating

LEMMA StepCommit ==
  ASSUME HandoffInv, NEW m \in Messages, Commit(m)
  PROVE  HandoffInv'
<1>1. /\ thread[m].pc = "mark" /\ thread[m].on = m /\ thread[m].op = "none"
      /\ job[m].state = "running" /\ Started(m)
  BY Known DEF Commit, At, Placed, Serving, InTurn, Calls, Sending
<1>2. PICK pc \in {"complete", "failure", "cancelled"} : Goto(m, pc)
  BY DEF Commit
<1>3. /\ thread' \in [Threads -> ThreadRecord] /\ OthersStay(m)
      /\ thread'[m].pc = pc /\ thread'[m].on = m /\ thread'[m].op = "none" /\ thread'[m].back = thread[m].back
  BY Known, Goes, <1>1, <1>2 DEF Points, InTurn
<1>4. /\ job' \in [Messages -> JobRecord] /\ OthersJobs(m)
      /\ job'[m].state = "running" /\ job'[m].attempt = job[m].attempt /\ job'[m].effects
  BY Known, <1>1 DEF Commit, JobRecord, OthersJobs
<1>5. inbox' = inbox /\ UNCHANGED counters
  BY DEF Commit
<1>6. /\ TypeOK' /\ OwnOnly(m) /\ ByOwnRun(m)' = ByOwnRun(m)
      /\ (Declines(m)' <=> Declines(m)) /\ (LimitReached' <=> LimitReached)
  BY Known, Unsent, <1>1, <1>3, <1>4, <1>5, OwnChange
<1>7. MessageInv(m)'
  <2>1. Placed(m)' /\ StatusFits(m)' /\ SuccessSettles(m)'
    BY Known, <1>1, <1>3, <1>4, <1>5
       DEF Placed, StatusFits, SuccessSettles, Started, Calls, Sending, Serving, InTurn
  <2>2. Answered(m)'
    BY Known, <1>1, <1>3, <1>5, <1>6 DEF Answered
  <2>3. Remembered(m)'
    BY <1>4 DEF Remembered
  <2> QED BY <2>1, <2>2, <2>3 DEF MessageInv
<1>8. Serves(m)
  BY <1>1, <1>3, <1>5, HandoffAssumption DEF Serves, Creating, HasTurn, InTurn, Sending
<1> QED BY <1>1, <1>6, <1>7, <1>8, OwnStep DEF Creating

(* An open message has no answer of its run yet: the automatic one is the   *)
(* first.                                                                   *)
LEMMA StepCompleteUnhandled ==
  ASSUME HandoffInv, NEW m \in Messages, CompleteUnhandled(m)
  PROVE  HandoffInv'
<1>1. /\ thread[m].pc = "complete" /\ thread[m].on = m /\ thread[m].op = "none"
      /\ job[m].state = "running" /\ job[m].effects /\ Started(m)
      /\ inbox[m].status # "failed" /\ inbox[m].status \in Statuses
  BY Known DEF CompleteUnhandled, At, Placed, StatusFits, Serving, InTurn, Calls, Sending, MessageRecord
<1>2. inbox' = inbox /\ job' = job /\ UNCHANGED counters
  BY DEF CompleteUnhandled
<1>3. IsOpen(m) => inbox[m].status \in {"delivered", "claimed", "working"} /\ ByOwnRun(m) = {}
  BY Known, <1>1 DEF IsOpen, Open, Started, Answered
<1>4. ~ IsOpen(m) => Settled(m)
  BY <1>1 DEF IsOpen, Open, Settled, Statuses, Started
<1>5. CASE ~ IsOpen(m)
  <2>1. Goto(m, "success")
    BY <1>5 DEF CompleteUnhandled
  <2>2. /\ thread' \in [Threads -> ThreadRecord] /\ OthersStay(m)
        /\ thread'[m].pc = "success" /\ thread'[m].on = m /\ thread'[m].op = "none" /\ thread'[m].back = thread[m].back
    BY Known, Goes, <1>1, <2>1 DEF Points
  <2>3. /\ TypeOK' /\ OwnOnly(m) /\ ByOwnRun(m)' = ByOwnRun(m)
        /\ (Declines(m)' <=> Declines(m)) /\ (LimitReached' <=> LimitReached)
    BY Known, Unsent, JobStays, <1>1, <1>2, <2>2, OwnChange
  <2>4. Placed(m)' /\ StatusFits(m)'
    BY Known, <1>1, <1>2, <2>2 DEF Placed, StatusFits, Started, Calls, Sending, Serving, InTurn
  <2>5. SuccessSettles(m)'
    BY <1>2, <1>4, <1>5 DEF SuccessSettles, Settled
  <2>6. Answered(m)' /\ Remembered(m)'
    BY Known, <1>1, <1>2, <2>2, <2>3 DEF Answered, Remembered
  <2>7. Serves(m)
    BY <1>1, <1>2, <2>2, HandoffAssumption DEF Serves, Creating, HasTurn, InTurn, Sending
  <2> QED BY <1>1, <2>3, <2>4, <2>5, <2>6, <2>7, OwnStep DEF Creating, MessageInv
<1>6. CASE IsOpen(m)
  <2>1. PICK pc \in {"append", "ack"} : Call(m, pc, m, "auto", "success")
    BY <1>6 DEF CompleteUnhandled
  <2>2. /\ thread' \in [Threads -> ThreadRecord] /\ OthersStay(m)
        /\ thread'[m].pc = pc /\ thread'[m].on = m /\ thread'[m].op = "auto" /\ thread'[m].back = "success"
    <3>1. pc \in Points /\ "success" \in Points
      BY DEF Points, Sending
    <3> QED BY Known, Calling, <2>1, <3>1
  <2>3. /\ TypeOK' /\ OwnOnly(m) /\ ByOwnRun(m)' = ByOwnRun(m)
        /\ (Declines(m)' <=> Declines(m)) /\ (LimitReached' <=> LimitReached)
    BY Known, Unsent, JobStays, <1>1, <1>2, <2>2, OwnChange
  <2>4. Placed(m)' /\ StatusFits(m)'
    BY Known, <1>1, <1>2, <1>3, <1>6, <2>2
       DEF Placed, OwnCall, StatusFits, Started, Calls, Sending, Serving, InTurn
  <2>5. SuccessSettles(m)' /\ Answered(m)' /\ Remembered(m)'
    BY <1>1, <1>2, <1>3, <1>6, <2>2, <2>3 DEF SuccessSettles, Answered, Remembered
  <2>6. Serves(m)
    BY <1>1, <1>2, <2>2, HandoffAssumption DEF Serves, Creating, HasTurn, InTurn
  <2> QED BY <1>1, <2>3, <2>4, <2>5, <2>6, OwnStep DEF Creating, MessageInv
<1> QED BY <1>5, <1>6

LEMMA StepSucceed ==
  ASSUME HandoffInv, NEW m \in Messages, Succeed(m) \/ Cancel(m)
  PROVE  HandoffInv'
<1>1. /\ thread[m].pc \in {"success", "cancelled"} /\ thread[m].on = m /\ thread[m].op = "none"
      /\ job[m].state = "running" /\ Started(m)
  BY Known DEF Succeed, Cancel, At, Placed, Serving, InTurn, Calls, Sending
<1>2. /\ thread' \in [Threads -> ThreadRecord] /\ OthersStay(m)
      /\ thread'[m].pc = "idle" /\ thread'[m].op = "none" /\ thread'[m].back = "idle"
  BY Known, Rests DEF Succeed, Cancel
<1>3. /\ job' \in [Messages -> JobRecord] /\ OthersJobs(m)
      /\ job'[m].state = "none" \/ job'[m].state = "cancelled"
      /\ job'[m].state = "none" => thread[m].pc = "success"
  <2>0. job \in [Messages -> JobRecord]
    BY Known
  <2>1. CASE Succeed(m)
    <3>1. job' = [job EXCEPT ![m] = NoJob] /\ thread[m].pc = "success"
      BY <2>1 DEF Succeed, At
    <3> QED BY <2>0, <3>1, Records, SetJob
  <2>2. CASE Cancel(m)
    <3>1. [job[m] EXCEPT !.state = "cancelled"] \in JobRecord
      BY <2>0 DEF JobRecord
    <3>2. job' = [job EXCEPT ![m] = [job[m] EXCEPT !.state = "cancelled"]]
      BY <2>0, <2>2 DEF Cancel
    <3>3. [job[m] EXCEPT !.state = "cancelled"].state = "cancelled"
      BY <2>0 DEF JobRecord
    <3>4. job' \in [Messages -> JobRecord] /\ OthersJobs(m) /\ job'[m] = [job[m] EXCEPT !.state = "cancelled"]
      BY <2>0, <3>1, <3>2, SetJob
    <3> QED BY <3>3, <3>4
  <2> QED BY <2>1, <2>2
<1>4. inbox' = inbox /\ UNCHANGED counters
  BY DEF Succeed, Cancel
<1>5. /\ TypeOK' /\ OwnOnly(m) /\ ByOwnRun(m)' = ByOwnRun(m)
      /\ (Declines(m)' <=> Declines(m)) /\ (LimitReached' <=> LimitReached)
  BY Known, Unsent, <1>1, <1>2, <1>3, <1>4, OwnChange
<1>6. MessageInv(m)'
  <2>1. Placed(m)' /\ StatusFits(m)' /\ SuccessSettles(m)'
    BY Known, <1>1, <1>2, <1>3, <1>4
       DEF Placed, StatusFits, SuccessSettles, Started, Calls, Sending, Serving, InTurn
  <2>2. Answered(m)'
    BY Known, <1>1, <1>2, <1>3, <1>4, <1>5 DEF Answered
  <2>3. Remembered(m)'
    BY Known, <1>1, <1>3, <1>4, <1>5 DEF Remembered, SuccessSettles, Settled
  <2> QED BY <2>1, <2>2, <2>3 DEF MessageInv
<1>7. Serves(m)
  BY <1>1, <1>2, <1>4, HandoffAssumption DEF Serves, Creating, HasTurn, InTurn, Sending
<1> QED BY <1>1, <1>5, <1>6, <1>7, OwnStep DEF Creating

LEMMA StepFail ==
  ASSUME HandoffInv, NEW m \in Messages, Fail(m)
  PROVE  HandoffInv'
<1>1. /\ thread[m].pc = "failure" /\ thread[m].on = m /\ thread[m].op = "none"
      /\ job[m].state = "running" /\ Started(m) /\ job[m].attempt < MaxAttempts /\ job[m].attempt \in Nat
  BY Known DEF Fail, At, Placed, Serving, InTurn, Calls, Sending, JobRecord
<1>2. PICK pc \in {"retry", "notify"} :
        /\ Goto(m, pc)
        /\ job' = [job EXCEPT ![m].attempt = @ + 1, ![m].state = IF pc = "retry" THEN "queued" ELSE "failed"]
        /\ pc = "retry" => job[m].attempt + 1 < MaxAttempts
  BY DEF Fail
<1>3. /\ thread' \in [Threads -> ThreadRecord] /\ OthersStay(m)
      /\ thread'[m].pc = pc /\ thread'[m].on = m /\ thread'[m].op = "none" /\ thread'[m].back = thread[m].back
  BY Known, Goes, <1>1, <1>2 DEF Points
<1>4. /\ job' \in [Messages -> JobRecord] /\ OthersJobs(m)
      /\ job'[m].state = IF pc = "retry" THEN "queued" ELSE "failed"
      /\ pc = "retry" => job'[m].attempt < MaxAttempts
  <2>1. PICK j \in JobRecord : /\ job' = [job EXCEPT ![m] = j]
                               /\ j.state = IF pc = "retry" THEN "queued" ELSE "failed"
                               /\ j.attempt = job[m].attempt + 1
    <3>1. job[m].attempt + 1 \in 0..MaxAttempts
      BY Known, <1>1
    <3>2. PICK state \in {"queued", "failed"} : state = IF pc = "retry" THEN "queued" ELSE "failed"
      OBVIOUS
    <3>3. [[job[m] EXCEPT !.attempt = job[m].attempt + 1] EXCEPT !.state = state] \in JobRecord
      BY Known, <3>1, ZenonT(60) DEF JobRecord
    <3>4. job' = [job EXCEPT ![m] = [[job[m] EXCEPT !.attempt = job[m].attempt + 1] EXCEPT !.state = state]]
      BY Known, <1>2, <3>2
    <3> QED BY Known, <3>2, <3>3, <3>4 DEF JobRecord
  <2>2. job' \in [Messages -> JobRecord] /\ OthersJobs(m) /\ job'[m] = j
    BY Known, <2>1, SetJob
  <2> QED BY <1>1, <1>2, <2>1, <2>2
<1>5. inbox' = inbox /\ UNCHANGED counters
  BY DEF Fail
<1>6. /\ TypeOK' /\ OwnOnly(m) /\ ByOwnRun(m)' = ByOwnRun(m)
      /\ (Declines(m)' <=> Declines(m)) /\ (LimitReached' <=> LimitReached)
  BY Known, Unsent, <1>1, <1>3, <1>4, <1>5, OwnChange
<1>7. MessageInv(m)'
  <2>1. Placed(m)' /\ StatusFits(m)' /\ SuccessSettles(m)'
    BY Known, <1>1, <1>3, <1>4, <1>5
       DEF Placed, StatusFits, SuccessSettles, Started, Calls, Sending, Serving, InTurn
  <2>2. Answered(m)'
    BY Known, <1>1, <1>3, <1>4, <1>5, <1>6 DEF Answered
  <2>3. Remembered(m)'
    BY <1>3, <1>4 DEF Remembered
  <2> QED BY <2>1, <2>2, <2>3 DEF MessageInv
<1>8. Serves(m)
  BY <1>1, <1>3, <1>5, HandoffAssumption DEF Serves, Creating, HasTurn, InTurn, Sending
<1> QED BY <1>1, <1>6, <1>7, <1>8, OwnStep DEF Creating

LEMMA StepRetryHandoff ==
  ASSUME HandoffInv, NEW m \in Messages, RetryHandoff(m)
  PROVE  HandoffInv'
<1>1. /\ thread[m].pc = "retry" /\ thread[m].on = m /\ thread[m].op = "none"
      /\ job[m].state = "queued" /\ Started(m)
  BY Known DEF RetryHandoff, At, Placed, Serving, InTurn, Calls, Sending
<1>2. /\ thread' \in [Threads -> ThreadRecord] /\ OthersStay(m)
      /\ thread'[m].pc = "idle" /\ thread'[m].op = "none" /\ thread'[m].back = "idle"
  BY Known, Rests DEF RetryHandoff
<1>3. /\ inbox' \in [Messages -> MessageRecord] /\ OthersMail(m)
      /\ inbox'[m].kind = inbox[m].kind /\ inbox'[m].to = inbox[m].to /\ inbox'[m].about = inbox[m].about
      /\ inbox'[m].result = inbox[m].result /\ inbox'[m].run = inbox[m].run /\ Started(m)'
      /\ inbox'[m].status = IF ValidHandoffTransition(inbox[m].status, "delivered")
                            THEN "delivered" ELSE inbox[m].status
  <2>1. Transition(m, "delivered") /\ "delivered" \in Statuses \ {"absent", "queued"}
    BY DEF RetryHandoff, Statuses, Open
  <2> QED BY Known, <1>1, <2>1, Transits
<1>4. /\ inbox'[m].status \notin {"claimed", "working", "failed"}
      /\ inbox[m].status \in {"replied", "declined", "closed"} => inbox'[m].status = inbox[m].status
  BY <1>3 DEF ValidHandoffTransition
<1>5. job' = job /\ UNCHANGED counters
  BY DEF RetryHandoff
<1>6. /\ TypeOK' /\ OwnOnly(m) /\ ByOwnRun(m)' = ByOwnRun(m)
      /\ (Declines(m)' <=> Declines(m)) /\ (LimitReached' <=> LimitReached)
  BY Known, JobStays, <1>1, <1>2, <1>3, <1>5, OwnChange
<1>7. MessageInv(m)'
  <2>1. Placed(m)' /\ StatusFits(m)' /\ SuccessSettles(m)'
    BY Known, <1>1, <1>2, <1>3, <1>4, <1>5
       DEF Placed, StatusFits, SuccessSettles, Started, Calls, Sending, Serving, InTurn
  <2>2. Answered(m)'
    BY Known, <1>1, <1>2, <1>4, <1>5, <1>6 DEF Answered
  <2>3. Remembered(m)'
    BY <1>1, <1>5 DEF Remembered
  <2> QED BY <2>1, <2>2, <2>3 DEF MessageInv
<1>8. Serves(m)
  BY <1>1, <1>2, <1>3, HandoffAssumption DEF Serves, Creating, HasTurn, InTurn, Sending
<1> QED BY <1>1, <1>6, <1>7, <1>8, OwnStep DEF Creating

(* The notice is sent of a message that is failed, and that has no answer   *)
(* of its runs then.                                                        *)
LEMMA StepNotifyFailedHandoff ==
  ASSUME HandoffInv, NEW m \in Messages, NotifyFailedHandoff(m)
  PROVE  HandoffInv'
<1>1. /\ thread[m].pc = "notify" /\ thread[m].on = m /\ thread[m].op = "none"
      /\ job[m].state = "failed" /\ Started(m)
  BY Known DEF NotifyFailedHandoff, At, Placed, Serving, InTurn, Calls, Sending
<1>2. inbox' = inbox /\ job' = job /\ UNCHANGED counters
  BY DEF NotifyFailedHandoff
<1>3. /\ thread' \in [Threads -> ThreadRecord] /\ OthersStay(m)
      /\ \/ /\ inbox[m].status = "failed" /\ inbox[m].result = NoMsg
            /\ thread'[m].pc = "append" /\ thread'[m].on = m
            /\ thread'[m].op = "failure" /\ thread'[m].back = "idle"
         \/ /\ inbox[m].status # "failed" \/ inbox[m].result # NoMsg
            /\ thread'[m].pc = "idle" /\ thread'[m].op = "none" /\ thread'[m].back = "idle"
  <2>1. CASE inbox[m].status = "failed" /\ inbox[m].result = NoMsg
    <3>1. Call(m, "append", m, "failure", "idle") /\ "append" \in Points /\ "idle" \in Points
      BY <2>1 DEF NotifyFailedHandoff, Points, Sending
    <3> QED BY Known, Calling, <2>1, <3>1
  <2>2. CASE ~ (inbox[m].status = "failed" /\ inbox[m].result = NoMsg)
    <3>1. thread' = [thread EXCEPT ![m] = Idle]
      BY <2>2 DEF NotifyFailedHandoff
    <3> QED BY Known, Rests, <2>2, <3>1
  <2> QED BY <2>1, <2>2
<1>4. /\ TypeOK' /\ OwnOnly(m) /\ ByOwnRun(m)' = ByOwnRun(m)
      /\ (Declines(m)' <=> Declines(m)) /\ (LimitReached' <=> LimitReached)
  BY Known, Unsent, JobStays, <1>1, <1>2, <1>3, OwnChange
<1>5. MessageInv(m)'
  <2>1. Placed(m)' /\ StatusFits(m)' /\ SuccessSettles(m)'
    BY Known, <1>1, <1>2, <1>3
       DEF Placed, OwnCall, StatusFits, SuccessSettles, Started, Calls, Sending, Serving, InTurn
  <2>2. Answered(m)'
    BY Known, <1>1, <1>2, <1>3, <1>4 DEF Answered
  <2>3. Remembered(m)'
    BY <1>1, <1>2, <1>3 DEF Remembered
  <2> QED BY <2>1, <2>2, <2>3 DEF MessageInv
<1>6. Serves(m)
  BY <1>1, <1>2, <1>3, HandoffAssumption DEF Serves, Creating, HasTurn, InTurn, Sending
<1> QED BY <1>1, <1>4, <1>5, <1>6, OwnStep DEF Creating

(* The tools find a message that is open without an answer of its run, and  *)
(* one that is declined with declines only.                                 *)
LEMMA ToolCalls ==
  ASSUME inbox \in [Messages -> MessageRecord], thread \in [Threads -> ThreadRecord],
         NEW t \in Threads, NEW m \in Messages, NEW back \in Points, Started(m), Tool(t, m, back)
  PROVE  /\ thread' \in [Threads -> ThreadRecord] /\ OthersStay(t)
         /\ thread'[t].on = m /\ thread'[t].back = back
         /\ inbox' \in [Messages -> MessageRecord] /\ OthersMail(m) /\ Started(m)'
         /\ inbox'[m].kind = inbox[m].kind /\ inbox'[m].to = inbox[m].to /\ inbox'[m].about = inbox[m].about
         /\ inbox'[m].result = inbox[m].result /\ inbox'[m].run = inbox[m].run
         /\ \/ /\ IsOpen(m) /\ inbox'[m].status = inbox[m].status
               /\ thread'[t].op = "tool" /\ thread'[t].pc = "append"
            \/ /\ inbox'[m].status = inbox[m].status
               /\ thread'[t].op = "tool" /\ thread'[t].pc = "ack"
            \/ /\ Can(m, "declined") /\ inbox'[m].status = "declined"
               /\ thread'[t].op = "decline" /\ thread'[t].pc = "append"
<1>0. {"append", "ack"} \subseteq Points /\ "declined" \in Statuses \ {"absent", "queued"}
  BY DEF Points, Sending, Statuses
<1>1. CASE ReplyTo(t, m, back)
  <2>1. PICK pc \in {"append", "ack"} : Call(t, pc, m, "tool", back)
    BY <1>1 DEF ReplyTo
  <2> QED BY <1>0, <1>1, <2>1, Calling, Unsent DEF ReplyTo
<1>2. CASE AckInbox(t, m, back)
  BY <1>0, <1>2, Calling, Unsent DEF AckInbox
<1>3. CASE Decline(t, m, back)
  <2>1. Call(t, "append", m, "decline", back) /\ Can(m, "declined") /\ Transition(m, "declined")
    BY <1>3 DEF Decline
  <2>2. /\ thread' \in [Threads -> ThreadRecord] /\ OthersStay(t)
        /\ thread'[t].on = m /\ thread'[t].back = back /\ thread'[t].op = "decline" /\ thread'[t].pc = "append"
    BY <1>0, <2>1, Calling
  <2> QED BY <1>0, <2>1, <2>2, Transits
<1> QED BY <1>1, <1>2, <1>3 DEF Tool

LEMMA StepUseTool ==
  ASSUME HandoffInv, NEW m \in Messages, UseTool(m)
  PROVE  HandoffInv'
<1>1. /\ thread[m].pc = "turn" /\ thread[m].on = m /\ thread[m].op = "none"
      /\ job[m].state = "running" /\ Started(m) /\ inbox[m].status # "failed"
  BY Known DEF UseTool, At, Placed, StatusFits, Serving, InTurn, Calls, Sending
<1>2. "turn" \in Points /\ Tool(m, m, "turn")
  BY DEF UseTool, Points, InTurn
<1>3. /\ thread' \in [Threads -> ThreadRecord] /\ OthersStay(m)
      /\ thread'[m].on = m /\ thread'[m].back = "turn"
      /\ inbox' \in [Messages -> MessageRecord] /\ OthersMail(m) /\ Started(m)'
      /\ inbox'[m].kind = inbox[m].kind /\ inbox'[m].to = inbox[m].to /\ inbox'[m].about = inbox[m].about
      /\ inbox'[m].result = inbox[m].result /\ inbox'[m].run = inbox[m].run
      /\ \/ /\ IsOpen(m) /\ inbox'[m].status = inbox[m].status
            /\ thread'[m].op = "tool" /\ thread'[m].pc = "append"
         \/ /\ inbox'[m].status = inbox[m].status
            /\ thread'[m].op = "tool" /\ thread'[m].pc = "ack"
         \/ /\ Can(m, "declined") /\ inbox'[m].status = "declined"
            /\ thread'[m].op = "decline" /\ thread'[m].pc = "append"
  BY Known, <1>1, <1>2, ToolCalls
<1>4. /\ job' \in [Messages -> JobRecord] /\ OthersJobs(m)
      /\ job'[m].state = "running" /\ job'[m].attempt = job[m].attempt /\ job'[m].effects
  BY Known, <1>1 DEF UseTool, JobRecord, OthersJobs
<1>5. /\ TypeOK' /\ OwnOnly(m) /\ ByOwnRun(m)' = ByOwnRun(m)
      /\ (Declines(m)' <=> Declines(m)) /\ (LimitReached' <=> LimitReached)
  BY Known, <1>1, <1>3, <1>4, OwnChange DEF UseTool
<1>6. MessageInv(m)'
  <2>1. Placed(m)' /\ SuccessSettles(m)'
    BY Known, <1>1, <1>3, <1>4
       DEF Placed, OwnCall, SuccessSettles, Started, Calls, Sending, Serving, InTurn
  <2>2. StatusFits(m)'
    BY <1>1, <1>3, <1>4 DEF StatusFits, IsOpen, Open, Started
  <2>3. Answered(m)'
    <3>1. IsOpen(m) => ByOwnRun(m) = {}
      BY Known, <1>1 DEF Answered, IsOpen, Open
    <3>2. Can(m, "declined") => ByOwnRun(m) = {} \/ Declines(m)
      BY Known, <1>1 DEF Answered, Can, ValidHandoffTransition
    <3>3. inbox'[m].status = inbox[m].status /\ thread'[m].pc = "ack" => Answered(m)'
      BY Known, <1>1, <1>5 DEF Answered
    <3> QED BY <1>3, <1>5, <3>1, <3>2, <3>3 DEF Answered
  <2>4. Remembered(m)'
    BY <1>4 DEF Remembered
  <2> QED BY <2>1, <2>2, <2>3, <2>4 DEF MessageInv
<1>7. Serves(m)
  BY <1>1, <1>3, HandoffAssumption DEF Serves, Creating, HasTurn, InTurn
<1> QED BY <1>1, <1>5, <1>6, <1>7, OwnStep DEF Creating

-----------------------------------------------------------------------------
(* A step in which thread t calls, sends or acknowledges: what it has to    *)
(* show of the messages of the others, of new answers and of itself.        *)

NewAnswers ==
  \A m \in Messages : inbox[m].status = "absent" =>
    /\ inbox'[m].about # NoMsg => m \in Answers /\ inbox'[m].status # "absent"
    /\ m \in Answers /\ inbox'[m].status # "absent" => inbox'[m].about \in Messages /\ Started(inbox[m].about)'

GoesOn(t) ==
  /\ t \in Messages => thread[t].pc # "idle" \/ inbox[t].status = "absent"
  /\ thread'[t].pc # "idle" /\ thread'[t].op # "request" => thread'[t].on \in Messages /\ Started(thread[t].on)'
  /\ thread'[t].pc = "original" => inbox'[thread'[t].on].about \in Messages
  /\ \A a \in Agents : HasTurn(t, a)' =>
       HasTurn(t, a) \/ (t = Visitor /\ \A m \in Messages : ~ HasTurn(m, a))
  /\ t = Visitor => VisitorShape'

Creation(t) ==
  /\ thread'[t].pc \in Creating =>
       thread'[t].answer \in Messages /\ (thread'[t].op # "request" => thread'[t].answer \in Answers)
  /\ \A m \in Messages : Creates(t, m)' =>
       /\ Creates(t, m) \/ inbox[m].status = "absent"
       /\ m = t => ByOwnRun(t)' = ByOwnRun(t)
       /\ job'[m].state = "none"
       /\ IF thread'[t].pc = "deliver" THEN inbox'[m].status = "queued"
          ELSE inbox'[m].status \in {"delivered", "replied", "declined", "closed"}

LEMMA ThreadOnShape ==
  ASSUME HandoffInv, NEW t \in Threads, OthersStay(t), Kept, NewAnswers, GoesOn(t), Creation(t)
  PROVE  OnShape'
<1>0. OnShape /\ VisitorShape /\ \A m \in Messages : Placed(m)
  BY DEF HandoffInv, SharedInv, MessageInv
<1>1. \A u \in Threads : thread'[u].pc # "idle" /\ thread'[u].op # "request" =>
                           thread'[u].on \in Messages /\ Started(thread[u].on)'
  <2> SUFFICES ASSUME NEW u \in Threads, u # t, thread'[u].pc # "idle", thread'[u].op # "request"
               PROVE  thread'[u].on \in Messages /\ Started(thread[u].on)'
    BY DEF GoesOn
  <2>1. thread'[u] = thread[u] /\ thread[u].on \in Messages /\ Started(thread[u].on)
    BY <1>0 DEF OthersStay, OnShape
  <2> QED BY <2>1 DEF Kept, Started
<1>2. \A u \in Threads : thread'[u].pc = "original" => inbox'[thread'[u].on].about \in Messages
  <2> SUFFICES ASSUME NEW u \in Threads, u # t, thread'[u].pc = "original"
               PROVE  inbox'[thread'[u].on].about \in Messages
    BY DEF GoesOn
  <2>1. thread'[u] = thread[u] /\ thread[u].op # "request"
    <3>1. u \in Messages => Placed(u)
      BY <1>0
    <3> QED BY <1>0, <3>1 DEF OthersStay, Placed, OwnCall, Calls, VisitorShape
  <2>2. thread[u].on \in Messages /\ Started(thread[u].on) /\ inbox[thread[u].on].about \in Messages
    BY <1>0, <2>1 DEF OnShape
  <2> QED BY <2>1, <2>2 DEF Kept, Started
<1>3. \A u \in Threads : thread'[u].pc \in Creating =>
                           thread'[u].answer \in Messages /\ (thread'[u].op # "request" => thread'[u].answer \in Answers)
  BY <1>0 DEF OnShape, OthersStay, Creation
<1>4. \A n \in Answers : inbox'[n].status # "absent" => inbox'[n].about \in Messages /\ Started(inbox[n].about)'
  <2> SUFFICES ASSUME NEW n \in Answers, inbox'[n].status # "absent", inbox[n].status # "absent"
               PROVE  inbox'[n].about \in Messages /\ Started(inbox[n].about)'
    BY DEF NewAnswers
  <2>1. inbox'[n].about = inbox[n].about /\ inbox[n].about \in Messages /\ Started(inbox[n].about)
    BY <1>0 DEF Kept, OnShape
  <2> QED BY <2>1 DEF Kept, Started
<1>5. \A m \in Messages : inbox'[m].about # NoMsg => m \in Answers /\ inbox'[m].status # "absent"
  BY <1>0 DEF OnShape, Kept, NewAnswers
<1> QED BY <1>1, <1>2, <1>3, <1>4, <1>5 DEF OnShape

LEMMA ThreadCreated ==
  ASSUME HandoffInv, NEW t \in Threads, OthersStay(t), Kept, GoesOn(t), Creation(t),
         \A m \in Messages \ {t} : Foreign(t, m), NEW m \in Messages
  PROVE  Created(m)'
<1>0. Created(m) /\ Placed(m) /\ OnShape
  BY DEF HandoffInv, SharedInv, MessageInv
<1>1. inbox[m].status = "absent" => ByOwnRun(m) = {} /\ \A u \in Threads : ~ Creates(u, m)
  BY <1>0 DEF ByOwnRun, ByItsRun, OnShape, Started, Created
<1> SUFFICES ASSUME NEW u \in Threads, Creates(u, m)'
             PROVE  /\ job'[m].state = "none" /\ ByOwnRun(m)' = {}
                    /\ u = m \/ thread'[m].pc = "idle"
                    /\ IF thread'[u].pc = "deliver" THEN inbox'[m].status = "queued"
                       ELSE inbox'[m].status \in {"delivered", "replied", "declined", "closed"}
                    /\ \A v \in Threads : Creates(v, m)' => v = u
  BY DEF Created
<1>2. \A v \in Threads : v # t => (Creates(v, m)' <=> Creates(v, m)) /\ thread'[v] = thread[v]
  BY DEF Creates, OthersStay
<1>3. CASE u = t
  <2>1. job'[m].state = "none" /\ IF thread'[u].pc = "deliver" THEN inbox'[m].status = "queued"
                                  ELSE inbox'[m].status \in {"delivered", "replied", "declined", "closed"}
    BY <1>3 DEF Creation
  <2>2. ByOwnRun(m)' = ByOwnRun(m)
    BY <1>3 DEF Creation, Foreign
  <2>3. CASE Creates(t, m)
    BY <1>0, <1>2, <1>3, <2>1, <2>2, <2>3 DEF Created
  <2>4. CASE inbox[m].status = "absent"
    BY <1>0, <1>1, <1>2, <1>3, <2>1, <2>2, <2>4 DEF Placed
  <2> QED BY <1>3, <2>3, <2>4 DEF Creation
<1>4. CASE u # t
  <2>1. Creates(u, m) /\ thread'[u] = thread[u] /\ ~ Creates(t, m) /\ inbox[m].status # "absent"
    BY <1>0, <1>1, <1>2, <1>4 DEF Created
  <2>2. ~ Creates(t, m)'
    BY <2>1 DEF Creation
  <2>3. m # t
    BY <1>0, <1>4, <2>1 DEF Created, GoesOn
  <2>4. Foreign(t, m) /\ thread'[m] = thread[m]
    BY <2>3 DEF OthersStay
  <2> QED BY <1>0, <1>2, <1>4, <2>1, <2>2, <2>4 DEF Created, Foreign, Moved, Started
<1> QED BY <1>3, <1>4

LEMMA ThreadStep ==
  ASSUME HandoffInv, NEW t \in Threads, TypeOK', UNCHANGED crashes, OthersStay(t), Kept, NewAnswers, GoesOn(t),
         Creation(t), \A m \in Messages \ {t} : Foreign(t, m), t \in Messages => MessageInv(t)',
         AnsweredOnceByItsRuns'
  PROVE  HandoffInv'
<1>0. /\ OnShape /\ OneTurn /\ VisitorShape
      /\ \A x \in Messages : Placed(x)
  BY DEF HandoffInv, SharedInv, MessageInv
<1>1. \A x \in Messages : MessageInv(x)'
  <2> SUFFICES ASSUME NEW x \in Messages, x # t
               PROVE  MessageInv(x)'
    OBVIOUS
  <2>1. Foreign(t, x) /\ thread'[x] = thread[x]
    BY DEF OthersStay
  <2> QED BY <2>1, ForeignPlaced, ForeignAnswered, ForeignRemembered DEF MessageInv
<1>2. OneTurn'
  <2>1. \A u \in Threads, a \in Agents : u # t /\ HasTurn(u, a)' => HasTurn(u, a)
    BY <1>0 DEF HasTurn, OthersStay, OnShape, InTurn, Sending, Kept, Started
  <2>2. SUFFICES ASSUME NEW x \in Messages, HasTurn(x, inbox[x].to)', HasTurn(Visitor, inbox[x].to)'
                 PROVE  FALSE
    BY DEF OneTurn
  <2>3. inbox'[x].to \in Agents /\ x # Visitor
    BY HandoffAssumption DEF TypeOK
  <2>4. HasTurn(x, inbox'[x].to)
    BY <2>1, <2>2, <2>3 DEF GoesOn
  <2>5. inbox'[x].to = inbox[x].to
    <3>1. inbox[x].status # "absent"
      BY <1>0, <2>4 DEF Placed, HasTurn, InTurn, Sending
    <3> QED BY <3>1 DEF Kept
  <2>6. HasTurn(Visitor, inbox'[x].to)
    BY <2>1, <2>2, <2>3, <2>4 DEF GoesOn
  <2> QED BY <1>0, <2>4, <2>5, <2>6 DEF OneTurn
<1>3. VisitorShape'
  BY <1>0 DEF VisitorShape, GoesOn, OthersStay
<1> QED BY <1>1, <1>2, <1>3, ThreadOnShape, ThreadCreated DEF HandoffInv, SharedInv

-----------------------------------------------------------------------------
(* The steps of sending a message.                                          *)

LEMMA AbsentIsFresh ==
  ASSUME HandoffInv, NEW m \in Messages, inbox[m].status = "absent"
  PROVE  /\ ByOwnRun(m) = {} /\ inbox[m].about = NoMsg /\ thread[m].pc = "idle" /\ job[m].state = "none"
         /\ \A u \in Threads : ~ Creates(u, m) /\ (thread[u].pc # "idle" => thread[u].on # m)
<1>1. OnShape /\ Created(m) /\ Placed(m) /\ \A u \in Messages : Placed(u)
  BY DEF HandoffInv, SharedInv, MessageInv
<1>2. VisitorShape
  BY DEF HandoffInv, SharedInv
<1>3. ByOwnRun(m) = {} /\ inbox[m].about = NoMsg
  BY <1>1 DEF OnShape, ByOwnRun, ByItsRun, Started
<1>4. \A u \in Threads : ~ Creates(u, m)
  BY <1>1 DEF Created
<1>5. \A u \in Threads : thread[u].pc # "idle" => thread[u].on # m
  <2> SUFFICES ASSUME NEW u \in Threads, thread[u].pc # "idle", thread[u].on = m
               PROVE  FALSE
    OBVIOUS
  <2>1. CASE u \in Messages
    BY <1>1, <2>1 DEF Placed
  <2>2. CASE u = Visitor
    BY <1>1, <1>2, <2>2 DEF OnShape, VisitorShape, Started
  <2> QED BY <2>1, <2>2
<1> QED BY <1>1, <1>3, <1>4, <1>5 DEF Placed

(* Who makes a call other than the one that sends a request.                *)
LEMMA Caller ==
  ASSUME HandoffInv, NEW t \in Threads, thread[t].pc \in Calls, thread[t].op # "request"
  PROVE  /\ thread[t].on \in Messages /\ Started(thread[t].on)
         /\ thread[t].op \in {"tool", "auto", "decline", "failure"}
         /\ thread[t].back \in {"idle", "turn", "success"} /\ (thread[t].back # "idle" => t \in Messages)
         /\ (t = Visitor => thread[t].op \in {"tool", "decline"} /\ thread[t].back = "idle")
         /\ t \in Messages => /\ thread[t].on = t /\ Started(t) /\ Placed(t) /\ OwnCall(t)
                              /\ job[t].state # "none" /\ inbox[t].status # "absent"
         /\ thread[t].pc \in Creating => thread[t].answer \in Answers /\ thread[t].answer # t
<1>0. OnShape /\ VisitorShape /\ \A m \in Messages : Placed(m) /\ Created(m)
  BY DEF HandoffInv, SharedInv, MessageInv
<1>1. thread[t].pc # "idle"
  BY DEF Calls, Sending
<1>2. thread[t].on \in Messages /\ Started(thread[t].on)
  BY <1>0, <1>1 DEF OnShape
<1>3. CASE t = Visitor
  BY <1>0, <1>1, <1>2, <1>3, HandoffAssumption DEF VisitorShape, OnShape
<1>4. CASE t \in Messages
  <2>1. /\ thread[t].on = t /\ Placed(t) /\ OwnCall(t) /\ job[t].state # "none"
        /\ thread[t].op \in {"tool", "auto", "decline", "failure"}
        /\ thread[t].back \in {"idle", "turn", "success"}
    BY <1>0, <1>1, <1>4 DEF Placed, OwnCall
  <2>2. thread[t].pc \in Creating => thread[t].answer \in Answers /\ thread[t].answer # t
    BY <1>0, <1>4, <2>1 DEF OnShape, Created, Creates
  <2> QED BY <1>2, <1>4, <2>1, <2>2, HandoffAssumption DEF Started
<1> QED BY <1>3, <1>4

LEMMA StepSendRequest ==
  ASSUME HandoffInv, NEW m \in Messages, SendRequest(m)
  PROVE  HandoffInv'
<1>1. /\ m \in Requests /\ m \notin Answers /\ inbox[m].status = "absent" /\ m # NoMsg /\ m # Visitor
      /\ job' = job /\ UNCHANGED counters
  BY HandoffAssumption DEF SendRequest
<1>2. /\ thread' \in [Threads -> ThreadRecord] /\ OthersStay(m)
      /\ thread'[m].pc = "deliver" /\ thread'[m].on = m /\ thread'[m].op = "request"
      /\ thread'[m].answer = m /\ thread'[m].back = "idle"
  <2>1. PICK k \in ThreadRecord : /\ thread' = [thread EXCEPT ![m] = k]
                                  /\ k.pc = "deliver" /\ k.on = m /\ k.op = "request" /\ k.answer = m /\ k.back = "idle"
    <3>1. [pc |-> "deliver", on |-> m, op |-> "request", answer |-> m, back |-> "idle"] \in ThreadRecord
      BY DEF ThreadRecord, Points, Sending
    <3> QED BY <3>1 DEF SendRequest
  <2> QED BY <2>1, Known, SetThread
<1>3. /\ inbox' \in [Messages -> MessageRecord] /\ OthersMail(m)
      /\ inbox'[m].status = "queued" /\ inbox'[m].about = inbox[m].about
  <2>1. "queued" \in Statuses
    BY DEF Statuses, Open
  <2> QED BY Known, <2>1, ZenonT(60) DEF SendRequest, MessageRecord, OthersMail
<1>4. TypeOK'
  BY Known, Typed, <1>1, <1>2, <1>3 DEF counters
<1>5. Kept /\ NewAnswers
  BY <1>1, <1>3, AbsentIsFresh DEF Kept, NewAnswers, OthersMail, Started
<1>6. \A x \in Messages : ByOwnRun(x)' = ByOwnRun(x)
  BY <1>1, <1>3 DEF ByOwnRun, ByItsRun, OthersMail
<1>7. \A x \in Messages \ {m} : Foreign(m, x)
  <2> SUFFICES ASSUME NEW x \in Messages, x # m
               PROVE  Foreign(m, x)
    OBVIOUS
  <2>1. ~ Creates(m, x)
    BY <1>1, AbsentIsFresh DEF Creates, Creating
  <2> QED BY <1>1, <1>3, <1>6, <2>1 DEF Foreign, Moved, OthersMail
<1>8. GoesOn(m) /\ Creation(m)
  <2>1. \A a \in Agents : ~ HasTurn(m, a)'
    BY <1>2 DEF HasTurn
  <2>2. GoesOn(m)
    BY <1>1, <1>2, <2>1 DEF GoesOn
  <2>3. Creation(m)
    BY <1>1, <1>2, <1>3, <1>6, AbsentIsFresh DEF Creation, Creates
  <2> QED BY <2>2, <2>3
<1>9. MessageInv(m)'
  <2>1. ByOwnRun(m)' = {} /\ job'[m].state = "none" /\ HasCreator(m)'
    <3>1. Creates(m, m)'
      BY <1>2 DEF Creates, Creating
    <3> QED BY <1>1, <1>6, <3>1, AbsentIsFresh DEF HasCreator
  <2> QED BY <1>2, <1>3, <2>1 DEF MessageInv, Placed, OwnCall, StatusFits, SuccessSettles, Answered, Remembered,
                                  Started, Calls, Sending, Serving, InTurn
<1>10. AnsweredOnceByItsRuns'
  BY <1>5, <1>6, KeptOnce DEF HandoffInv, SharedInv
<1> QED BY <1>1, <1>2, <1>4, <1>5, <1>7, <1>8, <1>9, <1>10, ThreadStep DEF counters

LEMMA MailMoves ==
  ASSUME HandoffInv, NEW x \in Messages, OthersMail(x), inbox[x].status # "absent", inbox'[x].status # "absent",
         Started(x) => Started(x)', inbox'[x].kind = inbox[x].kind, inbox'[x].to = inbox[x].to,
         inbox'[x].about = inbox[x].about, inbox'[x].run = inbox[x].run
  PROVE  /\ Kept /\ NewAnswers /\ (LimitReached' <=> LimitReached) /\ AnsweredOnceByItsRuns'
         /\ \A m \in Messages : ByOwnRun(m)' = ByOwnRun(m) /\ (Declines(m)' <=> Declines(m))
<1>1. Kept
  BY DEF Kept, OthersMail, Started
<1>2. NewAnswers
  BY AbsentIsFresh DEF NewAnswers, OthersMail
<1>3. LimitReached' <=> LimitReached
  BY DEF LimitReached, Free, OthersMail
<1>4. \A m \in Messages : ByOwnRun(m)' = ByOwnRun(m)
  BY DEF ByOwnRun, ByItsRun, OthersMail
<1> QED BY <1>1, <1>2, <1>3, <1>4, KeptDeclines, KeptOnce DEF HandoffInv, SharedInv

LEMMA CallReturns ==
  ASSUME HandoffInv, NEW t \in Threads, thread[t].pc \in Calls, thread[t].op # "request", Return(t), Kept
  PROVE  /\ thread' \in [Threads -> ThreadRecord] /\ OthersStay(t) /\ GoesOn(t) /\ Creation(t)
         /\ thread'[t].pc = thread[t].back /\ thread'[t].op = "none" /\ thread'[t].back = "idle"
         /\ thread'[t].pc # "idle" => thread'[t].on = t
         /\ \A m \in Messages : ~ Creates(t, m)'
<1>1. /\ thread' \in [Threads -> ThreadRecord] /\ OthersStay(t)
      /\ thread'[t].pc = thread[t].back /\ thread'[t].op = "none" /\ thread'[t].back = "idle"
      /\ thread'[t].pc # "idle" => thread'[t].on = t
  BY Typed, Caller, Returns DEF HandoffInv
<1>2. \A m \in Messages : ~ Creates(t, m)'
  BY <1>1, Caller DEF Creates, Creating
<1>3. \A a \in Agents : HasTurn(t, a)' => HasTurn(t, a)
  <2>1. thread[t].back # "idle" => t \in Messages /\ thread[t].on = t /\ inbox'[t].to = inbox[t].to
    BY Caller DEF Kept
  <2>2. thread[t].back = "turn" => thread[t].op # "failure"
    BY Caller DEF OwnCall
  <2> QED BY <1>1, <2>1, <2>2, Caller, HandoffAssumption DEF HasTurn, InTurn, Sending, Calls
<1>4. GoesOn(t)
  BY <1>1, <1>3, Caller DEF GoesOn, Kept, Calls, Sending, VisitorShape
<1> QED BY <1>1, <1>2, <1>4, Caller DEF Creation, Creating

LEMMA MessageReturns ==
  ASSUME HandoffInv, NEW m \in Messages, thread[m].pc \in Calls, thread[m].op # "request",
         thread'[m].pc = thread[m].back, thread'[m].op = "none", thread'[m].back = "idle",
         thread'[m].pc # "idle" => thread'[m].on = m, job'[m] = job[m], Kept,
         inbox'[m].status = inbox[m].status \/ inbox'[m].status = "closed",
         ByOwnRun(m)' = ByOwnRun(m),
         thread[m].back = "success" => Settled(m)' \/ LimitReached',
         ByOwnRun(m) # {} => \/ inbox'[m].status \in {"replied", "closed"}
                             \/ inbox'[m].status = "declined" /\ Declines(m)
                             \/ job[m].state = "failed",
         crashes = 0 /\ ~ LimitReached' /\ job[m].state = "failed" /\ inbox'[m].status = "failed" => inbox'[m].result # NoMsg,
         crashes' = crashes
  PROVE  MessageInv(m)'
<1>1. /\ Placed(m) /\ StatusFits(m) /\ OwnCall(m) /\ Started(m) /\ job[m].state # "none"
      /\ thread[m].back \in {"idle", "turn", "success"} /\ Started(m)'
      /\ (Declines(m)' <=> Declines(m))
  BY Known, Caller, KeptDeclines DEF Kept
<1>2. Placed(m)'
  BY <1>1 DEF Placed, OwnCall, Started, Calls, Sending, Serving, InTurn
<1>3. StatusFits(m)'
  BY <1>1 DEF StatusFits, OwnCall, Calls, Sending
<1>4. SuccessSettles(m)'
  BY <1>1 DEF SuccessSettles
<1>5. Answered(m)'
  BY <1>1 DEF Answered, OwnCall
<1>6. Remembered(m)'
  BY <1>1 DEF Remembered
<1> QED BY <1>2, <1>3, <1>4, <1>5, <1>6 DEF MessageInv

LEMMA NotRequest ==
  ASSUME HandoffInv, NEW t \in Threads, thread[t].pc \in {"append", "settle", "result", "ack", "original"}
  PROVE  thread[t].op # "request" /\ thread[t].pc \in Calls
<1>1. CASE t \in Messages
  BY Known, <1>1 DEF Placed, OwnCall, Calls, Sending
<1>2. CASE t = Visitor
  BY <1>2 DEF HandoffInv, SharedInv, VisitorShape, Calls, Sending
<1> QED BY <1>1, <1>2

LEMMA StepAck ==
  ASSUME HandoffInv, NEW t \in Threads, Ack(t)
  PROVE  HandoffInv'
<1>1. /\ thread[t].pc = "ack" /\ thread[t].op # "request" /\ thread[t].pc \in Calls
      /\ job' = job /\ UNCHANGED counters
  BY NotRequest DEF Ack, At
<1>2. PICK m \in Messages : m = thread[t].on /\ Started(m)
  BY <1>1, Caller
<1>3. /\ inbox' \in [Messages -> MessageRecord] /\ OthersMail(m)
      /\ inbox'[m].kind = inbox[m].kind /\ inbox'[m].to = inbox[m].to /\ inbox'[m].about = inbox[m].about
      /\ inbox'[m].result = inbox[m].result /\ inbox'[m].run = inbox[m].run
      /\ inbox'[m].status = "closed" /\ Started(m)' /\ Can(m, "closed")
  <2>1. "closed" \in Statuses \ {"absent", "queued"} /\ Transition(m, "closed")
    BY <1>2 DEF Statuses, Ack
  <2>2. ValidHandoffTransition(inbox[m].status, "closed")
    BY Known, <1>2 DEF ValidHandoffTransition, Started, MessageRecord, Statuses, Open
  <2> QED BY Known, <1>2, <2>1, <2>2, Transits
<1>4. /\ Kept /\ NewAnswers /\ (LimitReached' <=> LimitReached) /\ AnsweredOnceByItsRuns'
      /\ \A x \in Messages : ByOwnRun(x)' = ByOwnRun(x) /\ (Declines(x)' <=> Declines(x))
  BY <1>2, <1>3, MailMoves DEF Started
<1>5. \A x \in Messages \ {t} : Foreign(t, x)
  <2> SUFFICES ASSUME NEW x \in Messages
               PROVE  Foreign(t, x)
    OBVIOUS
  <2>1. ~ Creates(t, x)
    BY <1>1 DEF Creates, Creating
  <2> QED BY <1>1, <1>2, <1>3, <1>4, <2>1 DEF Foreign, Moved, OthersMail
<1>6. t \in Messages => t = m /\ thread[t].op \in {"tool", "auto"} /\ OwnCall(t) /\ Placed(t)
  BY <1>1, <1>2, Caller DEF OwnCall
<1>7. CASE inbox[m].about # NoMsg
  <2>1. Goto(t, "original") /\ "original" \in Points
    BY <1>2, <1>3, <1>7 DEF Ack, Points
  <2>2. /\ thread' \in [Threads -> ThreadRecord] /\ OthersStay(t)
        /\ thread'[t].pc = "original" /\ thread'[t].on = m /\ thread'[t].op = thread[t].op
        /\ thread'[t].back = thread[t].back
    BY <1>2, <2>1, Typed, Goes DEF HandoffInv
  <2>3. TypeOK'
    BY <1>1, <1>3, <2>2, Typed DEF HandoffInv, counters
  <2>4. GoesOn(t) /\ Creation(t)
    <3>1. inbox[m].about \in Messages
      BY Known, <1>7 DEF MessageRecord
    <3>2. \A a \in Agents : HasTurn(t, a)' => HasTurn(t, a)
      BY <1>1, <1>2, <1>3, <2>2 DEF HasTurn, Sending
    <3>3. t = Visitor => VisitorShape'
      BY <1>1, <2>2, Caller DEF VisitorShape, Calls
    <3> QED BY <1>1, <1>3, <2>2, <3>1, <3>2, <3>3 DEF GoesOn, Creation, Creates, Creating
  <2>5. t \in Messages => MessageInv(t)'
    <3> SUFFICES ASSUME t \in Messages
                 PROVE  MessageInv(t)'
      OBVIOUS
    <3>1. job[t].state = "running" /\ t = m
      BY <1>6 DEF OwnCall
    <3> QED BY <1>1, <1>3, <1>6, <2>2, <3>1
            DEF MessageInv, Placed, OwnCall, StatusFits, SuccessSettles, Settled, Answered, Remembered,
                Started, Calls, Sending, Serving, InTurn
  <2> QED BY <1>1, <1>4, <1>5, <2>2, <2>3, <2>4, <2>5, ThreadStep DEF counters
<1>8. CASE inbox[m].about = NoMsg
  <2>1. Return(t)
    BY <1>2, <1>3, <1>8 DEF Ack
  <2>2. /\ thread' \in [Threads -> ThreadRecord] /\ OthersStay(t) /\ GoesOn(t) /\ Creation(t)
        /\ thread'[t].pc = thread[t].back /\ thread'[t].op = "none" /\ thread'[t].back = "idle"
        /\ thread'[t].pc # "idle" => thread'[t].on = t
    BY <1>1, <1>4, <2>1, CallReturns
  <2>3. TypeOK'
    BY <1>1, <1>3, <2>2, Typed DEF HandoffInv, counters
  <2>4. t \in Messages => MessageInv(t)'
    <3> SUFFICES ASSUME t \in Messages
                 PROVE  MessageInv(t)'
      OBVIOUS
    <3> QED BY <1>1, <1>3, <1>4, <1>6, <2>2, MessageReturns DEF Settled, counters
  <2> QED BY <1>1, <1>4, <1>5, <2>2, <2>3, <2>4, ThreadStep DEF counters
<1> QED BY <1>7, <1>8

LEMMA StepCloseOriginal ==
  ASSUME HandoffInv, NEW t \in Threads, CloseOriginal(t)
  PROVE  HandoffInv'
<1>1. /\ thread[t].pc = "original" /\ thread[t].op # "request" /\ thread[t].pc \in Calls
      /\ job' = job /\ UNCHANGED counters /\ Return(t)
  BY NotRequest DEF CloseOriginal, At
<1>2. PICK x \in Messages : x = inbox[thread[t].on].about /\ Started(x)
  BY <1>1, Caller, HandoffAssumption DEF HandoffInv, SharedInv, OnShape
<1>3. /\ inbox' \in [Messages -> MessageRecord] /\ OthersMail(x)
      /\ inbox'[x].kind = inbox[x].kind /\ inbox'[x].to = inbox[x].to /\ inbox'[x].about = inbox[x].about
      /\ inbox'[x].result = inbox[x].result /\ inbox'[x].run = inbox[x].run
      /\ inbox'[x].status = inbox[x].status \/ inbox'[x].status = "closed"
      /\ Started(x)'
  <2>1. "closed" \in Statuses \ {"absent", "queued"} /\ Transition(x, "closed")
    BY <1>2 DEF Statuses, CloseOriginal
  <2> QED BY Known, <1>2, <2>1, Transits
<1>4. /\ Kept /\ NewAnswers /\ (LimitReached' <=> LimitReached) /\ AnsweredOnceByItsRuns'
      /\ \A m \in Messages : ByOwnRun(m)' = ByOwnRun(m) /\ (Declines(m)' <=> Declines(m))
  BY <1>2, <1>3, MailMoves DEF Started
<1>5. /\ thread' \in [Threads -> ThreadRecord] /\ OthersStay(t) /\ GoesOn(t) /\ Creation(t)
      /\ thread'[t].pc = thread[t].back /\ thread'[t].op = "none" /\ thread'[t].back = "idle"
      /\ thread'[t].pc # "idle" => thread'[t].on = t
  BY <1>1, <1>4, CallReturns
<1>6. \A m \in Messages \ {t} : Foreign(t, m)
  <2> SUFFICES ASSUME NEW m \in Messages
               PROVE  Foreign(t, m)
    OBVIOUS
  <2>1. ~ Creates(t, m)
    BY <1>1 DEF Creates, Creating
  <2> QED BY <1>1, <1>2, <1>3, <1>4, <2>1 DEF Foreign, Moved, OthersMail
<1>7. TypeOK'
  BY <1>1, <1>3, <1>5, Typed DEF HandoffInv, counters
<1>8. t \in Messages => MessageInv(t)'
  <2> SUFFICES ASSUME t \in Messages
               PROVE  MessageInv(t)'
    OBVIOUS
  <2>1. inbox'[t].status = inbox[t].status \/ inbox'[t].status = "closed"
    BY <1>3 DEF OthersMail
  <2>2. OwnCall(t) /\ thread[t].op \in {"tool", "auto"} /\ job[t].state = "running"
    BY <1>1, Caller DEF OwnCall
  <2>3. thread[t].back = "success" => Settled(t)' \/ LimitReached'
    <3>1. inbox'[t].result = inbox[t].result
      BY <1>3 DEF OthersMail
    <3> QED BY Known, <1>1, <1>4, <2>1, <3>1 DEF SuccessSettles, Settled
  <2>4. ByOwnRun(t) # {} => inbox'[t].status \in {"replied", "closed"} \/ (inbox'[t].status = "declined" /\ Declines(t))
    BY Known, <1>1, <2>1, <2>2 DEF Answered
  <2> QED BY <1>1, <1>4, <1>5, <2>1, <2>2, <2>3, <2>4, MessageReturns DEF counters
<1> QED BY <1>1, <1>4, <1>5, <1>6, <1>7, <1>8, ThreadStep DEF counters

(* The message is replied to, or was closed meanwhile.                      *)
LEMMA StepSettle ==
  ASSUME HandoffInv, NEW t \in Threads, Settle(t)
  PROVE  HandoffInv'
<1>1. /\ thread[t].pc = "settle" /\ thread[t].op # "request" /\ thread[t].pc \in Calls
      /\ job' = job /\ UNCHANGED counters
  BY NotRequest DEF Settle, At
<1>2. PICK m \in Messages : m = thread[t].on /\ Started(m)
  BY <1>1, Caller
<1>3. /\ inbox' \in [Messages -> MessageRecord] /\ OthersMail(m)
      /\ inbox'[m].kind = inbox[m].kind /\ inbox'[m].to = inbox[m].to /\ inbox'[m].about = inbox[m].about
      /\ inbox'[m].result = inbox[m].result /\ inbox'[m].run = inbox[m].run
      /\ inbox'[m].status = IF ValidHandoffTransition(inbox[m].status, "replied")
                            THEN "replied" ELSE inbox[m].status
      /\ Started(m)' /\ (Can(m, "replied") <=> ValidHandoffTransition(inbox[m].status, "replied"))
  <2>1. "replied" \in Statuses \ {"absent", "queued"} /\ Transition(m, "replied")
    BY <1>2 DEF Statuses, Settle
  <2> QED BY Known, <1>2, <2>1, Transits
<1>4. /\ Kept /\ NewAnswers /\ (LimitReached' <=> LimitReached) /\ AnsweredOnceByItsRuns'
      /\ \A x \in Messages : ByOwnRun(x)' = ByOwnRun(x) /\ (Declines(x)' <=> Declines(x))
  BY <1>2, <1>3, MailMoves DEF Started
<1>5. PICK pc \in {"result", "trigger"} : Goto(t, pc) /\ (pc = "result" <=> Can(m, "replied"))
  BY <1>2 DEF Settle
<1>6. /\ thread' \in [Threads -> ThreadRecord] /\ OthersStay(t)
      /\ thread'[t].pc = pc /\ thread'[t].on = m /\ thread'[t].op = thread[t].op
      /\ thread'[t].answer = thread[t].answer /\ thread'[t].back = thread[t].back
  <2>1. pc \in Points
    BY DEF Points, Sending
  <2> QED BY <1>2, <1>5, <2>1, Typed, Goes DEF HandoffInv
<1>7. TypeOK'
  BY <1>1, <1>3, <1>6, Typed DEF HandoffInv, counters
<1>8. \A x \in Messages : Creates(t, x)' <=> Creates(t, x)
  BY <1>1, <1>6 DEF Creates, Creating
<1>9. \A x \in Messages \ {t} : Foreign(t, x)
  <2> SUFFICES ASSUME NEW x \in Messages, x # t
               PROVE  Foreign(t, x)
    OBVIOUS
  <2>1. x = m => ~ HasTurn(m, inbox[m].to)
    <3>1. x = m => t = Visitor
      BY <1>1, <1>2, Caller
    <3>2. t = Visitor => HasTurn(Visitor, inbox[m].to)
      BY <1>1, <1>2, Caller, HandoffAssumption DEF HasTurn, Sending
    <3> QED BY <3>1, <3>2 DEF HandoffInv, SharedInv, OneTurn
  <2>2. Moved(t, x)
    BY <1>2, <1>3, <2>1 DEF Moved, OthersMail
  <2>3. inbox'[x].result = inbox[x].result
    BY <1>3 DEF OthersMail
  <2> QED BY <1>1, <1>4, <1>8, <2>2, <2>3 DEF Foreign
<1>10. GoesOn(t)
  <2>1. \A a \in Agents : HasTurn(t, a)' => HasTurn(t, a)
    BY <1>1, <1>2, <1>3, <1>6 DEF HasTurn, Sending
  <2>2. t = Visitor => VisitorShape'
    BY <1>1, <1>6, Caller DEF VisitorShape, Calls, Sending
  <2> QED BY <1>1, <1>3, <1>6, <2>1, <2>2 DEF GoesOn
<1>11. Creation(t)
  <2> SUFFICES ASSUME NEW x \in Messages, Creates(t, x)'
               PROVE  job'[x].state = "none" /\ inbox'[x].status \in {"delivered", "replied", "declined", "closed"}
    BY <1>1, <1>4, <1>6, <1>8, Caller DEF Creation, Creating
  <2>1. job[x].state = "none" /\ inbox[x].status \in {"delivered", "replied", "declined", "closed"}
    BY <1>1, <1>8 DEF HandoffInv, SharedInv, Created
  <2>2. inbox'[x].status \in {inbox[x].status, "replied"}
    BY <1>3 DEF OthersMail
  <2> QED BY <1>1, <2>1, <2>2
<1>12. t \in Messages => MessageInv(t)'
  <2> SUFFICES ASSUME t \in Messages
               PROVE  MessageInv(t)'
    OBVIOUS
  <2>1. t = m /\ OwnCall(t) /\ thread[t].op \in {"tool", "auto"} /\ job[t].state = "running"
    BY <1>1, <1>2, Caller DEF OwnCall
  <2>2. \/ inbox'[t].status = "replied" /\ pc = "result"
        \/ inbox'[t].status = "closed" /\ pc = "trigger"
    <3>1. inbox[t].status \in {"delivered", "claimed", "working", "replied", "closed"}
      BY Known, <1>1, <2>1 DEF StatusFits
    <3> QED BY <1>3, <1>5, <2>1, <3>1 DEF ValidHandoffTransition
  <2>3. Placed(t)'
    BY Known, <1>1, <1>3, <1>6, <2>1, <2>2 DEF Placed, OwnCall, Started, Calls, Sending, Serving, InTurn
  <2>4. StatusFits(t)' /\ SuccessSettles(t)' /\ Answered(t)' /\ Remembered(t)'
    BY <1>1, <1>6, <2>1, <2>2 DEF StatusFits, SuccessSettles, Settled, Answered, Remembered
  <2> QED BY <2>3, <2>4 DEF MessageInv
<1> QED BY <1>1, <1>4, <1>6, <1>7, <1>9, <1>10, <1>11, <1>12, ThreadStep DEF counters

LEMMA StepSetResult ==
  ASSUME HandoffInv, NEW t \in Threads, SetResult(t)
  PROVE  HandoffInv'
<1>1. /\ thread[t].pc = "result" /\ thread[t].op # "request" /\ thread[t].pc \in Calls
      /\ job' = job /\ UNCHANGED counters
  BY NotRequest DEF SetResult, At
<1>2. PICK m \in Messages : m = thread[t].on /\ Started(m)
  BY <1>1, Caller
<1>3. /\ inbox' \in [Messages -> MessageRecord] /\ OthersMail(m)
      /\ inbox'[m].kind = inbox[m].kind /\ inbox'[m].to = inbox[m].to /\ inbox'[m].about = inbox[m].about
      /\ inbox'[m].status = inbox[m].status /\ inbox'[m].run = inbox[m].run
      /\ inbox'[m].result # NoMsg /\ Started(m)'
  <2>1. PICK n \in Answers : n = thread[t].answer /\ n # NoMsg
    BY <1>1, Caller, HandoffAssumption DEF Creating
  <2>2. inbox' = [inbox EXCEPT ![m].result = n]
    BY <1>2, <2>1 DEF SetResult
  <2>3. PICK r \in MessageRecord : /\ inbox' = [inbox EXCEPT ![m] = r] /\ r.result = n
                                   /\ r.status = inbox[m].status /\ r.kind = inbox[m].kind
                                   /\ r.to = inbox[m].to /\ r.about = inbox[m].about /\ r.run = inbox[m].run
    <3>1. [inbox[m] EXCEPT !.result = n] \in MessageRecord
      BY Known DEF MessageRecord
    <3> QED BY Known, <2>2, <3>1 DEF MessageRecord
  <2>4. inbox'[m] = r /\ inbox' \in [Messages -> MessageRecord] /\ OthersMail(m)
    BY Known, <2>3 DEF OthersMail
  <2> QED BY <1>2, <2>1, <2>3, <2>4 DEF Started
<1>4. /\ Kept /\ NewAnswers /\ (LimitReached' <=> LimitReached) /\ AnsweredOnceByItsRuns'
      /\ \A x \in Messages : ByOwnRun(x)' = ByOwnRun(x) /\ (Declines(x)' <=> Declines(x))
  BY <1>2, <1>3, MailMoves DEF Started
<1>5. /\ thread' \in [Threads -> ThreadRecord] /\ OthersStay(t)
      /\ thread'[t].pc = "trigger" /\ thread'[t].on = m /\ thread'[t].op = thread[t].op
      /\ thread'[t].answer = thread[t].answer /\ thread'[t].back = thread[t].back
  <2>1. "trigger" \in Points /\ Goto(t, "trigger")
    BY DEF Points, Sending, SetResult
  <2> QED BY <1>2, <2>1, Typed, Goes DEF HandoffInv
<1>6. TypeOK'
  BY <1>1, <1>3, <1>5, Typed DEF HandoffInv, counters
<1>7. \A x \in Messages : Creates(t, x)' <=> Creates(t, x)
  BY <1>1, <1>5 DEF Creates, Creating
<1>8. \A x \in Messages \ {t} : Foreign(t, x)
  BY <1>1, <1>3, <1>4, <1>7 DEF Foreign, Moved, OthersMail
<1>9. GoesOn(t)
  <2>1. \A a \in Agents : HasTurn(t, a)' => HasTurn(t, a)
    BY <1>1, <1>2, <1>3, <1>5 DEF HasTurn, Sending
  <2>2. t = Visitor => VisitorShape'
    BY <1>1, <1>5, Caller DEF VisitorShape, Calls, Sending
  <2> QED BY <1>1, <1>3, <1>5, <2>1, <2>2 DEF GoesOn
<1>10. Creation(t)
  <2> SUFFICES ASSUME NEW x \in Messages, Creates(t, x)'
               PROVE  job'[x].state = "none" /\ inbox'[x].status \in {"delivered", "replied", "declined", "closed"}
    BY <1>1, <1>4, <1>5, <1>7, Caller DEF Creation, Creating
  <2>1. job[x].state = "none" /\ inbox[x].status \in {"delivered", "replied", "declined", "closed"}
    BY <1>1, <1>7 DEF HandoffInv, SharedInv, Created
  <2> QED BY <1>1, <1>3, <2>1 DEF OthersMail
<1>11. t \in Messages => MessageInv(t)'
  <2> SUFFICES ASSUME t \in Messages
               PROVE  MessageInv(t)'
    OBVIOUS
  <2>1. t = m /\ OwnCall(t)
    BY <1>1, <1>2, Caller
  <2>2. Placed(t)' /\ StatusFits(t)'
    BY Known, <1>1, <1>3, <1>5, <2>1
       DEF Placed, OwnCall, StatusFits, Started, Calls, Sending, Serving, InTurn
  <2>3. SuccessSettles(t)' /\ Answered(t)'
    BY Known, <1>1, <1>3, <1>4, <1>5, <2>1 DEF SuccessSettles, Settled, Answered
  <2>4. Remembered(t)'
    BY <1>1, <1>3, <1>5, <2>1 DEF Remembered, OwnCall
  <2> QED BY <2>2, <2>3, <2>4 DEF MessageInv
<1> QED BY <1>1, <1>4, <1>5, <1>6, <1>8, <1>9, <1>10, <1>11, ThreadStep DEF counters

(* What is delivered was just queued, by the thread that creates it.        *)
LEMMA StepDeliver ==
  ASSUME HandoffInv, NEW t \in Threads, Deliver(t)
  PROVE  HandoffInv'
<1>1. /\ thread[t].pc = "deliver" /\ thread[t].pc \in Calls /\ thread[t].pc \in Creating
      /\ job' = job /\ UNCHANGED counters
  BY DEF Deliver, At, Calls, Sending, Creating
<1>2. PICK x \in Messages : /\ x = thread[t].answer /\ Creates(t, x) /\ inbox[x].status = "queued"
                            /\ job[x].state = "none" /\ ~ Started(x)
  <2>1. thread[t].answer \in Messages
    BY <1>1 DEF HandoffInv, SharedInv, OnShape
  <2>2. Creates(t, thread[t].answer) /\ Created(thread[t].answer)
    BY <1>1, <2>1 DEF HandoffInv, SharedInv, Creates
  <2> QED BY <1>1, <2>1, <2>2 DEF Created, Started
<1>3. /\ inbox' \in [Messages -> MessageRecord] /\ OthersMail(x)
      /\ inbox'[x].kind = inbox[x].kind /\ inbox'[x].to = inbox[x].to /\ inbox'[x].about = inbox[x].about
      /\ inbox'[x].result = inbox[x].result /\ inbox'[x].run = inbox[x].run
      /\ inbox'[x].status = "delivered" /\ Can(x, "delivered")
  <2>1. Can(x, "delivered") /\ "delivered" \in Statuses
    BY <1>2 DEF Can, ValidHandoffTransition, Statuses, Open
  <2>2. inbox' = [inbox EXCEPT ![x].status = "delivered"]
    BY <1>2, <2>1 DEF Deliver, Transition
  <2> QED BY Known, <2>1, <2>2 DEF MessageRecord, OthersMail
<1>4. /\ Kept /\ NewAnswers /\ (LimitReached' <=> LimitReached) /\ AnsweredOnceByItsRuns'
      /\ \A m \in Messages : ByOwnRun(m)' = ByOwnRun(m) /\ (Declines(m)' <=> Declines(m))
  BY <1>2, <1>3, MailMoves DEF Started
<1>5. PICK pc \in {"trigger", "settle", "result"} :
        /\ Goto(t, pc)
        /\ pc = "trigger" <=> thread[t].op = "request"
        /\ pc = "settle" <=> thread[t].op \in {"tool", "auto"}
  BY <1>2, <1>3 DEF Deliver
<1>6. /\ thread' \in [Threads -> ThreadRecord] /\ OthersStay(t)
      /\ thread'[t].pc = pc /\ thread'[t].on = thread[t].on /\ thread'[t].op = thread[t].op
      /\ thread'[t].answer = x /\ thread'[t].back = thread[t].back
  <2>1. pc \in Points
    BY DEF Points, Sending
  <2> QED BY <1>2, <1>5, <2>1, Typed, Goes DEF HandoffInv
<1>7. TypeOK'
  BY <1>1, <1>3, <1>6, Typed DEF HandoffInv, counters
<1>8. \A m \in Messages : /\ Creates(t, m)' <=> Creates(t, m)
                          /\ Creates(t, m) => m = x
  BY <1>1, <1>2, <1>6 DEF Creates, Creating
<1>9. \A m \in Messages \ {t} : Foreign(t, m)
  <2> SUFFICES ASSUME NEW m \in Messages
               PROVE  Foreign(t, m)
    OBVIOUS
  <2>1. Moved(t, m)
    BY <1>2, <1>3, <1>8 DEF Moved, OthersMail
  <2>2. inbox'[m].result = inbox[m].result
    BY <1>3 DEF OthersMail
  <2> QED BY <1>1, <1>4, <1>8, <2>1, <2>2 DEF Foreign
<1>10. GoesOn(t)
  <2>1. \A a \in Agents : HasTurn(t, a)' => HasTurn(t, a)
    <3>1. thread[t].op # "request" => thread[t].on \in Messages /\ inbox'[thread[t].on].to = inbox[thread[t].on].to
      BY <1>1, <1>4, Caller DEF Kept, Started
    <3> QED BY <1>1, <1>6, <3>1 DEF HasTurn, Sending
  <2>2. t = Visitor => VisitorShape'
    <3>1. t = Visitor => thread[t].op \in {"tool", "decline"} /\ thread[t].back = "idle"
      BY <1>1 DEF HandoffInv, SharedInv, VisitorShape
    <3> QED BY <1>6, <3>1 DEF VisitorShape, Calls, Sending
  <2>3. thread'[t].op # "request" => thread'[t].on \in Messages /\ Started(thread[t].on)'
    BY <1>1, <1>4, <1>6, Caller DEF Kept, Started
  <2> QED BY <1>1, <1>6, <2>1, <2>2, <2>3 DEF GoesOn
<1>11. Creation(t)
  <2>1. thread[t].op # "request" => x \in Answers
    BY <1>1, <1>2, Caller
  <2> QED BY <1>1, <1>2, <1>3, <1>4, <1>6, <1>8, <2>1 DEF Creation
<1>12. t \in Messages => MessageInv(t)'
  <2> SUFFICES ASSUME t \in Messages
               PROVE  MessageInv(t)'
    OBVIOUS
  <2>1. CASE thread[t].op = "request"
    <3>1. t = x /\ thread[t].on = t /\ thread[t].back = "idle"
      BY Known, <1>1, <1>2, <2>1 DEF Placed, OwnCall
    <3>2. ByOwnRun(t) = {} /\ HasCreator(t)'
      BY <1>2, <1>8, <3>1 DEF HandoffInv, SharedInv, Created, HasCreator
    <3> QED BY <1>1, <1>2, <1>3, <1>4, <1>5, <1>6, <2>1, <3>1, <3>2
            DEF MessageInv, Placed, OwnCall, StatusFits, SuccessSettles, Answered, Remembered,
                Started, Calls, Sending, Serving, InTurn
  <2>2. CASE thread[t].op # "request"
    <3>1. /\ t # x /\ OwnCall(t) /\ inbox'[t] = inbox[t] /\ thread[t].on = t /\ Started(t)
          /\ job[t].state # "none"
      BY <1>1, <1>2, <1>3, <2>2, Caller DEF OthersMail
    <3>2. Placed(t)' /\ StatusFits(t)' /\ SuccessSettles(t)'
      BY Known, <1>1, <1>5, <1>6, <2>2, <3>1
         DEF Placed, OwnCall, StatusFits, SuccessSettles, Started, Calls, Sending, Serving, InTurn
    <3>3. Answered(t)' /\ Remembered(t)'
      BY Known, <1>1, <1>4, <1>5, <1>6, <2>2, <3>1 DEF Answered, Remembered, OwnCall
    <3> QED BY <3>2, <3>3 DEF MessageInv
  <2> QED BY <2>1, <2>2
<1> QED BY <1>1, <1>4, <1>6, <1>7, <1>9, <1>10, <1>11, <1>12, ThreadStep DEF counters

(* The answer a run sends is its first, unless it declines again.           *)
LEMMA StepAppend ==
  ASSUME HandoffInv, NEW t \in Threads, AppendAnswer(t), ~ LimitReached
  PROVE  HandoffInv'
<1>1. /\ thread[t].pc = "append" /\ thread[t].op # "request" /\ thread[t].pc \in Calls
      /\ job' = job /\ UNCHANGED counters
  BY NotRequest DEF AppendAnswer, At
<1>2. PICK m \in Messages : m = thread[t].on /\ Started(m)
  BY <1>1, Caller
<1>3. PICK n \in Answers :
        /\ inbox[n].status = "absent"
        /\ inbox' = [inbox EXCEPT ![n] =
                       [status |-> "queued", about |-> m, to |-> Other(inbox[m].to), result |-> NoMsg,
                        kind |-> IF thread[t].op \in {"tool", "auto"} THEN "reply" ELSE thread[t].op,
                        run |-> t = m]]
        /\ thread' = [thread EXCEPT ![t].pc = "deliver", ![t].answer = n]
  <2>1. (CHOOSE a \in Free : TRUE) \in Answers /\ inbox[CHOOSE a \in Free : TRUE].status = "absent"
    BY DEF LimitReached, Free
  <2> QED BY <1>2, <2>1 DEF AppendAnswer
<1>4. /\ inbox' \in [Messages -> MessageRecord] /\ OthersMail(n)
      /\ inbox'[n].status = "queued" /\ inbox'[n].about = m
      /\ inbox'[n].run <=> t = m
      /\ thread[t].op = "decline" => inbox'[n].kind = "decline"
  <2>1. PICK kind \in Kinds : /\ kind = IF thread[t].op \in {"tool", "auto"} THEN "reply" ELSE thread[t].op
                              /\ thread[t].op = "decline" => kind = "decline"
    BY <1>1, Caller DEF Kinds
  <2>2. PICK run \in BOOLEAN : run = (t = m)
    OBVIOUS
  <2>3. PICK to \in Agents : to = Other(inbox[m].to)
    BY DEF Other, Agents
  <2>4. PICK r \in MessageRecord : /\ inbox' = [inbox EXCEPT ![n] = r] /\ r.status = "queued"
                                   /\ r.about = m /\ r.run = run /\ r.kind = kind
    <3>1. [status |-> "queued", about |-> m, to |-> to, result |-> NoMsg, kind |-> kind, run |-> run] \in MessageRecord
      BY DEF MessageRecord, Statuses, Open
    <3> QED BY <1>3, <2>1, <2>2, <2>3, <3>1
  <2>5. inbox'[n] = r /\ inbox' \in [Messages -> MessageRecord] /\ OthersMail(n)
    BY Known, <2>4 DEF OthersMail
  <2> QED BY <2>1, <2>2, <2>4, <2>5
<1>5. /\ thread' \in [Threads -> ThreadRecord] /\ OthersStay(t)
      /\ thread'[t].pc = "deliver" /\ thread'[t].answer = n
      /\ thread'[t].on = m /\ thread'[t].op = thread[t].op /\ thread'[t].back = thread[t].back
  <2>1. PICK k \in ThreadRecord : /\ thread' = [thread EXCEPT ![t] = k]
                                  /\ k.pc = "deliver" /\ k.answer = n
                                  /\ k.on = m /\ k.op = thread[t].op /\ k.back = thread[t].back
    <3>1. thread[t] \in ThreadRecord
      BY Typed DEF HandoffInv
    <3>2. [[thread[t] EXCEPT !.pc = "deliver"] EXCEPT !.answer = n] \in ThreadRecord
      BY <3>1 DEF ThreadRecord, Points, Sending
    <3>3. thread' = [thread EXCEPT ![t] = [[thread[t] EXCEPT !.pc = "deliver"] EXCEPT !.answer = n]]
      BY <1>3, Typed DEF HandoffInv
    <3> QED BY <1>2, <3>1, <3>2, <3>3 DEF ThreadRecord
  <2> QED BY <2>1, Typed, SetThread DEF HandoffInv
<1>6. TypeOK'
  BY <1>1, <1>4, <1>5, Typed DEF HandoffInv, counters
<1>7. Kept /\ NewAnswers
  <2>1. Kept
    BY <1>3, <1>4 DEF Kept, OthersMail, Started
  <2>2. NewAnswers
    BY <1>2, <1>4, <2>1, AbsentIsFresh DEF NewAnswers, OthersMail, Kept
  <2> QED BY <2>1, <2>2
<1>8. \A x \in Messages \ {t} : ByOwnRun(x)' = ByOwnRun(x)
  BY <1>3, <1>4 DEF ByOwnRun, ByItsRun, OthersMail
<1>9. /\ t # n /\ m # n
      /\ t \in Messages => t = m /\ OwnCall(t) /\ Started(t)
  BY <1>1, <1>2, <1>3, Caller, HandoffAssumption DEF Started
<1>10. \A x \in Messages : ~ Creates(t, x) /\ (Creates(t, x)' <=> x = n)
  BY <1>1, <1>5 DEF Creates, Creating
<1>11. \A x \in Messages \ {t} : Foreign(t, x)
  <2> SUFFICES ASSUME NEW x \in Messages, x # t
               PROVE  Foreign(t, x)
    OBVIOUS
  <2>1. CASE x = n
    BY <1>1, <1>3, <1>4, <1>8, <1>10, <2>1 DEF Foreign, Moved, Started
  <2>2. CASE x # n
    BY <1>1, <1>4, <1>8, <1>10, <2>2 DEF Foreign, Moved, OthersMail
  <2> QED BY <2>1, <2>2
<1>12. GoesOn(t)
  <2>1. \A a \in Agents : HasTurn(t, a)' => HasTurn(t, a)
    BY <1>1, <1>2, <1>4, <1>5, <1>9 DEF HasTurn, Sending, OthersMail
  <2>2. t = Visitor => VisitorShape'
    BY <1>1, <1>5, Caller DEF VisitorShape, Calls, Sending
  <2> QED BY <1>1, <1>2, <1>5, <1>7, <2>1, <2>2 DEF GoesOn, Kept
<1>13. Creation(t)
  BY <1>1, <1>3, <1>4, <1>5, <1>9, <1>10, AbsentIsFresh DEF Creation
<1>14. t \in Messages => ByOwnRun(t) = {} \/ (thread[t].op = "decline" /\ Declines(t))
  BY Known, <1>1 DEF Answered
<1>15. t \in Messages => ByOwnRun(t)' \subseteq ByOwnRun(t) \cup {n}
  BY <1>3, <1>4 DEF ByOwnRun, ByItsRun, OthersMail
<1>16. t \in Messages => MessageInv(t)'
  <2> SUFFICES ASSUME t \in Messages
               PROVE  MessageInv(t)'
    OBVIOUS
  <2>1. inbox'[t] = inbox[t]
    BY <1>4, <1>9 DEF OthersMail
  <2>2. Placed(t)' /\ StatusFits(t)' /\ SuccessSettles(t)'
    BY Known, <1>1, <1>5, <1>9, <2>1
       DEF Placed, OwnCall, StatusFits, SuccessSettles, Started, Calls, Sending, Serving, InTurn
  <2>3. Answered(t)'
    <3>1. thread[t].op = "decline" => Declines(t)'
      <4> SUFFICES ASSUME thread[t].op = "decline", NEW a \in ByOwnRun(t)'
                   PROVE  inbox'[a].kind = "decline"
        BY DEF Declines
      <4>1. a \in Answers /\ (a = n \/ a \in ByOwnRun(t))
        BY <1>15 DEF ByOwnRun
      <4>2. a \in ByOwnRun(t) => inbox[a].kind = "decline" /\ inbox'[a] = inbox[a]
        <5>1. a \in ByOwnRun(t) => a # n
          BY <1>3 DEF ByOwnRun, ByItsRun
        <5> QED BY <1>4, <1>14, <4>1, <5>1 DEF Declines, OthersMail
      <4> QED BY <1>4, <4>1, <4>2
    <3>2. thread[t].op = "decline" => inbox[t].status \in {"declined", "closed"}
      BY Known DEF StatusFits
    <3> QED BY <1>1, <1>5, <1>9, <2>1, <3>1, <3>2 DEF Answered, OwnCall
  <2>4. Remembered(t)'
    BY <1>1, <1>5, <1>9 DEF Remembered, OwnCall
  <2> QED BY <2>2, <2>3, <2>4 DEF MessageInv
<1>17. AnsweredOnceByItsRuns'
  <2> SUFFICES ASSUME NEW x \in Messages, NEW a \in Answers, NEW b \in Answers,
                      a \in ByOwnRun(x)', b \in ByOwnRun(x)', a # b
               PROVE  inbox'[a].kind = "decline" /\ inbox'[b].kind = "decline"
    BY DEF AnsweredOnceByItsRuns, ByOwnRun
  <2>1. CASE a \in ByOwnRun(x) /\ b \in ByOwnRun(x)
    BY <1>7, <2>1 DEF HandoffInv, SharedInv, AnsweredOnceByItsRuns, ByOwnRun, ByItsRun, Kept
  <2>2. CASE ~ (a \in ByOwnRun(x) /\ b \in ByOwnRun(x))
    <3>1. x = t /\ a \in ByOwnRun(t) \cup {n} /\ b \in ByOwnRun(t) \cup {n}
      BY <1>8, <1>15, <2>2
    <3>2. thread[t].op = "decline" /\ Declines(t)
      BY <1>14, <3>1
    <3>3. \A c \in ByOwnRun(t) : inbox[c].kind = "decline" /\ inbox'[c].kind = inbox[c].kind
      BY <1>7, <3>2 DEF Declines, ByOwnRun, ByItsRun, Kept
    <3> QED BY <1>4, <3>1, <3>2, <3>3
  <2> QED BY <2>1, <2>2
<1> QED BY <1>1, <1>5, <1>6, <1>7, <1>11, <1>12, <1>13, <1>16, <1>17, ThreadStep DEF counters

LEMMA StepAppendRefused ==
  ASSUME HandoffInv, NEW t \in Threads, AppendAnswer(t), LimitReached
  PROVE  HandoffInv'
<1>1. /\ thread[t].pc = "append" /\ thread[t].op # "request" /\ thread[t].pc \in Calls
      /\ inbox' = inbox /\ job' = job /\ UNCHANGED counters
  BY NotRequest DEF AppendAnswer, At
<1>2. PICK m \in Messages : m = thread[t].on /\ Started(m)
  BY <1>1, Caller
<1>3. /\ Kept /\ NewAnswers /\ (LimitReached' <=> LimitReached) /\ AnsweredOnceByItsRuns'
      /\ \A x \in Messages : ByOwnRun(x)' = ByOwnRun(x) /\ (Declines(x)' <=> Declines(x))
  BY <1>1, <1>2, MailMoves DEF Started, OthersMail
<1>4. \A x \in Messages \ {t} : Foreign(t, x)
  BY <1>1, <1>3 DEF Foreign, Moved, Creates, Creating
<1>5. t \in Messages => /\ t = m /\ OwnCall(t) /\ Placed(t) /\ StatusFits(t) /\ Answered(t)
                        /\ thread[t].op \in {"tool", "auto", "decline", "failure"}
  BY <1>1, <1>2, Caller, Known
<1>6. CASE thread[t].op = "tool"
  <2>1. Goto(t, "ack") /\ "ack" \in Points
    BY <1>6 DEF AppendAnswer, Points
  <2>2. /\ thread' \in [Threads -> ThreadRecord] /\ OthersStay(t)
        /\ thread'[t].pc = "ack" /\ thread'[t].on = m /\ thread'[t].op = "tool" /\ thread'[t].back = thread[t].back
    BY <1>2, <1>6, <2>1, Typed, Goes DEF HandoffInv
  <2>3. TypeOK'
    BY <1>1, <2>2, Typed DEF HandoffInv, counters
  <2>4. GoesOn(t) /\ Creation(t)
    <3>1. \A a \in Agents : HasTurn(t, a)' => HasTurn(t, a)
      BY <1>1, <1>2, <1>6, <2>2 DEF HasTurn, Sending
    <3>2. t = Visitor => VisitorShape'
      BY <1>1, <2>2, Caller DEF VisitorShape, Calls
    <3> QED BY <1>1, <1>2, <2>2, <3>1, <3>2 DEF GoesOn, Creation, Creates, Creating, Started
  <2>5. t \in Messages => MessageInv(t)'
    <3> SUFFICES ASSUME t \in Messages
                 PROVE  MessageInv(t)'
      OBVIOUS
    <3>1. job[t].state = "running" /\ t = m
      BY <1>5, <1>6 DEF OwnCall
    <3>2. Placed(t)' /\ StatusFits(t)' /\ SuccessSettles(t)'
      BY <1>1, <1>2, <1>5, <1>6, <2>2, <3>1
         DEF Placed, OwnCall, StatusFits, SuccessSettles, Started, Calls, Sending, Serving, InTurn
    <3>3. Answered(t)' /\ Remembered(t)'
      BY <1>1, <1>3, <1>5, <1>6, <2>2, <3>1 DEF Answered, Remembered
    <3> QED BY <3>2, <3>3 DEF MessageInv
  <2> QED BY <1>1, <1>3, <1>4, <2>2, <2>3, <2>4, <2>5, ThreadStep DEF counters
<1>7. CASE thread[t].op # "tool"
  <2>1. Return(t)
    BY <1>7 DEF AppendAnswer
  <2>2. /\ thread' \in [Threads -> ThreadRecord] /\ OthersStay(t) /\ GoesOn(t) /\ Creation(t)
        /\ thread'[t].pc = thread[t].back /\ thread'[t].op = "none" /\ thread'[t].back = "idle"
        /\ thread'[t].pc # "idle" => thread'[t].on = t
    BY <1>1, <1>3, <2>1, CallReturns
  <2>3. TypeOK'
    BY <1>1, <2>2, Typed DEF HandoffInv, counters
  <2>4. t \in Messages => MessageInv(t)'
    <3> SUFFICES ASSUME t \in Messages
                 PROVE  MessageInv(t)'
      OBVIOUS
    <3>1. ByOwnRun(t) # {} => \/ inbox'[t].status \in {"replied", "closed"}
                              \/ inbox'[t].status = "declined" /\ Declines(t)
      BY <1>1, <1>5 DEF Answered, StatusFits
    <3> QED BY <1>1, <1>3, <2>2, <3>1, MessageReturns DEF counters
  <2> QED BY <1>1, <1>3, <1>4, <2>2, <2>3, <2>4, ThreadStep DEF counters
<1> QED BY <1>6, <1>7

(* The run of a message is scheduled by the thread that created it, whether *)
(* or not another turn has dealt with the message meanwhile.                *)
LEMMA StepTrigger ==
  ASSUME HandoffInv, NEW t \in Threads, Trigger(t)
  PROVE  HandoffInv'
<1>1. /\ thread[t].pc = "trigger" /\ thread[t].pc \in Calls /\ thread[t].pc \in Creating
      /\ inbox' = inbox /\ UNCHANGED counters /\ Return(t)
  BY DEF Trigger, At, Calls, Sending, Creating
<1>2. PICK x \in Messages : /\ x = thread[t].answer /\ Creates(t, x) /\ job[x].state = "none" /\ ByOwnRun(x) = {}
                            /\ inbox[x].status \in {"delivered", "replied", "declined", "closed"}
                            /\ t = x \/ thread[x].pc = "idle"
  <2>1. thread[t].answer \in Messages
    BY <1>1 DEF HandoffInv, SharedInv, OnShape
  <2>2. Creates(t, thread[t].answer) /\ Created(thread[t].answer)
    BY <1>1, <2>1 DEF HandoffInv, SharedInv, Creates
  <2> QED BY <1>1, <2>1, <2>2 DEF Created
<1>3. /\ job' \in [Messages -> JobRecord] /\ OthersJobs(x)
      /\ job'[x] = [NoJob EXCEPT !.state = "queued"] /\ job'[x].state = "queued" /\ job'[x].attempt = 0
  <2>1. [NoJob EXCEPT !.state = "queued"] \in JobRecord
    BY Records DEF JobRecord
  <2>2. [NoJob EXCEPT !.state = "queued"].state = "queued" /\ [NoJob EXCEPT !.state = "queued"].attempt = 0
    BY Records DEF JobRecord
  <2>3. PICK j \in JobRecord : j = [NoJob EXCEPT !.state = "queued"] /\ j.state = "queued" /\ j.attempt = 0
    BY <2>1, <2>2
  <2>4. job' = [job EXCEPT ![x] = j]
    BY <1>2, <2>3 DEF Trigger
  <2> QED BY Known, <2>3, <2>4 DEF OthersJobs
<1>4. /\ Kept /\ NewAnswers /\ (LimitReached' <=> LimitReached) /\ AnsweredOnceByItsRuns'
      /\ \A m \in Messages : ByOwnRun(m)' = ByOwnRun(m) /\ (Declines(m)' <=> Declines(m))
  BY <1>1, <1>2, MailMoves DEF Started, OthersMail
<1>5. \A m \in Messages \ {t} : Foreign(t, m)
  <2> SUFFICES ASSUME NEW m \in Messages
               PROVE  Foreign(t, m)
    OBVIOUS
  <2>1. CASE m = x
    BY <1>1, <1>2, <1>3, <1>4, <2>1 DEF Foreign
  <2>2. CASE m # x
    BY <1>1, <1>2, <1>3, <1>4, <2>2 DEF Foreign, Moved, OthersJobs, Creates
  <2> QED BY <2>1, <2>2
<1>6. CASE thread[t].op = "request"
  <2>1. t \in Messages /\ t = x /\ thread[t].back = "idle"
    <3>1. t # Visitor
      BY <1>1, <1>6 DEF HandoffInv, SharedInv, VisitorShape, Calls, Sending
    <3> QED BY Known, <1>1, <1>2, <1>6, <3>1 DEF Placed, OwnCall
  <2>2. thread' = [thread EXCEPT ![t] = Idle]
    BY <1>1, <2>1 DEF Return
  <2>3. /\ thread' \in [Threads -> ThreadRecord] /\ OthersStay(t)
        /\ thread'[t].pc = "idle" /\ thread'[t].op = "none" /\ thread'[t].back = "idle"
    BY <2>2, Typed, Rests DEF HandoffInv
  <2>4. TypeOK'
    BY <1>1, <1>3, <2>3, Typed DEF HandoffInv, counters
  <2>5. GoesOn(t) /\ Creation(t)
    BY <1>1, <2>1, <2>3, HandoffAssumption DEF GoesOn, Creation, Creates, Creating, HasTurn, InTurn, Sending
  <2>6. MessageInv(t)'
    <3>1. job'[t].state = "queued" /\ job'[t].attempt < MaxAttempts /\ ByOwnRun(t)' = {}
      <4>1. job'[t].state = "queued" /\ job'[t].attempt = 0 /\ ByOwnRun(t)' = {}
        BY <1>2, <1>3, <1>4, <2>1
      <4> QED BY Known, <2>1, <4>1
    <3>2. inbox'[t].status \in {"delivered", "replied", "declined", "closed"}
      BY <1>1, <1>2, <2>1
    <3>3. Placed(t)' /\ StatusFits(t)'
      BY <2>3, <3>1, <3>2 DEF Placed, StatusFits, Started, Calls, Sending, Serving, InTurn
    <3>4. SuccessSettles(t)' /\ Answered(t)' /\ Remembered(t)'
      BY <2>3, <3>1 DEF SuccessSettles, Answered, Remembered
    <3> QED BY <3>3, <3>4 DEF MessageInv
  <2> QED BY <1>1, <1>4, <1>5, <2>3, <2>4, <2>5, <2>6, ThreadStep DEF counters
<1>7. CASE thread[t].op # "request"
  <2>1. /\ thread' \in [Threads -> ThreadRecord] /\ OthersStay(t) /\ GoesOn(t) /\ Creation(t)
        /\ thread'[t].pc = thread[t].back /\ thread'[t].op = "none" /\ thread'[t].back = "idle"
        /\ thread'[t].pc # "idle" => thread'[t].on = t
    BY <1>1, <1>4, <1>7, CallReturns
  <2>2. TypeOK'
    BY <1>1, <1>3, <2>1, Typed DEF HandoffInv, counters
  <2>3. t \in Messages => MessageInv(t)'
    <3> SUFFICES ASSUME t \in Messages
                 PROVE  MessageInv(t)'
      OBVIOUS
    <3>1. OwnCall(t) /\ t # x /\ job'[t] = job[t]
      BY <1>1, <1>2, <1>3, <1>7, Caller DEF OthersJobs
    <3>2. thread[t].back = "success" => Settled(t)' \/ LimitReached'
      BY Known, <1>1, <1>4 DEF SuccessSettles, Settled
    <3>3. ByOwnRun(t) # {} => \/ inbox'[t].status \in {"replied", "closed"}
                              \/ inbox'[t].status = "declined" /\ Declines(t)
                              \/ job[t].state = "failed"
      BY Known, <1>1 DEF Answered
    <3>4. crashes = 0 /\ ~ LimitReached' /\ job[t].state = "failed" /\ inbox'[t].status = "failed"
            => inbox'[t].result # NoMsg
      BY Known, <1>1, <1>4 DEF Remembered
    <3> QED BY <1>1, <1>4, <1>7, <2>1, <3>1, <3>2, <3>3, <3>4, MessageReturns DEF counters
  <2> QED BY <1>1, <1>4, <1>5, <2>1, <2>2, <2>3, ThreadStep DEF counters
<1> QED BY <1>6, <1>7

-----------------------------------------------------------------------------
(* The other turns and restarts.                                            *)

LEMMA StepVisit ==
  ASSUME HandoffInv, NEW m \in Messages, Visit(m)
  PROVE  HandoffInv'
<1>1. /\ thread[Visitor].pc = "idle" /\ Started(m) /\ Tool(Visitor, m, "idle") /\ job' = job /\ crashes' = crashes
      /\ \A t \in Threads : ~ HasTurn(t, inbox[m].to)
      /\ Visitor \in Threads /\ Visitor \notin Messages
  BY HandoffAssumption DEF Visit, At, Started
<1>2. /\ thread' \in [Threads -> ThreadRecord] /\ OthersStay(Visitor)
      /\ thread'[Visitor].on = m /\ thread'[Visitor].back = "idle"
      /\ inbox' \in [Messages -> MessageRecord] /\ OthersMail(m) /\ Started(m)'
      /\ inbox'[m].kind = inbox[m].kind /\ inbox'[m].to = inbox[m].to /\ inbox'[m].about = inbox[m].about
      /\ inbox'[m].result = inbox[m].result /\ inbox'[m].run = inbox[m].run
      /\ \/ inbox'[m].status = inbox[m].status
         \/ Can(m, "declined") /\ inbox'[m].status = "declined"
      /\ thread'[Visitor].op \in {"tool", "decline"} /\ thread'[Visitor].pc \in {"append", "ack"}
  <2>1. "idle" \in Points
    BY DEF Points
  <2>2. inbox \in [Messages -> MessageRecord] /\ thread \in [Threads -> ThreadRecord]
    BY Known
  <2> QED BY <1>1, <2>1, <2>2, ToolCalls
<1>3. /\ Kept /\ NewAnswers /\ AnsweredOnceByItsRuns'
      /\ \A x \in Messages : ByOwnRun(x)' = ByOwnRun(x)
  BY <1>1, <1>2, MailMoves DEF Started
<1>4. TypeOK'
  <2>1. visits' \in 0..MaxVisits
    BY Known, HandoffAssumption DEF Visit
  <2> QED BY Known, <1>1, <1>2, <2>1, Typed
<1>5. \A x \in Messages \ {Visitor} : Foreign(Visitor, x)
  <2> SUFFICES ASSUME NEW x \in Messages
               PROVE  Foreign(Visitor, x)
    OBVIOUS
  <2>1. ~ Creates(Visitor, x)
    BY <1>1 DEF Creates, Creating
  <2>2. Moved(Visitor, x)
    BY <1>1, <1>2 DEF Moved, OthersMail
  <2>3. inbox'[x].result = inbox[x].result
    BY <1>2 DEF OthersMail
  <2> QED BY <1>1, <1>3, <2>1, <2>2, <2>3 DEF Foreign
<1>6. GoesOn(Visitor)
  <2>1. \A a \in Agents : HasTurn(Visitor, a)' => \A x \in Messages : ~ HasTurn(x, a)
    BY <1>1, <1>2 DEF HasTurn
  <2>2. VisitorShape'
    BY <1>2 DEF VisitorShape, Calls, Sending
  <2> QED BY <1>1, <1>2, <2>1, <2>2 DEF GoesOn
<1>7. Creation(Visitor)
  BY <1>2 DEF Creation, Creates, Creating
<1> QED BY <1>1, <1>2, <1>3, <1>4, <1>5, <1>6, <1>7, ThreadStep

(* A restart lets every thread go.  A run that was to send or settle an     *)
(* answer had its effects marked: it is not tried again.                    *)
LEMMA StepRestart ==
  ASSUME HandoffInv, Restart
  PROVE  HandoffInv'
<1> USE HandoffAssumption
<1>1. \A m \in Messages :
        /\ job'[m] \in JobRecord /\ job'[m].state \in {"none", "queued", "failed"}
        /\ job'[m].state # "none" => job[m].state # "none"
        /\ job'[m].state = "queued" => job'[m].attempt < MaxAttempts
        /\ job'[m].state = "failed" => job[m].state \in {"running", "failed"}
        /\ job[m].state = "failed" => job'[m].state = "failed"
        /\ job[m].state = "running" /\ job[m].effects => job'[m].state = "failed"
        /\ job[m].state = "running" => job'[m].state \in {"queued", "failed"}
        /\ job[m].state = "none" => job'[m].state = "none"
        /\ job[m].state = "queued" => job'[m].state = "queued"
  <2> SUFFICES ASSUME NEW m \in Messages
               PROVE  /\ job'[m] \in JobRecord /\ job'[m].state \in {"none", "queued", "failed"}
                      /\ job'[m].state # "none" => job[m].state # "none"
                      /\ job'[m].state = "queued" => job'[m].attempt < MaxAttempts
                      /\ job'[m].state = "failed" => job[m].state \in {"running", "failed"}
                      /\ job[m].state = "failed" => job'[m].state = "failed"
                      /\ job[m].state = "running" /\ job[m].effects => job'[m].state = "failed"
                      /\ job[m].state = "running" => job'[m].state \in {"queued", "failed"}
                      /\ job[m].state = "none" => job'[m].state = "none"
                      /\ job[m].state = "queued" => job'[m].state = "queued"
    OBVIOUS
  <2>0. job'[m] = Recovered(job[m]) /\ job[m] \in JobRecord
    BY Known DEF Restart
  <2>1. CASE job[m].state = "running"
    <3>1. job[m].attempt \in 0..MaxAttempts /\ job[m].attempt < MaxAttempts
      BY Known, <2>1 DEF Placed, JobRecord
    <3>2. job[m].attempt + 1 \in 0..MaxAttempts
      BY <3>1
    <3>3. PICK state \in {"queued", "failed"} :
            /\ state = IF job[m].effects \/ job[m].attempt + 1 >= MaxAttempts THEN "failed" ELSE "queued"
            /\ state = "queued" => ~ job[m].effects /\ job[m].attempt + 1 < MaxAttempts
      BY <3>1
    <3>4. job'[m] = [[job[m] EXCEPT !.attempt = job[m].attempt + 1] EXCEPT !.state = state]
      BY <2>0, <2>1, <3>3 DEF Recovered, JobRecord
    <3>5. /\ [[job[m] EXCEPT !.attempt = job[m].attempt + 1] EXCEPT !.state = state] \in JobRecord
          /\ job'[m].state = state /\ job'[m].attempt = job[m].attempt + 1
      BY <2>0, <3>2, <3>4 DEF JobRecord
    <3> QED BY <2>1, <3>3, <3>4, <3>5
  <2>2. CASE job[m].state = "cancelled"
    BY <2>0, <2>2, Records DEF Recovered
  <2>3. CASE job[m].state \in {"none", "queued", "failed"}
    BY Known, <2>0, <2>3 DEF Recovered, Placed
  <2> QED BY <2>0, <2>1, <2>2, <2>3 DEF JobRecord
<1>2. job' \in [Messages -> JobRecord]
  BY <1>1 DEF Restart
<1>3. \A m \in Messages :
        /\ inbox'[m] \in MessageRecord
        /\ inbox'[m].kind = inbox[m].kind /\ inbox'[m].to = inbox[m].to /\ inbox'[m].about = inbox[m].about
        /\ inbox'[m].run = inbox[m].run
        /\ inbox'[m].status = IF job'[m].state = "queued" /\ inbox[m].status \in {"claimed", "working", "failed"}
                              THEN "delivered" ELSE inbox[m].status
  <2> SUFFICES ASSUME NEW m \in Messages
               PROVE  /\ inbox'[m] \in MessageRecord
                      /\ inbox'[m].kind = inbox[m].kind /\ inbox'[m].to = inbox[m].to
                      /\ inbox'[m].about = inbox[m].about /\ inbox'[m].run = inbox[m].run
                      /\ inbox'[m].status = IF job'[m].state = "queued" /\ inbox[m].status \in {"claimed", "working", "failed"}
                                            THEN "delivered" ELSE inbox[m].status
    OBVIOUS
  <2>1. inbox'[m] = IF job'[m].state = "queued" /\ inbox[m].status \in {"claimed", "working", "failed"}
                    THEN [inbox[m] EXCEPT !.status = "delivered"] ELSE inbox[m]
    BY DEF Restart
  <2>2. inbox[m] \in MessageRecord /\ "delivered" \in Statuses
    BY Known DEF Statuses, Open
  <2> QED BY <2>1, <2>2 DEF MessageRecord
<1>4. inbox' \in [Messages -> MessageRecord]
  BY <1>3 DEF Restart
<1>5. \A t \in Threads :
        /\ thread'[t] \in ThreadRecord /\ thread'[t].pc \in {"idle", "notify"} /\ thread'[t].op = "none"
        /\ thread'[t].back = "idle"
        /\ thread'[t].pc = "notify" =>
             t \in Messages /\ thread'[t].on = t /\ job[t].state = "running" /\ job'[t].state = "failed"
        /\ thread'[t].pc = "idle" => ~ (t \in Messages /\ job[t].state = "running" /\ job'[t].state = "failed")
  <2> SUFFICES ASSUME NEW t \in Threads
               PROVE  /\ thread'[t] \in ThreadRecord /\ thread'[t].pc \in {"idle", "notify"} /\ thread'[t].op = "none"
                      /\ thread'[t].back = "idle"
                      /\ thread'[t].pc = "notify" =>
                           t \in Messages /\ thread'[t].on = t /\ job[t].state = "running" /\ job'[t].state = "failed"
                      /\ thread'[t].pc = "idle" => ~ (t \in Messages /\ job[t].state = "running" /\ job'[t].state = "failed")
    OBVIOUS
  <2>1. CASE t \in Messages /\ job[t].state = "running" /\ job'[t].state = "failed"
    <3>1. thread'[t] = [[Idle EXCEPT !.pc = "notify"] EXCEPT !.on = t]
      BY <2>1 DEF Restart, Idle
    <3>2. "notify" \in Points
      BY DEF Points
    <3> QED BY Records, <2>1, <3>1, <3>2 DEF ThreadRecord
  <2>2. CASE ~ (t \in Messages /\ job[t].state = "running" /\ job'[t].state = "failed")
    <3>1. thread'[t] = Idle
      BY <2>2 DEF Restart
    <3> QED BY Records, <2>2, <3>1
  <2> QED BY <2>1, <2>2
<1>6. thread' \in [Threads -> ThreadRecord]
  BY <1>5 DEF Restart
<1>7. crashes' \in 0..MaxCrashes /\ crashes' # 0 /\ visits' = visits
  <2>1. crashes \in 0..MaxCrashes /\ MaxCrashes \in Nat
    BY Typed DEF HandoffInv
  <2>2. crashes < MaxCrashes /\ crashes' = crashes + 1 /\ visits' = visits
    BY DEF Restart
  <2> QED BY <2>1, <2>2
<1>8. TypeOK'
  BY <1>2, <1>4, <1>6, <1>7, Typed DEF HandoffInv
<1>9. Kept /\ \A m \in Messages : inbox'[m].status = "absent" <=> inbox[m].status = "absent"
  BY <1>3 DEF Kept, Started
<1>10. \A m \in Messages : ByOwnRun(m)' = ByOwnRun(m) /\ (Declines(m)' <=> Declines(m))
  <2>1. \A m \in Messages : ByOwnRun(m)' = ByOwnRun(m)
    BY <1>3, <1>9 DEF ByOwnRun, ByItsRun
  <2> QED BY <1>9, <2>1, KeptDeclines
<1>11. \A m \in Messages : MessageInv(m)'
  <2> SUFFICES ASSUME NEW m \in Messages
               PROVE  MessageInv(m)'
    OBVIOUS
  <2>0. m \in Threads /\ (thread'[m].pc = "idle" \/ thread'[m].pc = "notify")
    BY <1>5
  <2>1. Placed(m)'
    BY Known, <1>1, <1>3, <1>5, <2>0 DEF Placed, Started, Calls, Sending, Serving, InTurn
  <2>2. StatusFits(m)'
    BY Known, <1>1, <1>3, <1>5, <2>0 DEF StatusFits
  <2>3. SuccessSettles(m)' /\ Remembered(m)'
    BY <1>5, <1>7, <2>0 DEF SuccessSettles, Remembered
  <2>4. Answered(m)'
    <3> SUFFICES ASSUME ByOwnRun(m) # {}
                 PROVE  \/ inbox'[m].status \in {"replied", "closed"}
                        \/ inbox'[m].status = "declined" /\ Declines(m)
                        \/ /\ job'[m].state = "failed"
                           /\ \/ thread'[m].pc = "idle"
                              \/ thread'[m].pc = "notify" /\ inbox'[m].status # "failed"
      BY <1>10, <2>0 DEF Answered
    <3>1. CASE inbox[m].status \in {"replied", "declined", "closed"}
      <4>1. inbox'[m].status = inbox[m].status
        BY <1>3, <3>1
      <4>2. job[m].state = "failed" => thread'[m].pc = "idle" /\ job'[m].state = "failed"
        BY <1>1, <1>5, <2>0
      <4>3. thread[m].op \in {"tool", "auto"} /\ thread[m].pc \in {"deliver", "settle"} => inbox[m].status # "declined"
        BY Known DEF StatusFits
      <4> QED BY Known, <3>1, <4>1, <4>2, <4>3 DEF Answered
    <3>2. CASE thread[m].op \in {"tool", "auto"} /\ thread[m].pc \in {"deliver", "settle"}
      <4>1. job[m].state = "running" /\ job[m].effects
        BY Known, <3>2 DEF Placed, OwnCall, Calls, Sending
      <4>2. inbox[m].status # "failed"
        BY Known, <3>2 DEF StatusFits
      <4> QED BY <1>1, <1>3, <2>0, <4>1, <4>2
    <3>3. CASE job[m].state = "failed"
      BY <1>1, <1>5, <2>0, <3>3
    <3> QED BY Known, <3>1, <3>2, <3>3 DEF Answered
  <2> QED BY <2>1, <2>2, <2>3, <2>4 DEF MessageInv
<1>12. OnShape'
  <2>1. \A t \in Threads : thread'[t].pc # "idle" => thread'[t].on \in Messages /\ Started(thread[t].on)'
    BY Known, <1>5, <1>9 DEF Placed, Kept
  <2>2. \A t \in Threads : thread'[t].pc \notin Creating \cup {"original"}
    BY <1>5 DEF Creating
  <2>3. \A n \in Answers : inbox'[n].status # "absent" => inbox'[n].about \in Messages /\ Started(inbox[n].about)'
    <3> SUFFICES ASSUME NEW n \in Answers, inbox'[n].status # "absent"
                 PROVE  inbox'[n].about \in Messages /\ Started(inbox[n].about)'
      OBVIOUS
    <3>1. inbox'[n].about = inbox[n].about /\ inbox[n].about \in Messages /\ Started(inbox[n].about)
      BY <1>3, <1>9 DEF HandoffInv, SharedInv, OnShape
    <3> QED BY <1>9, <3>1 DEF Kept, Started
  <2>4. \A m \in Messages : inbox'[m].about # NoMsg => m \in Answers /\ inbox'[m].status # "absent"
    BY <1>3, <1>9 DEF HandoffInv, SharedInv, OnShape
  <2> QED BY <2>1, <2>2, <2>3, <2>4 DEF OnShape
<1>13. (\A m \in Messages : Created(m)') /\ OneTurn' /\ VisitorShape'
  <2>1. \A t \in Threads : thread'[t].pc \in {"idle", "notify"} /\ thread'[Visitor].pc = "idle"
    BY <1>5
  <2> QED BY <2>1 DEF Created, Creates, Creating, OneTurn, HasTurn, InTurn, Sending, VisitorShape
<1>14. AnsweredOnceByItsRuns'
  BY <1>9, <1>10, KeptOnce DEF HandoffInv, SharedInv
<1> QED BY <1>8, <1>11, <1>12, <1>13, <1>14 DEF HandoffInv, SharedInv

-----------------------------------------------------------------------------
(* The theorems.                                                            *)

LEMMA HandoffInit ==
  ASSUME Init
  PROVE  HandoffInv
<1>1. TypeOK
  <2>1. inbox \in [Messages -> MessageRecord] /\ job \in [Messages -> JobRecord] /\ thread \in [Threads -> ThreadRecord]
    BY Records DEF Init
  <2>2. crashes \in 0..MaxCrashes /\ visits \in 0..MaxVisits
    BY HandoffAssumption DEF Init
  <2> QED BY <2>1, <2>2, Typed
<1>2. /\ \A m \in Messages : inbox[m].status = "absent" /\ inbox[m].about = NoMsg /\ job[m].state = "none"
      /\ \A t \in Threads : thread[t].pc = "idle" /\ thread[t].op = "none" /\ thread[t].back = "idle"
  BY Records DEF Init
<1>3. \A m \in Messages : ByOwnRun(m) = {}
  BY <1>2 DEF ByOwnRun, ByItsRun
<1>4. ASSUME NEW m \in Messages
      PROVE  MessageInv(m)
  BY <1>2, <1>3, <1>4 DEF MessageInv, Placed, StatusFits, SuccessSettles, Answered, Remembered,
                          Calls, Sending, Serving, InTurn
<1>5. OnShape /\ (\A m \in Messages : Created(m)) /\ OneTurn /\ VisitorShape
  BY <1>2 DEF OnShape, Created, Creates, Creating, OneTurn, HasTurn, InTurn, Sending, VisitorShape
<1>6. AnsweredOnceByItsRuns
  BY <1>2 DEF AnsweredOnceByItsRuns, ByItsRun
<1> QED BY <1>1, <1>4, <1>5, <1>6 DEF HandoffInv, SharedInv

LEMMA HandoffStep ==
  ASSUME HandoffInv, [Next]_vars
  PROVE  HandoffInv'
<1>1. CASE UNCHANGED vars
  <2>1. inbox' = inbox /\ job' = job /\ thread' = thread /\ crashes' = crashes /\ visits' = visits
    BY <1>1 DEF vars
  <2>2. /\ \A m \in Messages : MessageInv(m)' <=> MessageInv(m)
        /\ \A m \in Messages : Created(m)' <=> Created(m)
        /\ OnShape' <=> OnShape
        /\ OneTurn' <=> OneTurn
        /\ VisitorShape' <=> VisitorShape
        /\ AnsweredOnceByItsRuns' <=> AnsweredOnceByItsRuns
    BY <2>1
       DEF MessageInv, Placed, OwnCall, StatusFits, SuccessSettles, Settled, LimitReached, Free, Answered,
           ByOwnRun, Declines, ByItsRun, Remembered, HasCreator, Creates, Created, OnShape, Started,
           OneTurn, HasTurn, VisitorShape, AnsweredOnceByItsRuns
  <2>3. TypeOK'
    BY <2>1, Typed DEF HandoffInv
  <2> QED BY <2>2, <2>3 DEF HandoffInv, SharedInv
<1>2. ASSUME NEW m \in Messages, SendRequest(m) \/ Visit(m) \/ Step(m)
      PROVE  HandoffInv'
  BY <1>2, StepSendRequest, StepVisit, StepClaimJob, StepStart, StepClaimHandoff, StepEndTurn, StepUseTool,
     StepCommit, StepCompleteUnhandled, StepSucceed, StepFail, StepRetryHandoff, StepNotifyFailedHandoff
     DEF Step
<1>3. ASSUME NEW t \in Threads, SendStep(t)
      PROVE  HandoffInv'
  BY <1>3, StepAppend, StepAppendRefused, StepDeliver, StepSettle, StepSetResult, StepTrigger,
     StepAck, StepCloseOriginal DEF SendStep
<1>4. CASE Restart
  BY <1>4, StepRestart
<1> QED BY <1>1, <1>2, <1>3, <1>4 DEF Next

THEOREM HandoffsKeepTheirInvariant == Spec => []HandoffInv
<1>1. Init => HandoffInv
  BY HandoffInit
<1>2. HandoffInv /\ [Next]_vars => HandoffInv'
  BY HandoffStep
<1> QED BY <1>1, <1>2, PTL DEF Spec

(* The scheduled runs of a message send one answer to it, however often it  *)
(* is retried or the program restarted: a tool marks the run's effects      *)
(* before it calls, and a run with effects is not tried again.              *)
THEOREM HandoffsAreAnsweredOnce == Spec => []AnsweredOnceByItsRuns
<1>1. HandoffInv => AnsweredOnceByItsRuns
  BY DEF HandoffInv, SharedInv
<1> QED BY <1>1, HandoffsKeepTheirInvariant, PTL

LEMMA NobodyForgetsOne ==
  ASSUME HandoffInv
  PROVE  NobodyForgets
<1> SUFFICES ASSUME NEW m \in Messages, inbox[m].status # "absent", ~ LimitReached, ~ (crashes > 0)
             PROVE  Settled(m) \/ AtWorkOn(m) \/ Overlooked(m)
  BY DEF NobodyForgets
<1>1. Placed(m) /\ Remembered(m) /\ crashes = 0 /\ inbox[m].status \in Statuses /\ m \in Threads
      /\ job[m].state \in {"none", "queued", "running", "failed", "cancelled"}
  BY Known DEF MessageRecord, JobRecord
<1>2. CASE job[m].state \in {"queued", "running"}
  BY <1>2 DEF AtWorkOn
<1>3. CASE job[m].state = "cancelled"
  BY <1>3 DEF Overlooked
<1>4. CASE job[m].state = "none"
  <2>1. CASE HasCreator(m)
    <3>1. PICK t \in Threads : thread[t].pc # "idle" /\ thread[t].answer = m
      BY <2>1 DEF HasCreator, Creates, Creating
    <3> QED BY <3>1 DEF AtWorkOn
  <2> QED BY <1>1, <1>4, <2>1 DEF Remembered
<1>5. CASE job[m].state = "failed"
  <2>1. CASE inbox[m].status = "failed" /\ inbox[m].result = NoMsg
    <3>1. thread[m].pc # "idle" /\ thread[m].on = m
      BY <1>1, <1>5, <2>1 DEF Remembered, Placed
    <3> QED BY <1>1, <3>1 DEF AtWorkOn
  <2>2. CASE ~ (inbox[m].status = "failed" /\ inbox[m].result = NoMsg)
    BY <1>1, <1>5, <2>2 DEF Statuses, Overlooked, IsOpen, Settled
  <2> QED BY <2>1, <2>2
<1> QED BY <1>1, <1>2, <1>3, <1>4, <1>5

(* What is left for good is what Overlooked names: a run that failed or was *)
(* cancelled without its message being settled.                             *)
THEOREM NobodyForgetsAMessage == Spec => []NobodyForgets
<1>1. HandoffInv => NobodyForgets
  BY NobodyForgetsOne
<1> QED BY <1>1, HandoffsKeepTheirInvariant, PTL

(* Only Succeed takes the run of a message that is running away, from a     *)
(* thread that found the message settled.                                   *)
LEMMA OnlySucceedEnds ==
  ASSUME HandoffInv, [Next]_vars, NEW m \in Messages, job[m].state = "running", job'[m].state = "none"
  PROVE  thread[m].pc = "success"
<1>1. job'[m] # job[m] /\ job \in [Messages -> JobRecord]
  BY Known
<1>2. CASE UNCHANGED vars
  BY <1>1, <1>2 DEF vars
<1>3. ASSUME NEW x \in Messages, SendRequest(x) \/ Visit(x) \/ Step(x)
      PROVE  thread[m].pc = "success"
  <2>1. CASE job' = job
    BY <1>1, <2>1
  <2>2. CASE Succeed(x)
    BY <1>1, <2>2 DEF Succeed, At
  <2>3. CASE ClaimJob(x) \/ UseTool(x) \/ Commit(x) \/ Cancel(x)
    BY <1>1, <2>3 DEF ClaimJob, UseTool, Commit, Cancel, JobRecord
  <2>4. CASE Fail(x)
    BY <1>1, <2>4 DEF Fail, JobRecord
  <2> QED BY <1>3, <2>1, <2>2, <2>3, <2>4
          DEF SendRequest, Visit, Step, Start, StartTimesOut, Check, ClaimHandoff, EndTurn, CancelTurn,
              CompleteUnhandled, RetryHandoff, NotifyFailedHandoff
<1>4. ASSUME NEW t \in Threads, SendStep(t)
      PROVE  thread[m].pc = "success"
  <2>1. CASE job' = job
    BY <1>1, <2>1
  <2>2. CASE Trigger(t)
    <3>1. thread[t].answer \in Messages => job[thread[t].answer].state = "none"
      BY <2>2 DEF HandoffInv, SharedInv, Created, Creates, Creating, Trigger, At
    <3> QED BY <1>1, <2>2, <3>1 DEF Trigger
  <2> QED BY <1>4, <2>1, <2>2
          DEF SendStep, AppendAnswer, Deliver, Settle, SetResult, Ack, CloseOriginal
<1>5. CASE Restart
  BY <1>1, <1>5 DEF Restart, Recovered, JobRecord
<1> QED BY <1>2, <1>3, <1>4, <1>5 DEF Next

(* A run reported as a success leaves its message settled, or the           *)
(* conversation is at its limit.                                            *)
THEOREM SuccessMeansSettled == Spec => SucceededMeansSettled
<1>1. HandoffInv /\ [Next]_vars =>
        [\A m \in Messages : job[m].state = "running" /\ job'[m].state = "none" => Settled(m) \/ LimitReached]_vars
  BY Known, OnlySucceedEnds DEF SuccessSettles
<1> QED BY <1>1, HandoffsKeepTheirInvariant, PTL DEF Spec, SucceededMeansSettled

=============================================================================
