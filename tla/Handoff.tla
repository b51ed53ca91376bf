------------------------------- MODULE Handoff -------------------------------
(***************************************************************************)
(* The life of a handoff between two agents of a project: requests, the    *)
(* answers to them (replies, declines, failure notices), the scheduled     *)
(* runs that serve both, other turns of the agents that handle them on the *)
(* side, retries and restarts (cmd/karoz/handoffs.go, agent_handoffs.go,   *)
(* tool_collaboration.go, scheduler_jobs.go; internal/collaboration).      *)
(*                                                                         *)
(* Every change of the inbox and of the queue is saved as it is made; what *)
(* module Scheduler shows of the queue is taken for granted here.          *)
(***************************************************************************)
EXTENDS Naturals, FiniteSets

CONSTANTS Requests, Answers,   \* message IDs
          MaxAttempts,         \* ScheduledRun.MaxAttempts
          MaxCrashes,          \* bound on restarts
          MaxVisits,           \* bound on the other turns' tool calls
          NoMsg, Visitor       \* a turn that is not the message's own run

ASSUME HandoffAssumption ==
  /\ MaxAttempts \in Nat \ {0} /\ {MaxCrashes, MaxVisits} \subseteq Nat
  /\ Requests \cap Answers = {} /\ {NoMsg, Visitor} \cap (Requests \cup Answers) = {}

Messages == Requests \cup Answers
Threads == Messages \cup {Visitor}   \* the worker of a message's run, another turn

VARIABLES inbox,    \* [Messages -> the message]
          job,      \* [Messages -> its scheduled run]
          thread,   \* [Threads -> where it is, the message it works on, the one it sends]
          crashes, visits

vars == <<inbox, job, thread, crashes, visits>>
counters == <<crashes, visits>>

Open == {"queued", "delivered", "claimed", "working"}
Statuses == Open \cup {"absent", "replied", "declined", "failed", "closed"}
Kinds == {"handoff", "reply", "decline", "failure"}
Agents == {"source", "target"}   \* of a request

InTurn == {"check", "claim", "work", "turn", "mark", "complete"}
Sending == {"append", "deliver", "settle", "result", "trigger"}
Points == {"idle", "start", "success", "failure", "cancelled", "retry", "notify", "ack", "original"}
          \cup InTurn \cup Sending

Absent == [status |-> "absent", kind |-> "handoff", to |-> "target", about |-> NoMsg,
           result |-> NoMsg, run |-> FALSE]
NoJob == [state |-> "none", attempt |-> 0, effects |-> FALSE]
Idle == [pc |-> "idle", on |-> NoMsg, op |-> "none", answer |-> NoMsg, back |-> "idle"]

(* run is history: the message was sent by the scheduled run it answers for. *)
TypeOK ==
  /\ inbox \in [Messages -> [status : Statuses, kind : Kinds, to : Agents,
                             about : Messages \cup {NoMsg}, result : Answers \cup {NoMsg}, run : BOOLEAN]]
  /\ job \in [Messages -> [state : {"none", "queued", "running", "failed", "cancelled"},
                           attempt : 0..MaxAttempts, effects : BOOLEAN]]
  /\ thread \in [Threads -> [pc : Points, on : Messages \cup {NoMsg},
                             op : {"none", "request", "tool", "auto", "decline", "failure"},
                             answer : Messages \cup {NoMsg}, back : Points]]
  /\ crashes \in 0..MaxCrashes /\ visits \in 0..MaxVisits

Init ==
  /\ inbox = [m \in Messages |-> Absent]
  /\ job = [m \in Messages |-> NoJob]
  /\ thread = [t \in Threads |-> Idle]
  /\ crashes = 0 /\ visits = 0

-----------------------------------------------------------------------------
(* The inbox *)

ValidHandoffTransition(from, to) ==
  \/ from = to
  \/ from = "queued" /\ to \in {"delivered", "failed", "closed"}
  \/ from = "delivered" /\ to \in {"claimed", "working", "replied", "declined", "failed", "closed"}
  \/ from = "claimed" /\ to \in {"delivered", "working", "replied", "declined", "failed", "closed"}
  \/ from = "working" /\ to \in {"delivered", "replied", "declined", "failed", "closed"}
  \/ from \in {"replied", "declined"} /\ to = "closed"
  \/ from = "failed" /\ to \in {"delivered", "closed"}

Can(m, to) == inbox[m].status # "absent" /\ ValidHandoffTransition(inbox[m].status, to)

(* transitionHandoff: what is not allowed changes nothing. *)
Transition(m, to) == inbox' = IF Can(m, to) THEN [inbox EXCEPT ![m].status = to] ELSE inbox

IsOpen(m) == inbox[m].status \in Open
Settled(m) == \/ inbox[m].status \in {"replied", "declined", "closed"}
              \/ inbox[m].status = "failed" /\ inbox[m].result # NoMsg

Free == {n \in Answers : inbox[n].status = "absent"}
LimitReached == Free = {}      \* maxCollaborationMessagesPerCorrelation
Other(a) == IF a = "source" THEN "target" ELSE "source"

-----------------------------------------------------------------------------
(* Threads *)

At(t, pc) == thread[t].pc = pc
Goto(t, pc) == thread' = [thread EXCEPT ![t].pc = pc]
Return(t) == thread' = [thread EXCEPT ![t] = IF @.back = "idle" THEN Idle
                                             ELSE [Idle EXCEPT !.pc = thread[t].back, !.on = t]]
Call(t, pc, m, op, back) ==
  thread' = [thread EXCEPT ![t] = [pc |-> pc, on |-> m, op |-> op, answer |-> NoMsg, back |-> back]]

(* An agent has one turn at a time, and one worker for its scheduled runs.  *)
HasTurn(t, a) ==
  /\ thread[t].on # NoMsg /\ inbox[thread[t].on].to = a
  /\ thread[t].op \notin {"request", "failure"}
  /\ thread[t].pc \in InTurn \cup Sending \cup {"ack", "original"}
WorkerFree(a) ==
  \A m \in Messages : inbox[m].to = a /\ inbox[m].status # "absent" =>
                        At(m, "idle") \/ thread[m].op = "request"

-----------------------------------------------------------------------------
(* Sending a message: queueInboxMessage, what its callers do afterwards,    *)
(* triggerAgentHandoffResponse                                              *)

SendRequest(m) ==
  /\ m \in Requests /\ inbox[m].status = "absent"
  /\ inbox' = [inbox EXCEPT ![m].status = "queued"]
  /\ thread' = [thread EXCEPT ![m] = [pc |-> "deliver", on |-> m, op |-> "request", answer |-> m,
                                      back |-> "idle"]]
  /\ UNCHANGED <<job, counters>>

(* At the limit the tool acknowledges what it was to answer; the others     *)
(* give up.  Which free name an answer gets is of no account.               *)
AppendAnswer(t) ==
  LET m == thread[t].on
      n == CHOOSE a \in Free : TRUE
  IN
  /\ At(t, "append")
  /\ IF LimitReached
     THEN /\ IF thread[t].op = "tool" THEN Goto(t, "ack") ELSE Return(t)
          /\ UNCHANGED inbox
     ELSE /\ inbox' = [inbox EXCEPT ![n] =
                         [status |-> "queued", about |-> m, to |-> Other(inbox[m].to), result |-> NoMsg,
                          kind |-> IF thread[t].op \in {"tool", "auto"} THEN "reply" ELSE thread[t].op,
                          run |-> t = m]]
          /\ thread' = [thread EXCEPT ![t].pc = "deliver", ![t].answer = n]
  /\ UNCHANGED <<job, counters>>

Deliver(t) ==
  /\ At(t, "deliver")
  /\ Transition(thread[t].answer, "delivered")
  /\ IF Can(thread[t].answer, "delivered")
     THEN Goto(t, CASE thread[t].op = "request" -> "trigger"
                    [] thread[t].op \in {"tool", "auto"} -> "settle"
                    [] OTHER -> "result")
     ELSE Return(t)
  /\ UNCHANGED <<job, counters>>

(* markInboxReplied: the transition, then the result's ID. *)
Settle(t) ==
  /\ At(t, "settle")
  /\ Transition(thread[t].on, "replied")
  /\ Goto(t, IF Can(thread[t].on, "replied") THEN "result" ELSE "trigger")
  /\ UNCHANGED <<job, counters>>

SetResult(t) ==
  /\ At(t, "result")
  /\ inbox' = [inbox EXCEPT ![thread[t].on].result = thread[t].answer]
  /\ Goto(t, "trigger")
  /\ UNCHANGED <<job, counters>>

Trigger(t) ==
  /\ At(t, "trigger")
  /\ job' = [job EXCEPT ![thread[t].answer] = [NoJob EXCEPT !.state = "queued"]]
  /\ Return(t)
  /\ UNCHANGED <<inbox, counters>>

(* markInboxAcked; the acknowledgement of an answer closes what it answers. *)
Ack(t) ==
  /\ At(t, "ack")
  /\ Transition(thread[t].on, "closed")
  /\ IF Can(thread[t].on, "closed") /\ inbox[thread[t].on].about # NoMsg THEN Goto(t, "original") ELSE Return(t)
  /\ UNCHANGED <<job, counters>>

CloseOriginal(t) ==
  /\ At(t, "original")
  /\ Transition(inbox[thread[t].on].about, "closed")
  /\ Return(t)
  /\ UNCHANGED <<job, counters>>

-----------------------------------------------------------------------------
(* The tools reply_to, decline_handoff and ack_inbox, called in a turn      *)

ReplyTo(t, m, back) ==
  /\ IsOpen(m)
  /\ Call(t, IF inbox[m].kind = "handoff" THEN "append" ELSE "ack", m, "tool", back)
  /\ UNCHANGED inbox

Decline(t, m, back) ==
  /\ Can(m, "declined")
  /\ Transition(m, "declined")
  /\ Call(t, "append", m, "decline", back)

AckInbox(t, m, back) ==
  /\ Call(t, "ack", m, "tool", back)
  /\ UNCHANGED inbox

Tool(t, m, back) == ReplyTo(t, m, back) \/ Decline(t, m, back) \/ AckInbox(t, m, back)

(* A tool with effects first marks the scheduled run it is called in; in    *)
(* the mutant it does not.                                                  *)
UseToolUnmarked(m) ==
  /\ At(m, "turn")
  /\ Tool(m, m, "turn")
  /\ UNCHANGED <<job, counters>>

UseTool(m) ==
  /\ At(m, "turn")
  /\ Tool(m, m, "turn")
  /\ job' = [job EXCEPT ![m].effects = TRUE]
  /\ UNCHANGED counters

(* Another turn of the agent finds the message in its inbox; that it should *)
(* act on it in the moment before it is delivered is left out.              *)
Visit(m) ==
  /\ At(Visitor, "idle") /\ inbox[m].status \notin {"absent", "queued"}
  /\ \A t \in Threads : ~ HasTurn(t, inbox[m].to)
  /\ Tool(Visitor, m, "idle")
  /\ visits < MaxVisits /\ visits' = visits + 1
  /\ UNCHANGED <<job, crashes>>

-----------------------------------------------------------------------------
(* The scheduled run: executeHandoffScheduledRun within the worker's loop   *)

ClaimJob(m) ==
  /\ job[m].state = "queued" /\ WorkerFree(inbox[m].to)
  /\ job' = [job EXCEPT ![m].state = "running"]
  /\ thread' = [thread EXCEPT ![m] = [Idle EXCEPT !.pc = "start", !.on = m]]
  /\ UNCHANGED <<inbox, counters>>

Start(m) ==
  /\ At(m, "start") /\ ~ HasTurn(Visitor, inbox[m].to)
  /\ Goto(m, "check")
  /\ UNCHANGED <<inbox, job, counters>>

(* The agent is busy for too long. *)
StartTimesOut(m) ==
  /\ At(m, "start") /\ HasTurn(Visitor, inbox[m].to)
  /\ Goto(m, "failure")
  /\ UNCHANGED <<inbox, job, counters>>

Check(m) ==
  /\ At(m, "check")
  /\ Goto(m, IF IsOpen(m) THEN "claim" ELSE "success")
  /\ UNCHANGED <<inbox, job, counters>>

(* claimHandoff: two transitions; a run that cannot make them has no work.  *)
ClaimHandoff(m) ==
  /\ \/ At(m, "claim") /\ Transition(m, "claimed") /\ Goto(m, IF Can(m, "claimed") THEN "work" ELSE "success")
     \/ At(m, "work") /\ Transition(m, "working") /\ Goto(m, IF Can(m, "working") THEN "turn" ELSE "success")
  /\ UNCHANGED <<job, counters>>

EndTurn(m) ==
  /\ At(m, "turn")
  /\ \/ Goto(m, "mark") /\ UNCHANGED inbox
     \/ Transition(m, "failed") /\ Goto(m, "failure")
  /\ UNCHANGED <<job, counters>>

CancelTurn(m) ==
  /\ At(m, "turn")
  /\ Transition(m, "failed") /\ Goto(m, "cancelled")
  /\ UNCHANGED <<job, counters>>

(* The marker is saved and the result committed, or one of them fails. *)
Commit(m) ==
  /\ At(m, "mark")
  /\ job' = [job EXCEPT ![m].effects = TRUE]
  /\ \E next \in {"complete", "failure", "cancelled"} : Goto(m, next)
  /\ UNCHANGED <<inbox, counters>>

(* completeUnhandledInboxAfterAutoResponse *)
CompleteUnhandled(m) ==
  /\ At(m, "complete")
  /\ CASE ~ IsOpen(m) -> Goto(m, "success")
       [] IsOpen(m) /\ inbox[m].kind = "handoff" -> Call(m, "append", m, "auto", "success")
       [] OTHER -> Call(m, "ack", m, "auto", "success")
  /\ UNCHANGED <<inbox, job, counters>>

(* SchedulerQueue.Complete and handleScheduledRunCompletion. *)
Succeed(m) ==
  /\ At(m, "success")
  /\ job' = [job EXCEPT ![m] = NoJob]
  /\ thread' = [thread EXCEPT ![m] = Idle]
  /\ UNCHANGED <<inbox, counters>>

Cancel(m) ==
  /\ At(m, "cancelled")
  /\ job' = [job EXCEPT ![m].state = "cancelled"]
  /\ thread' = [thread EXCEPT ![m] = Idle]
  /\ UNCHANGED <<inbox, counters>>

FailUnnoticed(m) ==
  LET again == job[m].attempt + 1 < MaxAttempts /\ ~ job[m].effects IN
  /\ At(m, "failure")
  /\ job' = [job EXCEPT ![m].attempt = @ + 1, ![m].state = IF again THEN "queued" ELSE "failed"]
  /\ IF again THEN Goto(m, "retry") ELSE thread' = [thread EXCEPT ![m] = Idle]
  /\ UNCHANGED <<inbox, counters>>

Fail(m) ==
  LET again == job[m].attempt + 1 < MaxAttempts /\ ~ job[m].effects IN
  /\ At(m, "failure")
  /\ job' = [job EXCEPT ![m].attempt = @ + 1, ![m].state = IF again THEN "queued" ELSE "failed"]
  /\ Goto(m, IF again THEN "retry" ELSE "notify")
  /\ UNCHANGED <<inbox, counters>>

(* Mutants: above, the failure is not told; below, a failed handoff stays.  *)
RetryOnlyWorking(m) ==
  /\ At(m, "retry")
  /\ IF inbox[m].status = "working" THEN Transition(m, "delivered") ELSE UNCHANGED inbox
  /\ thread' = [thread EXCEPT ![m] = Idle]
  /\ UNCHANGED <<job, counters>>

RetryHandoff(m) ==
  /\ At(m, "retry")
  /\ Transition(m, "delivered")
  /\ thread' = [thread EXCEPT ![m] = Idle]
  /\ UNCHANGED <<job, counters>>

NotifyFailedHandoff(m) ==
  /\ At(m, "notify")
  /\ IF inbox[m].status = "failed" /\ inbox[m].result = NoMsg
     THEN Call(m, "append", m, "failure", "idle")
     ELSE thread' = [thread EXCEPT ![m] = Idle]
  /\ UNCHANGED <<inbox, job, counters>>

-----------------------------------------------------------------------------
(* A crash and loadScheduledRuns: interrupted runs go back to the queue     *)
(* with their handoffs unless they had effects or have no attempt left.     *)

Recovered(j) ==
  CASE j.state = "running" ->
         [j EXCEPT !.attempt = @ + 1,
                   !.state = IF j.effects \/ j.attempt + 1 >= MaxAttempts THEN "failed" ELSE "queued"]
    [] j.state = "cancelled" -> NoJob
    [] OTHER -> j

Restart ==
  /\ crashes < MaxCrashes
  /\ crashes' = crashes + 1 /\ UNCHANGED visits
  /\ job' = [m \in Messages |-> Recovered(job[m])]
  /\ inbox' = [m \in Messages |->
                 IF job'[m].state = "queued" /\ inbox[m].status \in {"claimed", "working", "failed"}
                 THEN [inbox[m] EXCEPT !.status = "delivered"] ELSE inbox[m]]
  /\ thread' = [t \in Threads |->
                  IF t \in Messages /\ job[t].state = "running" /\ job'[t].state = "failed"
                  THEN [Idle EXCEPT !.pc = "notify", !.on = t] ELSE Idle]

-----------------------------------------------------------------------------
Step(m) ==
  \/ ClaimJob(m) \/ Start(m) \/ StartTimesOut(m) \/ Check(m) \/ ClaimHandoff(m)
  \/ EndTurn(m) \/ CancelTurn(m) \/ UseTool(m) \/ Commit(m) \/ CompleteUnhandled(m)
  \/ Succeed(m) \/ Cancel(m) \/ Fail(m) \/ RetryHandoff(m) \/ NotifyFailedHandoff(m)

SendStep(t) ==
  \/ AppendAnswer(t) \/ Deliver(t) \/ Settle(t) \/ SetResult(t) \/ Trigger(t)
  \/ Ack(t) \/ CloseOriginal(t)

Next ==
  \/ \E m \in Messages : SendRequest(m) \/ Visit(m) \/ Step(m)
  \/ \E t \in Threads : SendStep(t)
  \/ Restart

Spec == Init /\ [][Next]_vars

-----------------------------------------------------------------------------
(* Properties *)

ByItsRun(n, m) == inbox[n].status # "absent" /\ inbox[n].about = m /\ inbox[n].run

(* "Nothing gets worked twice": the scheduled runs of a message, retried    *)
(* and restarted as they may be, send one answer to it at most, be it a     *)
(* reply, a decline or the notice of their failure.  Except that a turn may *)
(* decline again what it declined: declined to declined is no error.        *)
AnsweredOnceByItsRuns ==
  \A m \in Messages : \A a, b \in Answers :
    ByItsRun(a, m) /\ ByItsRun(b, m) /\ a # b =>
      inbox[a].kind = "decline" /\ inbox[b].kind = "decline"

(* A run reported as a success leaves no work behind: its message is        *)
(* answered, closed, or failed with a notice, unless the limit of the       *)
(* conversation kept the answer back.                                       *)
SucceededMeansSettled ==
  [][\A m \in Messages :
       job[m].state = "running" /\ job'[m].state = "none" => Settled(m) \/ LimitReached]_vars

(* What can be left for good while the program stays up: a message whose    *)
(* run failed without having failed it, or was cancelled.                   *)
Overlooked(m) ==
  \/ job[m].state = "failed" /\ IsOpen(m)
  \/ job[m].state = "cancelled"

AtWorkOn(m) ==
  \/ job[m].state \in {"queued", "running"}
  \/ \E t \in Threads : thread[t].pc # "idle" /\ m \in {thread[t].on, thread[t].answer}

(* Nobody forgets a message: one that is not settled, with its failure told *)
(* to its sender, has a run or somebody at work on it, unless the program   *)
(* restarted, the run ended in one of those two ways, or the conversation   *)
(* is at its limit.                                                         *)
NobodyForgets ==
  \A m \in Messages :
    inbox[m].status # "absent" =>
      Settled(m) \/ AtWorkOn(m) \/ Overlooked(m) \/ LimitReached \/ crashes > 0

(* "Nothing silently stalls": without the exceptions.  Not so. *)
NothingStalls == \A m \in Messages : inbox[m].status # "absent" => Settled(m) \/ AtWorkOn(m)

(* No message is answered twice.  Not so: a decline may be repeated, and    *)
(* another turn that answers has no effect marker, so that after a restart  *)
(* before it settled the message the message's own run answers again.       *)
AnsweredOnce ==
  \A m \in Messages : Cardinality({n \in Answers : inbox[n].status # "absent" /\ inbox[n].about = m}) <= 1

=============================================================================
