-------------------------- MODULE RunControlProofs --------------------------
(***************************************************************************)
(* Proofs about RunControl for every set of posts, scheduled runs and      *)
(* cancellations.  One lemma per conjunct of IInv shows that a step        *)
(* preserves it (SlotPreserved, StartPreserved, ...); what a step does to  *)
(* the registry is one of five things (KindsOfSteps), which gives both the *)
(* invariant of the registry and the refinement of AgentSlot.              *)
(***************************************************************************)
EXTENDS RunControlInvariants, TLAPS

(* What a step can do to the registry: begin a run, leave it alone (but for *)
(* interrupts and a claim), accept a cancellation, or end the current turn  *)
(* with a result or without.                                                *)
Begins == \E r \in Runs : Admit(r) /\ UNCHANGED <<claims, results, ended>>

Keeps ==
  /\ slot'.run = slot.run
  /\ control'.cancelling = control.cancelling
  /\ slot.run = NoRun => control' = control
  /\ UNCHANGED <<starts, claims, results, ended>>

Cancels ==
  /\ slot.run # NoRun /\ slot' = slot
  /\ control'.cancelling = TRUE
  /\ claims' = claims \cup {Current}
  /\ UNCHANGED <<starts, results, ended>>

Answers ==
  /\ slot.run # NoRun /\ Vacate
  /\ ~ control.cancelling
  /\ results' = results \cup {Current}
  /\ UNCHANGED <<starts, claims, ended>>

Ends ==
  /\ slot.run # NoRun /\ Vacate
  /\ ended' = ended \cup {Current}
  /\ UNCHANGED <<starts, claims, results>>

(* Every step is one of the five. *)
LEMMA KindsOfSteps ==
  ASSUME TypeOK, CancellerShape, [Next]_vars
  PROVE  Begins \/ Keeps \/ Cancels \/ Answers \/ Ends
<1>1. /\ slot \in [run : Runs \cup {NoRun}, interrupts : SUBSET Direct]
      /\ control \in [ctx : Turns \cup {NoCtx}, cancelling : BOOLEAN]
  BY DEF TypeOK
<1>2. Direct \subseteq Runs /\ Scheduled \subseteq Runs /\ NoRun \notin Runs
  BY RunControlAssumption DEF Runs
<1>3. CASE UNCHANGED vars
  BY <1>3 DEF vars, Keeps
<1>4. ASSUME NEW d \in Direct, PostStep(d)
      PROVE  Begins \/ Keeps
  <2>1. CASE PostBegins(d)
    BY <2>1, <1>2 DEF PostBegins, Begins
  <2>2. CASE PostAgain(d)
    BY <2>2, <1>2 DEF PostAgain, Begins, Keeps
  <2>3. CASE QueueInterrupt(d)
    BY <2>3, <1>1 DEF QueueInterrupt, Keeps
  <2>4. CASE PostFindsBusy(d) \/ NothingToInterrupt(d) \/ ChoiceFails(d)
    BY <2>4 DEF PostFindsBusy, NothingToInterrupt, ChoiceFails, Keeps
  <2>5. CASE PrepareDirect(d) \/ PublishDirect(d)
    BY <2>5 DEF PrepareDirect, PublishDirect, Keeps
  <2> QED
    BY <1>4, <2>1, <2>2, <2>3, <2>4, <2>5 DEF PostStep
<1>5. ASSUME NEW j \in Scheduled, JobStep(j)
      PROVE  Begins \/ Keeps
  <2>1. CASE BeginJob(j)
    BY <2>1, <1>2 DEF BeginJob, Begins, Keeps
  <2>2. CASE TakeJob(j) \/ Watch(j) \/ StartTimesOut(j) \/ Bind(j)
    BY <2>2 DEF TakeJob, Watch, StartTimesOut, Bind, Keeps
  <2>3. CASE MarkEffects(j) \/ PrepareScheduled(j) \/ PublishScheduled(j) \/ CompleteJob(j)
    BY <2>3 DEF MarkEffects, PrepareScheduled, PublishScheduled, CompleteJob, Keeps
  <2> QED
    BY <1>5, <2>1, <2>2, <2>3 DEF JobStep
<1>6. ASSUME NEW r \in Runs, RunStep(r)
      PROVE  Keeps \/ Answers \/ Ends
  <2>1. CASE ClaimRun(r)
    BY <2>1, <1>1, <1>2 DEF ClaimRun, Keeps
  <2>2. CASE Drain(r)
    BY <2>2, <1>1 DEF Drain, Keeps
  <2>3. CASE Commit(r)
    BY <2>3, <1>2 DEF Commit, MayCommit, Answers, Keeps, Current
  <2>4. CASE FinishRun(r)
    BY <2>4, <1>2 DEF FinishRun, Ends, Keeps, Current
  <2>5. CASE OpenLedger(r) \/ ProviderAnswers(r) \/ NotifyFinished(r)
    BY <2>5 DEF OpenLedger, ProviderAnswers, NotifyFinished, Keeps
  <2>6. ASSUME NEW final \in Finals, TurnEnds(r, final)
        PROVE  Keeps
    BY <2>6 DEF TurnEnds, Keeps
  <2> QED
    BY <1>6, <2>1, <2>2, <2>3, <2>4, <2>5, <2>6 DEF RunStep
<1>7. ASSUME NEW c \in Cancellers, CancelStep(c)
      PROVE  Keeps \/ Cancels \/ Ends
  <2>1. CASE RequestCancel(c)
    BY <2>1, <1>1 DEF RequestCancel, Cancels
  <2>2. CASE FinishUnowned(c)
    <3>1. CASE MayFinish(c)
      <4>1. slot.run # NoRun
        BY <2>2, <3>1, <1>2 DEF FinishUnowned, MayFinish, CancellerShape
      <4> QED
        BY <2>2, <3>1, <4>1 DEF FinishUnowned, Ends
    <3>2. CASE ~ MayFinish(c)
      BY <2>2, <3>2 DEF FinishUnowned, Keeps
    <3> QED
      BY <2>2, <3>1, <3>2 DEF FinishUnowned
  <2>3. CASE CancelRefused(c) \/ SignalWorker(c) \/ CancelNotifies(c) \/ CancelPublishes(c)
    BY <2>3 DEF CancelRefused, SignalWorker, CancelNotifies, CancelPublishes, Keeps
  <2> QED
    BY <1>7, <2>1, <2>2, <2>3 DEF CancelStep
<1> QED
  BY <1>3, <1>4, <1>5, <1>6, <1>7 DEF Next

(* Turns are numbered by the starts of their run. *)
LEMMA SlotPreserved ==
  ASSUME TypeOK, SlotShape, CancelExcludesResult, CancellerShape, [Next]_vars
  PROVE  SlotShape' /\ CancelExcludesResult'
<1>1. /\ slot.run \in Runs \cup {NoRun}
      /\ starts \in [Runs -> Nat]
      /\ claims \subseteq Turns /\ results \subseteq Turns /\ ended \subseteq Turns
  BY DEF TypeOK
<1>2. NoRun \notin Runs
  BY RunControlAssumption
<1>3. CASE Begins
  <2>1. PICK r \in Runs : Admit(r) /\ UNCHANGED <<claims, results, ended>>
    BY <1>3 DEF Begins
  <2>2. /\ slot'.run = r
        /\ starts'[r] = starts[r] + 1
        /\ \A s \in Runs : starts[s] <= starts'[s]
        /\ starts' \in [Runs -> Nat]
    BY <2>1, <1>1 DEF Admit
  <2>3. \A t \in claims \cup results \cup ended : t \in Runs \X Nat /\ t[2] <= starts[t[1]]
    BY <1>1 DEF SlotShape, Turns
  <2>4. <<r, starts'[r]>> \notin claims \cup results \cup ended
    BY <2>2, <2>3, <1>1
  <2>5. \A t \in claims \cup results \cup ended : t[2] <= starts'[t[1]]
    <3> SUFFICES ASSUME NEW t \in claims \cup results \cup ended
                 PROVE  t[2] <= starts'[t[1]]
      OBVIOUS
    <3>1. t[1] \in Runs /\ t[2] \in Nat /\ t[2] <= starts[t[1]]
      BY <2>3
    <3> QED
      BY <3>1, <2>2, <1>1
  <2> QED
    BY <2>1, <2>2, <2>4, <2>5, <1>1, <1>2 DEF SlotShape, CancelExcludesResult, Current, Turn
<1>4. CASE Keeps
  BY <1>4 DEF Keeps, SlotShape, CancelExcludesResult, Current, Turn
<1>5. CASE Cancels
  <2>1. Current[1] \in Runs /\ Current[2] = starts[Current[1]] /\ starts[Current[1]] \in Nat
    BY <1>1, <1>5 DEF Cancels, Current, Turn
  <2>2. Current' = Current
    BY <1>5 DEF Cancels, Current, Turn
  <2>3. Current \notin results
    BY <1>5 DEF Cancels, SlotShape
  <2> QED
    BY <1>5, <2>1, <2>2, <2>3 DEF Cancels, SlotShape, CancelExcludesResult
<1>6. CASE Answers \/ Ends
  <2>1. /\ Current[1] \in Runs /\ Current[2] = starts[Current[1]] /\ starts[Current[1]] \in Nat
        /\ slot'.run = NoRun /\ control' = NoControl
        /\ starts' = starts /\ claims' = claims
    BY <1>1, <1>6 DEF Answers, Ends, Vacate, Free, Current, Turn
  <2>2. \A t \in results' \cup ended' : t[2] <= starts[t[1]]
    BY <1>6, <2>1 DEF Answers, Ends, SlotShape
  <2>3. claims \cap results' = {}
    BY <1>6 DEF Answers, Ends, SlotShape, CancelExcludesResult
  <2> QED
    BY <2>1, <2>2, <2>3 DEF SlotShape, CancelExcludesResult
<1> QED
  BY <1>3, <1>4, <1>5, <1>6, KindsOfSteps

-----------------------------------------------------------------------------
(* Moving a goroutine on. *)
LEMMA GotoMoves ==
  ASSUME TypeOK, NEW r \in Runs, NEW pc \in ProcPC, Goto(r, pc)
  PROVE  /\ proc' \in [Runs -> ProcRecord]
         /\ proc'[r].pc = pc
         /\ proc'[r].next = proc[r].next
         /\ \A s \in Runs \ {r} : proc'[s] = proc[s]
BY DEF Goto, TypeOK, ProcRecord

(* The same on the way to the end of a run. *)
LEMMA GotoFinishMoves ==
  ASSUME TypeOK, NEW r \in Runs, NEW final \in Finals, NEW next \in {"reporting", "wait", "over"},
         GotoFinish(r, final, next)
  PROVE  /\ proc' \in [Runs -> ProcRecord]
         /\ proc'[r].pc = "finishing"
         /\ \A s \in Runs \ {r} : proc'[s] = proc[s]
BY DEF GotoFinish, TypeOK, ProcRecord, ProcPC

(* Waking the watchers changes nobody else. *)
LEMMA WokenMoves ==
  ASSUME TypeOK
  PROVE  /\ Woken(proc) \in [Runs -> ProcRecord]
         /\ \A s \in Runs : /\ Woken(proc)[s].pc # "watching"
                            /\ proc[s].pc # "watching" => Woken(proc)[s] = proc[s]
                            /\ proc[s].pc = "watching" => Woken(proc)[s].pc = "begin"
BY ZenonT(60) DEF Woken, TypeOK, ProcRecord, ProcPC

(* The step that wakes them. *)
LEMMA NotifyMoves ==
  ASSUME TypeOK, NEW r \in Runs, NotifyFinished(r)
  PROVE  /\ proc' \in [Runs -> ProcRecord]
         /\ At(r, "committed") => proc'[r].pc = "reporting"
         /\ At(r, "removed") => proc'[r].pc = proc[r].next
         /\ proc'[r].pc \in {"reporting", "wait", "over"}
         /\ \A s \in Runs : proc'[s].pc # "watching"
         /\ \A s \in Runs \ {r} : /\ proc[s].pc # "watching" => proc'[s] = proc[s]
                                  /\ proc[s].pc = "watching" => proc'[s].pc = "begin"
<1>1. /\ Woken(proc) \in [Runs -> ProcRecord]
      /\ \A s \in Runs : /\ Woken(proc)[s].pc # "watching"
                         /\ proc[s].pc # "watching" => Woken(proc)[s] = proc[s]
                         /\ proc[s].pc = "watching" => Woken(proc)[s].pc = "begin"
  BY WokenMoves
<1> DEFINE woken == Woken(proc)
           pc == IF At(r, "committed") THEN "reporting" ELSE proc[r].next
<1>2. proc' = [woken EXCEPT ![r].pc = pc]
  BY DEF NotifyFinished
<1>3. /\ At(r, "committed") \/ At(r, "removed")
      /\ proc[r].next \in {"reporting", "wait", "over"}
  BY DEF NotifyFinished, TypeOK, ProcRecord
<1>4. pc \in {"reporting", "wait", "over"} /\ pc \in ProcPC
  BY <1>3 DEF ProcPC
<1>5. /\ At(r, "committed") => pc = "reporting"
      /\ At(r, "removed") => pc = proc[r].next
  BY DEF At
<1> HIDE DEF woken, pc
<1>6. /\ proc' \in [Runs -> ProcRecord]
      /\ proc'[r].pc = pc
      /\ \A s \in Runs \ {r} : proc'[s] = woken[s]
  BY <1>1, <1>2, <1>4 DEF woken, ProcRecord
<1> QED
  BY <1>1, <1>4, <1>5, <1>6 DEF woken

(* What each kind of step leaves alone. *)
LEMMA PostFrame ==
  ASSUME NEW d \in Direct, PostStep(d)
  PROVE  UNCHANGED <<cancelled, canceller, job, claims, results, ended>>
BY DEF PostStep, PostBegins, PostFindsBusy, QueueInterrupt, NothingToInterrupt, PostAgain,
   ChoiceFails, PrepareDirect, PublishDirect

(* The same for the scheduler worker. *)
LEMMA JobFrame ==
  ASSUME NEW j \in Scheduled, JobStep(j)
  PROVE  UNCHANGED <<cancelled, canceller, claims, results, ended>>
BY DEF JobStep, TakeJob, BeginJob, Watch, StartTimesOut, Bind, MarkEffects,
   PrepareScheduled, PublishScheduled, CompleteJob

(* The same for a turn. *)
LEMMA RunFrame ==
  ASSUME NEW r \in Runs, RunStep(r)
  PROVE  UNCHANGED <<starts, canceller, job, claims>>
BY DEF RunStep, ClaimRun, OpenLedger, Drain, ProviderAnswers, TurnEnds, Commit, FinishRun,
   NotifyFinished

(* The same for a canceller. *)
LEMMA CancelFrame ==
  ASSUME NEW c \in Cancellers, CancelStep(c)
  PROVE  UNCHANGED <<starts, job, results>>
BY DEF CancelStep, RequestCancel, CancelRefused, SignalWorker, FinishUnowned,
   CancelNotifies, CancelPublishes

-----------------------------------------------------------------------------
(* Types *)

(* The goroutines' records keep their type. *)
LEMMA ProcTyped ==
  ASSUME TypeOK, [Next]_vars
  PROVE  proc' \in [Runs -> ProcRecord]
<1>1. /\ proc \in [Runs -> ProcRecord]
      /\ Direct \subseteq Runs /\ Scheduled \subseteq Runs
  BY DEF TypeOK, Runs
<1>2. CASE UNCHANGED vars
  BY <1>1, <1>2 DEF vars
<1>3. ASSUME NEW d \in Direct, PostStep(d)
      PROVE  proc' \in [Runs -> ProcRecord]
  <2>1. \/ \E pc \in {"begun", "busy", "queued", "again", "over", "ready"} : Goto(d, pc)
        \/ GotoFinish(d, "cancelled", "over") \/ GotoFinish(d, "cancelled", "reporting")
    BY <1>3 DEF PostStep, PostBegins, PostFindsBusy, QueueInterrupt, NothingToInterrupt,
                PostAgain, ChoiceFails, PrepareDirect, PublishDirect
  <2>2. {"begun", "busy", "queued", "again", "over", "ready"} \subseteq ProcPC
        /\ "cancelled" \in Finals
    BY DEF ProcPC, Finals
  <2> QED
    BY <1>1, <2>1, <2>2, GotoMoves, GotoFinishMoves
<1>4. ASSUME NEW j \in Scheduled, JobStep(j)
      PROVE  proc' \in [Runs -> ProcRecord]
  <2>1. \/ \E pc \in {"begin", "begun", "wait", "watching", "running", "ready", "idle"} : Goto(j, pc)
        \/ GotoFinish(j, "cancelled", "reporting") \/ GotoFinish(j, "failed", "reporting")
        \/ \E f \in Finals \cup {proc[j].final} :
             proc' = [proc EXCEPT ![j].pc = "returned", ![j].final = f]
        \/ proc' = proc
    BY <1>4 DEF JobStep, TakeJob, BeginJob, Watch, StartTimesOut, Bind, MarkEffects,
                PrepareScheduled, PublishScheduled, CompleteJob, AfterExecute, Finals
  <2>2. {"begin", "begun", "wait", "watching", "running", "ready", "idle"} \subseteq ProcPC
        /\ "cancelled" \in Finals /\ "failed" \in Finals
    BY DEF ProcPC, Finals
  <2>3. ASSUME NEW f \in Finals \cup {proc[j].final},
               proc' = [proc EXCEPT ![j].pc = "returned", ![j].final = f]
        PROVE  proc' \in [Runs -> ProcRecord]
    BY <1>1, <2>3 DEF ProcRecord, ProcPC
  <2> QED
    BY <1>1, <2>1, <2>2, <2>3, GotoMoves, GotoFinishMoves
<1>5. ASSUME NEW r \in Runs, RunStep(r)
      PROVE  proc' \in [Runs -> ProcRecord]
  <2>1. CASE NotifyFinished(r)
    BY <2>1, NotifyMoves
  <2>2. CASE FinishRun(r) /\ slot.run # r
    <3>1. proc[r].next \in {"reporting", "wait", "over"}
      BY <1>1 DEF ProcRecord
    <3>2. \E pc \in {"reporting", "wait", "over", "returned"} : Goto(r, pc)
      BY <2>2, <3>1 DEF FinishRun
    <3> QED
      BY <3>2, GotoMoves DEF ProcPC
  <2>3. CASE \/ ClaimRun(r) \/ OpenLedger(r) \/ ProviderAnswers(r) \/ Commit(r) \/ Drain(r)
             \/ (FinishRun(r) /\ slot.run = r) \/ \E final \in Finals : TurnEnds(r, final)
    <3>1. \/ \E pc \in {"claimed", "over", "running", "bind", "answered", "committed", "removed"} :
               Goto(r, pc)
          \/ \E final \in Finals, next \in {"reporting", "wait"} : GotoFinish(r, final, next)
          \/ proc' = proc
      BY <2>3 DEF ClaimRun, OpenLedger, ProviderAnswers, Commit, Drain, FinishRun, TurnEnds, Finals
    <3> QED
      BY <1>1, <3>1, GotoMoves, GotoFinishMoves DEF ProcPC
  <2> QED
    BY <1>5, <2>1, <2>2, <2>3 DEF RunStep
<1>6. ASSUME NEW c \in Cancellers, CancelStep(c)
      PROVE  proc' \in [Runs -> ProcRecord]
  BY <1>1, <1>6, WokenMoves DEF CancelStep, RequestCancel, CancelRefused, SignalWorker,
     FinishUnowned, CancelNotifies, CancelPublishes
<1> QED
  BY <1>2, <1>3, <1>4, <1>5, <1>6 DEF Next

(* The types of the registry follow from the five kinds of steps; the rest  *)
(* is looked up action by action.                                           *)
LEMMA HistoryTyped ==
  ASSUME TypeOK, SlotShape, CancellerShape, [Next]_vars
  PROVE  /\ starts' \in [Runs -> Nat]
         /\ claims' \subseteq Turns /\ results' \subseteq Turns /\ ended' \subseteq Turns
<1>1. /\ slot.run \in Runs \cup {NoRun}
      /\ starts \in [Runs -> Nat]
      /\ claims \subseteq Turns /\ results \subseteq Turns /\ ended \subseteq Turns
  BY DEF TypeOK
<1>2. slot.run # NoRun => Current \in Turns
  BY <1>1 DEF SlotShape, Current, Turn, Turns
<1>3. Begins => starts' \in [Runs -> Nat] /\ UNCHANGED <<claims, results, ended>>
  BY <1>1 DEF Begins, Admit
<1> QED
  BY <1>1, <1>2, <1>3, KindsOfSteps DEF Keeps, Cancels, Answers, Ends

(* The types of the active run and its handles. *)
LEMMA SlotTyped ==
  ASSUME TypeOK, SlotShape, [Next]_vars
  PROVE  /\ slot' \in [run : Runs \cup {NoRun}, interrupts : SUBSET Direct]
         /\ control' \in [ctx : Turns \cup {NoCtx}, cancelling : BOOLEAN]
         /\ folded' \subseteq Direct
<1> DEFINE Typed == /\ slot' \in [run : Runs \cup {NoRun}, interrupts : SUBSET Direct]
                    /\ control' \in [ctx : Turns \cup {NoCtx}, cancelling : BOOLEAN]
                    /\ folded' \subseteq Direct
<1>1. /\ slot \in [run : Runs \cup {NoRun}, interrupts : SUBSET Direct]
      /\ control \in [ctx : Turns \cup {NoCtx}, cancelling : BOOLEAN]
      /\ folded \subseteq Direct
      /\ Direct \subseteq Runs /\ Scheduled \subseteq Runs
  BY DEF TypeOK, Runs
<1>2. CASE UNCHANGED <<slot, control, folded>>
  BY <1>1, <1>2
<1>3. CASE folded' = folded /\ (Vacate \/ \E r \in Runs : Admit(r))
  <2>1. /\ Free \in [run : Runs \cup {NoRun}, interrupts : SUBSET Direct]
        /\ NoControl \in [ctx : Turns \cup {NoCtx}, cancelling : BOOLEAN]
    BY DEF Free, NoControl
  <2>2. \A r \in Runs : [run |-> r, interrupts |-> {}]
                         \in [run : Runs \cup {NoRun}, interrupts : SUBSET Direct]
    OBVIOUS
  <2> QED
    BY <1>1, <1>3, <2>1, <2>2 DEF Vacate, Admit
<1>4. ASSUME NEW d \in Direct, PostStep(d)
      PROVE  Typed
  <2>1. CASE QueueInterrupt(d)
    BY <1>1, <2>1 DEF QueueInterrupt
  <2>2. CASE ~ QueueInterrupt(d)
    <3>1. UNCHANGED <<slot, control, folded>> \/ (folded' = folded /\ Admit(d))
      BY <1>4, <2>2 DEF PostStep, PostBegins, PostFindsBusy, NothingToInterrupt, PostAgain,
         ChoiceFails, PrepareDirect, PublishDirect, Admit
    <3> QED
      BY <1>1, <1>2, <1>3, <3>1
  <2> QED
    BY <2>1, <2>2
<1>5. ASSUME NEW j \in Scheduled, JobStep(j)
      PROVE  Typed
  <2>1. UNCHANGED <<slot, control, folded>> \/ (folded' = folded /\ Admit(j))
    BY <1>5 DEF JobStep, TakeJob, BeginJob, Watch, StartTimesOut, Bind, MarkEffects,
       PrepareScheduled, PublishScheduled, CompleteJob, Admit
  <2> QED
    BY <1>1, <1>2, <1>3, <2>1
<1>6. ASSUME NEW r \in Runs, RunStep(r)
      PROVE  Typed
  <2>1. CASE Drain(r)
    BY <1>1, <2>1 DEF Drain
  <2>2. CASE ClaimRun(r)
    <3>1. slot.run = r => Turn(r) \in Turns
      BY <1>1, RunControlAssumption DEF SlotShape, Turn, Turns, TypeOK
    <3> QED
      BY <1>1, <2>2, <3>1 DEF ClaimRun
  <2>3. CASE ~ Drain(r) /\ ~ ClaimRun(r)
    <3>1. UNCHANGED <<slot, control, folded>> \/ (folded' = folded /\ Vacate)
      BY <1>6, <2>3 DEF RunStep, OpenLedger, ProviderAnswers, TurnEnds, Commit, FinishRun,
         NotifyFinished, Vacate
    <3> QED
      BY <1>2, <1>3, <3>1
  <2> QED
    BY <2>1, <2>2, <2>3
<1>7. ASSUME NEW c \in Cancellers, CancelStep(c)
      PROVE  Typed
  <2>1. CASE RequestCancel(c)
    BY <1>1, <2>1 DEF RequestCancel
  <2>2. CASE ~ RequestCancel(c)
    <3>1. UNCHANGED <<slot, control, folded>> \/ (folded' = folded /\ Vacate)
      BY <1>7, <2>2 DEF CancelStep, CancelRefused, SignalWorker, FinishUnowned, CancelNotifies,
         CancelPublishes, Vacate
    <3> QED
      BY <1>2, <1>3, <3>1
  <2> QED
    BY <2>1, <2>2
<1>8. CASE UNCHANGED vars
  BY <1>2, <1>8 DEF vars
<1> QED
  BY <1>4, <1>5, <1>6, <1>7, <1>8 DEF Next

(* A retry stays within MaxAttempts. *)
LEMMA JobTyped ==
  ASSUME TypeOK, JobShape, [Next]_vars
  PROVE  job' \in [Scheduled -> JobRecord]
<1>1. job \in [Scheduled -> JobRecord] /\ MaxAttempts \in Nat
  BY RunControlAssumption DEF TypeOK
<1>2. CASE job' = job
  BY <1>1, <1>2
<1>3. ASSUME NEW j \in Scheduled, JobStep(j)
      PROVE  job' \in [Scheduled -> JobRecord]
  <2>1. CASE TakeJob(j)
    BY <1>1, <2>1 DEF TakeJob, JobRecord, JobStatus
  <2>2. CASE MarkEffects(j) \/ PrepareScheduled(j)
    BY <1>1, <2>2 DEF MarkEffects, PrepareScheduled, JobRecord
  <2>3. CASE CompleteJob(j)
    <3>1. job[j].attempt \in Nat /\ job[j].attempt < MaxAttempts
      BY <1>1, <2>3 DEF CompleteJob, JobShape, At, JobRecord
    <3>2. proc[j].final \in Finals
      BY DEF TypeOK, Runs, ProcRecord
    <3>3. Settled(j) \in JobRecord
      <4>1. CASE proc[j].final = "done"
        BY <1>1, <4>1 DEF Settled, JobRecord, JobStatus
      <4>2. CASE proc[j].final = "cancelled"
        BY <1>1, <4>2 DEF Settled, JobRecord, JobStatus
      <4>3. CASE proc[j].final = "failed"
        <5> DEFINE status == IF job[j].attempt + 1 < MaxAttempts /\ ~ job[j].effects
                             THEN "queued" ELSE "failed"
                   attempt == job[j].attempt + 1
        <5>1. Settled(j) = [job[j] EXCEPT !.attempt = attempt, !.status = status]
          BY <4>3 DEF Settled
        <5>2. status \in JobStatus /\ attempt \in 0..MaxAttempts
          BY <1>1, <3>1 DEF JobStatus
        <5> HIDE DEF status, attempt
        <5> QED
          BY <1>1, <5>1, <5>2 DEF JobRecord
      <4> QED
        BY <3>2, <4>1, <4>2, <4>3 DEF Finals
    <3> QED
      BY <1>1, <2>3, <3>3 DEF CompleteJob
  <2>4. CASE BeginJob(j) \/ Watch(j) \/ StartTimesOut(j) \/ Bind(j) \/ PublishScheduled(j)
    BY <1>2, <2>4 DEF BeginJob, Watch, StartTimesOut, Bind, PublishScheduled
  <2> QED
    BY <1>3, <2>1, <2>2, <2>3, <2>4 DEF JobStep
<1>4. ASSUME NEW d \in Direct, PostStep(d)
      PROVE  job' = job
  BY <1>4, PostFrame
<1>5. ASSUME NEW r \in Runs, RunStep(r)
      PROVE  job' = job
  BY <1>5, RunFrame
<1>6. ASSUME NEW c \in Cancellers, CancelStep(c)
      PROVE  job' = job
  BY <1>6, CancelFrame
<1> QED
  BY <1>2, <1>3, <1>4, <1>5, <1>6 DEF Next, vars

(* Only contexts of turns that have begun are cancelled. *)
LEMMA ContextTyped ==
  ASSUME TypeOK, StartShape, CancellerShape, [Next]_vars
  PROVE  cancelled' \subseteq Turns
<1>1. /\ cancelled \subseteq Turns /\ starts \in [Runs -> Nat]
      /\ \A c \in Cancellers : canceller[c].ctx \in Turns \cup {NoCtx}
  BY DEF TypeOK, CancelRecord
<1>2. CASE cancelled' = cancelled
  BY <1>1, <1>2
<1>3. ASSUME NEW d \in Direct, PostStep(d)
      PROVE  cancelled' = cancelled
  BY <1>3, PostFrame
<1>4. ASSUME NEW j \in Scheduled, JobStep(j)
      PROVE  cancelled' = cancelled
  BY <1>4, JobFrame
<1>5. ASSUME NEW r \in Runs, RunStep(r)
      PROVE  cancelled' \subseteq Turns
  <2>1. CASE NotifyFinished(r)
    <3>1. starts[r] > 0
      BY <2>1 DEF NotifyFinished, At, StartShape, BegunPC
    <3>2. Turn(r) \in Turns
      BY <1>1, <3>1 DEF Turn, Turns
    <3> QED
      BY <1>1, <2>1, <3>2 DEF NotifyFinished
  <2>2. CASE ~ NotifyFinished(r)
    BY <1>2, <1>5, <2>2 DEF RunStep, ClaimRun, OpenLedger, Drain, ProviderAnswers, TurnEnds,
       Commit, FinishRun
  <2> QED
    BY <2>1, <2>2
<1>6. ASSUME NEW c \in Cancellers, CancelStep(c)
      PROVE  cancelled' \subseteq Turns
  <2>1. CASE SignalWorker(c)
    BY <1>1, <2>1 DEF SignalWorker, CancellerShape
  <2>2. CASE CancelNotifies(c)
    BY <1>1, <2>2 DEF CancelNotifies
  <2>3. CASE RequestCancel(c) \/ CancelRefused(c) \/ FinishUnowned(c) \/ CancelPublishes(c)
    BY <1>2, <2>3 DEF RequestCancel, CancelRefused, FinishUnowned, CancelPublishes
  <2> QED
    BY <1>6, <2>1, <2>2, <2>3 DEF CancelStep
<1> QED
  BY <1>2, <1>3, <1>4, <1>5, <1>6 DEF Next, vars

(* What can happen to the ledgers. *)
LEMMA LedgerMoves ==
  ASSUME TypeOK, CancellerShape, [Next]_vars
  PROVE  \/ ledger' = ledger
         \/ \E r \in Runs : At(r, "claimed") /\ CreateLedger(r)
         \/ \E r \in Runs : At(r, "reporting") /\ PublishTerminal(r)
         \/ \E c \in Cancellers : /\ canceller[c].pc = "reporting"
                                  /\ canceller[c].run \in Runs
                                  /\ PublishTerminal(canceller[c].run)
<1>1. Direct \subseteq Runs /\ Scheduled \subseteq Runs
  BY DEF Runs
<1>2. ASSUME NEW d \in Direct, PostStep(d)
      PROVE  ledger' = ledger \/ (At(d, "reporting") /\ PublishTerminal(d))
  BY <1>2 DEF PostStep, PostBegins, PostFindsBusy, QueueInterrupt, NothingToInterrupt, PostAgain,
     ChoiceFails, PrepareDirect, PublishDirect
<1>3. ASSUME NEW j \in Scheduled, JobStep(j)
      PROVE  ledger' = ledger \/ (At(j, "reporting") /\ PublishTerminal(j))
  BY <1>3 DEF JobStep, TakeJob, BeginJob, Watch, StartTimesOut, Bind, MarkEffects,
     PrepareScheduled, PublishScheduled, CompleteJob
<1>4. ASSUME NEW r \in Runs, RunStep(r)
      PROVE  ledger' = ledger \/ (At(r, "claimed") /\ CreateLedger(r))
  BY <1>4 DEF RunStep, ClaimRun, OpenLedger, Drain, ProviderAnswers, TurnEnds, Commit, FinishRun,
     NotifyFinished
<1>5. ASSUME NEW c \in Cancellers, CancelStep(c)
      PROVE  \/ ledger' = ledger
             \/ /\ canceller[c].pc = "reporting"
                /\ canceller[c].run \in Runs
                /\ PublishTerminal(canceller[c].run)
  BY <1>5 DEF CancelStep, RequestCancel, CancelRefused, SignalWorker, FinishUnowned,
     CancelNotifies, CancelPublishes, CancellerShape
<1> QED
  BY <1>1, <1>2, <1>3, <1>4, <1>5 DEF Next, vars

(* The ledgers keep their type. *)
LEMMA LedgerTyped ==
  ASSUME TypeOK, CancellerShape, [Next]_vars
  PROVE  ledger' \in [Runs -> [open : BOOLEAN, terminals : Nat]]
<1>1. ledger \in [Runs -> [open : BOOLEAN, terminals : Nat]]
  BY DEF TypeOK
<1>2. ASSUME NEW r \in Runs, CreateLedger(r)
      PROVE  ledger' \in [Runs -> [open : BOOLEAN, terminals : Nat]]
  BY <1>1, <1>2 DEF CreateLedger
<1>3. ASSUME NEW r \in Runs, PublishTerminal(r)
      PROVE  ledger' \in [Runs -> [open : BOOLEAN, terminals : Nat]]
  BY <1>1, <1>3 DEF PublishTerminal
<1> QED
  BY <1>1, <1>2, <1>3, LedgerMoves

(* The cancellers' records keep their type. *)
LEMMA CancellerTyped ==
  ASSUME TypeOK, [Next]_vars
  PROVE  canceller' \in [Cancellers -> CancelRecord]
<1>1. /\ canceller \in [Cancellers -> CancelRecord]
      /\ slot.run \in Runs \cup {NoRun}
      /\ control.ctx \in Turns \cup {NoCtx}
  BY DEF TypeOK
<1>5. ASSUME NEW c \in Cancellers, CancelStep(c)
      PROVE  canceller' \in [Cancellers -> CancelRecord]
  <2>1. CASE RequestCancel(c)
    <3>1. [pc |-> IF control.ctx # NoCtx THEN "signal" ELSE "finish",
           run |-> slot.run, ctx |-> control.ctx] \in CancelRecord
      BY <1>1 DEF CancelRecord, CancelPC
    <3> QED
      BY <1>1, <2>1, <3>1 DEF RequestCancel
  <2>2. CASE FinishUnowned(c)
    BY <1>1, <2>2 DEF FinishUnowned, CancelRecord, CancelPC
  <2>3. CASE CancelRefused(c) \/ SignalWorker(c) \/ CancelNotifies(c) \/ CancelPublishes(c)
    BY <1>1, <2>3 DEF CancelRefused, SignalWorker, CancelNotifies, CancelPublishes,
       CancelRecord, CancelPC
  <2> QED
    BY <1>5, <2>1, <2>2, <2>3 DEF CancelStep
<1> QED
  BY <1>1, <1>5, PostFrame, JobFrame, RunFrame DEF Next, vars

(* All types together. *)
LEMMA TypePreserved ==
  ASSUME TypeOK, SlotShape, StartShape, JobShape, CancellerShape, [Next]_vars
  PROVE  TypeOK'
BY ProcTyped, HistoryTyped, SlotTyped, JobTyped, ContextTyped, LedgerTyped, CancellerTyped
   DEF TypeOK

-----------------------------------------------------------------------------
(* How far each kind of step takes a goroutine *)

Others(r) == \A s \in Runs \ {r} : proc'[s] = proc[s]

(* A post and its direct worker. *)
LEMMA PostMoves ==
  ASSUME TypeOK, NEW d \in Direct, PostStep(d)
  PROVE  /\ Others(d)
         /\ \/ /\ proc[d].pc \in {"idle", "again"} /\ proc'[d].pc = "begun"
               /\ Admit(d) /\ ledger' = ledger
            \/ /\ proc[d].pc \in {"idle", "busy", "again"}
               /\ proc'[d].pc \in {"busy", "queued", "again", "over"}
               /\ slot'.run = slot.run /\ UNCHANGED <<starts, ledger>>
            \/ /\ proc[d].pc \in {"begun", "answered"} /\ proc'[d].pc \in {"finishing", "ready"}
               /\ proc'[d].pc = "ready" => proc[d].pc = "answered"
               /\ UNCHANGED <<slot, starts, ledger>>
            \/ /\ proc[d].pc = "reporting" /\ proc'[d].pc = "over"
               /\ PublishTerminal(d) /\ UNCHANGED <<slot, starts>>
<1>1. d \in Runs /\ slot \in [run : Runs \cup {NoRun}, interrupts : SUBSET Direct]
  BY DEF TypeOK, Runs
<1>2. {"begun", "busy", "queued", "again", "over", "ready"} \subseteq ProcPC
      /\ "cancelled" \in Finals
  BY DEF ProcPC, Finals
<1>3. CASE PostBegins(d)
  BY <1>1, <1>2, <1>3, GotoMoves DEF PostBegins, At, Others
<1>4. CASE PostFindsBusy(d) \/ QueueInterrupt(d) \/ NothingToInterrupt(d)
  BY <1>1, <1>2, <1>4, GotoMoves
     DEF PostFindsBusy, QueueInterrupt, NothingToInterrupt, At, Others
<1>5. CASE PostAgain(d)
  BY <1>1, <1>2, <1>5, GotoMoves DEF PostAgain, At, Others
<1>6. CASE ChoiceFails(d) \/ PrepareDirect(d)
  BY <1>1, <1>2, <1>6, GotoMoves, GotoFinishMoves DEF ChoiceFails, PrepareDirect, At, Others
<1>7. CASE PublishDirect(d)
  BY <1>1, <1>2, <1>7, GotoMoves DEF PublishDirect, At, Others
<1> QED
  BY <1>3, <1>4, <1>5, <1>6, <1>7 DEF PostStep

(* The scheduler worker around a turn. *)
LEMMA JobMoves ==
  ASSUME TypeOK, NEW j \in Scheduled, JobStep(j)
  PROVE  /\ Others(j)
         /\ \/ /\ proc[j].pc = "idle" /\ proc'[j].pc = "begin"
               /\ job[j].status = "queued" /\ job' = [job EXCEPT ![j].status = "running"]
               /\ UNCHANGED <<slot, starts, ledger>>
            \/ /\ proc[j].pc = "begin" /\ proc'[j].pc = "begun"
               /\ Admit(j) /\ UNCHANGED <<job, ledger>>
            \/ /\ proc[j].pc \in {"begin", "wait", "watching"}
               /\ proc'[j].pc \in {"begin", "wait", "watching", "returned"}
               /\ proc'[j].pc = "watching" => slot.run # NoRun
               /\ UNCHANGED <<job, slot, starts, ledger>>
            \/ /\ proc[j].pc = "bind" /\ proc'[j].pc \in {"running", "finishing", "returned"}
               /\ proc'[j].pc = "running" => slot.run = j
               /\ UNCHANGED <<job, slot, starts, ledger>>
            \/ /\ proc' = proc /\ proc[j].pc = "running"
               /\ job' = [job EXCEPT ![j].effects = TRUE]
               /\ UNCHANGED <<slot, starts, ledger>>
            \/ /\ proc[j].pc = "answered" /\ proc'[j].pc \in {"ready", "finishing"}
               /\ \/ j \in Unmarked /\ job' = job
                  \/ j \notin Unmarked /\ job' = [job EXCEPT ![j].effects = TRUE]
               /\ UNCHANGED <<slot, starts, ledger>>
            \/ /\ proc[j].pc = "reporting" /\ proc'[j].pc = "returned"
               /\ PublishTerminal(j) /\ UNCHANGED <<job, slot, starts>>
            \/ /\ proc[j].pc = "returned" /\ proc'[j].pc = "idle"
               /\ job' = [job EXCEPT ![j] = Settled(j)]
               /\ UNCHANGED <<slot, starts, ledger>>
<1>1. j \in Runs /\ proc \in [Runs -> ProcRecord]
  BY DEF TypeOK, Runs
<1>2. {"begin", "begun", "wait", "watching", "running", "ready", "idle"} \subseteq ProcPC
      /\ "cancelled" \in Finals /\ "failed" \in Finals
  BY DEF ProcPC, Finals
<1>3. CASE TakeJob(j)
  <2>1. Others(j) /\ proc'[j].pc = "begin"
    BY <1>1, <1>2, <1>3, GotoMoves DEF TakeJob, Others
  <2>2. proc[j].pc = "idle"
    BY <1>3 DEF TakeJob, WorkerFree, At
  <2> QED
    BY <1>3, <2>1, <2>2 DEF TakeJob
<1>4. CASE BeginJob(j)
  BY <1>1, <1>2, <1>4, GotoMoves DEF BeginJob, At, Others
<1>5. CASE Watch(j)
  BY <1>1, <1>2, <1>5, GotoMoves DEF Watch, At, Others
<1>6. CASE StartTimesOut(j)
  BY <1>1, <1>6 DEF StartTimesOut, At, Others, ProcRecord
<1>7. CASE Bind(j)
  <2>1. CASE slot.run = j /\ Goto(j, "running")
    BY <1>1, <1>2, <1>7, <2>1, GotoMoves DEF Bind, At, Others
  <2>2. CASE GotoFinish(j, "cancelled", "reporting")
    BY <1>1, <1>2, <1>7, <2>2, GotoFinishMoves DEF Bind, At, Others
  <2>3. CASE proc' = [proc EXCEPT ![j].pc = "returned", ![j].final = "failed"]
    BY <1>1, <1>7, <2>3 DEF Bind, At, Others, ProcRecord
  <2> QED
    BY <1>7, <2>1, <2>2, <2>3 DEF Bind
<1>8. CASE MarkEffects(j)
  BY <1>1, <1>8 DEF MarkEffects, At, Others
<1>9. CASE PrepareScheduled(j)
  BY <1>1, <1>2, <1>9, GotoMoves, GotoFinishMoves DEF PrepareScheduled, At, Others
<1>10. CASE PublishScheduled(j)
  BY <1>1, <1>10 DEF PublishScheduled, At, Others, ProcRecord
<1>11. CASE CompleteJob(j)
  BY <1>1, <1>2, <1>11, GotoMoves DEF CompleteJob, At, Others
<1> QED
  BY <1>3, <1>4, <1>5, <1>6, <1>7, <1>8, <1>9, <1>10, <1>11 DEF JobStep

(* A turn, for both kinds of run; NotifyMoves has the remaining step. *)
LEMMA RunMoves ==
  ASSUME TypeOK, NEW r \in Runs, RunStep(r), ~ NotifyFinished(r)
  PROVE  /\ Others(r)
         /\ \/ /\ proc[r].pc = "begun" /\ proc'[r].pc \in {"claimed", "over", "finishing"}
               /\ proc'[r].pc = "claimed" => slot.run = r
               /\ UNCHANGED <<slot, ledger, results>>
            \/ /\ proc[r].pc = "claimed" /\ proc'[r].pc \in {"running", "bind"}
               /\ proc'[r].pc = "bind" => r \in Scheduled
               /\ CreateLedger(r) /\ UNCHANGED <<slot, results>>
            \/ /\ proc[r].pc = "running" /\ proc'[r].pc \in {"running", "answered", "finishing"}
               /\ slot'.run = slot.run /\ UNCHANGED <<ledger, results>>
            \/ /\ proc[r].pc = "ready" /\ proc'[r].pc = "committed"
               /\ slot.run = r /\ Vacate
               /\ results' = results \cup {Turn(r)} /\ ledger' = ledger
            \/ /\ proc[r].pc = "ready" /\ proc'[r].pc = "finishing"
               /\ UNCHANGED <<slot, ledger, results>>
            \/ /\ proc[r].pc = "finishing" /\ proc'[r].pc = "removed"
               /\ slot.run = r /\ Vacate /\ UNCHANGED <<ledger, results>>
            \/ /\ proc[r].pc = "finishing" /\ proc'[r].pc \in {"wait", "over", "returned"}
               /\ slot.run # r /\ UNCHANGED <<slot, ledger, results>>
<1>1. /\ proc \in [Runs -> ProcRecord] /\ proc[r].next \in {"reporting", "wait", "over"}
      /\ slot \in [run : Runs \cup {NoRun}, interrupts : SUBSET Direct]
      /\ r \notin Direct => r \in Scheduled
  BY DEF TypeOK, ProcRecord, Runs
<1>2. {"claimed", "over", "running", "bind", "answered", "committed", "removed", "wait",
       "returned"} \subseteq ProcPC /\ "cancelled" \in Finals
  BY DEF ProcPC, Finals
<1>3. CASE ClaimRun(r)
  BY <1>1, <1>2, <1>3, GotoMoves, GotoFinishMoves DEF ClaimRun, At, Others
<1>4. CASE OpenLedger(r)
  BY <1>1, <1>2, <1>4, GotoMoves DEF OpenLedger, At, Others
<1>5. CASE Drain(r)
  BY <1>1, <1>5 DEF Drain, At, Others
<1>6. CASE ProviderAnswers(r)
  BY <1>1, <1>2, <1>6, GotoMoves DEF ProviderAnswers, At, Others
<1>7. ASSUME NEW final \in Finals, TurnEnds(r, final)
      PROVE  /\ Others(r) /\ UNCHANGED <<slot, ledger, results>>
             /\ proc[r].pc = "running" /\ proc'[r].pc = "finishing"
  BY <1>1, <1>7, GotoFinishMoves DEF TurnEnds, At, Others
<1>8. CASE Commit(r)
  BY <1>1, <1>2, <1>8, GotoMoves, GotoFinishMoves DEF Commit, MayCommit, At, Others
<1>9. CASE FinishRun(r)
  <2>1. CASE slot.run = r
    BY <1>1, <1>2, <1>9, <2>1, GotoMoves DEF FinishRun, At, Others
  <2>2. CASE slot.run # r
    <3>1. \E pc \in {"wait", "over", "returned"} : Goto(r, pc)
      BY <1>1, <1>9, <2>2 DEF FinishRun
    <3> QED
      BY <1>1, <1>2, <1>9, <2>2, <3>1, GotoMoves DEF FinishRun, At, Others
  <2> QED
    BY <2>1, <2>2
<1> QED
  BY <1>3, <1>4, <1>5, <1>6, <1>7, <1>8, <1>9 DEF RunStep

(* A call of cancelAgentRun. *)
LEMMA CancelMoves ==
  ASSUME TypeOK, CancellerShape, NEW c \in Cancellers, CancelStep(c)
  PROVE  /\ \A e \in Cancellers \ {c} : canceller'[e] = canceller[e]
         /\ \/ /\ canceller[c].pc = "idle" /\ canceller'[c].pc \in {"signal", "finish"}
               /\ slot.run # NoRun /\ canceller'[c].run = slot.run
               /\ canceller'[c].pc = "signal" => canceller'[c].ctx \in Turns
               /\ claims' = claims \cup {Current} /\ UNCHANGED <<slot, proc, ledger>>
            \/ /\ canceller[c].pc \in {"idle", "signal", "finish"} /\ canceller'[c].pc = "over"
               /\ UNCHANGED <<slot, claims, proc, ledger>>
            \/ /\ canceller[c].pc = "finish" /\ canceller'[c].pc = "removed"
               /\ canceller'[c].run = canceller[c].run
               /\ slot.run = canceller[c].run /\ slot.run # NoRun /\ Vacate
               /\ UNCHANGED <<claims, proc, ledger>>
            \/ /\ canceller[c].pc = "removed" /\ canceller'[c].pc = "reporting"
               /\ canceller'[c].run = canceller[c].run
               /\ proc' = Woken(proc) /\ UNCHANGED <<slot, claims, ledger>>
            \/ /\ canceller[c].pc = "reporting" /\ canceller'[c].pc = "over"
               /\ canceller[c].run \in Runs
               /\ PublishTerminal(canceller[c].run) /\ UNCHANGED <<slot, claims, proc>>
<1>1. /\ canceller \in [Cancellers -> CancelRecord]
      /\ control.ctx \in Turns \cup {NoCtx}
      /\ NoRun \notin Runs
  BY RunControlAssumption DEF TypeOK
<1>2. CASE RequestCancel(c)
  <2> DEFINE rec == [pc |-> IF control.ctx # NoCtx THEN "signal" ELSE "finish",
                     run |-> slot.run, ctx |-> control.ctx]
  <2>1. /\ rec.pc \in {"signal", "finish"} /\ rec.run = slot.run
        /\ rec.pc = "signal" => rec.ctx \in Turns
    BY <1>1
  <2>2. canceller' = [canceller EXCEPT ![c] = rec]
    BY <1>2 DEF RequestCancel
  <2> HIDE DEF rec
  <2> QED
    BY <1>1, <1>2, <2>1, <2>2 DEF RequestCancel
<1>3. CASE CancelRefused(c) \/ SignalWorker(c)
  BY <1>1, <1>3 DEF CancelRefused, SignalWorker, CancelRecord
<1>4. CASE FinishUnowned(c)
  <2>1. canceller[c].run \in Runs
    BY <1>4 DEF FinishUnowned, CancellerShape
  <2>2. CASE MayFinish(c)
    <3>1. /\ canceller' = [canceller EXCEPT ![c].pc = "removed", ![c].ctx = control.ctx]
          /\ canceller[c].pc = "finish"
          /\ Vacate /\ UNCHANGED <<claims, proc, ledger>>
      BY <1>4, <2>2 DEF FinishUnowned
    <3> QED
      BY <1>1, <2>1, <2>2, <3>1 DEF MayFinish, CancelRecord
  <2>3. CASE ~ MayFinish(c)
    BY <1>1, <1>4, <2>3 DEF FinishUnowned, CancelRecord
  <2> QED
    BY <2>2, <2>3
<1>5. CASE CancelNotifies(c)
  BY <1>1, <1>5 DEF CancelNotifies, CancelRecord
<1>6. CASE CancelPublishes(c)
  BY <1>1, <1>6 DEF CancelPublishes, CancelRecord, CancellerShape
<1> QED
  BY <1>2, <1>3, <1>4, <1>5, <1>6 DEF CancelStep

-----------------------------------------------------------------------------
(* The parts of the invariant *)

(* Nobody works for a run that has not begun. *)
LEMMA StartPreserved ==
  ASSUME TypeOK, StartShape, CancellerShape, [Next]_vars
  PROVE  StartShape'
<1>1. \A r \in Runs : starts[r] \in Nat /\ starts'[r] \in Nat /\ starts[r] <= starts'[r]
  <2>1. starts \in [Runs -> Nat]
    BY DEF TypeOK
  <2>2. CASE Begins
    BY <2>1, <2>2 DEF Begins, Admit
  <2>3. CASE starts' = starts
    BY <2>1, <2>3
  <2> QED
    BY <2>2, <2>3, KindsOfSteps DEF Keeps, Cancels, Answers, Ends
<1>2. Direct \subseteq Runs /\ Scheduled \subseteq Runs
  BY DEF Runs
<1> SUFFICES ASSUME NEW r \in Runs, proc'[r].pc \in BegunPC
             PROVE  proc[r].pc \in BegunPC \/ starts'[r] > 0
  BY <1>1 DEF StartShape
<1>3. CASE UNCHANGED vars
  BY <1>3 DEF vars
<1>4. ASSUME NEW d \in Direct, PostStep(d)
      PROVE  proc[r].pc \in BegunPC \/ starts'[r] > 0
  <2>1. Admit(d) => starts'[d] > 0
    BY <1>1, <1>2 DEF Admit, TypeOK
  <2> QED
    BY <1>4, <2>1, PostMoves DEF Others, BegunPC
<1>5. ASSUME NEW j \in Scheduled, JobStep(j)
      PROVE  proc[r].pc \in BegunPC \/ starts'[r] > 0
  <2>1. Admit(j) => starts'[j] > 0
    BY <1>1, <1>2 DEF Admit, TypeOK
  <2> QED
    BY <1>5, <2>1, JobMoves DEF Others, BegunPC
<1>6. ASSUME NEW s \in Runs, RunStep(s)
      PROVE  proc[r].pc \in BegunPC
  <2>1. CASE NotifyFinished(s)
    BY <2>1, NotifyMoves DEF BegunPC, NotifyFinished, At
  <2>2. CASE ~ NotifyFinished(s)
    BY <1>6, <2>2, RunMoves DEF Others, BegunPC
  <2> QED
    BY <2>1, <2>2
<1>7. ASSUME NEW c \in Cancellers, CancelStep(c)
      PROVE  proc[r].pc \in BegunPC
  BY <1>7, CancelMoves, WokenMoves DEF BegunPC
<1> QED
  BY <1>3, <1>4, <1>5, <1>6, <1>7 DEF Next

(* A job held by the worker is running and has an attempt left. *)
LEMMA JobPreserved ==
  ASSUME TypeOK, JobShape, CancellerShape, [Next]_vars
  PROVE  JobShape'
<1>1. /\ job \in [Scheduled -> JobRecord]
      /\ Scheduled \subseteq Runs /\ Direct \cap Scheduled = {} /\ MaxAttempts \in Nat
  BY RunControlAssumption DEF TypeOK, Runs
<1>2. CASE UNCHANGED vars
  BY <1>2 DEF vars, JobShape, At
<1>3. ASSUME NEW d \in Direct, PostStep(d)
      PROVE  JobShape'
  BY <1>1, <1>3, PostMoves, PostFrame DEF Others, JobShape, At
<1>4. ASSUME NEW j \in Scheduled, JobStep(j)
      PROVE  JobShape'
  <2>1. CASE job' = [job EXCEPT ![j] = Settled(j)] /\ proc'[j].pc = "idle" /\ proc[j].pc = "returned"
    <3>1. job[j].attempt \in Nat
      BY <1>1 DEF JobRecord
    <3>2. Settled(j).status \in {"queued", "running"} => Settled(j).attempt < MaxAttempts
      <4>1. proc[j].final \in Finals
        BY <1>1 DEF TypeOK, ProcRecord
      <4>2. CASE proc[j].final # "failed"
        BY <1>1, <4>1, <4>2 DEF Settled, JobRecord, Finals
      <4>3. CASE proc[j].final = "failed"
        <5> DEFINE status == IF job[j].attempt + 1 < MaxAttempts /\ ~ job[j].effects
                             THEN "queued" ELSE "failed"
        <5>1. Settled(j) = [job[j] EXCEPT !.attempt = @ + 1, !.status = status]
          BY <4>3 DEF Settled
        <5>2. status = "queued" => job[j].attempt + 1 < MaxAttempts
          OBVIOUS
        <5>3. status # "running"
          OBVIOUS
        <5> HIDE DEF status
        <5> QED
          BY <1>1, <5>1, <5>2, <5>3 DEF JobRecord
      <4> QED
        BY <4>2, <4>3
    <3> QED
      BY <1>1, <1>4, <2>1, <3>2, JobMoves DEF Others, JobShape, At
  <2>2. CASE ~ (job' = [job EXCEPT ![j] = Settled(j)] /\ proc'[j].pc = "idle" /\ proc[j].pc = "returned")
    <3>1. \A i \in Scheduled : /\ job'[i].attempt = job[i].attempt
                               /\ job'[i].status \in {"queued", "running"} =>
                                    job[i].status \in {"queued", "running"}
                               /\ i # j => job'[i] = job[i] /\ proc'[i] = proc[i]
      BY <1>1, <1>4, <2>2, JobMoves DEF Others, JobRecord
    <3>2. job'[j].status = "running"
      BY <1>1, <1>4, <2>2, JobMoves DEF JobRecord, JobShape, At
    <3> QED
      BY <3>1, <3>2 DEF JobShape, At
  <2> QED
    BY <2>1, <2>2
<1>5. ASSUME NEW r \in Runs, RunStep(r)
      PROVE  JobShape'
  <2>1. job' = job
    BY <1>5, RunFrame
  <2>2. \A i \in Scheduled : proc[i].pc = "idle" => proc'[i].pc = "idle"
    <3>1. CASE NotifyFinished(r)
      BY <1>1, <3>1, NotifyMoves DEF NotifyFinished, At
    <3>2. CASE ~ NotifyFinished(r)
      BY <1>1, <1>5, <3>2, RunMoves DEF Others
    <3> QED
      BY <3>1, <3>2
  <2> QED
    BY <2>1, <2>2 DEF JobShape, At
<1>6. ASSUME NEW c \in Cancellers, CancelStep(c)
      PROVE  JobShape'
  BY <1>1, <1>6, CancelMoves, CancelFrame, WokenMoves DEF JobShape, At
<1> QED
  BY <1>2, <1>3, <1>4, <1>5, <1>6 DEF Next

(* A canceller keeps the run whose cancellation it has claimed. *)
LEMMA CancellerPreserved ==
  ASSUME TypeOK, CancellerShape, [Next]_vars
  PROVE  CancellerShape'
<1>1. slot.run \in Runs \cup {NoRun}
  BY DEF TypeOK
<1>2. claims \subseteq claims'
  BY KindsOfSteps DEF Begins, Keeps, Cancels, Answers, Ends
<1>3. CASE canceller' = canceller
  BY <1>2, <1>3 DEF CancellerShape
<1>4. ASSUME NEW c \in Cancellers, CancelStep(c)
      PROVE  CancellerShape'
  <2>1. ASSUME NEW e \in Cancellers \ {c}
        PROVE  /\ canceller'[e].pc \notin {"idle", "over"} =>
                    canceller'[e].run \in Runs /\ \E t \in claims' : t[1] = canceller'[e].run
               /\ canceller'[e].pc = "signal" => canceller'[e].ctx \in Turns
    BY <1>2, <1>4, CancelMoves DEF CancellerShape
  <2>2. Current[1] = slot.run
    BY DEF Current, Turn
  <2>3. /\ canceller'[c].pc \notin {"idle", "over"} =>
             canceller'[c].run \in Runs /\ \E t \in claims' : t[1] = canceller'[c].run
        /\ canceller'[c].pc = "signal" => canceller'[c].ctx \in Turns
    BY <1>1, <1>2, <1>4, <2>2, CancelMoves DEF CancellerShape
  <2> QED
    BY <2>1, <2>3 DEF CancellerShape
<1> QED
  BY <1>3, <1>4, PostFrame, JobFrame, RunFrame DEF Next, vars

(* Who frees the slot is on the way to waking the watchers. *)
LEMMA WatchersPreserved ==
  ASSUME TypeOK, CancellerShape, WatchersAreWoken, [Next]_vars
  PROVE  WatchersAreWoken'
<1>1. /\ Direct \subseteq Runs /\ Scheduled \subseteq Runs
      /\ slot.run \in Runs \cup {NoRun} /\ NoRun \notin Runs
  BY RunControlAssumption DEF TypeOK, Runs
<1>2. CASE UNCHANGED vars
  BY <1>2 DEF vars, WatchersAreWoken, Waking, At
<1>3. ASSUME NEW d \in Direct, PostStep(d)
      PROVE  WatchersAreWoken'
  <2>1. slot.run # NoRun => slot'.run # NoRun
    BY <1>1, <1>3, PostMoves DEF Admit
  <2>2. Waking => Waking'
    BY <1>1, <1>3, PostMoves, PostFrame DEF Others, Waking
  <2>3. (\E r \in Runs : At(r, "watching"))' => \E r \in Runs : At(r, "watching")
    BY <1>1, <1>3, PostMoves DEF Others, At
  <2> QED
    BY <2>1, <2>2, <2>3 DEF WatchersAreWoken
<1>4. ASSUME NEW j \in Scheduled, JobStep(j)
      PROVE  WatchersAreWoken'
  <2>1. slot.run # NoRun => slot'.run # NoRun
    BY <1>1, <1>4, JobMoves DEF Admit
  <2>2. Waking => Waking'
    BY <1>1, <1>4, JobMoves, JobFrame DEF Others, Waking
  <2>3. (\E r \in Runs : At(r, "watching"))' => \/ \E r \in Runs : At(r, "watching")
                                                \/ slot.run # NoRun
    BY <1>1, <1>4, JobMoves DEF Others, At
  <2> QED
    BY <2>1, <2>2, <2>3 DEF WatchersAreWoken
<1>5. ASSUME NEW r \in Runs, RunStep(r)
      PROVE  WatchersAreWoken'
  <2>1. CASE NotifyFinished(r)
    <3>1. \A s \in Runs : proc'[s].pc # "watching"
      BY <2>1, NotifyMoves
    <3> QED
      BY <3>1 DEF WatchersAreWoken, At
  <2>2. CASE ~ NotifyFinished(r)
    <3>1. Waking => Waking'
      BY <1>5, <2>2, RunMoves, RunFrame DEF Others, Waking
    <3>2. slot.run # NoRun => slot'.run # NoRun \/ Waking'
      BY <1>5, <2>2, RunMoves DEF Waking
    <3>3. (\E s \in Runs : At(s, "watching"))' => \E s \in Runs : At(s, "watching")
      BY <1>5, <2>2, RunMoves DEF Others, At
    <3> QED
      BY <3>1, <3>2, <3>3 DEF WatchersAreWoken
  <2> QED
    BY <2>1, <2>2
<1>6. ASSUME NEW c \in Cancellers, CancelStep(c)
      PROVE  WatchersAreWoken'
  <2>1. CASE proc' = Woken(proc)
    BY <2>1, WokenMoves DEF WatchersAreWoken, At
  <2>2. CASE proc' # Woken(proc)
    <3>1. proc' = proc /\ (Waking => Waking') /\ (slot.run # NoRun => slot'.run # NoRun \/ Waking')
      BY <1>6, <2>2, CancelMoves DEF Waking
    <3> QED
      BY <3>1 DEF WatchersAreWoken, At
  <2> QED
    BY <2>1, <2>2
<1> QED
  BY <1>2, <1>3, <1>4, <1>5, <1>6 DEF Next

(* Only a canceller's finish can take the slot from a turn. *)
LEMMA TurnsPreserved ==
  ASSUME TypeOK, CancellerShape, TurnsOwnTheSlot, [Next]_vars
  PROVE  TurnsOwnTheSlot'
<1>1. /\ Direct \subseteq Runs /\ Scheduled \subseteq Runs
      /\ slot.run \in Runs \cup {NoRun} /\ NoRun \notin Runs
  BY RunControlAssumption DEF TypeOK, Runs
<1>2. claims \subseteq claims'
  BY KindsOfSteps DEF Begins, Keeps, Cancels, Answers, Ends
<1> SUFFICES ASSUME NEW r \in Runs, InTurn(r)'
             PROVE  slot'.run = r \/ \E t \in claims : t[1] = r
  BY <1>2 DEF TurnsOwnTheSlot
<1> DEFINE Safe == slot'.run = r \/ \E t \in claims : t[1] = r
<1>3. InTurn(r) => slot.run = r \/ \E t \in claims : t[1] = r
  BY DEF TurnsOwnTheSlot
<1>4. CASE UNCHANGED vars
  BY <1>3, <1>4 DEF vars, InTurn
<1>5. ASSUME NEW d \in Direct, PostStep(d)
      PROVE  Safe
  BY <1>1, <1>3, <1>5, PostMoves DEF Others, InTurn, Admit
<1>6. ASSUME NEW j \in Scheduled, JobStep(j)
      PROVE  Safe
  BY <1>1, <1>3, <1>6, JobMoves DEF Others, InTurn, Admit
<1>7. ASSUME NEW s \in Runs, RunStep(s)
      PROVE  Safe
  <2>1. CASE NotifyFinished(s)
    <3>1. slot' = slot
      BY <2>1 DEF NotifyFinished
    <3>2. InTurn(r)
      BY <2>1, NotifyMoves DEF InTurn
    <3> QED
      BY <1>3, <3>1, <3>2
  <2>2. CASE ~ NotifyFinished(s)
    BY <1>1, <1>3, <1>7, <2>2, RunMoves DEF Others, InTurn
  <2> QED
    BY <2>1, <2>2
<1>8. ASSUME NEW c \in Cancellers, CancelStep(c)
      PROVE  Safe
  <2>1. InTurn(r)
    BY <1>8, CancelMoves, WokenMoves DEF InTurn
  <2>2. slot' = slot \/ (canceller[c].pc = "finish" /\ slot.run = canceller[c].run)
    BY <1>8, CancelMoves
  <2>3. CASE canceller[c].pc = "finish" /\ slot.run = canceller[c].run
    BY <1>3, <2>1, <2>3 DEF CancellerShape
  <2> QED
    BY <1>3, <2>1, <2>2, <2>3
<1> QED
  BY <1>4, <1>5, <1>6, <1>7, <1>8 DEF Next

(* A marked run is never queued again after its commit, an unmarked one     *)
(* only by a failed attempt. *)
LEMMA MarkPreserved ==
  ASSUME TypeOK, CancellerShape, MarkShape, [Next]_vars
  PROVE  MarkShape'
<1>1. /\ Direct \subseteq Runs /\ Scheduled \subseteq Runs /\ Direct \cap Scheduled = {}
      /\ job \in [Scheduled -> JobRecord] /\ proc \in [Runs -> ProcRecord]
  BY RunControlAssumption DEF TypeOK, Runs
<1> SUFFICES ASSUME NEW j \in Scheduled
             PROVE  /\ j \notin Unmarked =>
                         /\ At(j, "ready")' => job'[j].effects
                         /\ Answered(j)' => job'[j].effects
                    /\ ~ MayRepeat(j)' =>
                         /\ Answered(j)' =>
                              /\ proc'[j].pc \in {"committed", "reporting", "returned", "idle"}
                              /\ At(j, "idle")' => job'[j].status # "queued"
                         /\ \A t, u \in results' : t[1] = j /\ u[1] = j => t = u
  BY DEF MarkShape
<1> DEFINE Marked == /\ j \notin Unmarked =>
                          /\ proc'[j].pc = "ready" => job'[j].effects
                          /\ Answered(j)' => job'[j].effects
                     /\ j \notin Unmarked \/ ~ (job'[j].attempt > 0) =>
                          /\ Answered(j)' =>
                               /\ proc'[j].pc \in {"committed", "reporting", "returned", "idle"}
                               /\ proc'[j].pc = "idle" => job'[j].status # "queued"
                          /\ \A t, u \in results' : t[1] = j /\ u[1] = j => t = u
<1>0. job[j] \in JobRecord /\ job[j].attempt \in Nat
  BY <1>1, RunControlAssumption DEF JobRecord
<1>2. /\ j \notin Unmarked =>
           /\ proc[j].pc = "ready" => job[j].effects
           /\ Answered(j) => job[j].effects
      /\ j \notin Unmarked \/ ~ (job[j].attempt > 0) =>
           /\ Answered(j) =>
                /\ proc[j].pc \in {"committed", "reporting", "returned", "idle"}
                /\ proc[j].pc = "idle" => job[j].status # "queued"
           /\ \A t, u \in results : t[1] = j /\ u[1] = j => t = u
  BY DEF MarkShape, MayRepeat, At
<1>3. ASSUME proc'[j] = proc[j], job'[j] = job[j], results' = results
      PROVE  Marked
  <2>1. Answered(j)' <=> Answered(j)
    BY <1>3 DEF Answered
  <2> QED
    BY <1>2, <1>3, <2>1
<1>4. ASSUME NEW d \in Direct, PostStep(d)
      PROVE  Marked
  BY <1>1, <1>3, <1>4, PostMoves, PostFrame DEF Others
<1>5. ASSUME NEW i \in Scheduled, JobStep(i)
      PROVE  Marked
  <2>1. CASE i # j
    BY <1>1, <1>3, <1>5, <2>1, JobMoves, JobFrame DEF Others
  <2>2. CASE i = j
    <3>1. results' = results /\ Answered(j)' = Answered(j)
      BY <1>5, JobFrame DEF Answered
    <3>2. CASE proc[j].pc = "returned"
      <4>1. proc[j].final \in Finals
        BY <1>1 DEF ProcRecord
      <4>2. /\ Settled(j).effects = job[j].effects
            /\ job[j].effects => Settled(j).status # "queued"
        BY <1>1, <4>1 DEF Settled, JobRecord, Finals
      <4>3. ~ (Settled(j).attempt > 0) =>
              ~ (job[j].attempt > 0) /\ Settled(j).status # "queued"
        BY <1>0, <1>1, <4>1 DEF Settled, JobRecord, Finals
      <4>4. /\ job'[j] = Settled(j) /\ proc'[j].pc = "idle"
        BY <1>1, <1>5, <2>2, <3>2, JobMoves
      <4> QED
        BY <1>2, <3>1, <3>2, <4>2, <4>3, <4>4
    <3>3. CASE proc[j].pc # "returned"
      BY <1>1, <1>2, <1>5, <2>2, <3>1, <3>3, JobMoves DEF JobRecord
    <3> QED
      BY <3>2, <3>3
  <2> QED
    BY <2>1, <2>2
<1>6. ASSUME NEW r \in Runs, RunStep(r)
      PROVE  Marked
  <2>1. job' = job
    BY <1>6, RunFrame
  <2>2. CASE NotifyFinished(r)
    <3>1. results' = results /\ proc[r].pc \in {"committed", "removed"}
      BY <2>2 DEF NotifyFinished, At
    <3>2. proc[r].next \in {"reporting", "wait", "over"}
      BY <1>1 DEF ProcRecord
    <3> QED
      BY <1>1, <1>2, <2>1, <2>2, <3>1, <3>2, NotifyMoves DEF Answered, At
  <2>3. CASE ~ NotifyFinished(r) /\ r # j
    <3>1. \A t \in results' : t[1] = j => t \in results
      BY <1>6, <2>3, RunMoves DEF Turn
    <3>2. proc'[j] = proc[j]
      BY <1>1, <1>6, <2>3, RunMoves DEF Others
    <3> QED
      BY <1>2, <2>1, <3>1, <3>2 DEF Answered
  <2>4. CASE ~ NotifyFinished(r) /\ r = j
    <3>1. CASE results' = results
      BY <1>2, <1>6, <2>1, <2>4, <3>1, RunMoves DEF Answered
    <3>2. CASE /\ proc[j].pc = "ready" /\ proc'[j].pc = "committed"
               /\ results' = results \cup {Turn(j)}
      BY <1>2, <2>1, <3>2 DEF Answered
    <3> QED
      BY <1>6, <2>4, <3>1, <3>2, RunMoves
  <2> QED
    BY <2>2, <2>3, <2>4
<1>7. ASSUME NEW c \in Cancellers, CancelStep(c)
      PROVE  Marked
  <2>1. job' = job /\ results' = results
    BY <1>7, CancelFrame
  <2>2. proc' = proc \/ proc' = Woken(proc)
    BY <1>7, CancelMoves
  <2> QED
    BY <1>1, <1>2, <2>1, <2>2, WokenMoves DEF Answered
<1>8. ASSUME UNCHANGED vars
      PROVE  Marked
  BY <1>3, <1>8 DEF vars
<1> QED
  BY <1>4, <1>5, <1>6, <1>7, <1>8 DEF Next, At, MayRepeat

(* Of those who race to end a direct run, one owes it the terminal event. *)
LEMMA ReportPreserved ==
  ASSUME TypeOK, SlotShape, StartShape, CancellerShape, ReportShape, [Next]_vars
  PROVE  ReportShape'
<1>1. /\ Direct \subseteq Runs /\ Scheduled \subseteq Runs /\ Direct \cap Scheduled = {}
      /\ slot.run \in Runs \cup {NoRun} /\ NoRun \notin Runs
      /\ starts \in [Runs -> Nat]
      /\ ledger \in [Runs -> [open : BOOLEAN, terminals : Nat]]
  BY RunControlAssumption DEF TypeOK, Runs
<1> SUFFICES ASSUME NEW d \in Direct
             PROVE  /\ proc'[d].pc \in {"idle", "busy", "queued", "again"} => starts'[d] = 0
                    /\ starts'[d] <= 1
                    /\ ledger'[d].terminals <= 1
                    /\ ledger'[d].terminals = 1 =>
                         /\ starts'[d] = 1 /\ slot'.run # d /\ ~ ProcOwes(d)'
                         /\ \A c \in Cancellers : ~ CancelOwes(c, d)'
                    /\ ProcOwes(d)' =>
                         slot'.run # d /\ \A c \in Cancellers : ~ CancelOwes(c, d)'
                    /\ \A c \in Cancellers :
                         CancelOwes(c, d)' =>
                           /\ starts'[d] = 1 /\ slot'.run # d
                           /\ \A e \in Cancellers : CancelOwes(e, d)' => e = c
  BY DEF ReportShape
<1> DEFINE Early == proc[d].pc \in {"idle", "busy", "queued", "again"}
           Single == \A c, e \in Cancellers : CancelOwes(c, d) /\ CancelOwes(e, d) => e = c
           Owed == \E c \in Cancellers : CancelOwes(c, d)
           Reported == /\ Early' => starts'[d] = 0
                       /\ starts'[d] <= 1
                       /\ ledger'[d].terminals <= 1
                       /\ ledger'[d].terminals = 1 =>
                            starts'[d] = 1 /\ slot'.run # d /\ ~ ProcOwes(d)' /\ ~ Owed'
                       /\ ProcOwes(d)' => slot'.run # d /\ ~ Owed'
                       /\ Owed' => starts'[d] = 1 /\ slot'.run # d
                       /\ Single'
<1>2. /\ Early => starts[d] = 0
      /\ starts[d] <= 1
      /\ ledger[d].terminals <= 1
      /\ ledger[d].terminals = 1 => starts[d] = 1 /\ slot.run # d /\ ~ ProcOwes(d) /\ ~ Owed
      /\ ProcOwes(d) => slot.run # d /\ ~ Owed
      /\ Owed => starts[d] = 1 /\ slot.run # d
      /\ Single
  BY DEF ReportShape
<1>3. starts[d] \in Nat /\ ledger[d].terminals \in Nat /\ d \in Runs
  BY <1>1
<1>4. ProcOwes(d) => starts[d] > 0
  BY <1>3 DEF ProcOwes, StartShape, BegunPC
<1>5. slot.run = d => starts[d] > 0
  BY <1>1 DEF SlotShape
<1>6. ASSUME canceller' = canceller
      PROVE  (Owed' <=> Owed) /\ (Single' <=> Single)
  BY <1>6 DEF CancelOwes
<1>7. \A r \in Runs : PublishTerminal(r) =>
        /\ r # d => ledger'[d] = ledger[d]
        /\ r = d => ledger'[d].terminals \in {ledger[d].terminals, ledger[d].terminals + 1}
  BY <1>1 DEF PublishTerminal
<1>8. \A r \in Runs : CreateLedger(r) =>
        /\ r # d => ledger'[d] = ledger[d]
        /\ r = d => ledger'[d].terminals = 0
  BY <1>1 DEF CreateLedger
<1>9. \A r \in Runs : Admit(r) =>
        /\ r # d => starts'[d] = starts[d]
        /\ r = d => starts'[d] = starts[d] + 1
        /\ slot.run = NoRun /\ slot'.run = r
  BY <1>1 DEF Admit
<1>10. CASE UNCHANGED vars
  BY <1>2, <1>10 DEF vars, ProcOwes, CancelOwes
<1>11. ASSUME NEW p \in Direct, PostStep(p)
       PROVE  Reported
  <2>1. /\ Owed' <=> Owed
        /\ Single' <=> Single
    BY <1>6, <1>11, PostFrame
  <2>2. CASE p # d
    <3>1. proc'[d] = proc[d]
      BY <1>1, <1>11, <2>2, PostMoves DEF Others
    <3>2. ProcOwes(d)' <=> ProcOwes(d)
      BY <3>1 DEF ProcOwes
    <3>3. /\ starts'[d] = starts[d] /\ ledger'[d] = ledger[d]
          /\ slot'.run # d \/ slot'.run = slot.run
      BY <1>1, <1>7, <1>9, <1>11, <2>2, PostMoves
    <3> QED
      BY <1>2, <2>1, <3>1, <3>2, <3>3
  <2>3. CASE p = d
    BY <1>1, <1>2, <1>3, <1>4, <1>7, <1>9, <1>11, <2>1, <2>3, PostMoves DEF ProcOwes
  <2> QED
    BY <2>2, <2>3
<1>12. ASSUME NEW j \in Scheduled, JobStep(j)
       PROVE  Reported
  <2>1. /\ Owed' <=> Owed
        /\ Single' <=> Single
    BY <1>6, <1>12, JobFrame
  <2>2. proc'[d] = proc[d] /\ j # d
    BY <1>1, <1>12, JobMoves DEF Others
  <2>3. ProcOwes(d)' <=> ProcOwes(d)
    BY <2>2 DEF ProcOwes
  <2>4. /\ starts'[d] = starts[d] /\ ledger'[d] = ledger[d]
        /\ slot'.run # d \/ slot'.run = slot.run
    BY <1>1, <1>7, <1>9, <1>12, <2>2, JobMoves
  <2> QED
    BY <1>2, <2>1, <2>2, <2>3, <2>4
<1>13. ASSUME NEW r \in Runs, RunStep(r)
       PROVE  Reported
  <2>1. /\ Owed' <=> Owed
        /\ Single' <=> Single
        /\ starts' = starts
    BY <1>6, <1>13, RunFrame
  <2>2. CASE NotifyFinished(r)
    <3>1. UNCHANGED <<slot, ledger>> /\ proc[r].pc \in {"committed", "removed"}
      BY <2>2 DEF NotifyFinished, At
    <3>2. (ProcOwes(d)' => ProcOwes(d)) /\ (Early' => Early)
      BY <1>3, <2>2, <3>1, NotifyMoves DEF ProcOwes
    <3> QED
      BY <1>2, <2>1, <3>1, <3>2
  <2>3. CASE ~ NotifyFinished(r) /\ r # d
    <3>1. proc'[d] = proc[d]
      BY <1>3, <1>13, <2>3, RunMoves DEF Others
    <3>2. ProcOwes(d)' <=> ProcOwes(d)
      BY <3>1 DEF ProcOwes
    <3>3. /\ ledger'[d] = ledger[d]
          /\ slot'.run # d \/ slot'.run = slot.run
      BY <1>1, <1>8, <1>13, <2>3, RunMoves DEF Vacate, Free
    <3> QED
      BY <1>2, <2>1, <3>1, <3>2, <3>3
  <2>4. CASE ~ NotifyFinished(r) /\ r = d
    BY <1>1, <1>2, <1>3, <1>5, <1>8, <1>13, <2>1, <2>4, RunMoves DEF ProcOwes, Vacate, Free
  <2> QED
    BY <2>2, <2>3, <2>4
<1>14. ASSUME NEW c \in Cancellers, CancelStep(c)
       PROVE  Reported
  <2>1. starts' = starts
    BY <1>14, CancelFrame
  <2>2. (ProcOwes(d)' <=> ProcOwes(d)) /\ (Early' => Early)
    BY <1>3, <1>14, CancelMoves, WokenMoves DEF ProcOwes
  <2>3. \A e \in Cancellers \ {c} : CancelOwes(e, d)' <=> CancelOwes(e, d)
    BY <1>14, CancelMoves DEF CancelOwes
  <2>4. CASE canceller[c].pc = "finish" /\ canceller'[c].pc = "removed" /\ slot.run = d
    <3>1. /\ canceller'[c].run = d /\ slot'.run = NoRun /\ ledger' = ledger
          /\ CancelOwes(c, d)'
      BY <1>14, <2>4, CancelMoves DEF Vacate, Free, CancelOwes
    <3>2. ~ Owed /\ ~ ProcOwes(d) /\ ledger[d].terminals = 0 /\ starts[d] = 1
      BY <1>2, <1>3, <1>5, <2>4
    <3>3. \A e \in Cancellers \ {c} : ~ CancelOwes(e, d)'
      BY <2>3, <3>2
    <3> QED
      BY <1>1, <1>2, <1>3, <2>1, <2>2, <3>1, <3>2, <3>3
  <2>5. CASE canceller[c].pc = "reporting" /\ canceller[c].run = d
    <3>1. CancelOwes(c, d) /\ ~ CancelOwes(c, d)' /\ slot' = slot
      BY <1>14, <2>5, CancelMoves DEF CancelOwes
    <3>2. starts[d] = 1 /\ slot.run # d /\ ~ ProcOwes(d) /\ ledger[d].terminals = 0
      BY <1>2, <1>3, <3>1
    <3>3. ledger'[d].terminals \in {0, 1}
      BY <1>7, <1>3, <1>14, <2>5, <3>2, CancelMoves
    <3>4. ~ Owed'
      BY <1>2, <2>3, <3>1
    <3> QED
      BY <1>2, <2>1, <2>2, <3>1, <3>2, <3>3, <3>4
  <2>6. CASE /\ ~ (canceller[c].pc = "finish" /\ canceller'[c].pc = "removed" /\ slot.run = d)
             /\ ~ (canceller[c].pc = "reporting" /\ canceller[c].run = d)
    <3>1. CancelOwes(c, d)' => CancelOwes(c, d)
      BY <1>14, <2>6, CancelMoves DEF CancelOwes
    <3>2. /\ slot'.run # d \/ slot'.run = slot.run
          /\ ledger'[d] = ledger[d]
      BY <1>1, <1>7, <1>14, <2>6, CancelMoves DEF Vacate, Free
    <3>3. \A e \in Cancellers : CancelOwes(e, d)' => CancelOwes(e, d)
      BY <2>3, <3>1
    <3> QED
      BY <1>2, <2>1, <2>2, <3>2, <3>3
  <2> QED
    BY <2>4, <2>5, <2>6
<1> QED
  BY <1>10, <1>11, <1>12, <1>13, <1>14 DEF Next

-----------------------------------------------------------------------------
(* The invariant *)

(* Initially. *)
LEMMA InitHolds == Init => IInv
<1> SUFFICES ASSUME Init PROVE IInv
  OBVIOUS
<1> USE RunControlAssumption
<1>1. TypeOK
  BY DEF Init, TypeOK, Free, NoControl, ProcRecord, ProcPC, Finals, CancelRecord, CancelPC,
         JobRecord, JobStatus
<1>2. SlotShape /\ StartShape /\ CancellerShape
  BY DEF Init, Free, SlotShape, StartShape, BegunPC, CancellerShape
<1>3. JobShape /\ MarkShape
  BY DEF Init, JobShape, MarkShape, Answered, At, Runs
<1>4. ReportShape
  BY DEF Init, Free, ReportShape, ProcOwes, CancelOwes, Runs
<1>5. CancelExcludesResult /\ WatchersAreWoken /\ TurnsOwnTheSlot
  BY DEF Init, Free, CancelExcludesResult, WatchersAreWoken, TurnsOwnTheSlot, InTurn, At
<1> QED
  BY <1>1, <1>2, <1>3, <1>4, <1>5 DEF IInv

(* Inductive step. *)
LEMMA NextHolds == IInv /\ [Next]_vars => IInv'
BY TypePreserved, SlotPreserved, StartPreserved, JobPreserved, CancellerPreserved, MarkPreserved,
   ReportPreserved, WatchersPreserved, TurnsPreserved DEF IInv

(* The invariant holds in every reachable state, for any number of posts,   *)
(* scheduled runs and cancellations.                                        *)
THEOREM InvariantHolds == Spec => []IInv
BY InitHolds, NextHolds, PTL DEF Spec

(* The variables keep their types; in particular no scheduled run ever      *)
(* spends more than MaxAttempts attempts.                                   *)
THEOREM TypesHold == Spec => []TypeOK
BY InvariantHolds, PTL DEF IInv

(* CommitResult and RequestCancel are one linearization point: the turn     *)
(* whose cancellation was accepted never commits, and the reverse.          *)
THEOREM CancellationExcludesResult == Spec => []CancelExcludesResult
BY InvariantHolds, PTL DEF IInv

(* No wake-up of a waiting scheduler worker is lost.                        *)
THEOREM NoWakeUpIsLost == Spec => []WatchersAreWoken
BY InvariantHolds, PTL DEF IInv

(* Nobody but a canceller takes the slot from under a turn.                 *)
THEOREM TurnsKeepTheSlot == Spec => []TurnsOwnTheSlot
BY InvariantHolds, PTL DEF IInv

(* Both together, as the run checks them.                                   *)
THEOREM SlotIsAlwaysHandedOver == Spec => []SlotIsHandedOver
<1> QED
  BY TurnsKeepTheSlot, NoWakeUpIsLost, PTL DEF SlotIsHandedOver

(* A direct run's ledger never gets two terminal events, whoever races to   *)
(* end the run.                                                             *)
THEOREM TerminalEventsAreSingle == Spec => []OneTerminalEvent
<1>1. IInv => OneTerminalEvent
  BY DEF IInv, ReportShape, OneTerminalEvent
<1> QED
  BY <1>1, InvariantHolds, PTL

(* No scheduled run commits two results, its retries included, but one      *)
(* whose executor commits without marking effects (plan and monitor events: *)
(* plans.go, monitor_runtime.go), and that one only by a retry the queue has *)
(* counted as failed: never by a cancellation, a wait or a lost claim.      *)
THEOREM ResultsAreSingle == Spec => []ResultsAreNotRepeated
<1>1. IInv => ResultsAreNotRepeated
  BY DEF IInv, MarkShape, ResultsAreNotRepeated
<1> QED
  BY <1>1, InvariantHolds, PTL

-----------------------------------------------------------------------------
(* Refinement *)

(* Initially the slot is empty. *)
LEMMA HolderOfStart == Init => Slot!Init
BY RunControlAssumption DEF Init, Free, NoControl, Slot!Init

(* Each of the five kinds of steps is a step of the slot or leaves it alone. *)
LEMMA StepRefines ==
  ASSUME IInv, [Next]_vars
  PROVE  [Slot!Next]_(Slot!slotVars)
<1> DEFINE holder == IF slot.run = NoRun THEN NoCtx ELSE Current
<1>1. /\ slot.run \in Runs \cup {NoRun} /\ NoRun \notin Runs
      /\ starts \in [Runs -> Nat]
      /\ NoCtx \notin Runs \X Nat
  BY RunControlAssumption DEF IInv, TypeOK
<1>2. slot.run # NoRun => Current # NoCtx
  BY <1>1 DEF Current, Turn
<1>3. CASE Begins
  <2>1. PICK r \in Runs : Admit(r) /\ UNCHANGED <<claims, results, ended>>
    BY <1>3 DEF Begins
  <2>2. /\ slot.run = NoRun /\ slot'.run = r /\ control'.cancelling = FALSE
        /\ starts'[r] = starts[r] + 1 /\ starts[r] \in Nat
    BY <1>1, <2>1 DEF Admit, NoControl
  <2>3. holder = NoCtx /\ holder' = <<r, starts'[r]>>
    BY <1>1, <2>2 DEF Current, Turn
  <2>4. <<r, starts'[r]>> \in Turns \ (results \cup ended)
    BY <1>1, <2>2 DEF IInv, SlotShape, Turns
  <2>5. Slot!Acquire
    BY <2>1, <2>2, <2>3, <2>4 DEF Slot!Acquire
  <2> QED
    BY <2>5 DEF Slot!Next
<1>4. CASE Keeps
  <2>1. holder' = holder
    BY <1>4 DEF Keeps, Current, Turn
  <2> QED
    BY <1>4, <2>1 DEF Keeps, Slot!slotVars
<1>5. CASE Cancels
  <2>1. holder' = holder /\ holder # NoCtx
    BY <1>2, <1>5 DEF Cancels, Current, Turn
  <2>2. Slot!AcceptCancel
    BY <1>5, <2>1 DEF Cancels, Slot!AcceptCancel
  <2> QED
    BY <2>2 DEF Slot!Next
<1>6. CASE Answers
  <2>1. holder = Current /\ holder # NoCtx /\ holder' = NoCtx /\ control'.cancelling = FALSE
    BY <1>2, <1>6 DEF Answers, Vacate, Free, NoControl
  <2>2. Slot!Answer
    BY <1>6, <2>1 DEF Answers, Slot!Answer, Slot!Release
  <2> QED
    BY <2>2 DEF Slot!Next
<1>7. CASE Ends
  <2>1. holder = Current /\ holder # NoCtx /\ holder' = NoCtx /\ control'.cancelling = FALSE
    BY <1>2, <1>7 DEF Ends, Vacate, Free, NoControl
  <2>2. Slot!End
    BY <1>7, <2>1 DEF Ends, Slot!End, Slot!Release
  <2> QED
    BY <2>2 DEF Slot!Next
<1> QED
  BY <1>3, <1>4, <1>5, <1>6, <1>7, KindsOfSteps DEF IInv

(* The registry implements the slot: of every turn that takes it, it is     *)
(* given back once, and without a result once a cancellation was accepted.  *)
THEOREM RegistryImplementsSlot == Spec => SlotSpec
<1>1. Init => Slot!Init
  BY HolderOfStart
<1>2. IInv /\ [Next]_vars => [Slot!Next]_(Slot!slotVars)
  BY StepRefines
<1> QED
  BY <1>1, <1>2, InvariantHolds, PTL DEF Spec, SlotSpec, Slot!Spec

=============================================================================
