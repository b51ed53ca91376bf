------------------------------- MODULE Plans -------------------------------
(***************************************************************************)
(* The work plans of one group: drafts, approval, the owner's decisions    *)
(* about their steps, what the tasks, reviews and other groups report, and *)
(* the plan events that wake the owner.                                    *)
(*                                                                         *)
(* A writer reads a plan, edits its steps IN PLACE (a copied WorkPlan      *)
(* shares its array of steps with the original), and only then replaces    *)
(* the plan under the lock, with or without a check of its version, saves  *)
(* it and schedules an event. Adding a step makes a new array. Work is     *)
(* handed out before the step is edited, and may be over by then.          *)
(***************************************************************************)
EXTENDS Naturals, Sequences, FiniteSets

CONSTANTS
  Plans,       \* the plans of the group
  Steps,       \* the steps a plan may have
  Needs,       \* the steps that a step depends on
  Draft,       \* the steps a plan is drafted with
  Members,     \* the members of the group
  Limit,       \* WorkPlan.MaxConcurrency
  Deciders,    \* the calls of the owner or the user that may be under way at once
  Reporters,   \* the same for reports and transfers
  NoPlan,
  MaxVersion,  \* bound: the versions of a plan
  MaxWork,     \* bound: the tasks, reviews and group requests of a plan
  MaxTroubles  \* bound: the saves that fail and the crashes

ASSUME PlanAssumption ==
  /\ Needs \in [Steps -> SUBSET Steps]
  /\ Draft \subseteq Steps
  /\ Limit \in Nat \ {0}
  /\ NoPlan \notin Plans

Writers == Deciders \cup Reporters

VARIABLES
  plans,    \* the plans in memory; gen tells the array their steps are in
  arrays,   \* the arrays of steps of a plan that have existed
  disk,     \* plans.json
  ops,      \* the calls in flight, each with its copy of the plan
  events,   \* the version of the last plan event that is queued, 0 for none
  work,     \* tasks, reviews and group requests that have not reported, and those
            \* that ended without a report that the step could take ("unheard")
  made,     \* how many of them a plan has had
  excused,  \* history: since its last change the owner of the plan has been woken,
            \* or the change is one that the code announces to nobody
  troubles

vars == <<plans, arrays, disk, ops, events, work, made, excused, troubles>>

PlanStatuses == {"absent", "draft", "awaiting_approval", "active", "paused",
                 "blocked", "completed", "cancelled"}
StepStatuses == {"absent", "pending", "ready", "running", "reviewing",
                 "awaiting_decision", "changes_requested", "completed", "blocked",
                 "skipped"}
Resolved == {"completed", "skipped"}

StepRecord == [status : StepStatuses, review : {"none", "pending", "delivered"}]
PlanRecord == [status : PlanStatuses, version : 0 .. MaxVersion,
               gen : 1 .. 2, owner : Members]
SomeMember == CHOOSE m \in Members : TRUE
AbsentPlan == [status |-> "absent", version |-> 0, gen |-> 1, owner |-> SomeMember]
AbsentSteps == [s \in Steps |-> [status |-> "absent", review |-> "none"]]
NewSteps(set) ==
  [s \in Steps |-> [status |-> IF s \in set THEN "pending" ELSE "absent",
                    review |-> "none"]]

NoOp == [plan |-> NoPlan, event |-> "none", expected |-> 0, base |-> AbsentPlan,
         copy |-> AbsentPlan, given |-> {}, pc |-> "idle"]
Events == {"none", "created", "submitted", "reconciled", "transferred",
           "activated", "advanced", "task", "review", "group"}
WorkKinds == {"task", "rerun", "review", "group", "unheard"}
Work == [plan : Plans, step : Steps, kind : WorkKinds, n : 1 .. MaxWork]

TypeOK ==
  /\ plans \in [Plans -> PlanRecord]
  /\ \A p \in Plans : /\ arrays[p] \in Seq([Steps -> StepRecord])
                      /\ plans[p].gen \in DOMAIN arrays[p]
  /\ disk \in [Plans -> [plan : PlanRecord, steps : [Steps -> StepRecord]]]
  /\ ops \in [Writers -> [plan : Plans \cup {NoPlan}, event : Events,
                          expected : 0 .. MaxVersion, base : PlanRecord,
                          copy : PlanRecord, given : SUBSET Work,
                          pc : {"idle", "mark", "replace", "save", "tell"}]]
  /\ events \in [Plans -> 0 .. MaxVersion]
  /\ work \subseteq Work
  /\ made \in [Plans -> 0 .. MaxWork]
  /\ excused \in [Plans -> BOOLEAN]
  /\ troubles \in [faults : 0 .. MaxTroubles, crashes : 0 .. MaxTroubles]

Init ==
  /\ plans = [p \in Plans |-> AbsentPlan]
  /\ arrays = [p \in Plans |-> <<AbsentSteps>>]
  /\ disk = [p \in Plans |-> [plan |-> AbsentPlan, steps |-> AbsentSteps]]
  /\ ops = [w \in Writers |-> NoOp]
  /\ events = [p \in Plans |-> 0]
  /\ work = {}
  /\ made = [p \in Plans |-> 0]
  /\ excused = [p \in Plans |-> FALSE]
  /\ troubles = [faults |-> 0, crashes |-> 0]

----------------------------------------------------------------------------
(* What the steps say.                                                     *)

StepsOf(p) == arrays[p][plans[p].gen]
With(steps, s, status) == [steps EXCEPT ![s].status = status]

\* refreshReadyPlanSteps, decided on the steps as they were before it.
Refreshed(steps) ==
  [s \in Steps |->
     IF /\ steps[s].status \in {"pending", "changes_requested"}
        /\ \A d \in Needs[s] : steps[d].status \in Resolved
     THEN [steps[s] EXCEPT !.status = "ready"]
     ELSE steps[s]]

Present(steps) == {s \in Steps : steps[s].status # "absent"}
Busy(steps) == {s \in Steps : steps[s].status \in {"running", "reviewing"}}
AllResolved(steps) == \A s \in Present(steps) : steps[s].status \in Resolved

\* planOwnerContinuation: is there something for the owner to decide?
Actionable(status, steps) ==
  /\ status = "active"
  /\ \/ \E s \in Steps : \/ steps[s].status = "awaiting_decision"
                         \/ steps[s].status = "reviewing" /\ steps[s].review = "delivered"
     \/ Present(steps) # {} /\ AllResolved(steps)
     \/ /\ Cardinality(Busy(steps)) < Limit
        /\ \E s \in Steps : steps[s].status \in {"ready", "changes_requested"}

----------------------------------------------------------------------------
(* A call: it reads the plan, edits the steps, replaces, saves, schedules. *)

\* What a request may say of the version it saw: nothing, the last, an old one.
Expectations(p) ==
  {n \in {0, plans[p].version - 1, plans[p].version} : n >= 0}

\* base is the plan that a request with a version has read.
Requested(p, event, expected, copy) ==
  [plan |-> p, event |-> event, expected |-> expected, copy |-> copy, given |-> {},
   pc |-> "replace", base |-> IF expected = 0 THEN AbsentPlan ELSE plans[p]]
Unguarded(op) == [op EXCEPT !.expected = 0, !.base = AbsentPlan]

\* A version that is old already will be refused by replacePlan, come what may.
Outdated(p, expected) == expected # 0 /\ expected # plans[p].version

\* The first half, up to replacePlan: steps is the array as edited in place.
Begin(w, p, event, expected, copy, steps) ==
  /\ ops[w] = NoOp
  /\ plans[p].version < MaxVersion
  /\ arrays' = [arrays EXCEPT ![p][plans[p].gen] = steps]
  /\ IF Outdated(p, expected)
       THEN excused' = [excused EXCEPT ![p] = TRUE] /\ UNCHANGED ops
       ELSE ops' = [ops EXCEPT ![w] = Requested(p, event, expected, copy)] /\ UNCHANGED excused
  /\ UNCHANGED <<plans, disk, events, troubles>>

\* Work that somebody has given out and not yet marked in its step.
BeingHandedOut(item) ==
  \E w \in Writers : \E given \in ops[w].given : given.plan = item.plan /\ given.n = item.n

\* A step that is handed out again no longer counts on what it was not told of.
Forgotten(p, s, kind) ==
  {item \in work : /\ item.plan = p /\ item.step = s /\ item.kind = "unheard"
                   /\ kind # "review" /\ ~BeingHandedOut(item)}

\* createTask, sendToGroup and sendToAgent: the work is there, the step is not
\* edited yet.
HandOut(w, p, s, kind, expected) ==
  LET item == [plan |-> p, step |-> s, kind |-> kind, n |-> made[p] + 1]
      copy == [plans[p] EXCEPT !.status = "active"]
  IN
  /\ ops[w] = NoOp
  /\ plans[p].version < MaxVersion /\ made[p] < MaxWork
  /\ made' = [made EXCEPT ![p] = @ + 1]
  /\ work' = (work \ Forgotten(p, s, kind)) \cup {item}
  /\ ops' = [ops EXCEPT ![w] =
       [Requested(p, "advanced", expected, copy) EXCEPT !.pc = "mark", !.given = {item}]]
  /\ UNCHANGED <<plans, arrays, disk, events, excused, troubles>>
NoNewWork == UNCHANGED <<work, made>>

MayFail == troubles.faults + troubles.crashes < MaxTroubles

Marked(steps, item) ==
  IF item.kind = "review"
    THEN [steps EXCEPT ![item.step].status = "reviewing",
                       ![item.step].review = IF @ = "none" THEN "pending" ELSE @]
    ELSE With(steps, item.step, "running")

\* The step is edited in the array that the request has read.
Mark(w) ==
  LET op == ops[w] IN
  /\ op.pc = "mark"
  /\ \E item \in op.given :
       arrays' = [arrays EXCEPT ![op.plan][op.copy.gen] = Marked(@, item)]
  /\ ops' = [ops EXCEPT ![w] = [op EXCEPT !.pc = "replace", !.given = {}]]
  /\ UNCHANGED <<plans, disk, events, work, made, excused, troubles>>

\* The group's inbox could not be saved: its handoff is out all the same.
SendUnsaved(w) ==
  /\ ops[w].pc = "mark" /\ \E item \in ops[w].given : item.kind = "group"
  /\ MayFail
  /\ troubles' = [troubles EXCEPT !.faults = @ + 1]
  /\ ops' = [ops EXCEPT ![w] = NoOp]
  /\ UNCHANGED <<plans, arrays, disk, events, work, made, excused>>

\* A mutant: a replaced plan gets the version after its copy's.
ReplaceFromCopy(w) ==
  LET op == ops[w] p == op.plan IN
  /\ op.pc = "replace" /\ plans[p].version < MaxVersion
  /\ IF op.expected # 0 /\ plans[p].version # op.expected
       THEN /\ ops' = [ops EXCEPT ![w] = NoOp]
            /\ excused' = [excused EXCEPT ![p] = TRUE]
            /\ UNCHANGED plans
       ELSE /\ plans' = [plans EXCEPT ![p] =
                 [op.copy EXCEPT !.version = op.copy.version + 1]]
            /\ ops' = [ops EXCEPT ![w] = Unguarded([op EXCEPT !.pc = "save"])]
            /\ excused' = [excused EXCEPT ![p] = FALSE]
  /\ UNCHANGED <<arrays, disk, events, work, made, troubles>>

\* replacePlan: a version that has moved on refuses the request, whose edits
\* of the steps stay; expected version 0 is never refused.
Replace(w) ==
  LET op == ops[w] p == op.plan IN
  /\ op.pc = "replace" /\ plans[p].version < MaxVersion
  /\ IF op.expected # 0 /\ plans[p].version # op.expected
       THEN /\ ops' = [ops EXCEPT ![w] = NoOp]
            /\ excused' = [excused EXCEPT ![p] = TRUE]
            /\ UNCHANGED plans
       ELSE /\ plans' = [plans EXCEPT ![p] =
                 [op.copy EXCEPT !.version = plans[p].version + 1]]
            /\ ops' = [ops EXCEPT ![w] = Unguarded([op EXCEPT !.pc = "save"])]
            /\ excused' = [excused EXCEPT ![p] = FALSE]
  /\ UNCHANGED <<arrays, disk, events, work, made, troubles>>

Announces(event) == event \in {"activated", "advanced", "task", "review", "group"}

\* savePlansForProject writes every plan as it is now.
Save(w) ==
  /\ ops[w].pc = "save"
  /\ \/ /\ disk' = [p \in Plans |-> [plan |-> plans[p], steps |-> StepsOf(p)]]
        /\ ops' = [ops EXCEPT ![w] = IF Announces(ops[w].event)
                                       THEN [ops[w] EXCEPT !.pc = "tell"] ELSE NoOp]
        /\ UNCHANGED <<excused, troubles>>
     \/ /\ MayFail
        /\ troubles' = [troubles EXCEPT !.faults = @ + 1]
        /\ excused' = [excused EXCEPT ![ops[w].plan] = TRUE]
        /\ ops' = [ops EXCEPT ![w] = NoOp]
        /\ UNCHANGED disk
  /\ UNCHANGED <<plans, arrays, events, work, made>>

\* A mutant: the event carries the version the request had read.
TellOldVersion(w) ==
  LET op == ops[w]
      p == op.plan
      due == op.event # "advanced" \/ Actionable(op.copy.status, arrays[p][op.copy.gen])
  IN
  /\ op.pc = "tell"
  /\ ops' = [ops EXCEPT ![w] = NoOp]
  /\ \/ ~due /\ UNCHANGED <<events, excused, troubles>>
     \/ due /\ events' = [events EXCEPT ![p] = op.copy.version] /\ UNCHANGED <<excused, troubles>>
     \/ /\ due /\ MayFail
        /\ troubles' = [troubles EXCEPT !.faults = @ + 1]
        /\ excused' = [excused EXCEPT ![p] = TRUE]
        /\ UNCHANGED events
  /\ UNCHANGED <<plans, arrays, disk, work, made>>

\* schedulePlanEvent reads the version again; after a decision of the owner it
\* is called only if there is another one to take. The queue may refuse the run.
Tell(w) ==
  LET op == ops[w]
      p == op.plan
      due == op.event # "advanced" \/ Actionable(op.copy.status, arrays[p][op.copy.gen])
  IN
  /\ op.pc = "tell"
  /\ ops' = [ops EXCEPT ![w] = NoOp]
  /\ \/ ~due /\ UNCHANGED <<events, excused, troubles>>
     \/ due /\ events' = [events EXCEPT ![p] = plans[p].version] /\ UNCHANGED <<excused, troubles>>
     \/ /\ due /\ MayFail
        /\ troubles' = [troubles EXCEPT !.faults = @ + 1]
        /\ excused' = [excused EXCEPT ![p] = TRUE]
        /\ UNCHANGED events
  /\ UNCHANGED <<plans, arrays, disk, work, made>>

----------------------------------------------------------------------------
(* Drafts, history and approval.                                           *)

\* A plan that is in the table at once and only has to be saved.
Placed(w, p, event, plan) ==
  /\ ops[w] = NoOp
  /\ plans' = [plans EXCEPT ![p] = plan]
  /\ ops' = [ops EXCEPT ![w] = [NoOp EXCEPT !.plan = p, !.event = event,
                                            !.copy = plan, !.pc = "save"]]
  /\ UNCHANGED <<disk, events, work, made, troubles>>

CreatePlanDraft(w, p) ==
  /\ plans[p].status = "absent"
  /\ Placed(w, p, "created", [AbsentPlan EXCEPT !.status = "draft", !.version = 1])
  /\ arrays' = [arrays EXCEPT ![p] = <<NewSteps(Draft)>>]
  /\ UNCHANGED excused

SubmitPlan(w, p, expected) ==
  /\ plans[p].status = "draft"
  /\ Begin(w, p, "submitted", expected, [plans[p] EXCEPT !.status = "awaiting_approval"],
           StepsOf(p))
  /\ NoNewWork

\* reconcilePlanHistory: tasks from before the plan settle a step or leave it
\* to the owner; it does not look at the step's status.
ReconcilePlanHistory(w, p, s, expected) ==
  /\ plans[p].status \in {"draft", "awaiting_approval"}
  /\ StepsOf(p)[s].status # "absent"
  /\ \E status \in {"completed", "awaiting_decision"} :
       Begin(w, p, "reconciled", expected, plans[p], With(StepsOf(p), s, status))
  /\ NoNewWork

\* planReservesGroupExecutionSlot
Reserves(status) == status \in {"active", "paused"}

\* activatePlan reads, decides and writes under one lock.
ActivatePlan(w, p, expected) ==
  LET plan == [plans[p] EXCEPT !.status = "active", !.version = @ + 1] IN
  /\ plans[p].status \in {"awaiting_approval", "draft", "paused"}
  /\ expected \in {0, plans[p].version}
  /\ \A q \in Plans \ {p} : ~Reserves(plans[q].status)
  /\ plans[p].version < MaxVersion
  /\ Placed(w, p, "activated", plan)
  /\ arrays' = [arrays EXCEPT ![p][plans[p].gen] = Refreshed(@)]
  /\ excused' = [excused EXCEPT ![p] = FALSE]

\* transferGroupCoordinator hands every open plan over and wakes nobody.
TransferGroupCoordinator(w, m) ==
  LET open == {p \in Plans : plans[p].status \notin {"absent", "completed", "cancelled"}}
  IN
  /\ ops[w] = NoOp
  /\ open # {} /\ \A p \in open : plans[p].version < MaxVersion
  /\ plans' = [p \in Plans |->
       IF p \in open THEN [plans[p] EXCEPT !.owner = m, !.version = @ + 1] ELSE plans[p]]
  /\ excused' = [p \in Plans |-> p \in open \/ excused[p]]
  /\ ops' = [ops EXCEPT ![w] = [NoOp EXCEPT !.plan = CHOOSE p \in open : TRUE,
                                            !.event = "transferred", !.pc = "save"]]
  /\ UNCHANGED <<arrays, disk, events, work, made, troubles>>

----------------------------------------------------------------------------
(* advancePlan: one decision of the owner, or of the user in its name.     *)

Advance(w, p, expected, status, steps) ==
  Begin(w, p, "advanced", expected, [plans[p] EXCEPT !.status = status], steps)

Active(p) == plans[p].status = "active"
StepIs(p, s, set) == Active(p) /\ StepsOf(p)[s].status \in set

DispatchTask(w, p, s, expected) ==
  /\ StepIs(p, s, {"ready", "changes_requested"})
  /\ Cardinality(Busy(StepsOf(p))) < Limit
  /\ HandOut(w, p, s, "task", expected)

DelegateGroup(w, p, s, expected) ==
  /\ StepIs(p, s, {"ready", "changes_requested"})
  /\ HandOut(w, p, s, "group", expected)

AcceptStep(w, p, s, expected) ==
  /\ StepIs(p, s, {"awaiting_decision", "reviewing", "running"})
  /\ Advance(w, p, expected, "active", Refreshed(With(StepsOf(p), s, "completed")))
  /\ NoNewWork

RequestRework(w, p, s, expected) ==
  /\ StepIs(p, s, StepStatuses \ {"absent"})
  /\ Advance(w, p, expected, "active", Refreshed(With(StepsOf(p), s, "changes_requested")))
  /\ NoNewWork

DelegateReview(w, p, s, expected) ==
  /\ StepIs(p, s, StepStatuses \ {"absent"})
  /\ HandOut(w, p, s, "review", expected)

BlockStep(w, p, s, expected) ==
  /\ StepIs(p, s, StepStatuses \ {"absent"})
  /\ Advance(w, p, expected, "blocked", With(StepsOf(p), s, "blocked"))
  /\ NoNewWork

SkipStep(w, p, s, expected) ==
  /\ StepIs(p, s, StepStatuses \ {"absent"})
  /\ Advance(w, p, expected, "active", Refreshed(With(StepsOf(p), s, "skipped")))
  /\ NoNewWork

\* The new array is private to the request until the plan is replaced.
AddStep(w, p, s, expected) ==
  LET steps == Refreshed([StepsOf(p) EXCEPT ![s].status = "pending"])
      gen == Len(arrays[p]) + 1
  IN
  /\ StepIs(p, s, {"absent"}) /\ \A d \in Needs[s] : StepsOf(p)[d].status # "absent"
  /\ ~Outdated(p, expected)
  /\ gen = 2 /\ ops[w] = NoOp /\ plans[p].version < MaxVersion
  /\ arrays' = [arrays EXCEPT ![p] = Append(@, steps)]
  /\ ops' = [ops EXCEPT ![w] =
       Requested(p, "advanced", expected, [plans[p] EXCEPT !.gen = gen])]
  /\ UNCHANGED <<plans, disk, events, work, made, excused, troubles>>

\* A pause or a cancellation asks for no status; a completion for every step.
ChangeStatus(w, p, expected) ==
  /\ plans[p].status # "absent"
  /\ \E status \in {"paused", "cancelled", "completed"} :
       /\ status = "completed" => Active(p) /\ AllResolved(StepsOf(p))
       /\ Advance(w, p, expected, status, StepsOf(p))
  /\ NoNewWork

----------------------------------------------------------------------------
(* Reports: none of them gives a version, each sets the plan back to the   *)
(* status it had when the report was written into it.                      *)

Report(w, item, event, steps) ==
  /\ Begin(w, item.plan, event, 0, plans[item.plan], steps)
  /\ UNCHANGED made

Ignored(w) ==
  /\ ops[w] = NoOp
  /\ UNCHANGED <<plans, arrays, disk, ops, events, made, excused, troubles>>

\* What a step is told of before it is marked, the mark writes over.
Ended(item) ==
  (work \ {item}) \cup
    IF BeingHandedOut(item) THEN {[item EXCEPT !.kind = "unheard"]} ELSE {}

\* A mutant: a task's end counts only while its plan is active.
TaskEndsIfActive(w, item, outcome) ==
  LET p == item.plan
      status == IF outcome = "done" THEN "awaiting_decision" ELSE "changes_requested"
  IN
  /\ item \in work /\ item.kind \in {"task", "rerun"}
  /\ work' = IF outcome = "done" THEN Ended(item)
             ELSE (work \ {item}) \cup {[item EXCEPT !.kind = "rerun"]}
  /\ IF Active(p) /\ StepsOf(p)[item.step].status # status
       THEN Report(w, item, "task", With(StepsOf(p), item.step, status))
       ELSE Ignored(w)

\* markPlanTaskTerminal, whatever the status of the plan and of the step; a
\* failed task may be run again and reports again.
TaskEnds(w, item, outcome) ==
  LET p == item.plan
      status == IF outcome = "done" THEN "awaiting_decision" ELSE "changes_requested"
  IN
  /\ item \in work /\ item.kind \in {"task", "rerun"}
  /\ work' = IF outcome = "done" THEN Ended(item)
             ELSE (work \ {item}) \cup {[item EXCEPT !.kind = "rerun"]}
  /\ \/ /\ StepsOf(p)[item.step].status # "absent"
        /\ item.kind = "task" \/ StepsOf(p)[item.step].status # status \/ outcome = "done"
        /\ Report(w, item, "task", With(StepsOf(p), item.step, status))
     \/ /\ \/ StepsOf(p)[item.step].status = "absent"
           \/ item.kind = "rerun" /\ StepsOf(p)[item.step].status = status /\ outcome # "done"
        /\ Ignored(w)

\* recordPlanReviewDelivery: the review is marked wherever the arrays share it,
\* if the step has it already.
ReviewDelivered(w, item) ==
  LET p == item.plan IN
  /\ item \in work /\ item.kind = "review"
  /\ work' = work \ {item}
  /\ IF StepsOf(p)[item.step].review = "pending" /\ ~BeingHandedOut(item)
       THEN Report(w, item, "review", [StepsOf(p) EXCEPT ![item.step].review = "delivered"])
       ELSE Ignored(w)

\* recordPlanGroupDelivery: only a running step takes a group's result.
GroupDelivered(w, item) ==
  LET p == item.plan IN
  /\ item \in work /\ item.kind = "group"
  /\ work' = Ended(item)
  /\ IF StepsOf(p)[item.step].status = "running"
       THEN Report(w, item, "group", With(StepsOf(p), item.step, "awaiting_decision"))
       ELSE Ignored(w)

\* Only reply_to reports. A handoff that is answered for its agent, declined,
\* acknowledged or closed at its limit, or whose run fails, tells no plan.
EndsUnheard(item) ==
  /\ item \in work /\ item.kind \in {"group", "review"}
  /\ work' = (work \ {item}) \cup
       IF item.kind = "group" THEN {[item EXCEPT !.kind = "unheard"]} ELSE {}
  /\ UNCHANGED <<plans, arrays, disk, ops, events, made, excused, troubles>>

----------------------------------------------------------------------------
(* The owner's turn and restarts.                                          *)

\* executePlanEventScheduledRun: an event is good for an active plan that has
\* not moved past it; the turn's own decisions are the actions above. Of several
\* events the queue serves the last one last.
ExecutePlanEvent(p) ==
  /\ events[p] # 0
  /\ events' = [events EXCEPT ![p] = 0]
  /\ excused' = [excused EXCEPT ![p] = @ \/ (Active(p) /\ events[p] >= plans[p].version)]
  /\ UNCHANGED <<plans, arrays, disk, ops, work, made, troubles>>

\* resumeActionablePlans: not for a plan that has an event of any version.
Resumed(p) == events[p] = 0 /\ Actionable(disk[p].plan.status, disk[p].steps)

\* The tasks that ran are failed without a report; the runs of events are durable.
Crash ==
  /\ MayFail
  /\ troubles' = [troubles EXCEPT !.crashes = @ + 1]
  /\ plans' = [p \in Plans |-> [disk[p].plan EXCEPT !.gen = 1]]
  /\ arrays' = [p \in Plans |-> <<disk[p].steps>>]
  /\ disk' = [p \in Plans |-> [disk[p] EXCEPT !.plan.gen = 1]]
  /\ ops' = [w \in Writers |-> NoOp]
  /\ events' = [p \in Plans |-> IF Resumed(p) THEN disk[p].plan.version ELSE events[p]]
  /\ work' = {[item EXCEPT !.kind = IF @ = "task" THEN "rerun" ELSE @] : item \in work}
  /\ excused' = [p \in Plans |-> events[p] # 0]
  /\ UNCHANGED made

Decision(w, p, expected) ==
  \/ SubmitPlan(w, p, expected) \/ ActivatePlan(w, p, expected)
  \/ ChangeStatus(w, p, expected)
  \/ \E s \in Steps :
       \/ ReconcilePlanHistory(w, p, s, expected)
       \/ DispatchTask(w, p, s, expected) \/ DelegateGroup(w, p, s, expected)
       \/ AcceptStep(w, p, s, expected) \/ RequestRework(w, p, s, expected)
       \/ DelegateReview(w, p, s, expected) \/ BlockStep(w, p, s, expected)
       \/ SkipStep(w, p, s, expected) \/ AddStep(w, p, s, expected)

Next ==
  \/ \E w \in Writers : Mark(w) \/ SendUnsaved(w) \/ Replace(w) \/ Save(w) \/ Tell(w)
  \/ \E w \in Deciders, p \in Plans :
       \/ CreatePlanDraft(w, p)
       \/ \E expected \in Expectations(p) : Decision(w, p, expected)
  \/ \E w \in Reporters :
       \/ \E m \in Members : TransferGroupCoordinator(w, m)
       \/ \E item \in work :
            \/ \E outcome \in {"done", "failed"} : TaskEnds(w, item, outcome)
            \/ ReviewDelivered(w, item) \/ GroupDelivered(w, item)
  \/ \E item \in work : EndsUnheard(item)
  \/ \E p \in Plans : ExecutePlanEvent(p)
  \/ Crash

Spec == Init /\ [][Next]_vars

----------------------------------------------------------------------------
(* Properties.                                                             *)

InFlight(p) == {w \in Writers : ops[w].plan = p}

\* Whoever changed it, a plan that waits for a decision has woken its owner at
\* its present version or has an event in the queue that the owner will not
\* take for an old one. The changes that are announced to nobody are a
\* coordinator's transfer, the edits of a refused request, a change whose save
\* or event failed, and a restart that finds an old event.
ChangesAreHeard ==
  \A p \in Plans :
    Actionable(plans[p].status, StepsOf(p)) /\ InFlight(p) = {} /\ ~excused[p] =>
      events[p] >= plans[p].version

\* A request that gives the version it saw replaces exactly the plan it read:
\* no approval, decision, report or transfer of others is overwritten.
VersionedWritesLoseNothing ==
  [][\A w \in Writers :
       ops[w].pc = "replace" /\ ops'[w].pc = "save" /\ ops[w].expected # 0 =>
         plans[ops[w].plan] = ops[w].base]_vars

\* A running step has somebody working on it or a report about it in flight. It
\* has nobody, and waits for the owner to settle it, after the end of what it was
\* last handed out as came before the step was set running, or was that of a
\* group's handoff without a reply_to ("unheard"); after a restart interrupted its
\* task; or after an added step brought an old array of steps back.
RunningStepsHaveWork ==
  \A p \in Plans, s \in Steps :
    StepsOf(p)[s].status = "running" /\ troubles.crashes = 0 /\ Len(arrays[p]) = 1 =>
      \E item \in work : item.plan = p /\ item.step = s /\ item.kind # "review"

\* One plan of a group executes at a time (group_plan_test.go:74).
OneExecutionPlan ==
  \A p, q \in Plans : Reserves(plans[p].status) /\ Reserves(plans[q].status) => p = q

=============================================================================
