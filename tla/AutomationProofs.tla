-------------------------- MODULE AutomationProofs --------------------------
(***************************************************************************)
(* What is proved of the plans of a group, for any number of plans, steps, *)
(* members, writers and versions; of the approval of a probe, for any      *)
(* number of requests, clients, checks, edits, crashes and failed saves;   *)
(* and of the fires of monitors, for any number of monitors, events,       *)
(* dispatchers, deliveries, edits, crashes and failed saves.               *)
(*                                                                         *)
(* What the invariant of the plans adds to the properties.  A call is      *)
(* followed from its reading to its event: who gives a version has the     *)
(* plan of that version as long as the plan is at it, and a plan that      *)
(* waits for a decision is being changed, or being announced by the last   *)
(* who changed it, or has been announced.                                  *)
(*                                                                         *)
(* What the invariant of the probe adds.  Memory and file are each good by *)
(* themselves, so that a crash may put one for the other; and they agree   *)
(* on what is installed, so that what memory prunes or writes is never a   *)
(* snapshot the file's monitor runs.                                       *)
(*                                                                         *)
(* What the invariant of the monitors adds.  It weighs each fire: the runs *)
(* that have succeeded, and the chances of one more that the fire still    *)
(* has by the queue, by being pending and by the confirmations under way,  *)
(* are never more than the times it was saved.                             *)
(***************************************************************************)
EXTENDS Plans, Probes, Monitors, FiniteSetTheorems, WellFoundedInduction, TLAPS

(* The types, without the bounds.                                           *)
PlanRecords == [status : PlanStatuses, version : Nat, gen : {1, 2}, owner : Members \cup {SomeMember}]
StepTables == [Steps -> StepRecord]
Items == [plan : Plans, step : Steps, kind : WorkKinds, n : Nat]
Calls == [plan : Plans \cup {NoPlan}, event : Events, expected : Nat, base : PlanRecords,
          copy : PlanRecords, given : SUBSET Items, pc : {"idle", "mark", "replace", "save", "tell"}]
PlanTypes ==
  /\ plans \in [Plans -> PlanRecords]
  /\ arrays \in [Plans -> Seq(StepTables)]
  /\ disk \in [Plans -> [plan : PlanRecords, steps : StepTables]]
  /\ ops \in [Writers -> Calls]
  /\ events \in [Plans -> Nat]
  /\ work \subseteq Items
  /\ made \in [Plans -> Nat]
  /\ excused \in [Plans -> BOOLEAN]
  /\ troubles \in [faults : Nat, crashes : Nat]

(* What a plan or a call names is an array of that plan; a plan that is not *)
(* there has no steps, and no call brings one back that is not there.       *)
Named(p, plan) == plan.gen \in DOMAIN arrays[p]
ArraysExist ==
  /\ \A p \in Plans : Named(p, plans[p])
  /\ \A w \in Writers : ops[w].pc # "idle" => ops[w].plan \in Plans /\ Named(ops[w].plan, ops[w].copy)
  /\ \A w \in Writers : ops[w].pc \in {"mark", "replace"} => ops[w].copy.status # "absent"
AbsentAreEmpty ==
  \A p \in Plans :
    /\ plans[p].status = "absent" => plans[p].version = 0 /\ arrays[p] = <<AbsentSteps>>
    /\ disk[p].plan.status = "absent" => disk[p].plan.version = 0 /\ disk[p].steps = AbsentSteps

(* Whoever gives a version has read the plan at it, and while the plan is   *)
(* at it, it is the plan he read.                                           *)
ReadersAreRight ==
  \A w \in Writers :
    LET op == ops[w] IN
    op.pc \in {"mark", "replace"} /\ op.expected # 0 =>
      /\ op.expected <= plans[op.plan].version
      /\ plans[op.plan].version = op.expected => plans[op.plan] = op.base

(* Somebody is about to change the plan, or the last who did is about to    *)
(* announce it.                                                             *)
Changing(p) == \E w \in Writers : ops[w].plan = p /\ ops[w].pc = "replace"
Announcing(p) ==
  \E w \in Writers :
    /\ ops[w].plan = p /\ ops[w].pc \in {"save", "tell"} /\ Announces(ops[w].event)
    /\ ops[w].copy.status = plans[p].status /\ ops[w].copy.gen = plans[p].gen
OwnerIsWoken ==
  \A p \in Plans :
    Actionable(plans[p].status, StepsOf(p)) /\ ~ excused[p] =>
      Changing(p) \/ Announcing(p) \/ events[p] >= plans[p].version
\* Only who announces it makes a plan active.
ActiveIsAnnounced ==
  \A w \in Writers :
    /\ ops[w].pc \in {"mark", "replace"} /\ ops[w].copy.status = "active" => Announces(ops[w].event)
    /\ ops[w].pc = "tell" => Announces(ops[w].event)

(* What is being handed out is there, or has ended unheard, and so is its   *)
(* plan.                                                                    *)
Stands(plan, step, n) ==
  \E item \in work : item.plan = plan /\ item.step = step /\ item.n = n /\ item.kind # "review"
GivenIsThere ==
  \A w \in Writers : \A given \in ops[w].given :
    /\ given.plan = ops[w].plan /\ plans[ops[w].plan].status # "absent"
    /\ given.kind # "review" => Stands(given.plan, given.step, given.n)

PlanInv ==
  PlanTypes /\ ArraysExist /\ AbsentAreEmpty /\ ReadersAreRight /\ OwnerIsWoken /\ ActiveIsAnnounced
    /\ RunningStepsHaveWork

(* A sequence of one that is longer by one.                                *)
LEMMA AppendedOne ==
  ASSUME NEW S, NEW q \in Seq(S), Len(q) = 1, NEW e \in S
  PROVE  /\ Append(q, e) \in Seq(S) /\ Len(Append(q, e)) = 2 /\ Append(q, e)[1] = q[1]
         /\ DOMAIN q = {1} /\ DOMAIN Append(q, e) = {1, 2}
<1>1. Append(q, e) \in Seq(S)
  OBVIOUS
<1>2. Len(Append(q, e)) = 2
  OBVIOUS
<1>3. Append(q, e)[1] = q[1]
  OBVIOUS
<1>4. DOMAIN q = {1}
  OBVIOUS
<1>5. DOMAIN Append(q, e) = {1, 2}
  <2> DEFINE r == Append(q, e)
  <2>1. r \in Seq(S) /\ Len(r) = 2
    BY <1>1, <1>2
  <2> HIDE DEF r
  <2>2. DOMAIN r = 1 .. 2
    BY <2>1
  <2> QED BY <2>2 DEF r
<1> QED BY <1>1, <1>2, <1>3, <1>4, <1>5

USE PlanAssumption DEF Writers

-----------------------------------------------------------------------------
(* The types of what the calls are made of.                                 *)
LEMMA AbsentPlanIsAPlan == AbsentPlan \in PlanRecords
BY DEF AbsentPlan, PlanRecords, PlanStatuses

LEMMA AbsentStepsAreSteps == AbsentSteps \in StepTables
BY DEF AbsentSteps, StepTables, StepRecord, StepStatuses

LEMMA NoOpIsACall == NoOp \in Calls
BY AbsentPlanIsAPlan DEF NoOp, Calls, Events

LEMMA StepsAreTyped ==
  ASSUME PlanInv, NEW p \in Plans
  PROVE  StepsOf(p) \in StepTables
BY DEF PlanInv, PlanTypes, ArraysExist, Named, StepsOf

LEMMA WithIsTyped ==
  ASSUME NEW steps \in StepTables, NEW s \in Steps, NEW status \in StepStatuses
  PROVE  /\ With(steps, s, status) \in StepTables
         /\ \A t \in Steps : With(steps, s, status)[t].status = IF t = s THEN status ELSE steps[t].status
BY DEF With, StepTables, StepRecord

(* A step that becomes ready was not running, and does not run.             *)
LEMMA RefreshedIsTyped ==
  ASSUME NEW steps \in StepTables
  PROVE  /\ Refreshed(steps) \in StepTables
         /\ \A t \in Steps : Refreshed(steps)[t].status = "running" => steps[t].status = "running"
<1>1. \A t \in Steps : [steps[t] EXCEPT !.status = "ready"] \in StepRecord
  BY DEF StepTables, StepRecord, StepStatuses
<1>2. \A t \in Steps : [steps[t] EXCEPT !.status = "ready"].status = "ready"
  BY DEF StepTables, StepRecord
<1> QED BY <1>1, <1>2 DEF Refreshed, StepTables

-----------------------------------------------------------------------------
(* The first half of a call: the steps are edited, work is handed out or    *)
(* taken back, and the call is under way or refused.                        *)
Worked(p, s) == \E item \in work : item.plan = p /\ item.step = s /\ item.kind # "review"
Runs(p, s, steps, q) == IF q = p THEN steps[s].status = "running" ELSE StepsOf(q)[s].status = "running"
Request(w, p, event, expected, copy, steps) ==
  /\ Begin(w, p, event, expected, copy, steps)
  /\ event \in {"submitted", "reconciled", "advanced", "task", "review", "group"}
  /\ expected \in Nat
  /\ copy \in PlanRecords /\ copy.gen = plans[p].gen /\ copy.status # "absent"
  /\ plans[p].status # "absent"
  /\ copy.status = "active" => Announces(event)
  /\ steps \in StepTables
  /\ work' \subseteq Items /\ made' \in [Plans -> Nat]
  /\ \A q \in Plans, s \in Steps :
       Runs(p, s, steps, q) /\ troubles.crashes = 0 /\ Len(arrays[q]) = 1 => Worked(q, s)'

LEMMA RequestStep ==
  ASSUME PlanInv, NEW w \in Writers, NEW p \in Plans, NEW event, NEW expected, NEW copy, NEW steps,
         Request(w, p, event, expected, copy, steps)
  PROVE  PlanInv'
<1> DEFINE op == Requested(p, event, expected, copy)
<1> USE DEF PlanInv
<1>1. /\ plans' = plans /\ disk' = disk /\ events' = events /\ troubles' = troubles
      /\ arrays' = [arrays EXCEPT ![p][plans[p].gen] = steps]
      /\ \/ excused' = [excused EXCEPT ![p] = TRUE] /\ ops' = ops
         \/ ops' = [ops EXCEPT ![w] = op] /\ excused' = excused /\ ~ Outdated(p, expected)
  BY DEF Request, Begin
<1>r. /\ copy.gen = plans[p].gen /\ copy.status # "absent" /\ plans[p].status # "absent"
      /\ copy.status = "active" => Announces(event)
      /\ ops[w] = NoOp
  BY DEF Request, Begin
<1>2. op \in Calls /\ op.pc = "replace" /\ op.plan = p /\ op.copy = copy /\ op.event = event /\ op.expected = expected
      /\ op.base = IF expected = 0 THEN AbsentPlan ELSE plans[p]
  BY AbsentPlanIsAPlan DEF Request, Requested, Calls, Events, PlanTypes
<1>3. /\ \A q \in Plans : DOMAIN arrays'[q] = DOMAIN arrays[q] /\ Len(arrays'[q]) = Len(arrays[q])
      /\ arrays' \in [Plans -> Seq(StepTables)]
      /\ arrays'[p][plans[p].gen] = steps
      /\ \A q \in Plans \ {p} : arrays'[q] = arrays[q]
  BY <1>1 DEF PlanTypes, ArraysExist, Named, Request
<1> HIDE DEF op
<1>4. PlanTypes'
  <2>1. ops' \in [Writers -> Calls]
    BY <1>1, <1>2 DEF PlanTypes
  <2>2. excused' \in [Plans -> BOOLEAN]
    BY <1>1 DEF PlanTypes
  <2> QED BY <1>1, <1>3, <2>1, <2>2 DEF PlanTypes, Request
<1>0. \A u \in Writers : ops'[u] = ops[u] \/ (ops'[u] = op /\ (expected = 0 \/ expected = plans[p].version))
  <2>1. CASE ops' = ops
    BY <2>1
  <2>2. CASE ops' = [ops EXCEPT ![w] = op] /\ ~ Outdated(p, expected)
    <3>1. expected = 0 \/ expected = plans[p].version
      BY <2>2 DEF Outdated
    <3>2. \A u \in Writers : ops'[u] = IF u = w THEN op ELSE ops[u]
      BY <2>2 DEF PlanTypes
    <3> QED BY <3>1, <3>2
  <2> QED BY <1>1, <2>1, <2>2
<1>5. ArraysExist'
  <2>1. \A q \in Plans : Named(q, plans[q])'
    BY <1>1, <1>3 DEF ArraysExist, Named
  <2>2. \A u \in Writers : ops'[u].pc # "idle" => ops'[u].plan \in Plans /\ Named(ops[u].plan, ops[u].copy)'
    <3> SUFFICES ASSUME NEW u \in Writers, ops'[u].pc # "idle"
                 PROVE  ops'[u].plan \in Plans /\ ops'[u].copy.gen \in DOMAIN arrays'[ops'[u].plan]
      BY DEF Named
    <3>1. CASE ops'[u] = op
      BY <3>1, <1>2, <1>3, <1>r DEF ArraysExist, Named
    <3>2. CASE ops'[u] = ops[u]
      BY <3>2, <1>3 DEF ArraysExist, Named
    <3> QED BY <1>0, <3>1, <3>2
  <2>3. \A u \in Writers : ops'[u].pc \in {"mark", "replace"} => ops'[u].copy.status # "absent"
    BY <1>0, <1>2, <1>r DEF ArraysExist
  <2> QED BY <2>1, <2>2, <2>3 DEF ArraysExist
<1>6. AbsentAreEmpty'
  BY <1>1, <1>3 DEF AbsentAreEmpty, Request
<1>7. ReadersAreRight'
  <2>1. plans[p].version \in Nat
    BY DEF PlanTypes, PlanRecords
  <2> QED BY <1>0, <1>1, <1>2, <2>1 DEF ReadersAreRight
<1>8. OwnerIsWoken'
  <2> SUFFICES ASSUME NEW q \in Plans, Actionable(plans[q].status, StepsOf(q)'), ~ excused'[q]
               PROVE  Changing(q)' \/ Announcing(q)' \/ events[q] >= plans[q].version
    BY <1>1 DEF OwnerIsWoken
  <2>1. CASE q = p
    <3>1. ops' = [ops EXCEPT ![w] = op]
      BY <1>1, <2>1 DEF PlanTypes
    <3> QED BY <3>1, <1>2, <2>1 DEF Changing, PlanTypes
  <2>2. CASE q # p
    <3>1. StepsOf(q)' = StepsOf(q) /\ excused'[q] = excused[q]
      BY <1>1, <1>3, <2>2 DEF StepsOf, PlanTypes
    <3>2. Changing(q) \/ Announcing(q) \/ events[q] >= plans[q].version
      BY <3>1 DEF OwnerIsWoken
    <3>3. ops[w].plan # q
      BY DEF Request, Begin, NoOp
    <3>4. \A u \in Writers : u # w => ops'[u] = ops[u]
      BY <1>1 DEF PlanTypes
    <3> QED BY <1>1, <3>2, <3>3, <3>4 DEF Changing, Announcing
  <2> QED BY <2>1, <2>2
<1>9. ActiveIsAnnounced'
  BY <1>1, <1>2 DEF ActiveIsAnnounced, PlanTypes, Request
<1>10. RunningStepsHaveWork'
  BY <1>1, <1>3 DEF RunningStepsHaveWork, Request, Runs, Worked, StepsOf, PlanTypes
<1> QED BY <1>4, <1>5, <1>6, <1>7, <1>8, <1>9, <1>10

(* What a decision or a report leaves at work.                              *)
Fits(p, steps) ==
  \A q \in Plans, s \in Steps :
    Runs(p, s, steps, q) /\ troubles.crashes = 0 /\ Len(arrays[q]) = 1 => Worked(q, s)'

LEMMA NothingNewRuns ==
  ASSUME PlanInv, NEW p \in Plans, NEW steps, NoNewWork,
         \A s \in Steps : steps[s].status = "running" => StepsOf(p)[s].status = "running"
  PROVE  Fits(p, steps) /\ work' \subseteq Items /\ made' \in [Plans -> Nat]
BY DEF PlanInv, RunningStepsHaveWork, Fits, Runs, Worked, NoNewWork, PlanTypes

LEMMA Expecting ==
  ASSUME PlanInv, NEW p \in Plans, NEW expected \in Expectations(p)
  PROVE  expected \in Nat
<1>1. plans[p].version \in Nat
  BY DEF PlanInv, PlanTypes, PlanRecords
<1> QED BY <1>1 DEF Expectations

LEMMA Advances ==
  ASSUME PlanInv, NEW w \in Writers, NEW p \in Plans, NEW expected \in Expectations(p),
         NEW status \in PlanStatuses \ {"absent"}, NEW steps \in StepTables,
         plans[p].status # "absent", Advance(w, p, expected, status, steps),
         Fits(p, steps), work' \subseteq Items, made' \in [Plans -> Nat]
  PROVE  PlanInv'
<1> DEFINE copy == [plans[p] EXCEPT !.status = status]
<1>0. plans[p] \in PlanRecords
  BY DEF PlanInv, PlanTypes
<1>1. copy \in PlanRecords /\ copy.gen = plans[p].gen /\ copy.status = status /\ expected \in Nat
  BY <1>0, Expecting DEF PlanRecords
<1>2. Request(w, p, "advanced", expected, copy, steps)
  BY <1>1 DEF Request, Advance, Fits, Announces
<1> QED BY <1>2, RequestStep

LEMMA Submitted ==
  ASSUME PlanInv, NEW w \in Writers, NEW p \in Plans, NEW expected \in Expectations(p), SubmitPlan(w, p, expected)
  PROVE  PlanInv'
<1> DEFINE copy == [plans[p] EXCEPT !.status = "awaiting_approval"]
<1>0. plans[p] \in PlanRecords
  BY DEF PlanInv, PlanTypes
<1>1. copy \in PlanRecords /\ copy.gen = plans[p].gen /\ copy.status = "awaiting_approval" /\ expected \in Nat
  BY <1>0, Expecting DEF PlanRecords, PlanStatuses
<1>2. Fits(p, StepsOf(p)) /\ work' \subseteq Items /\ made' \in [Plans -> Nat]
  BY NothingNewRuns DEF SubmitPlan
<1>3. Request(w, p, "submitted", expected, copy, StepsOf(p))
  BY <1>1, <1>2, StepsAreTyped DEF Request, SubmitPlan, Fits
<1> QED BY <1>3, RequestStep

LEMMA HistoryReconciled ==
  ASSUME PlanInv, NEW w \in Writers, NEW p \in Plans, NEW s \in Steps, NEW expected \in Expectations(p),
         ReconcilePlanHistory(w, p, s, expected)
  PROVE  PlanInv'
<1>1. PICK status \in {"completed", "awaiting_decision"} :
        Begin(w, p, "reconciled", expected, plans[p], With(StepsOf(p), s, status))
  BY DEF ReconcilePlanHistory
<1> DEFINE steps == With(StepsOf(p), s, status)
<1>0. status \in StepStatuses
  BY DEF StepStatuses
<1>2. steps \in StepTables /\ \A t \in Steps : steps[t].status = "running" => StepsOf(p)[t].status = "running"
  BY <1>0, StepsAreTyped, WithIsTyped
<1>3. plans[p] \in PlanRecords /\ expected \in Nat
  BY DEF PlanInv, PlanTypes, PlanRecords, Expectations
<1> HIDE DEF steps
<1>4. Fits(p, steps) /\ work' \subseteq Items /\ made' \in [Plans -> Nat]
  BY <1>2, NothingNewRuns DEF ReconcilePlanHistory
<1>5. Request(w, p, "reconciled", expected, plans[p], steps)
  BY <1>1, <1>2, <1>3, <1>4 DEF Request, ReconcilePlanHistory, Fits, steps
<1> QED BY <1>5, RequestStep

(* Work is handed out: what a step that runs counts on stays.               *)
LEMMA HandOutStep ==
  ASSUME PlanInv, NEW w \in Writers, NEW p \in Plans, NEW s \in Steps, NEW expected \in Expectations(p),
         NEW kind \in WorkKinds, HandOut(w, p, s, kind, expected), plans[p].status = "active"
  PROVE  PlanInv'
<1> DEFINE new == [plan |-> p, step |-> s, kind |-> kind, n |-> made[p] + 1]
           copy == [plans[p] EXCEPT !.status = "active"]
           req == Requested(p, "advanced", expected, copy)
           op == [req EXCEPT !.pc = "mark", !.given = {new}]
<1> USE DEF PlanInv
<1>1. /\ ops[w] = NoOp /\ ops' = [ops EXCEPT ![w] = op]
      /\ work' = (work \ Forgotten(p, s, kind)) \cup {new} /\ made' = [made EXCEPT ![p] = made[p] + 1]
      /\ UNCHANGED <<plans, arrays, disk, events, excused, troubles>>
  BY DEF HandOut
<1>2. new \in Items /\ made' \in [Plans -> Nat]
  BY <1>1 DEF PlanTypes, Items
<1>3. new \in work' /\ new.plan = p /\ new.step = s /\ new.kind = kind
  BY <1>1
<1> HIDE DEF new
<1>0. plans[p] \in PlanRecords /\ plans[p].version \in Nat
  BY DEF PlanTypes, PlanRecords
<1>4. copy \in PlanRecords /\ copy.gen = plans[p].gen /\ copy.status = "active"
  BY <1>0 DEF PlanRecords, PlanStatuses
<1> HIDE DEF copy
<1>5. /\ expected \in Nat /\ expected <= plans[p].version
      /\ (IF expected = 0 THEN AbsentPlan ELSE plans[p]) \in PlanRecords
  BY <1>0, AbsentPlanIsAPlan, Expecting DEF Expectations
<1>6. /\ op = [plan |-> p, event |-> "advanced", expected |-> expected, copy |-> copy, given |-> {new},
               pc |-> "mark", base |-> IF expected = 0 THEN AbsentPlan ELSE plans[p]]
  <2> DEFINE base == IF expected = 0 THEN AbsentPlan ELSE plans[p]
  <2>1. req = [plan |-> p, event |-> "advanced", expected |-> expected, copy |-> copy, given |-> {},
               pc |-> "replace", base |-> base]
    BY DEF Requested
  <2> HIDE DEF base, req
  <2>2. [req EXCEPT !.pc = "mark"] =
          [plan |-> p, event |-> "advanced", expected |-> expected, copy |-> copy, given |-> {},
           pc |-> "mark", base |-> base]
    BY <2>1
  <2>3. op = [plan |-> p, event |-> "advanced", expected |-> expected, copy |-> copy, given |-> {new},
              pc |-> "mark", base |-> base]
    <3> DEFINE one == {new}
               r == [req EXCEPT !.pc = "mark"]
    <3> HIDE DEF one, r
    <3>0. r = [plan |-> p, event |-> "advanced", expected |-> expected, copy |-> copy, given |-> {},
               pc |-> "mark", base |-> base]
      BY <2>2 DEF r
    <3>1. [r EXCEPT !.given = one] =
            [plan |-> p, event |-> "advanced", expected |-> expected, copy |-> copy, given |-> one,
             pc |-> "mark", base |-> base]
      BY <3>0
    <3> QED BY <3>1 DEF one, r
  <2> QED BY <2>3 DEF base
<1> HIDE DEF op, req
<1>7. /\ op \in Calls /\ op.plan = p /\ op.copy = copy /\ op.pc = "mark" /\ op.event = "advanced" /\ op.expected = expected
      /\ expected # 0 => op.base = plans[p]
  <2>1. op \in Calls
    BY <1>2, <1>4, <1>5, <1>6 DEF Calls, Events
  <2> QED BY <2>1, <1>6
<1>8. \A u \in Writers : ops'[u] = IF u = w THEN op ELSE ops[u]
  BY <1>1 DEF PlanTypes
<1>9. PlanTypes'
  <2>1. ops' \in [Writers -> Calls] /\ work' \subseteq Items
    BY <1>1, <1>2, <1>7 DEF PlanTypes
  <2> QED BY <1>1, <1>2, <2>1 DEF PlanTypes
<1>10. ArraysExist'
  <2>1. \A q \in Plans : Named(q, plans[q])'
    BY <1>1 DEF ArraysExist, Named
  <2>2. ASSUME NEW u \in Writers, ops'[u].pc # "idle"
        PROVE  ops'[u].plan \in Plans /\ ops'[u].copy.gen \in DOMAIN arrays'[ops'[u].plan]
    BY <1>1, <1>4, <1>7, <1>8, <2>2 DEF ArraysExist, Named
  <2>3. \A u \in Writers : ops'[u].pc \in {"mark", "replace"} => ops'[u].copy.status # "absent"
    BY <1>4, <1>7, <1>8 DEF ArraysExist
  <2> QED BY <2>1, <2>2, <2>3 DEF ArraysExist, Named
<1>11. AbsentAreEmpty'
  BY <1>1 DEF AbsentAreEmpty
<1>12. ReadersAreRight'
  BY <1>1, <1>5, <1>7, <1>8 DEF ReadersAreRight
<1>13. ActiveIsAnnounced'
  BY <1>7, <1>8 DEF ActiveIsAnnounced, Announces
<1>14. OwnerIsWoken'
  <2> SUFFICES ASSUME NEW q \in Plans, Actionable(plans[q].status, StepsOf(q)), ~ excused[q]
               PROVE  Changing(q)' \/ Announcing(q)' \/ events[q] >= plans[q].version
    BY <1>1 DEF OwnerIsWoken, StepsOf
  <2>1. ops[w].pc = "idle"
    BY <1>1 DEF NoOp
  <2> QED BY <1>1, <1>8, <2>1 DEF OwnerIsWoken, Changing, Announcing
<1>15. RunningStepsHaveWork'
  <2> SUFFICES ASSUME NEW q \in Plans, NEW t \in Steps, Worked(q, t)
               PROVE  Worked(q, t)'
    BY <1>1 DEF RunningStepsHaveWork, Worked, StepsOf
  <2>1. PICK item \in work : item.plan = q /\ item.step = t /\ item.kind # "review"
    BY DEF Worked
  <2>2. CASE item \in Forgotten(p, s, kind)
    <3>1. q = p /\ t = s /\ kind # "review"
      BY <2>1, <2>2 DEF Forgotten
    <3> QED BY <1>3, <3>1 DEF Worked
  <2>3. CASE item \notin Forgotten(p, s, kind)
    BY <1>1, <2>1, <2>3 DEF Worked
  <2> QED BY <2>2, <2>3
<1> QED BY <1>9, <1>10, <1>11, <1>12, <1>13, <1>14, <1>15

LEMMA StepHandedOut ==
  ASSUME PlanInv, NEW w \in Writers, NEW p \in Plans, NEW s \in Steps, NEW expected \in Expectations(p),
         \/ DispatchTask(w, p, s, expected) \/ DelegateGroup(w, p, s, expected)
         \/ DelegateReview(w, p, s, expected)
  PROVE  PlanInv'
<1>1. PICK kind \in {"task", "group", "review"} : HandOut(w, p, s, kind, expected)
  BY DEF DispatchTask, DelegateGroup, DelegateReview
<1>2. plans[p].status = "active"
  BY DEF DispatchTask, DelegateGroup, DelegateReview, StepIs, Active
<1> QED BY <1>1, <1>2, HandOutStep DEF WorkKinds

(* The step that was handed out is edited in the array that was read.       *)
LEMMA MarkStep ==
  ASSUME PlanInv, GivenIsThere, NEW w \in Writers, Mark(w)
  PROVE  PlanInv'
<1> DEFINE old == ops[w]
           p == old.plan
           g == old.copy.gen
           op == [old EXCEPT !.pc = "replace", !.given = {}]
<1> USE DEF PlanInv
<1>1. PICK item \in old.given : arrays' = [arrays EXCEPT ![p][g] = Marked(arrays[p][g], item)]
  BY DEF Mark
<1> DEFINE steps == Marked(arrays[p][g], item)
<1>2. /\ old.pc = "mark" /\ ops' = [ops EXCEPT ![w] = op]
      /\ UNCHANGED <<plans, disk, events, work, made, excused, troubles>>
  BY DEF Mark
<1>3. /\ old \in Calls /\ p \in Plans /\ g \in DOMAIN arrays[p] /\ old.copy.status # "absent"
      /\ old.copy.status = "active" => Announces(old.event)
      /\ item \in Items /\ plans[p].status # "absent"
      /\ item.plan = p /\ (item.kind # "review" => Worked(p, item.step))
  <2>1. old \in Calls
    BY DEF PlanTypes
  <2>2. item \in Items
    BY <2>1 DEF Calls
  <2>3. p \in Plans /\ g \in DOMAIN arrays[p] /\ old.copy.status # "absent"
    BY <1>2 DEF ArraysExist, Named
  <2>4. old.copy.status = "active" => Announces(old.event)
    BY <1>2 DEF ActiveIsAnnounced
  <2>5. plans[p].status # "absent" /\ item.plan = p /\ (item.kind # "review" => Worked(p, item.step))
    BY DEF GivenIsThere, Stands, Worked
  <2> QED BY <2>1, <2>2, <2>3, <2>4, <2>5
<1>4. /\ op \in Calls /\ op.pc = "replace" /\ op.plan = p /\ op.copy = old.copy /\ op.event = old.event
      /\ op.expected = old.expected /\ op.base = old.base
  BY <1>3 DEF Calls
<1> HIDE DEF op
<1>5. /\ steps \in StepTables
      /\ \A t \in Steps : steps[t].status = "running" =>
           arrays[p][g][t].status = "running" \/ (t = item.step /\ item.kind # "review")
  <2> DEFINE s == item.step
             was == arrays[p][g]
  <2>1. was \in StepTables /\ s \in Steps
    BY <1>3 DEF PlanTypes, Items
  <2> HIDE DEF was
  <2>2. CASE item.kind = "review"
    <3> DEFINE edited == [was EXCEPT ![s].status = "reviewing",
                                     ![s].review = IF @ = "none" THEN "pending" ELSE @]
    <3>1. /\ edited \in StepTables
          /\ \A t \in Steps : edited[t].status = "running" => was[t].status = "running"
      BY <2>1 DEF StepTables, StepRecord, StepStatuses
    <3> QED BY <2>2, <3>1 DEF Marked, was
  <2>3. CASE item.kind # "review"
    <3>1. "running" \in StepStatuses
      BY DEF StepStatuses
    <3>2. /\ With(was, s, "running") \in StepTables
          /\ \A t \in Steps : With(was, s, "running")[t].status = IF t = s THEN "running" ELSE was[t].status
      BY <2>1, <3>1, WithIsTyped
    <3> QED BY <2>3, <3>2 DEF Marked, was
  <2> QED BY <2>2, <2>3
<1> HIDE DEF steps
<1>6. /\ \A q \in Plans : DOMAIN arrays'[q] = DOMAIN arrays[q] /\ Len(arrays'[q]) = Len(arrays[q])
      /\ arrays' \in [Plans -> Seq(StepTables)]
      /\ arrays'[p][g] = steps
      /\ \A q \in Plans \ {p} : arrays'[q] = arrays[q]
  <2>1. arrays' = [arrays EXCEPT ![p][g] = steps]
    BY <1>1 DEF steps
  <2> QED BY <2>1, <1>3, <1>5 DEF PlanTypes
<1>7. \A u \in Writers : ops'[u] = IF u = w THEN op ELSE ops[u]
  BY <1>2 DEF PlanTypes
<1>8. PlanTypes'
  <2>1. ops' \in [Writers -> Calls]
    BY <1>2, <1>4 DEF PlanTypes
  <2> QED BY <1>2, <1>6, <2>1 DEF PlanTypes
<1>9. ArraysExist'
  <2>1. \A q \in Plans : Named(q, plans[q])'
    BY <1>2, <1>6 DEF ArraysExist, Named
  <2>2. ASSUME NEW u \in Writers, ops'[u].pc # "idle"
        PROVE  ops'[u].plan \in Plans /\ ops'[u].copy.gen \in DOMAIN arrays'[ops'[u].plan]
    <3>1. CASE u = w
      BY <1>3, <1>4, <1>6, <1>7, <3>1
    <3>2. CASE u # w
      BY <1>6, <1>7, <2>2, <3>2 DEF ArraysExist, Named
    <3> QED BY <3>1, <3>2
  <2>3. \A u \in Writers : ops'[u].pc \in {"mark", "replace"} => ops'[u].copy.status # "absent"
    BY <1>3, <1>4, <1>7 DEF ArraysExist
  <2> QED BY <2>1, <2>2, <2>3 DEF ArraysExist, Named
<1>10. AbsentAreEmpty'
  BY <1>2, <1>3, <1>6 DEF AbsentAreEmpty
<1>11. ReadersAreRight'
  BY <1>2, <1>4, <1>7 DEF ReadersAreRight
<1>12. ActiveIsAnnounced'
  BY <1>3, <1>4, <1>7 DEF ActiveIsAnnounced
<1>13. OwnerIsWoken'
  <2> SUFFICES ASSUME NEW q \in Plans, Actionable(plans[q].status, StepsOf(q)'), ~ excused[q]
               PROVE  Changing(q)' \/ Announcing(q)' \/ events[q] >= plans[q].version
    BY <1>2 DEF OwnerIsWoken
  <2>1. CASE q = p
    BY <1>4, <1>7, <2>1 DEF Changing
  <2>2. CASE q # p
    <3>1. StepsOf(q)' = StepsOf(q)
      BY <1>2, <1>6, <2>2 DEF StepsOf
    <3> QED BY <1>2, <1>7, <2>2, <3>1 DEF OwnerIsWoken, Changing, Announcing
  <2> QED BY <2>1, <2>2
<1>14. RunningStepsHaveWork'
  <2> SUFFICES ASSUME NEW q \in Plans, NEW t \in Steps, StepsOf(q)'[t].status = "running", troubles.crashes = 0,
                      Len(arrays[q]) = 1
               PROVE  Worked(q, t)
    BY <1>2, <1>6 DEF RunningStepsHaveWork, Worked
  <2>1. CASE q # p
    <3>1. StepsOf(q)' = StepsOf(q)
      BY <1>2, <1>6, <2>1 DEF StepsOf
    <3> QED BY <3>1 DEF RunningStepsHaveWork, Worked
  <2>2. CASE q = p
    <3>1. plans[p].gen = g
      BY <1>3, <2>2 DEF ArraysExist, Named, PlanTypes
    <3>2. StepsOf(q)' = steps /\ StepsOf(q) = arrays[p][g]
      BY <1>2, <1>6, <2>2, <3>1 DEF StepsOf
    <3> QED BY <1>3, <1>5, <2>2, <3>2 DEF RunningStepsHaveWork, Worked
  <2> QED BY <2>1, <2>2
<1> QED BY <1>8, <1>9, <1>10, <1>11, <1>12, <1>13, <1>14

LEMMA SendUnsavedStep ==
  ASSUME PlanInv, NEW w \in Writers, SendUnsaved(w)
  PROVE  PlanInv'
<1> USE DEF PlanInv
<1>1. /\ ops[w].pc = "mark" /\ ops' = [ops EXCEPT ![w] = NoOp]
      /\ troubles' = [troubles EXCEPT !.faults = @ + 1]
      /\ UNCHANGED <<plans, arrays, disk, events, work, made, excused>>
  BY DEF SendUnsaved
<1>2. NoOp.pc = "idle" /\ NoOp \in Calls /\ \A u \in Writers : ops'[u] = IF u = w THEN NoOp ELSE ops[u]
  BY <1>1, NoOpIsACall DEF NoOp, PlanTypes
<1>3. troubles' \in [faults : Nat, crashes : Nat] /\ troubles'.crashes = troubles.crashes
  <2>1. troubles \in [faults : Nat, crashes : Nat]
    BY DEF PlanTypes
  <2> QED BY ONLY <1>1, <2>1
<1>4. PlanTypes'
  <2>1. ops' \in [Writers -> Calls]
    BY <1>1, <1>2 DEF PlanTypes
  <2> QED BY <1>1, <1>3, <2>1 DEF PlanTypes
<1>5. ArraysExist' /\ ReadersAreRight' /\ ActiveIsAnnounced' /\ AbsentAreEmpty'
  BY <1>1, <1>2 DEF ArraysExist, Named, ReadersAreRight, ActiveIsAnnounced, AbsentAreEmpty
<1>6. OwnerIsWoken'
  BY <1>1, <1>2 DEF OwnerIsWoken, Changing, Announcing, StepsOf
<1>7. RunningStepsHaveWork'
  BY <1>1, <1>3 DEF RunningStepsHaveWork, StepsOf
<1> QED BY <1>4, <1>5, <1>6, <1>7

LEMMA StepSettled ==
  ASSUME PlanInv, NEW w \in Writers, NEW p \in Plans, NEW s \in Steps, NEW expected \in Expectations(p),
         \/ AcceptStep(w, p, s, expected) \/ RequestRework(w, p, s, expected)
         \/ BlockStep(w, p, s, expected) \/ SkipStep(w, p, s, expected)
  PROVE  PlanInv'
<1>1. /\ plans[p].status # "absent" /\ NoNewWork
      /\ \E set \in {"completed", "changes_requested", "skipped", "blocked"}, status \in {"active", "blocked"} :
           \/ Advance(w, p, expected, status, Refreshed(With(StepsOf(p), s, set)))
           \/ Advance(w, p, expected, status, With(StepsOf(p), s, set))
  BY DEF AcceptStep, RequestRework, BlockStep, SkipStep, StepIs, Active
<1>2. PICK set \in {"completed", "changes_requested", "skipped", "blocked"}, status \in {"active", "blocked"} :
           \/ Advance(w, p, expected, status, Refreshed(With(StepsOf(p), s, set)))
           \/ Advance(w, p, expected, status, With(StepsOf(p), s, set))
  BY <1>1
<1> DEFINE edited == With(StepsOf(p), s, set)
<1>3. /\ edited \in StepTables
      /\ \A t \in Steps : edited[t].status = "running" => StepsOf(p)[t].status = "running"
  <2>1. set \in StepStatuses
    BY DEF StepStatuses
  <2> QED BY <2>1, StepsAreTyped, WithIsTyped
<1> HIDE DEF edited
<1>4. /\ Refreshed(edited) \in StepTables
      /\ \A t \in Steps : Refreshed(edited)[t].status = "running" => StepsOf(p)[t].status = "running"
  BY <1>3, RefreshedIsTyped
<1>5. CASE Advance(w, p, expected, status, Refreshed(edited))
  <2>1. Fits(p, Refreshed(edited)) /\ work' \subseteq Items /\ made' \in [Plans -> Nat]
    BY <1>1, <1>4, NothingNewRuns
  <2> QED BY <1>1, <1>4, <1>5, <2>1, Advances DEF PlanStatuses
<1>6. CASE Advance(w, p, expected, status, edited)
  <2>1. Fits(p, edited) /\ work' \subseteq Items /\ made' \in [Plans -> Nat]
    BY <1>1, <1>3, NothingNewRuns
  <2> QED BY <1>1, <1>3, <1>6, <2>1, Advances DEF PlanStatuses
<1> QED BY <1>2, <1>5, <1>6 DEF edited

LEMMA StatusChanged ==
  ASSUME PlanInv, NEW w \in Writers, NEW p \in Plans, NEW expected \in Expectations(p), ChangeStatus(w, p, expected)
  PROVE  PlanInv'
<1>1. PICK status \in {"paused", "cancelled", "completed"} : Advance(w, p, expected, status, StepsOf(p))
  BY DEF ChangeStatus
<1>2. plans[p].status # "absent" /\ NoNewWork
  BY DEF ChangeStatus
<1>3. Fits(p, StepsOf(p)) /\ work' \subseteq Items /\ made' \in [Plans -> Nat]
  BY <1>2, NothingNewRuns
<1> QED BY <1>1, <1>2, <1>3, StepsAreTyped, Advances DEF PlanStatuses

-----------------------------------------------------------------------------
(* Reports.                                                                 *)
LEMMA IgnoredStep ==
  ASSUME PlanInv, NEW w \in Writers, Ignored(w), work' \subseteq Items,
         \A q \in Plans, s \in Steps :
           StepsOf(q)[s].status = "running" /\ troubles.crashes = 0 /\ Len(arrays[q]) = 1 => Worked(q, s)'
  PROVE  PlanInv'
<1> USE DEF PlanInv, Ignored
<1>1. PlanTypes'
  BY DEF PlanTypes
<1>2. ArraysExist' /\ AbsentAreEmpty' /\ ReadersAreRight' /\ ActiveIsAnnounced'
  BY DEF ArraysExist, Named, AbsentAreEmpty, ReadersAreRight, ActiveIsAnnounced
<1>3. OwnerIsWoken'
  BY DEF OwnerIsWoken, Changing, Announcing, StepsOf
<1>4. RunningStepsHaveWork'
  BY DEF RunningStepsHaveWork, Worked, StepsOf
<1> QED BY <1>1, <1>2, <1>3, <1>4

LEMMA ReportStep ==
  ASSUME PlanInv, NEW w \in Writers, NEW item \in work, NEW event \in {"task", "review", "group"}, NEW steps \in StepTables,
         Report(w, item, event, steps), plans[item.plan].status # "absent", work' \subseteq Items, Fits(item.plan, steps)
  PROVE  PlanInv'
<1>1. item.plan \in Plans /\ made' \in [Plans -> Nat]
  BY DEF PlanInv, PlanTypes, Items, Report
<1>2. plans[item.plan] \in PlanRecords
  BY <1>1 DEF PlanInv, PlanTypes
<1>3. Request(w, item.plan, event, 0, plans[item.plan], steps)
  BY <1>1, <1>2 DEF Request, Report, Fits, Announces
<1> QED BY <1>1, <1>3, RequestStep

(* What has ended stays as long as somebody is handing it out.              *)
LEMMA EndedStays ==
  ASSUME work \subseteq Items, NEW item \in work
  PROVE  /\ Ended(item) \subseteq Items /\ work \ {item} \subseteq Ended(item)
         /\ \A i \in Ended(item) : i \in work \/ (i.plan = item.plan /\ i.step = item.step /\ i.n = item.n)
         /\ BeingHandedOut(item) =>
              \E i \in Ended(item) : i.plan = item.plan /\ i.step = item.step /\ i.n = item.n /\ i.kind # "review"
<1> DEFINE late == [item EXCEPT !.kind = "unheard"]
<1>1. late \in Items /\ late.plan = item.plan /\ late.step = item.step /\ late.n = item.n /\ late.kind # "review"
  BY DEF Items, WorkKinds
<1>2. Ended(item) = (work \ {item}) \cup IF BeingHandedOut(item) THEN {late} ELSE {}
  BY DEF Ended
<1> HIDE DEF late
<1> QED BY <1>1, <1>2

LEMMA UnheardStep ==
  ASSUME PlanInv, NEW item \in work, EndsUnheard(item)
  PROVE  PlanInv'
<1> DEFINE late == [item EXCEPT !.kind = "unheard"]
<1> USE DEF PlanInv
<1>1. /\ work' = (work \ {item}) \cup IF item.kind = "group" THEN {late} ELSE {}
      /\ item.kind \in {"group", "review"}
      /\ UNCHANGED <<plans, arrays, disk, ops, events, made, excused, troubles>>
  BY DEF EndsUnheard
<1>2. late \in Items /\ late.plan = item.plan /\ late.step = item.step /\ late.kind # "review"
  <2>1. item \in Items
    BY DEF PlanTypes
  <2> QED BY <2>1 DEF Items, WorkKinds
<1> HIDE DEF late
<1>3. PlanTypes'
  <2>1. work' \subseteq Items
    BY <1>1, <1>2 DEF PlanTypes
  <2> QED BY <1>1, <2>1 DEF PlanTypes
<1>4. ArraysExist' /\ ReadersAreRight' /\ ActiveIsAnnounced' /\ AbsentAreEmpty'
  BY <1>1 DEF ArraysExist, Named, ReadersAreRight, ActiveIsAnnounced, AbsentAreEmpty
<1>5. OwnerIsWoken'
  BY <1>1 DEF OwnerIsWoken, Changing, Announcing, StepsOf
<1>6. \A q \in Plans, t \in Steps : Worked(q, t) => Worked(q, t)'
  BY <1>1, <1>2 DEF Worked
<1>7. RunningStepsHaveWork'
  BY <1>1, <1>6 DEF RunningStepsHaveWork, Worked, StepsOf
<1> QED BY <1>3, <1>4, <1>5, <1>7

(* A plan with a step is there.                                             *)
LEMMA SteppedIsThere ==
  ASSUME PlanInv, NEW p \in Plans, NEW s \in Steps, StepsOf(p)[s] # [status |-> "absent", review |-> "none"]
  PROVE  plans[p].status # "absent"
<1>1. ASSUME plans[p].status = "absent" PROVE FALSE
  <2>1. arrays[p] = <<AbsentSteps>> /\ plans[p].gen \in DOMAIN arrays[p]
    BY <1>1 DEF PlanInv, AbsentAreEmpty, ArraysExist, Named
  <2>2. StepsOf(p) = AbsentSteps
    BY <2>1 DEF StepsOf
  <2> QED BY <2>2 DEF AbsentSteps
<1> QED BY <1>1

LEMMA TaskReported ==
  ASSUME PlanInv, NEW w \in Writers, NEW item, NEW outcome \in {"done", "failed"}, TaskEnds(w, item, outcome)
  PROVE  PlanInv'
<1> DEFINE p == item.plan
           s == item.step
           status == IF outcome = "done" THEN "awaiting_decision" ELSE "changes_requested"
           again == [item EXCEPT !.kind = "rerun"]
           steps == With(StepsOf(p), s, status)
<1>1. /\ item \in work /\ item \in Items /\ p \in Plans /\ s \in Steps
      /\ work' = IF outcome = "done" THEN Ended(item) ELSE (work \ {item}) \cup {again}
  BY DEF TaskEnds, PlanInv, PlanTypes, Items
<1>2. again \in Items /\ again.plan = p /\ again.step = s /\ again.kind # "review"
  BY <1>1 DEF Items, WorkKinds
<1> HIDE DEF again
<1>3. work' \subseteq Items /\ work \ {item} \subseteq work'
  BY <1>1, <1>2, EndedStays DEF PlanInv, PlanTypes
<1>4. \A q \in Plans, t \in Steps : Worked(q, t) /\ (q # p \/ t # s \/ outcome # "done") => Worked(q, t)'
  <2> SUFFICES ASSUME NEW q \in Plans, NEW t \in Steps, Worked(q, t), q # p \/ t # s \/ outcome # "done"
               PROVE  Worked(q, t)'
    OBVIOUS
  <2>1. PICK other \in work : other.plan = q /\ other.step = t /\ other.kind # "review"
    BY DEF Worked
  <2>2. CASE other # item
    BY <1>3, <2>1, <2>2 DEF Worked
  <2>3. CASE other = item
    BY <1>1, <1>2, <2>1, <2>3 DEF Worked
  <2> QED BY <2>2, <2>3
<1>5. status \in StepStatuses /\ status # "running"
  BY DEF StepStatuses
<1>6. steps \in StepTables /\ \A t \in Steps : steps[t].status = IF t = s THEN status ELSE StepsOf(p)[t].status
  BY <1>1, <1>5, StepsAreTyped, WithIsTyped
<1>7. CASE StepsOf(p)[s].status # "absent" /\ Report(w, item, "task", steps)
  <2>1. Fits(p, steps)
    <3> SUFFICES ASSUME NEW q \in Plans, NEW t \in Steps, Runs(p, t, steps, q), troubles.crashes = 0, Len(arrays[q]) = 1
                 PROVE  Worked(q, t)'
      BY DEF Fits
    <3>1. q # p \/ t # s
      BY <1>5, <1>6 DEF Runs
    <3>2. StepsOf(q)[t].status = "running"
      BY <1>6, <3>1, <1>5 DEF Runs
    <3> QED BY <1>4, <3>1, <3>2 DEF PlanInv, RunningStepsHaveWork, Worked
  <2>2. plans[p].status # "absent"
    BY <1>1, <1>7, SteppedIsThere
  <2> QED BY <1>1, <1>3, <1>6, <1>7, <2>1, <2>2, ReportStep
<1>8. CASE Ignored(w) /\ (StepsOf(p)[s].status = "absent" \/ outcome # "done")
  <2>1. ASSUME NEW q \in Plans, NEW t \in Steps, StepsOf(q)[t].status = "running", troubles.crashes = 0, Len(arrays[q]) = 1
        PROVE  Worked(q, t)'
    BY <1>4, <1>8, <2>1 DEF PlanInv, RunningStepsHaveWork, Worked
  <2> QED BY <1>3, <1>8, <2>1, IgnoredStep
<1> QED BY <1>7, <1>8 DEF TaskEnds

LEMMA DeliveryReported ==
  ASSUME PlanInv, NEW w \in Writers, NEW item, ReviewDelivered(w, item) \/ GroupDelivered(w, item)
  PROVE  PlanInv'
<1> DEFINE p == item.plan
           s == item.step
<1>1. /\ item \in work /\ item \in Items /\ p \in Plans /\ s \in Steps
      /\ work' = work \ {item} \/ work' = Ended(item)
  BY DEF ReviewDelivered, GroupDelivered, PlanInv, PlanTypes, Items
<1>2. work' \subseteq Items /\ work \ {item} \subseteq work'
  BY <1>1, EndedStays DEF PlanInv, PlanTypes
<1>3. \A q \in Plans, t \in Steps : Worked(q, t) /\ (q # p \/ t # s \/ item.kind = "review") => Worked(q, t)'
  BY <1>1, <1>2 DEF Worked
<1>4. StepsOf(p) \in StepTables
  BY <1>1, StepsAreTyped
<1>5. CASE Ignored(w) /\ (item.kind = "review" \/ StepsOf(p)[s].status # "running")
  <2>1. ASSUME NEW q \in Plans, NEW t \in Steps, StepsOf(q)[t].status = "running", troubles.crashes = 0, Len(arrays[q]) = 1
        PROVE  Worked(q, t)'
    BY <1>3, <1>5, <2>1 DEF PlanInv, RunningStepsHaveWork, Worked
  <2> QED BY <1>2, <1>5, <2>1, IgnoredStep
<1>6. CASE /\ ReviewDelivered(w, item) /\ StepsOf(p)[s].review = "pending" /\ ~ BeingHandedOut(item)
  <2> DEFINE old == StepsOf(p)
             steps == [old EXCEPT ![s].review = "delivered"]
  <2>1. item.kind = "review" /\ Report(w, item, "review", steps)
    BY <1>6 DEF ReviewDelivered
  <2>2. steps \in StepTables /\ \A t \in Steps : steps[t].status = old[t].status
    BY <1>1, <1>4 DEF StepTables, StepRecord
  <2> HIDE DEF steps
  <2>3. Fits(p, steps)
    BY <1>3, <2>1, <2>2 DEF Fits, Runs, PlanInv, RunningStepsHaveWork, Worked
  <2>4. plans[p].status # "absent"
    BY <1>1, <1>6, SteppedIsThere
  <2> QED BY <1>1, <1>2, <2>1, <2>2, <2>3, <2>4, ReportStep
<1>7. CASE /\ GroupDelivered(w, item) /\ StepsOf(p)[s].status = "running"
  <2> DEFINE steps == With(StepsOf(p), s, "awaiting_decision")
  <2>1. Report(w, item, "group", steps)
    BY <1>7 DEF GroupDelivered
  <2>0. "awaiting_decision" \in StepStatuses
    BY DEF StepStatuses
  <2>2. steps \in StepTables /\ \A t \in Steps : steps[t].status = IF t = s THEN "awaiting_decision" ELSE StepsOf(p)[t].status
    BY <1>1, <1>4, <2>0, WithIsTyped
  <2> HIDE DEF steps
  <2>3. Fits(p, steps)
    BY <1>3, <2>2 DEF Fits, Runs, PlanInv, RunningStepsHaveWork, Worked
  <2>4. plans[p].status # "absent"
    BY <1>1, <1>7, SteppedIsThere
  <2> QED BY <1>1, <1>2, <2>1, <2>2, <2>3, <2>4, ReportStep
<1>8. \/ Ignored(w) /\ (item.kind = "review" \/ StepsOf(p)[s].status # "running")
      \/ ReviewDelivered(w, item) /\ StepsOf(p)[s].review = "pending" /\ ~ BeingHandedOut(item)
      \/ GroupDelivered(w, item) /\ StepsOf(p)[s].status = "running"
  BY DEF ReviewDelivered, GroupDelivered
<1> QED BY <1>5, <1>6, <1>7, <1>8

-----------------------------------------------------------------------------
(* The second half of a call.                                               *)
LEMMA ReplaceStep ==
  ASSUME PlanInv, NEW w \in Writers, Replace(w)
  PROVE  PlanInv'
<1> DEFINE op == ops[w]
           p == op.plan
           new == [op.copy EXCEPT !.version = plans[p].version + 1]
           went == Unguarded([op EXCEPT !.pc = "save"])
<1> USE DEF PlanInv
<1>1. /\ op \in Calls /\ op.pc = "replace" /\ p \in Plans
      /\ op.copy.gen \in DOMAIN arrays[p] /\ op.copy.status # "absent"
      /\ op.copy.status = "active" => Announces(op.event)
      /\ op.copy \in PlanRecords /\ plans[p].version \in Nat
      /\ arrays' = arrays /\ disk' = disk /\ events' = events /\ work' = work /\ made' = made /\ troubles' = troubles
  BY DEF Replace, PlanTypes, ArraysExist, Named, ActiveIsAnnounced, Calls, PlanRecords
<1>2. CASE ops' = [ops EXCEPT ![w] = NoOp] /\ excused' = [excused EXCEPT ![p] = TRUE] /\ plans' = plans
  <2>0. NoOp.pc = "idle" /\ NoOp.plan \notin Plans /\ \A u \in Writers : ops'[u] = IF u = w THEN NoOp ELSE ops[u]
    BY <1>2 DEF NoOp, PlanTypes
  <2>1. PlanTypes'
    <3>1. ops' \in [Writers -> Calls]
      BY <1>2, NoOpIsACall DEF PlanTypes
    <3> QED BY <1>1, <1>2, <3>1 DEF PlanTypes
  <2>2. ArraysExist' /\ AbsentAreEmpty'
    BY <1>1, <1>2, <2>0 DEF ArraysExist, Named, AbsentAreEmpty
  <2>3. ReadersAreRight' /\ ActiveIsAnnounced'
    BY <1>1, <1>2, <2>0 DEF ReadersAreRight, ActiveIsAnnounced
  <2>4. OwnerIsWoken'
    <3> SUFFICES ASSUME NEW q \in Plans, Actionable(plans[q].status, StepsOf(q)), ~ excused'[q]
                 PROVE  Changing(q)' \/ Announcing(q)' \/ events[q] >= plans[q].version
      BY <1>1, <1>2 DEF OwnerIsWoken, StepsOf
    <3>1. q # p /\ ~ excused[q]
      BY <1>2 DEF PlanTypes
    <3> QED BY <1>1, <1>2, <2>0, <3>1 DEF OwnerIsWoken, Changing, Announcing
  <2>5. RunningStepsHaveWork'
    BY <1>1, <1>2 DEF RunningStepsHaveWork, StepsOf
  <2> QED BY <2>1, <2>2, <2>3, <2>4, <2>5
<1>3. CASE ops' = [ops EXCEPT ![w] = went] /\ excused' = [excused EXCEPT ![p] = FALSE] /\ plans' = [plans EXCEPT ![p] = new]
  <2>1. /\ new \in PlanRecords /\ new.status = op.copy.status /\ new.gen = op.copy.gen
        /\ new.version = plans[p].version + 1
    BY <1>1 DEF PlanRecords
  <2>2. /\ went \in Calls /\ went.pc = "save" /\ went.plan = p /\ went.copy = op.copy /\ went.event = op.event
        /\ went.expected = 0
    BY <1>1, AbsentPlanIsAPlan DEF Calls, Unguarded
  <2> HIDE DEF new, went
  <2>3. /\ \A u \in Writers : ops'[u] = IF u = w THEN went ELSE ops[u]
        /\ \A q \in Plans : plans'[q] = IF q = p THEN new ELSE plans[q]
    BY <1>3 DEF PlanTypes
  <2>4. PlanTypes'
    <3>1. ops' \in [Writers -> Calls] /\ plans' \in [Plans -> PlanRecords] /\ excused' \in [Plans -> BOOLEAN]
      BY <1>3, <2>1, <2>2 DEF PlanTypes
    <3> QED BY <1>1, <3>1 DEF PlanTypes
  <2>5. ArraysExist' /\ AbsentAreEmpty'
    BY <1>1, <2>1, <2>2, <2>3 DEF ArraysExist, Named, AbsentAreEmpty
  <2>6. ReadersAreRight'
    <3>1. \A u \in Writers : ops[u].expected \in Nat
      BY DEF PlanTypes, Calls
    <3> SUFFICES ASSUME NEW u \in Writers, ops'[u].pc \in {"mark", "replace"}, ops'[u].expected # 0
                 PROVE  /\ ops'[u].expected <= plans'[ops'[u].plan].version
                        /\ plans'[ops'[u].plan].version = ops'[u].expected => plans'[ops'[u].plan] = ops'[u].base
      BY DEF ReadersAreRight
    <3>2. u # w /\ ops'[u] = ops[u] /\ ops[u].plan \in Plans
      BY <2>2, <2>3 DEF ArraysExist
    <3>3. /\ ops[u].expected <= plans[ops[u].plan].version
          /\ plans[ops[u].plan].version = ops[u].expected => plans[ops[u].plan] = ops[u].base
      BY <3>2 DEF ReadersAreRight
    <3>4. CASE ops[u].plan = p
      BY <1>1, <2>1, <2>3, <3>1, <3>2, <3>3, <3>4
    <3>5. CASE ops[u].plan # p
      BY <2>3, <3>2, <3>3, <3>5
    <3> QED BY <3>4, <3>5
  <2>7. ActiveIsAnnounced'
    BY <2>2, <2>3 DEF ActiveIsAnnounced
  <2>8. OwnerIsWoken'
    <3> SUFFICES ASSUME NEW q \in Plans, Actionable(plans'[q].status, StepsOf(q)'), ~ excused'[q]
                 PROVE  Changing(q)' \/ Announcing(q)' \/ events'[q] >= plans'[q].version
      BY DEF OwnerIsWoken
    <3>1. CASE q = p
      <4>1. plans'[q].status = "active"
        BY DEF Actionable
      <4> QED BY <1>1, <2>1, <2>2, <2>3, <3>1, <4>1 DEF Announcing
    <3>2. CASE q # p
      <4>1. plans'[q] = plans[q] /\ StepsOf(q)' = StepsOf(q) /\ ~ excused[q]
        BY <1>1, <1>3, <2>3, <3>2 DEF StepsOf, PlanTypes
      <4> QED BY <1>1, <2>3, <3>2, <4>1 DEF OwnerIsWoken, Changing, Announcing
    <3> QED BY <3>1, <3>2
  <2>9. RunningStepsHaveWork'
    <3>1. \A q \in Plans : Len(arrays[q]) = 1 => StepsOf(q)' = StepsOf(q)
      <4>1. \A q \in Plans : plans[q].gen \in DOMAIN arrays[q] /\ plans'[q].gen \in DOMAIN arrays[q]
        BY <1>1, <2>1, <2>3 DEF ArraysExist, Named
      <4> QED BY <1>1, <4>1 DEF StepsOf, PlanTypes
    <3> QED BY <1>1, <3>1 DEF RunningStepsHaveWork
  <2> QED BY <2>4, <2>5, <2>6, <2>7, <2>8, <2>9
<1> QED BY <1>2, <1>3 DEF Replace

LEMMA SaveStep ==
  ASSUME PlanInv, NEW w \in Writers, Save(w)
  PROVE  PlanInv'
<1> DEFINE op == ops[w]
           p == op.plan
           told == [op EXCEPT !.pc = "tell"]
<1> USE DEF PlanInv
<1>1. /\ op \in Calls /\ op.pc = "save" /\ p \in Plans
      /\ plans' = plans /\ arrays' = arrays /\ events' = events /\ work' = work /\ made' = made
  BY DEF Save, PlanTypes, ArraysExist
<1>2. /\ told \in Calls /\ told.pc = "tell" /\ told.plan = p /\ told.copy = op.copy /\ told.event = op.event
  BY <1>1 DEF Calls
<1> HIDE DEF told
<1>3. NoOp.pc = "idle" /\ NoOp \in Calls
  BY NoOpIsACall DEF NoOp
<1>4. PICK after \in {told, NoOp} :
        /\ ops' = [ops EXCEPT ![w] = after] /\ excused' \in [Plans -> BOOLEAN] /\ troubles' \in [faults : Nat, crashes : Nat]
        /\ troubles'.crashes = troubles.crashes
        /\ \A q \in Plans : excused[q] => excused'[q]
        /\ after = told => Announces(op.event)
        /\ after = NoOp => ~ Announces(op.event) \/ excused'[p]
        /\ disk' = [q \in Plans |-> [plan |-> plans[q], steps |-> StepsOf(q)]] \/ disk' = disk
  <2>1. CASE disk' = [q \in Plans |-> [plan |-> plans[q], steps |-> StepsOf(q)]] /\ UNCHANGED <<excused, troubles>>
             /\ ops' = [ops EXCEPT ![w] = IF Announces(op.event) THEN told ELSE NoOp]
    <3>1. CASE Announces(op.event)
      BY <2>1, <3>1, <1>2, <1>3 DEF PlanTypes
    <3>2. CASE ~ Announces(op.event)
      BY <2>1, <3>2, <1>2, <1>3 DEF PlanTypes
    <3> QED BY <3>1, <3>2
  <2>2. CASE /\ troubles' = [troubles EXCEPT !.faults = @ + 1] /\ excused' = [excused EXCEPT ![p] = TRUE]
             /\ ops' = [ops EXCEPT ![w] = NoOp] /\ disk' = disk
    <3>1. troubles' \in [faults : Nat, crashes : Nat] /\ troubles'.crashes = troubles.crashes
      <4>1. troubles \in [faults : Nat, crashes : Nat]
        BY DEF PlanTypes
      <4>2. troubles' = [troubles EXCEPT !.faults = @ + 1]
        BY <2>2
      <4> QED BY <4>1, <4>2
    <3>2. excused' \in [Plans -> BOOLEAN] /\ excused'[p] /\ \A q \in Plans : excused[q] => excused'[q]
      BY <2>2, <1>1 DEF PlanTypes
    <3>3. NoOp # told
      BY <1>2, <1>3
    <3> QED BY <2>2, <3>1, <3>2, <3>3
  <2> QED BY <2>1, <2>2 DEF Save, told
<1>5. \A u \in Writers : ops'[u] = IF u = w THEN after ELSE ops[u]
  BY <1>4 DEF PlanTypes
<1>6. after \in Calls /\ after.pc # "replace" /\ (after.pc # "idle" => after = told)
  BY <1>2, <1>3
<1>7. \A q \in Plans : plans[q] \in PlanRecords /\ StepsOf(q) \in StepTables
  BY StepsAreTyped DEF PlanTypes
<1>8. PlanTypes'
  <2>1. disk' \in [Plans -> [plan : PlanRecords, steps : StepTables]]
    BY <1>4, <1>7 DEF PlanTypes
  <2>2. ops' \in [Writers -> Calls]
    BY <1>4, <1>6 DEF PlanTypes
  <2> QED BY <1>1, <1>4, <2>1, <2>2 DEF PlanTypes
<1>9. ArraysExist' /\ ReadersAreRight' /\ ActiveIsAnnounced'
  BY <1>1, <1>2, <1>4, <1>5, <1>6 DEF ArraysExist, Named, ReadersAreRight, ActiveIsAnnounced
<1>10. AbsentAreEmpty'
  <2>1. \A q \in Plans : plans[q].status = "absent" => plans[q].version = 0 /\ StepsOf(q) = AbsentSteps
    BY DEF AbsentAreEmpty, ArraysExist, Named, StepsOf
  <2> QED BY <1>1, <1>4, <2>1 DEF AbsentAreEmpty
<1>11. OwnerIsWoken'
  <2> SUFFICES ASSUME NEW q \in Plans, Actionable(plans[q].status, StepsOf(q)), ~ excused'[q]
               PROVE  Changing(q)' \/ Announcing(q)' \/ events[q] >= plans[q].version
    BY <1>1 DEF OwnerIsWoken, StepsOf
  <2>1. Changing(q) \/ Announcing(q) \/ events[q] >= plans[q].version
    BY <1>4 DEF OwnerIsWoken
  <2>2. Changing(q) => Changing(q)'
    BY <1>1, <1>5 DEF Changing
  <2>3. Announcing(q) => Announcing(q)'
    <3> SUFFICES ASSUME NEW u \in Writers, ops[u].plan = q, ops[u].pc \in {"save", "tell"}, Announces(ops[u].event),
                        ops[u].copy.status = plans[q].status, ops[u].copy.gen = plans[q].gen
                 PROVE  Announcing(q)'
      BY DEF Announcing
    <3>1. CASE u # w
      BY <1>1, <1>5, <3>1 DEF Announcing
    <3>2. CASE u = w
      <4>1. after = told
        BY <1>4, <3>2
      <4> QED BY <1>1, <1>2, <1>5, <3>2, <4>1 DEF Announcing
    <3> QED BY <3>1, <3>2
  <2> QED BY <2>1, <2>2, <2>3
<1>12. RunningStepsHaveWork'
  BY <1>1, <1>4 DEF RunningStepsHaveWork, StepsOf
<1> QED BY <1>8, <1>9, <1>10, <1>11, <1>12

LEMMA TellStep ==
  ASSUME PlanInv, NEW w \in Writers, Tell(w)
  PROVE  PlanInv'
<1> DEFINE op == ops[w]
           p == op.plan
           due == op.event # "advanced" \/ Actionable(op.copy.status, arrays[p][op.copy.gen])
<1> USE DEF PlanInv
<1>1. /\ op \in Calls /\ op.pc = "tell" /\ p \in Plans
      /\ plans' = plans /\ arrays' = arrays /\ disk' = disk /\ work' = work /\ made' = made
      /\ ops' = [ops EXCEPT ![w] = NoOp]
      /\ \/ ~ due /\ UNCHANGED <<events, excused, troubles>>
         \/ events' = [events EXCEPT ![p] = plans[p].version] /\ UNCHANGED <<excused, troubles>>
         \/ /\ troubles' = [troubles EXCEPT !.faults = @ + 1] /\ excused' = [excused EXCEPT ![p] = TRUE]
            /\ UNCHANGED events
  BY DEF Tell, PlanTypes, ArraysExist
<1>2. NoOp.pc = "idle" /\ NoOp \in Calls
  BY NoOpIsACall DEF NoOp
<1>3. \A u \in Writers : ops'[u] = IF u = w THEN NoOp ELSE ops[u]
  BY <1>1 DEF PlanTypes
<1>4. \A q \in Plans : plans[q].version \in Nat
  BY DEF PlanTypes, PlanRecords
<1>5. /\ troubles' \in [faults : Nat, crashes : Nat] /\ troubles'.crashes = troubles.crashes
      /\ excused' \in [Plans -> BOOLEAN] /\ events' \in [Plans -> Nat]
      /\ \A q \in Plans : excused[q] => excused'[q]
      /\ \A q \in Plans : events'[q] = events[q] \/ events'[q] = plans[q].version
  <2>1. CASE UNCHANGED <<events, excused, troubles>>
    BY <2>1 DEF PlanTypes
  <2>2. CASE events' = [events EXCEPT ![p] = plans[p].version] /\ UNCHANGED <<excused, troubles>>
    BY <2>2, <1>1, <1>4 DEF PlanTypes
  <2>3. CASE /\ troubles' = [troubles EXCEPT !.faults = @ + 1] /\ excused' = [excused EXCEPT ![p] = TRUE]
             /\ UNCHANGED events
    <3>1. troubles' \in [faults : Nat, crashes : Nat] /\ troubles'.crashes = troubles.crashes
      <4>1. troubles \in [faults : Nat, crashes : Nat]
        BY DEF PlanTypes
      <4>2. troubles' = [troubles EXCEPT !.faults = @ + 1]
        BY <2>3
      <4> QED BY <4>1, <4>2
    <3>2. excused' \in [Plans -> BOOLEAN] /\ \A q \in Plans : excused[q] => excused'[q]
      BY <2>3, <1>1 DEF PlanTypes
    <3> QED BY <2>3, <3>1, <3>2 DEF PlanTypes
  <2> QED BY <1>1, <2>1, <2>2, <2>3
<1>6. PlanTypes'
  BY <1>1, <1>2, <1>5 DEF PlanTypes
<1>7. ArraysExist' /\ ReadersAreRight' /\ ActiveIsAnnounced' /\ AbsentAreEmpty'
  BY <1>1, <1>2, <1>3 DEF ArraysExist, Named, ReadersAreRight, ActiveIsAnnounced, AbsentAreEmpty
<1>8. OwnerIsWoken'
  <2> SUFFICES ASSUME NEW q \in Plans, Actionable(plans[q].status, StepsOf(q)), ~ excused'[q]
               PROVE  Changing(q)' \/ Announcing(q)' \/ events'[q] >= plans[q].version
    BY <1>1 DEF OwnerIsWoken, StepsOf
  <2>1. Changing(q) \/ Announcing(q) \/ events[q] >= plans[q].version
    BY <1>5 DEF OwnerIsWoken
  <2>2. Changing(q) => Changing(q)'
    BY <1>1, <1>3 DEF Changing
  <2>3. events[q] >= plans[q].version => events'[q] >= plans[q].version
    BY <1>4, <1>5
  <2>4. Announcing(q) => Announcing(q)' \/ events'[q] >= plans[q].version
    <3> SUFFICES ASSUME NEW u \in Writers, ops[u].plan = q, ops[u].pc \in {"save", "tell"}, Announces(ops[u].event),
                        ops[u].copy.status = plans[q].status, ops[u].copy.gen = plans[q].gen
                 PROVE  Announcing(q)' \/ events'[q] >= plans[q].version
      BY DEF Announcing
    <3>1. CASE u # w
      BY <1>1, <1>3, <3>1 DEF Announcing
    <3>2. CASE u = w
      <4>1. due /\ excused'[p] = FALSE
        BY <1>5, <3>2 DEF StepsOf
      <4>2. events' = [events EXCEPT ![p] = plans[p].version]
        BY <1>1, <4>1 DEF PlanTypes
      <4> QED BY <1>1, <1>4, <3>2, <4>2 DEF PlanTypes
    <3> QED BY <3>1, <3>2
  <2> QED BY <2>1, <2>2, <2>3, <2>4
<1>9. RunningStepsHaveWork'
  BY <1>1, <1>5 DEF RunningStepsHaveWork, StepsOf
<1> QED BY <1>6, <1>7, <1>8, <1>9

-----------------------------------------------------------------------------
(* Drafts, activations, transfers and added steps.                          *)
LEMMA DraftStep ==
  ASSUME PlanInv, NEW w \in Writers, NEW p \in Plans, CreatePlanDraft(w, p)
  PROVE  PlanInv'
<1> DEFINE plan == [AbsentPlan EXCEPT !.status = "draft", !.version = 1]
           op == [NoOp EXCEPT !.plan = p, !.event = "created", !.copy = plan, !.pc = "save"]
           steps == NewSteps(Draft)
<1> USE DEF PlanInv
<1>1. /\ plans[p].status = "absent" /\ ops[w] = NoOp
      /\ plans' = [plans EXCEPT ![p] = plan] /\ ops' = [ops EXCEPT ![w] = op]
      /\ arrays' = [arrays EXCEPT ![p] = <<steps>>]
      /\ UNCHANGED <<disk, events, work, made, troubles, excused>>
  BY DEF CreatePlanDraft, Placed
<1>2. plan \in PlanRecords /\ plan.status = "draft" /\ plan.version = 1 /\ plan.gen = 1
  BY AbsentPlanIsAPlan DEF AbsentPlan, PlanRecords, PlanStatuses
<1>3. steps \in StepTables /\ \A s \in Steps : steps[s].status # "running"
  BY DEF NewSteps, StepTables, StepRecord, StepStatuses
<1> HIDE DEF plan, steps
<1>4. op \in Calls /\ op.plan = p /\ op.copy = plan /\ op.pc = "save"
  BY <1>2, AbsentPlanIsAPlan DEF NoOp, Calls, Events
<1> HIDE DEF op
<1>5. /\ \A u \in Writers : ops'[u] = IF u = w THEN op ELSE ops[u]
      /\ \A q \in Plans : plans'[q] = IF q = p THEN plan ELSE plans[q]
      /\ \A q \in Plans : arrays'[q] = IF q = p THEN <<steps>> ELSE arrays[q]
  BY <1>1 DEF PlanTypes
<1>6. PlanTypes'
  <2>1. <<steps>> \in Seq(StepTables)
    BY <1>3
  <2> QED BY <1>1, <1>2, <1>4, <2>1 DEF PlanTypes
<1>7. arrays[p] = <<AbsentSteps>> /\ plans[p].version = 0
  BY <1>1 DEF AbsentAreEmpty
<1>8. ArraysExist'
  <2>1. \A q \in Plans : Named(q, plans[q])'
    BY <1>2, <1>5 DEF ArraysExist, Named
  <2>2. ASSUME NEW u \in Writers, ops'[u].pc # "idle"
        PROVE  ops'[u].plan \in Plans /\ ops'[u].copy.gen \in DOMAIN arrays'[ops'[u].plan]
    <3>1. CASE u = w
      BY <1>2, <1>4, <1>5, <3>1
    <3>2. CASE u # w
      <4>1. ops[u].plan \in Plans /\ ops[u].copy.gen \in DOMAIN arrays[ops[u].plan]
        BY <1>5, <2>2, <3>2 DEF ArraysExist, Named
      <4> QED BY <1>5, <1>7, <3>2, <4>1
    <3> QED BY <3>1, <3>2
  <2>3. \A u \in Writers : ops'[u].pc \in {"mark", "replace"} => ops'[u].copy.status # "absent"
    BY <1>4, <1>5 DEF ArraysExist
  <2> QED BY <2>1, <2>2, <2>3 DEF ArraysExist, Named
<1>9. AbsentAreEmpty'
  BY <1>1, <1>2, <1>5 DEF AbsentAreEmpty
<1>10. ReadersAreRight'
  <2> SUFFICES ASSUME NEW u \in Writers, ops'[u].pc \in {"mark", "replace"}, ops'[u].expected # 0
               PROVE  /\ ops'[u].expected <= plans'[ops'[u].plan].version
                      /\ plans'[ops'[u].plan].version = ops'[u].expected => plans'[ops'[u].plan] = ops'[u].base
    BY DEF ReadersAreRight
  <2>1. ops'[u] = ops[u] /\ ops[u].plan \in Plans /\ ops[u].expected \in Nat
    BY <1>4, <1>5 DEF ArraysExist, PlanTypes, Calls
  <2>2. /\ ops[u].expected <= plans[ops[u].plan].version
        /\ plans[ops[u].plan].version = ops[u].expected => plans[ops[u].plan] = ops[u].base
    BY <2>1 DEF ReadersAreRight
  <2>3. ops[u].plan # p
    BY <1>7, <2>1, <2>2
  <2> QED BY <1>5, <2>1, <2>2, <2>3
<1>11. ActiveIsAnnounced'
  BY <1>4, <1>5 DEF ActiveIsAnnounced
<1>12. OwnerIsWoken'
  <2> SUFFICES ASSUME NEW q \in Plans, Actionable(plans'[q].status, StepsOf(q)'), ~ excused'[q]
               PROVE  Changing(q)' \/ Announcing(q)' \/ events'[q] >= plans'[q].version
    BY DEF OwnerIsWoken
  <2>1. q # p
    BY <1>2, <1>5 DEF Actionable
  <2>2. plans'[q] = plans[q] /\ StepsOf(q)' = StepsOf(q) /\ ~ excused[q]
    BY <1>1, <1>5, <2>1 DEF StepsOf
  <2>3. ops[w].pc = "idle"
    BY <1>1 DEF NoOp
  <2> QED BY <1>1, <1>5, <2>1, <2>2, <2>3 DEF OwnerIsWoken, Changing, Announcing
<1>13. RunningStepsHaveWork'
  <2>1. StepsOf(p)' = steps /\ \A q \in Plans \ {p} : StepsOf(q)' = StepsOf(q)
    BY <1>2, <1>5 DEF StepsOf
  <2> QED BY <1>1, <1>3, <1>5, <2>1 DEF RunningStepsHaveWork
<1> QED BY <1>6, <1>8, <1>9, <1>10, <1>11, <1>12, <1>13

LEMMA ActivateStep ==
  ASSUME PlanInv, NEW w \in Writers, NEW p \in Plans, NEW expected, ActivatePlan(w, p, expected)
  PROVE  PlanInv'
<1> DEFINE plan == [plans[p] EXCEPT !.status = "active", !.version = @ + 1]
           op == [NoOp EXCEPT !.plan = p, !.event = "activated", !.copy = plan, !.pc = "save"]
           g == plans[p].gen
           steps == Refreshed(StepsOf(p))
<1> USE DEF PlanInv
<1>1. /\ plans[p].status # "absent" /\ ops[w] = NoOp
      /\ plans' = [plans EXCEPT ![p] = plan] /\ ops' = [ops EXCEPT ![w] = op]
      /\ arrays' = [arrays EXCEPT ![p][g] = steps]
      /\ excused' = [excused EXCEPT ![p] = FALSE]
      /\ UNCHANGED <<disk, events, work, made, troubles>>
  BY DEF ActivatePlan, Placed, StepsOf
<1>2. /\ plan \in PlanRecords /\ plan.status = "active" /\ plan.version = plans[p].version + 1 /\ plan.gen = g
      /\ plans[p].version \in Nat
  <2>1. plans[p] \in PlanRecords
    BY DEF PlanTypes
  <2>2. "active" \in PlanStatuses
    BY DEF PlanStatuses
  <2>3. plans[p].version \in Nat /\ plans[p].version + 1 \in Nat
    BY <2>1 DEF PlanRecords
  <2>4. plan \in PlanRecords
    BY <2>1, <2>2, <2>3 DEF PlanRecords
  <2>5. plan.status = "active" /\ plan.version = plans[p].version + 1 /\ plan.gen = g
    BY <2>1 DEF PlanRecords
  <2> QED BY <2>3, <2>4, <2>5
<1>3. steps \in StepTables /\ \A s \in Steps : steps[s].status = "running" => StepsOf(p)[s].status = "running"
  BY StepsAreTyped, RefreshedIsTyped
<1> HIDE DEF plan, steps
<1>4. op \in Calls /\ op.plan = p /\ op.copy = plan /\ op.pc = "save" /\ op.event = "activated"
  BY <1>2, AbsentPlanIsAPlan DEF NoOp, Calls, Events
<1> HIDE DEF op
<1>5. /\ \A u \in Writers : ops'[u] = IF u = w THEN op ELSE ops[u]
      /\ \A q \in Plans : plans'[q] = IF q = p THEN plan ELSE plans[q]
  BY <1>1 DEF PlanTypes
<1>50. /\ \A q \in Plans : DOMAIN arrays'[q] = DOMAIN arrays[q] /\ Len(arrays'[q]) = Len(arrays[q])
      /\ arrays' \in [Plans -> Seq(StepTables)]
      /\ arrays'[p][g] = steps
      /\ \A q \in Plans \ {p} : arrays'[q] = arrays[q]
  BY <1>1, <1>3 DEF PlanTypes, ArraysExist, Named
<1>6. PlanTypes'
  <2>1. ops' \in [Writers -> Calls] /\ plans' \in [Plans -> PlanRecords] /\ excused' \in [Plans -> BOOLEAN]
    BY <1>1, <1>2, <1>4 DEF PlanTypes
  <2> QED BY <1>1, <1>50, <2>1 DEF PlanTypes
<1>8. ArraysExist'
  <2>1. \A q \in Plans : Named(q, plans[q])'
    BY <1>2, <1>5, <1>50 DEF ArraysExist, Named
  <2>2. ASSUME NEW u \in Writers, ops'[u].pc # "idle"
        PROVE  ops'[u].plan \in Plans /\ ops'[u].copy.gen \in DOMAIN arrays'[ops'[u].plan]
    <3>1. CASE u = w
      BY <1>2, <1>4, <1>5, <1>50, <3>1 DEF ArraysExist, Named
    <3>2. CASE u # w
      BY <1>5, <1>50, <2>2, <3>2, ZenonT(60) DEF ArraysExist, Named
    <3> QED BY <3>1, <3>2
  <2>3. \A u \in Writers : ops'[u].pc \in {"mark", "replace"} => ops'[u].copy.status # "absent"
    BY <1>4, <1>5 DEF ArraysExist
  <2> QED BY <2>1, <2>2, <2>3 DEF ArraysExist, Named
<1>9. AbsentAreEmpty'
  BY <1>1, <1>2, <1>5, <1>50 DEF AbsentAreEmpty
<1>10. ReadersAreRight'
  <2> SUFFICES ASSUME NEW u \in Writers, ops'[u].pc \in {"mark", "replace"}, ops'[u].expected # 0
               PROVE  /\ ops'[u].expected <= plans'[ops'[u].plan].version
                      /\ plans'[ops'[u].plan].version = ops'[u].expected => plans'[ops'[u].plan] = ops'[u].base
    BY DEF ReadersAreRight
  <2>1. ops'[u] = ops[u] /\ ops[u].plan \in Plans /\ ops[u].expected \in Nat
    BY <1>4, <1>5 DEF ArraysExist, PlanTypes, Calls
  <2>2. /\ ops[u].expected <= plans[ops[u].plan].version
        /\ plans[ops[u].plan].version = ops[u].expected => plans[ops[u].plan] = ops[u].base
    BY <2>1 DEF ReadersAreRight
  <2> QED BY <1>2, <1>5, <2>1, <2>2
<1>11. ActiveIsAnnounced'
  BY <1>4, <1>5 DEF ActiveIsAnnounced
<1>12. OwnerIsWoken'
  <2> SUFFICES ASSUME NEW q \in Plans, Actionable(plans'[q].status, StepsOf(q)'), ~ excused'[q]
               PROVE  Changing(q)' \/ Announcing(q)' \/ events'[q] >= plans'[q].version
    BY DEF OwnerIsWoken
  <2>1. CASE q = p
    BY <1>4, <1>5, <2>1 DEF Announcing, Announces
  <2>2. CASE q # p
    <3>1. plans'[q] = plans[q] /\ StepsOf(q)' = StepsOf(q) /\ ~ excused[q]
      BY <1>1, <1>5, <1>50, <2>2 DEF StepsOf, PlanTypes
    <3>2. ops[w].pc = "idle"
      BY <1>1 DEF NoOp
    <3> QED BY <1>1, <1>5, <2>2, <3>1, <3>2 DEF OwnerIsWoken, Changing, Announcing
  <2> QED BY <2>1, <2>2
<1>13. RunningStepsHaveWork'
  <2>1. StepsOf(p)' = steps /\ \A q \in Plans \ {p} : StepsOf(q)' = StepsOf(q)
    BY <1>2, <1>5, <1>50 DEF StepsOf
  <2> QED BY <1>1, <1>3, <1>50, <2>1 DEF RunningStepsHaveWork
<1> QED BY <1>6, <1>8, <1>9, <1>10, <1>11, <1>12, <1>13

LEMMA AddedStep ==
  ASSUME PlanInv, NEW w \in Writers, NEW p \in Plans, NEW s \in Steps, NEW expected \in Expectations(p),
         AddStep(w, p, s, expected)
  PROVE  PlanInv'
<1> DEFINE old == StepsOf(p)
           added == [old EXCEPT ![s].status = "pending"]
           steps == Refreshed(added)
           copy == [plans[p] EXCEPT !.gen = 2]
           op == Requested(p, "advanced", expected, copy)
<1> USE DEF PlanInv
<1>1. /\ plans[p].status = "active" /\ ops[w] = NoOp /\ Len(arrays[p]) = 1
      /\ ~ Outdated(p, expected)
      /\ arrays' = [arrays EXCEPT ![p] = Append(arrays[p], steps)] /\ ops' = [ops EXCEPT ![w] = op]
      /\ UNCHANGED <<plans, disk, events, work, made, excused, troubles>>
  <2>1. Len(arrays[p]) + 1 = 2 /\ Len(arrays[p]) \in Nat
    <3>1. Len(arrays[p]) + 1 = 2
      BY DEF AddStep
    <3>2. Len(arrays[p]) \in Nat
      BY DEF PlanTypes
    <3> QED BY <3>1, <3>2
  <2>2. Len(arrays[p]) = 1
    <3>1. \A n \in Nat : n + 1 = 2 => n = 1
      OBVIOUS
    <3> QED BY <2>1, <3>1
  <2>3. arrays' = [arrays EXCEPT ![p] = Append(arrays[p], steps)] /\ ops' = [ops EXCEPT ![w] = op]
    BY <2>1 DEF AddStep
  <2> QED BY <2>2, <2>3 DEF AddStep, StepIs, Active
<1>2. steps \in StepTables
  <2>1. old \in StepTables
    BY StepsAreTyped
  <2>2. added \in StepTables
    BY <2>1 DEF StepTables, StepRecord, StepStatuses
  <2> HIDE DEF added
  <2> QED BY <2>2, RefreshedIsTyped
<1> HIDE DEF steps
<1>0. plans[p] \in PlanRecords
  BY DEF PlanTypes
<1>3. /\ copy \in PlanRecords /\ copy.status = "active" /\ copy.gen = 2
  BY <1>0, <1>1 DEF PlanRecords
<1> HIDE DEF copy
<1>4. /\ op \in Calls /\ op.plan = p /\ op.copy = copy /\ op.pc = "replace" /\ op.event = "advanced" /\ op.expected = expected
      /\ expected # 0 => op.base = plans[p] /\ plans[p].version = expected
  BY <1>0, <1>1, <1>3, Expecting, AbsentPlanIsAPlan DEF Requested, Calls, Events, Outdated
<1> HIDE DEF op
<1>5. \A u \in Writers : ops'[u] = IF u = w THEN op ELSE ops[u]
  BY <1>1 DEF PlanTypes
<1>6. /\ arrays' \in [Plans -> Seq(StepTables)]
      /\ \A q \in Plans : DOMAIN arrays[q] \subseteq DOMAIN arrays'[q]
      /\ \A q \in Plans, g \in {1, 2} : g \in DOMAIN arrays[q] => arrays'[q][g] = arrays[q][g]
      /\ Len(arrays'[p]) = 2 /\ 2 \in DOMAIN arrays'[p]
      /\ \A q \in Plans \ {p} : arrays'[q] = arrays[q]
  <2>1. arrays[p] \in Seq(StepTables) /\ Len(arrays[p]) = 1
    BY <1>1 DEF PlanTypes
  <2>2. /\ Append(arrays[p], steps) \in Seq(StepTables) /\ Len(Append(arrays[p], steps)) = 2
        /\ Append(arrays[p], steps)[1] = arrays[p][1]
        /\ DOMAIN arrays[p] = {1} /\ DOMAIN Append(arrays[p], steps) = {1, 2}
    BY <1>2, <2>1, AppendedOne
  <2>3. \A q \in Plans : arrays'[q] = IF q = p THEN Append(arrays[p], steps) ELSE arrays[q]
    BY <1>1 DEF PlanTypes
  <2>4. arrays' \in [Plans -> Seq(StepTables)]
    BY <1>1, <2>2 DEF PlanTypes
  <2>5. \A q \in Plans, g \in {1, 2} : g \in DOMAIN arrays[q] => arrays'[q][g] = arrays[q][g]
    BY <2>2, <2>3
  <2>6. \A q \in Plans : DOMAIN arrays[q] \subseteq DOMAIN arrays'[q]
    BY <2>2, <2>3
  <2> QED BY <2>2, <2>3, <2>4, <2>5, <2>6
<1>7. PlanTypes'
  BY <1>1, <1>4, <1>6 DEF PlanTypes
<1>8. \A q \in Plans : StepsOf(q)' = StepsOf(q)
  <2>1. \A q \in Plans : plans[q].gen \in {1, 2} /\ plans[q].gen \in DOMAIN arrays[q]
    BY DEF PlanTypes, PlanRecords, ArraysExist, Named
  <2> QED BY <1>1, <1>6, <2>1 DEF StepsOf
<1>9. ArraysExist'
  <2>1. \A q \in Plans : Named(q, plans[q])'
    BY <1>1, <1>6 DEF ArraysExist, Named
  <2>2. ASSUME NEW u \in Writers, ops'[u].pc # "idle"
        PROVE  ops'[u].plan \in Plans /\ ops'[u].copy.gen \in DOMAIN arrays'[ops'[u].plan]
    <3>1. CASE u = w
      BY <1>3, <1>4, <1>5, <1>6, <3>1
    <3>2. CASE u # w
      BY <1>5, <1>6, <2>2, <3>2 DEF ArraysExist, Named
    <3> QED BY <3>1, <3>2
  <2>3. \A u \in Writers : ops'[u].pc \in {"mark", "replace"} => ops'[u].copy.status # "absent"
    BY <1>3, <1>4, <1>5 DEF ArraysExist
  <2> QED BY <2>1, <2>2, <2>3 DEF ArraysExist, Named
<1>10. AbsentAreEmpty'
  BY <1>1, <1>6 DEF AbsentAreEmpty
<1>11. ReadersAreRight'
  <2>1. plans[p].version \in Nat
    BY <1>0 DEF PlanRecords
  <2> QED BY <1>1, <1>4, <1>5, <2>1 DEF ReadersAreRight
<1>12. ActiveIsAnnounced'
  BY <1>4, <1>5 DEF ActiveIsAnnounced, Announces
<1>13. OwnerIsWoken'
  <2> SUFFICES ASSUME NEW q \in Plans, Actionable(plans[q].status, StepsOf(q)), ~ excused[q]
               PROVE  Changing(q)' \/ Announcing(q)' \/ events[q] >= plans[q].version
    BY <1>1, <1>8 DEF OwnerIsWoken
  <2>1. ops[w].pc = "idle"
    BY <1>1 DEF NoOp
  <2> QED BY <1>1, <1>5, <2>1 DEF OwnerIsWoken, Changing, Announcing
<1>14. RunningStepsHaveWork'
  BY <1>1, <1>6, <1>8 DEF RunningStepsHaveWork
<1> QED BY <1>7, <1>9, <1>10, <1>11, <1>12, <1>13, <1>14

LEMMA TransferStep ==
  ASSUME PlanInv, NEW w \in Writers, NEW m \in Members, TransferGroupCoordinator(w, m)
  PROVE  PlanInv'
<1> DEFINE open == {p \in Plans : plans[p].status \notin {"absent", "completed", "cancelled"}}
           moved(q) == [plans[q] EXCEPT !.owner = m, !.version = @ + 1]
           first == CHOOSE p \in open : TRUE
           op == [NoOp EXCEPT !.plan = first, !.event = "transferred", !.pc = "save"]
<1> USE DEF PlanInv
<1>1. /\ ops[w] = NoOp /\ open # {}
      /\ plans' = [p \in Plans |-> IF p \in open THEN moved(p) ELSE plans[p]]
      /\ excused' = [p \in Plans |-> p \in open \/ excused[p]]
      /\ ops' = [ops EXCEPT ![w] = op]
      /\ UNCHANGED <<arrays, disk, events, work, made, troubles>>
  BY DEF TransferGroupCoordinator
<1>2. first \in open /\ open \subseteq Plans
  BY <1>1
<1>3. \A q \in Plans : /\ moved(q) \in PlanRecords /\ moved(q).status = plans[q].status /\ moved(q).gen = plans[q].gen
                       /\ moved(q).version = plans[q].version + 1 /\ plans[q].version \in Nat
  <2> SUFFICES ASSUME NEW q \in Plans
               PROVE  /\ moved(q) \in PlanRecords /\ moved(q).status = plans[q].status /\ moved(q).gen = plans[q].gen
                      /\ moved(q).version = plans[q].version + 1 /\ plans[q].version \in Nat
    OBVIOUS
  <2>1. plans[q] \in PlanRecords
    BY DEF PlanTypes
  <2>2. plans[q].version \in Nat /\ plans[q].version + 1 \in Nat /\ m \in Members
    BY <2>1 DEF PlanRecords
  <2>3. moved(q) \in PlanRecords
    BY <2>1, <2>2 DEF PlanRecords
  <2>4. moved(q).status = plans[q].status /\ moved(q).gen = plans[q].gen /\ moved(q).version = plans[q].version + 1
    BY <2>1 DEF PlanRecords
  <2> QED BY <2>2, <2>3, <2>4
<1> HIDE DEF moved, first
<1>4. op \in Calls /\ op.plan = first /\ op.copy.gen = 1 /\ op.pc = "save"
  BY <1>2, AbsentPlanIsAPlan DEF NoOp, Calls, Events, AbsentPlan
<1> HIDE DEF op
<1>5. /\ \A u \in Writers : ops'[u] = IF u = w THEN op ELSE ops[u]
      /\ \A q \in Plans : plans'[q] = IF q \in open THEN moved(q) ELSE plans[q]
      /\ \A q \in Plans : plans'[q].status = plans[q].status /\ plans'[q].gen = plans[q].gen
      /\ \A q \in Plans : excused'[q] = (q \in open \/ excused[q])
  BY <1>1, <1>3 DEF PlanTypes
<1>6. PlanTypes'
  <2>1. plans' \in [Plans -> PlanRecords] /\ ops' \in [Writers -> Calls] /\ excused' \in [Plans -> BOOLEAN]
    BY <1>1, <1>3, <1>4 DEF PlanTypes
  <2> QED BY <1>1, <2>1 DEF PlanTypes
<1>7. ArraysExist'
  <2>0. \A q \in Plans : 1 \in DOMAIN arrays[q]
    BY DEF PlanTypes, ArraysExist, Named
  <2>1. \A q \in Plans : Named(q, plans[q])'
    BY <1>1, <1>5 DEF ArraysExist, Named
  <2>2. ASSUME NEW u \in Writers, ops'[u].pc # "idle"
        PROVE  ops'[u].plan \in Plans /\ ops'[u].copy.gen \in DOMAIN arrays'[ops'[u].plan]
    BY <1>1, <1>2, <1>4, <1>5, <2>0, <2>2 DEF ArraysExist, Named
  <2>3. \A u \in Writers : ops'[u].pc \in {"mark", "replace"} => ops'[u].copy.status # "absent"
    BY <1>4, <1>5 DEF ArraysExist
  <2> QED BY <2>1, <2>2, <2>3 DEF ArraysExist, Named
<1>8. AbsentAreEmpty'
  BY <1>1, <1>5 DEF AbsentAreEmpty
<1>9. ReadersAreRight'
  <2> SUFFICES ASSUME NEW u \in Writers, ops'[u].pc \in {"mark", "replace"}, ops'[u].expected # 0
               PROVE  /\ ops'[u].expected <= plans'[ops'[u].plan].version
                      /\ plans'[ops'[u].plan].version = ops'[u].expected => plans'[ops'[u].plan] = ops'[u].base
    BY DEF ReadersAreRight
  <2>1. ops'[u] = ops[u] /\ ops[u].plan \in Plans /\ ops[u].expected \in Nat
    BY <1>4, <1>5 DEF ArraysExist, PlanTypes, Calls
  <2>2. /\ ops[u].expected <= plans[ops[u].plan].version
        /\ plans[ops[u].plan].version = ops[u].expected => plans[ops[u].plan] = ops[u].base
    BY <2>1 DEF ReadersAreRight
  <2> QED BY <1>3, <1>5, <2>1, <2>2
<1>10. ActiveIsAnnounced'
  BY <1>4, <1>5 DEF ActiveIsAnnounced
<1>11. OwnerIsWoken'
  <2> SUFFICES ASSUME NEW q \in Plans, Actionable(plans'[q].status, StepsOf(q)'), ~ excused'[q]
               PROVE  Changing(q)' \/ Announcing(q)' \/ events'[q] >= plans'[q].version
    BY DEF OwnerIsWoken
  <2>1. plans'[q] = plans[q] /\ StepsOf(q)' = StepsOf(q) /\ ~ excused[q]
    BY <1>1, <1>5 DEF StepsOf
  <2>2. ops[w].pc = "idle"
    BY <1>1 DEF NoOp
  <2> QED BY <1>1, <1>5, <2>1, <2>2 DEF OwnerIsWoken, Changing, Announcing
<1>12. RunningStepsHaveWork'
  BY <1>1, <1>5 DEF RunningStepsHaveWork, StepsOf
<1> QED BY <1>6, <1>7, <1>8, <1>9, <1>10, <1>11, <1>12

-----------------------------------------------------------------------------
(* The owner's turn and restarts.                                           *)
LEMMA EventStep ==
  ASSUME PlanInv, NEW p \in Plans, ExecutePlanEvent(p)
  PROVE  PlanInv'
<1> USE DEF PlanInv
<1>1. /\ events' = [events EXCEPT ![p] = 0]
      /\ excused' = [excused EXCEPT ![p] = @ \/ (Active(p) /\ events[p] >= plans[p].version)]
      /\ UNCHANGED <<plans, arrays, disk, ops, work, made, troubles>>
  BY DEF ExecutePlanEvent
<1>2. PlanTypes'
  <2>1. events' \in [Plans -> Nat] /\ excused' \in [Plans -> BOOLEAN]
    BY <1>1 DEF PlanTypes
  <2> QED BY <1>1, <2>1 DEF PlanTypes
<1>3. ArraysExist' /\ AbsentAreEmpty' /\ ReadersAreRight' /\ ActiveIsAnnounced' /\ RunningStepsHaveWork'
  BY <1>1 DEF ArraysExist, Named, AbsentAreEmpty, ReadersAreRight, ActiveIsAnnounced, RunningStepsHaveWork, StepsOf
<1>4. OwnerIsWoken'
  <2> SUFFICES ASSUME NEW q \in Plans, Actionable(plans[q].status, StepsOf(q)), ~ excused'[q]
               PROVE  Changing(q)' \/ Announcing(q)' \/ events'[q] >= plans'[q].version
    BY <1>1 DEF OwnerIsWoken, StepsOf
  <2>1. ~ excused[q] /\ (q = p => ~ events[p] >= plans[p].version)
    BY <1>1 DEF PlanTypes, Active, Actionable
  <2>2. Changing(q) \/ Announcing(q) \/ events[q] >= plans[q].version
    BY <2>1 DEF OwnerIsWoken
  <2>3. q # p => events'[q] = events[q]
    BY <1>1 DEF PlanTypes
  <2> QED BY <1>1, <2>1, <2>2, <2>3 DEF Changing, Announcing
<1> QED BY <1>2, <1>3, <1>4

LEMMA CrashStep ==
  ASSUME PlanInv, Crash
  PROVE  PlanInv'
<1> DEFINE plan(p) == [disk[p].plan EXCEPT !.gen = 1]
           kept(p) == [disk[p] EXCEPT !.plan.gen = 1]
           back(item) == [item EXCEPT !.kind = IF @ = "task" THEN "rerun" ELSE @]
<1> USE DEF PlanInv
<1>1. /\ troubles' = [troubles EXCEPT !.crashes = @ + 1]
      /\ plans' = [p \in Plans |-> plan(p)]
      /\ arrays' = [p \in Plans |-> <<disk[p].steps>>]
      /\ disk' = [p \in Plans |-> kept(p)]
      /\ ops' = [w \in Writers |-> NoOp]
      /\ events' = [p \in Plans |-> IF Resumed(p) THEN disk[p].plan.version ELSE events[p]]
      /\ work' = {back(item) : item \in work}
      /\ excused' = [p \in Plans |-> events[p] # 0]
      /\ made' = made
  BY DEF Crash
<1>2. \A p \in Plans :
        /\ disk[p].plan \in PlanRecords /\ disk[p].steps \in StepTables
        /\ plan(p) \in PlanRecords /\ plan(p).gen = 1 /\ plan(p).status = disk[p].plan.status
        /\ plan(p).version = disk[p].plan.version /\ disk[p].plan.version \in Nat
        /\ kept(p) = [plan |-> plan(p), steps |-> disk[p].steps]
  <2> SUFFICES ASSUME NEW p \in Plans
               PROVE  /\ disk[p].plan \in PlanRecords /\ disk[p].steps \in StepTables
                      /\ plan(p) \in PlanRecords /\ plan(p).gen = 1 /\ plan(p).status = disk[p].plan.status
                      /\ plan(p).version = disk[p].plan.version /\ disk[p].plan.version \in Nat
                      /\ kept(p) = [plan |-> plan(p), steps |-> disk[p].steps]
    OBVIOUS
  <2>1. disk[p] \in [plan : PlanRecords, steps : StepTables]
    BY DEF PlanTypes
  <2>2. disk[p].plan \in PlanRecords /\ disk[p].steps \in StepTables
    BY <2>1
  <2>3. plan(p) \in PlanRecords
    BY <2>2 DEF PlanRecords
  <2>4. plan(p).gen = 1 /\ plan(p).status = disk[p].plan.status
        /\ plan(p).version = disk[p].plan.version /\ disk[p].plan.version \in Nat
    BY <2>2 DEF PlanRecords
  <2>5. kept(p) = [plan |-> plan(p), steps |-> disk[p].steps]
    BY <2>1
  <2> QED BY <2>2, <2>3, <2>4, <2>5
<1> HIDE DEF plan, kept
<1>3. /\ NoOp \in Calls /\ NoOp.pc = "idle"
      /\ \A w \in Writers : ops'[w] = NoOp
      /\ \A p \in Plans : plans'[p] = plan(p) /\ arrays'[p] = <<disk[p].steps>> /\ disk'[p] = kept(p)
  BY <1>1, NoOpIsACall DEF NoOp
<1>4. PlanTypes'
  <2>1. plans' \in [Plans -> PlanRecords]
    BY <1>1, <1>2
  <2>2. arrays' \in [Plans -> Seq(StepTables)]
    <3>1. \A p \in Plans : <<disk[p].steps>> \in Seq(StepTables)
      BY <1>2
    <3> QED BY <1>1, <3>1
  <2>3. disk' \in [Plans -> [plan : PlanRecords, steps : StepTables]]
    BY <1>1, <1>2
  <2>4. ops' \in [Writers -> Calls]
    BY <1>1, <1>3
  <2>5. events' \in [Plans -> Nat] /\ excused' \in [Plans -> BOOLEAN]
    BY <1>1, <1>2 DEF PlanTypes
  <2>6. work' \subseteq Items
    <3>1. \A item \in Items : back(item) \in Items
      BY DEF Items, WorkKinds
    <3> QED BY <1>1, <3>1 DEF PlanTypes
  <2>7. troubles' \in [faults : Nat, crashes : Nat]
    <3>1. troubles \in [faults : Nat, crashes : Nat]
      BY DEF PlanTypes
    <3>2. troubles' = [troubles EXCEPT !.crashes = troubles.crashes + 1]
      BY <1>1
    <3> QED BY ONLY <3>1, <3>2
  <2> QED BY <1>1, <2>1, <2>2, <2>3, <2>4, <2>5, <2>6, <2>7 DEF PlanTypes
<1>5. ArraysExist' /\ ReadersAreRight' /\ ActiveIsAnnounced'
  <2>1. \A p \in Plans : 1 \in DOMAIN arrays'[p]
    BY <1>3
  <2> QED BY <1>2, <1>3, <2>1 DEF ArraysExist, Named, ReadersAreRight, ActiveIsAnnounced
<1>6. AbsentAreEmpty'
  BY <1>2, <1>3 DEF AbsentAreEmpty
<1>7. \A p \in Plans : StepsOf(p)' = disk[p].steps
  BY <1>2, <1>3 DEF StepsOf
<1>8. OwnerIsWoken'
  <2> SUFFICES ASSUME NEW q \in Plans, Actionable(plans[q].status, StepsOf(q))', ~ excused'[q]
               PROVE  events'[q] >= plans'[q].version
    BY DEF OwnerIsWoken
  <2>1. Actionable(disk[q].plan.status, disk[q].steps)
    BY <1>2, <1>3, <1>7
  <2>2. events[q] = 0
    BY <1>1
  <2>3. events'[q] = disk[q].plan.version
    BY <1>1, <2>1, <2>2 DEF Resumed
  <2> QED BY <1>2, <1>3, <2>3
<1>9. RunningStepsHaveWork'
  <2>1. troubles'.crashes # 0
    BY <1>1 DEF PlanTypes
  <2> QED BY <2>1 DEF RunningStepsHaveWork
<1> QED BY <1>4, <1>5, <1>6, <1>8, <1>9

-----------------------------------------------------------------------------
LEMMA PlanInvInit == Init => PlanInv
<1> SUFFICES ASSUME Init PROVE PlanInv
  OBVIOUS
<1> USE AbsentPlanIsAPlan, AbsentStepsAreSteps, NoOpIsACall DEF Init
<1>1. NoOp.pc = "idle" /\ AbsentPlan.status = "absent" /\ AbsentPlan.version = 0 /\ AbsentPlan.gen = 1
  BY DEF NoOp, AbsentPlan
<1>2. PlanTypes
  BY DEF PlanTypes
<1>3. \A p \in Plans : plans[p] = AbsentPlan /\ arrays[p] = <<AbsentSteps>> /\ StepsOf(p) = AbsentSteps
  BY <1>1 DEF StepsOf
<1>4. ArraysExist
  BY <1>1, <1>3 DEF ArraysExist, Named
<1>5. AbsentAreEmpty
  BY <1>1, <1>3 DEF AbsentAreEmpty
<1>6. ReadersAreRight /\ ActiveIsAnnounced
  BY <1>1 DEF ReadersAreRight, ActiveIsAnnounced
<1>7. OwnerIsWoken
  BY <1>1, <1>3 DEF OwnerIsWoken, Actionable
<1>8. RunningStepsHaveWork
  BY <1>3 DEF RunningStepsHaveWork, AbsentSteps
<1> QED BY <1>2, <1>4, <1>5, <1>6, <1>7, <1>8 DEF PlanInv

LEMMA PlanInvStep ==
  ASSUME PlanInv, GivenIsThere, [Next]_vars
  PROVE  PlanInv'
<1>1. CASE \E w \in Writers : Mark(w) \/ SendUnsaved(w) \/ Replace(w) \/ Save(w) \/ Tell(w)
  BY <1>1, MarkStep, SendUnsavedStep, ReplaceStep, SaveStep, TellStep
<1>2. CASE \E w \in Deciders, p \in Plans : CreatePlanDraft(w, p)
  BY <1>2, DraftStep
<1>3. CASE \E w \in Deciders, p \in Plans : \E expected \in Expectations(p) : Decision(w, p, expected)
  <2>1. PICK w \in Deciders, p \in Plans : \E expected \in Expectations(p) : Decision(w, p, expected)
    BY <1>3
  <2>2. PICK expected \in Expectations(p) : Decision(w, p, expected)
    BY <2>1
  <2>3. w \in Writers
    OBVIOUS
  <2> HIDE DEF Writers
  <2>4. CASE SubmitPlan(w, p, expected)
    BY <2>3, <2>4, Submitted
  <2>5. CASE ActivatePlan(w, p, expected)
    BY <2>3, <2>5, ActivateStep
  <2>6. CASE ChangeStatus(w, p, expected)
    BY <2>3, <2>6, StatusChanged
  <2>7. CASE \E s \in Steps :
       \/ ReconcilePlanHistory(w, p, s, expected)
       \/ DispatchTask(w, p, s, expected) \/ DelegateGroup(w, p, s, expected)
       \/ AcceptStep(w, p, s, expected) \/ RequestRework(w, p, s, expected)
       \/ DelegateReview(w, p, s, expected) \/ BlockStep(w, p, s, expected)
       \/ SkipStep(w, p, s, expected) \/ AddStep(w, p, s, expected)
    <3>1. PICK s \in Steps :
       \/ ReconcilePlanHistory(w, p, s, expected)
       \/ DispatchTask(w, p, s, expected) \/ DelegateGroup(w, p, s, expected)
       \/ AcceptStep(w, p, s, expected) \/ RequestRework(w, p, s, expected)
       \/ DelegateReview(w, p, s, expected) \/ BlockStep(w, p, s, expected)
       \/ SkipStep(w, p, s, expected) \/ AddStep(w, p, s, expected)
      BY <2>7
    <3>2. CASE ReconcilePlanHistory(w, p, s, expected)
      BY <2>3, <3>2, HistoryReconciled
    <3>3. CASE \/ DispatchTask(w, p, s, expected) \/ DelegateGroup(w, p, s, expected)
               \/ DelegateReview(w, p, s, expected)
      BY <2>3, <3>3, StepHandedOut
    <3>4. CASE \/ AcceptStep(w, p, s, expected) \/ RequestRework(w, p, s, expected)
               \/ BlockStep(w, p, s, expected) \/ SkipStep(w, p, s, expected)
      BY <2>3, <3>4, StepSettled
    <3>5. CASE AddStep(w, p, s, expected)
      BY <2>3, <3>5, AddedStep
    <3> QED BY <3>1, <3>2, <3>3, <3>4, <3>5
  <2> QED BY <2>2, <2>4, <2>5, <2>6, <2>7 DEF Decision
<1>4. CASE \E w \in Reporters : \E m \in Members : TransferGroupCoordinator(w, m)
  BY <1>4, TransferStep
<1>5. CASE \E w \in Reporters : \E item \in work :
            \/ \E outcome \in {"done", "failed"} : TaskEnds(w, item, outcome)
            \/ ReviewDelivered(w, item) \/ GroupDelivered(w, item)
  BY <1>5, TaskReported, DeliveryReported
<1>6. CASE \E p \in Plans : ExecutePlanEvent(p)
  BY <1>6, EventStep
<1>7. CASE Crash
  BY <1>7, CrashStep
<1>9. CASE \E item \in work : EndsUnheard(item)
  BY <1>9, UnheardStep
<1>8. CASE UNCHANGED vars
  BY <1>8 DEF vars, PlanInv, PlanTypes, ArraysExist, Named, AbsentAreEmpty, ReadersAreRight, OwnerIsWoken, Changing,
              Announcing, StepsOf, ActiveIsAnnounced, RunningStepsHaveWork
<1> QED BY <1>1, <1>2, <1>3, <1>4, <1>5, <1>6, <1>7, <1>8, <1>9 DEF Next

-----------------------------------------------------------------------------
(* What is being handed out stays there.                                    *)
LEMMA GivenKept ==
  ASSUME GivenIsThere,
         \A w \in Writers : \/ ops'[w].given = {}
                            \/ ops'[w].given = ops[w].given /\ ops'[w].plan = ops[w].plan,
         \A w \in Writers : \A g \in ops[w].given :
           Stands(g.plan, g.step, g.n) => Stands(g.plan, g.step, g.n)',
         \A w \in Writers : \A g \in ops[w].given :
           plans[ops[w].plan].status # "absent" => plans'[ops[w].plan].status # "absent"
  PROVE  GivenIsThere'
<1> SUFFICES ASSUME NEW w \in Writers, NEW g \in ops'[w].given
             PROVE  /\ g.plan = ops'[w].plan /\ plans'[ops'[w].plan].status # "absent"
                    /\ g.kind # "review" => Stands(g.plan, g.step, g.n)'
  BY DEF GivenIsThere
<1>1. g \in ops[w].given /\ ops'[w].plan = ops[w].plan
  OBVIOUS
<1> QED BY <1>1 DEF GivenIsThere

(* Whoever has nothing under way hands nothing out.                         *)
LEMMA OneCallMoves ==
  ASSUME PlanInv, NEW v \in Writers, NEW op, op.given = {},
         ops' = ops \/ ops' = [ops EXCEPT ![v] = op]
  PROVE  \A w \in Writers : \/ ops'[w].given = {}
                            \/ ops'[w].given = ops[w].given /\ ops'[w].plan = ops[w].plan
<1>1. ops \in [Writers -> Calls]
  BY DEF PlanInv, PlanTypes
<1>2. \A w \in Writers : ops'[w] = ops[w] \/ ops'[w] = op
  BY <1>1
<1> QED BY <1>2

LEMMA RequestGivesNothing ==
  ASSUME PlanInv, GivenIsThere, NEW w \in Writers, NEW p, NEW event, NEW expected, NEW copy, NEW steps,
         Begin(w, p, event, expected, copy, steps),
         \A v \in Writers : \A g \in ops[v].given :
           Stands(g.plan, g.step, g.n) => Stands(g.plan, g.step, g.n)'
  PROVE  GivenIsThere'
<1> DEFINE op == Requested(p, event, expected, copy)
<1>1. op.given = {}
  BY DEF Requested
<1>2. plans' = plans /\ (ops' = ops \/ ops' = [ops EXCEPT ![w] = op])
  BY DEF Begin
<1> HIDE DEF op
<1> QED BY <1>1, <1>2, OneCallMoves, GivenKept

LEMMA EndedStand ==
  ASSUME PlanInv, NEW item \in work, Ended(item) \subseteq work'
  PROVE  \A v \in Writers : \A g \in ops[v].given :
           Stands(g.plan, g.step, g.n) => Stands(g.plan, g.step, g.n)'
<1> SUFFICES ASSUME NEW v \in Writers, NEW g \in ops[v].given, Stands(g.plan, g.step, g.n)
             PROVE  Stands(g.plan, g.step, g.n)'
  OBVIOUS
<1>0. /\ work \ {item} \subseteq Ended(item)
      /\ BeingHandedOut(item) =>
           \E i \in Ended(item) : i.plan = item.plan /\ i.step = item.step /\ i.n = item.n /\ i.kind # "review"
  BY EndedStays DEF PlanInv, PlanTypes
<1>1. PICK other \in work : other.plan = g.plan /\ other.step = g.step /\ other.n = g.n /\ other.kind # "review"
  BY DEF Stands
<1>2. CASE other # item
  BY <1>0, <1>1, <1>2 DEF Stands
<1>3. CASE other = item
  <2>1. BeingHandedOut(item)
    BY <1>1, <1>3 DEF BeingHandedOut
  <2>2. PICK i \in Ended(item) : i.plan = item.plan /\ i.step = item.step /\ i.n = item.n /\ i.kind # "review"
    BY <1>0, <2>1
  <2> QED BY <1>1, <1>3, <2>2 DEF Stands
<1> QED BY <1>2, <1>3

LEMMA GivenByDecision ==
  ASSUME PlanInv, GivenIsThere, NEW w \in Writers, NEW p \in Plans, NEW expected \in Expectations(p),
         Decision(w, p, expected)
  PROVE  GivenIsThere'
<1>0. work' = work => \A v \in Writers : \A g \in ops[v].given :
        Stands(g.plan, g.step, g.n) => Stands(g.plan, g.step, g.n)'
  BY DEF Stands
<1>1. ASSUME NEW event, NEW copy, NEW steps, Begin(w, p, event, expected, copy, steps), NoNewWork
      PROVE  GivenIsThere'
  BY <1>0, <1>1, RequestGivesNothing DEF NoNewWork
<1>2. CASE SubmitPlan(w, p, expected)
  BY <1>1, <1>2 DEF SubmitPlan
<1>3. CASE ActivatePlan(w, p, expected)
  <2> DEFINE plan == [plans[p] EXCEPT !.status = "active", !.version = @ + 1]
             op == [NoOp EXCEPT !.plan = p, !.event = "activated", !.copy = plan, !.pc = "save"]
  <2>1. /\ ops' = [ops EXCEPT ![w] = op] /\ plans' = [plans EXCEPT ![p] = plan] /\ work' = work
    BY <1>3 DEF ActivatePlan, Placed
  <2>2. plans[p] \in PlanRecords
    BY DEF PlanInv, PlanTypes
  <2>3. op.given = {} /\ plan.status = "active"
    BY <2>2 DEF NoOp, PlanRecords
  <2> HIDE DEF op, plan
  <2>4. \A q : plans[q].status # "absent" /\ q \in Plans => plans'[q].status # "absent"
    BY <2>1, <2>3 DEF PlanInv, PlanTypes
  <2>5. \A v \in Writers : \A g \in ops[v].given : ops[v].plan \in Plans
    BY DEF PlanInv, PlanTypes, Calls, Items, GivenIsThere
  <2> QED BY <1>0, <2>1, <2>3, <2>4, <2>5, OneCallMoves, GivenKept
<1>4. CASE ChangeStatus(w, p, expected)
  BY <1>1, <1>4 DEF ChangeStatus, Advance
<1>5. ASSUME NEW s \in Steps, ReconcilePlanHistory(w, p, s, expected)
      PROVE  GivenIsThere'
  BY <1>1, <1>5 DEF ReconcilePlanHistory
<1>6. ASSUME NEW s \in Steps, \/ AcceptStep(w, p, s, expected) \/ RequestRework(w, p, s, expected)
                              \/ SkipStep(w, p, s, expected) \/ BlockStep(w, p, s, expected)
      PROVE  GivenIsThere'
  BY <1>1, <1>6 DEF AcceptStep, RequestRework, SkipStep, BlockStep, Advance
<1>7. ASSUME NEW s \in Steps, AddStep(w, p, s, expected)
      PROVE  GivenIsThere'
  <2> DEFINE op == Requested(p, "advanced", expected, [plans[p] EXCEPT !.gen = Len(arrays[p]) + 1])
  <2>1. ops' = [ops EXCEPT ![w] = op] /\ plans' = plans /\ work' = work
    BY <1>7 DEF AddStep
  <2>2. op.given = {}
    BY DEF Requested
  <2> HIDE DEF op
  <2> QED BY <1>0, <2>1, <2>2, OneCallMoves, GivenKept
<1>8. ASSUME NEW s \in Steps, \/ DispatchTask(w, p, s, expected) \/ DelegateGroup(w, p, s, expected)
                              \/ DelegateReview(w, p, s, expected)
      PROVE  GivenIsThere'
  <2>1. PICK kind \in {"task", "group", "review"} : HandOut(w, p, s, kind, expected)
    BY <1>8 DEF DispatchTask, DelegateGroup, DelegateReview
  <2> DEFINE new == [plan |-> p, step |-> s, kind |-> kind, n |-> made[p] + 1]
             req == Requested(p, "advanced", expected, [plans[p] EXCEPT !.status = "active"])
             op == [req EXCEPT !.pc = "mark", !.given = {new}]
  <2>2. /\ ops' = [ops EXCEPT ![w] = op] /\ plans' = plans
        /\ work' = (work \ Forgotten(p, s, kind)) \cup {new}
    BY <2>1 DEF HandOut
  <2>3. op.given = {new} /\ op.plan = p
    BY DEF Requested
  <2>4. plans[p].status # "absent"
    BY <1>8 DEF DispatchTask, DelegateGroup, DelegateReview, StepIs, Active
  <2>5. new \in work' /\ new.plan = p /\ new.step = s /\ new.kind = kind
    BY <2>2
  <2> HIDE DEF op, new
  <2>6. \A u \in Writers : ops'[u] = IF u = w THEN op ELSE ops[u]
    BY <2>2 DEF PlanInv, PlanTypes
  <2> SUFFICES ASSUME NEW v \in Writers, NEW g \in ops'[v].given
               PROVE  /\ g.plan = ops'[v].plan /\ plans[ops'[v].plan].status # "absent"
                      /\ g.kind # "review" => Stands(g.plan, g.step, g.n)'
    BY <2>2 DEF GivenIsThere
  <2>7. CASE v = w
    <3>1. g = new
      BY <2>3, <2>6, <2>7
    <3> QED BY <2>3, <2>4, <2>5, <2>6, <2>7, <3>1 DEF Stands
  <2>8. CASE v # w
    <3>1. g \in ops[v].given /\ ops'[v] = ops[v]
      BY <2>6, <2>8
    <3>2. ASSUME g.kind # "review"
          PROVE  Stands(g.plan, g.step, g.n)'
      <4>1. PICK other \in work : other.plan = g.plan /\ other.step = g.step /\ other.n = g.n /\ other.kind # "review"
        BY <3>1, <3>2 DEF GivenIsThere, Stands
      <4>2. other \notin Forgotten(p, s, kind)
        BY <3>1, <4>1 DEF Forgotten, BeingHandedOut
      <4> QED BY <2>2, <4>1, <4>2 DEF Stands
    <3> QED BY <3>1, <3>2 DEF GivenIsThere
  <2> QED BY <2>7, <2>8
<1> QED BY <1>2, <1>3, <1>4, <1>5, <1>6, <1>7, <1>8 DEF Decision

LEMMA GivenByReport ==
  ASSUME PlanInv, GivenIsThere, NEW w \in Writers, NEW item \in work,
         \/ \E outcome \in {"done", "failed"} : TaskEnds(w, item, outcome)
         \/ ReviewDelivered(w, item) \/ GroupDelivered(w, item)
  PROVE  GivenIsThere'
<1> DEFINE again == [item EXCEPT !.kind = "rerun"]
<1>0. again.plan = item.plan /\ again.step = item.step /\ again.n = item.n /\ again.kind = "rerun"
  BY DEF PlanInv, PlanTypes, Items
<1> HIDE DEF again
<1>1. \/ Ended(item) \subseteq work'
      \/ work' = work \ {item} /\ item.kind = "review"
      \/ work' = (work \ {item}) \cup {again}
  BY DEF TaskEnds, ReviewDelivered, GroupDelivered, again
<1>2. \A v \in Writers : \A g \in ops[v].given :
        Stands(g.plan, g.step, g.n) => Stands(g.plan, g.step, g.n)'
  <2>1. CASE Ended(item) \subseteq work'
    BY <2>1, EndedStand
  <2>2. CASE work' = work \ {item} /\ item.kind = "review"
    BY <2>2 DEF Stands
  <2>3. CASE work' = (work \ {item}) \cup {again}
    BY <1>0, <2>3 DEF Stands
  <2> QED BY <1>1, <2>1, <2>2, <2>3
<1>3. Ignored(w) \/ \E event, steps : Report(w, item, event, steps)
  <2>1. ASSUME NEW outcome \in {"done", "failed"}, TaskEnds(w, item, outcome)
        PROVE  Ignored(w) \/ \E event, steps : Report(w, item, event, steps)
    <3> DEFINE status == IF outcome = "done" THEN "awaiting_decision" ELSE "changes_requested"
               steps == With(StepsOf(item.plan), item.step, status)
    <3>1. Ignored(w) \/ Report(w, item, "task", steps)
      BY <2>1 DEF TaskEnds
    <3> HIDE DEF steps
    <3> QED BY <3>1
  <2>2. CASE ReviewDelivered(w, item)
    BY <2>2 DEF ReviewDelivered
  <2>3. CASE GroupDelivered(w, item)
    BY <2>3 DEF GroupDelivered
  <2> QED BY <2>1, <2>2, <2>3
<1>4. CASE Ignored(w)
  BY <1>2, <1>4, GivenKept DEF Ignored
<1>5. ASSUME NEW event, NEW steps, Report(w, item, event, steps)
      PROVE  GivenIsThere'
  BY <1>2, <1>5, RequestGivesNothing DEF Report
<1> QED BY <1>3, <1>4, <1>5

LEMMA GivenIsThereStep ==
  ASSUME PlanInv, GivenIsThere, [Next]_vars
  PROVE  GivenIsThere'
<1>0. work' = work => \A v \in Writers : \A g \in ops[v].given :
        Stands(g.plan, g.step, g.n) => Stands(g.plan, g.step, g.n)'
  BY DEF Stands
<1>1. \A v \in Writers : \A g \in ops[v].given : ops[v].plan \in Plans
  BY DEF PlanInv, PlanTypes, Calls, Items, GivenIsThere
<1>2. NoOp.given = {}
  BY DEF NoOp
<1>3. CASE \E w \in Writers : Mark(w) \/ SendUnsaved(w) \/ Save(w) \/ Tell(w)
  <2> PICK w \in Writers : Mark(w) \/ SendUnsaved(w) \/ Save(w) \/ Tell(w)
    BY <1>3
  <2>1. ops \in [Writers -> Calls]
    BY DEF PlanInv, PlanTypes
  <2>2. plans' = plans /\ work' = work
    BY DEF Mark, SendUnsaved, Save, Tell
  <2>3. PICK op : ops' = [ops EXCEPT ![w] = op] /\ (op = NoOp \/ op.given = {} \/ (op.given = ops[w].given /\ op.plan = ops[w].plan))
    <3>1. CASE Mark(w)
      <4> DEFINE op == [ops[w] EXCEPT !.pc = "replace", !.given = {}]
      <4>1. ops' = [ops EXCEPT ![w] = op] /\ op.given = {}
        BY <2>1, <3>1 DEF Mark, Calls
      <4> HIDE DEF op
      <4> QED BY <4>1
    <3>2. CASE SendUnsaved(w) \/ Tell(w)
      BY <3>2 DEF SendUnsaved, Tell
    <3>3. CASE Save(w)
      <4> DEFINE op == [ops[w] EXCEPT !.pc = "tell"]
      <4>1. (ops' = [ops EXCEPT ![w] = op] \/ ops' = [ops EXCEPT ![w] = NoOp])
        BY <3>3 DEF Save
      <4>2. op.given = ops[w].given /\ op.plan = ops[w].plan
        BY <2>1 DEF Calls
      <4> HIDE DEF op
      <4> QED BY <4>1, <4>2
    <3> QED BY <3>1, <3>2, <3>3
  <2>4. \A u \in Writers : ops'[u] = IF u = w THEN op ELSE ops[u]
    BY <2>1, <2>3
  <2>5. \A u \in Writers : ops'[u].given = {} \/ (ops'[u].given = ops[u].given /\ ops'[u].plan = ops[u].plan)
    BY <1>2, <2>3, <2>4
  <2>6. \A v \in Writers : \A g \in ops[v].given :
          Stands(g.plan, g.step, g.n) => Stands(g.plan, g.step, g.n)'
    BY <1>0, <2>2
  <2>7. \A v \in Writers : \A g \in ops[v].given :
          plans[ops[v].plan].status # "absent" => plans'[ops[v].plan].status # "absent"
    BY <2>2
  <2> HIDE DEF Writers
  <2> QED BY <2>5, <2>6, <2>7, GivenKept
<1>4. CASE \E w \in Writers : Replace(w)
  <2> PICK w \in Writers : Replace(w)
    BY <1>4
  <2> DEFINE op == ops[w]
             new == [op.copy EXCEPT !.version = plans[op.plan].version + 1]
             went == Unguarded([op EXCEPT !.pc = "save"])
  <2>1. /\ op \in Calls /\ ops \in [Writers -> Calls] /\ op.copy.status # "absent" /\ op.copy \in PlanRecords
        /\ work' = work /\ op.plan \in Plans
    BY DEF PlanInv, PlanTypes, Replace, ArraysExist, Calls
  <2>2. \/ ops' = [ops EXCEPT ![w] = NoOp] /\ plans' = plans
        \/ ops' = [ops EXCEPT ![w] = went] /\ plans' = [plans EXCEPT ![op.plan] = new]
    BY DEF Replace
  <2>3. /\ went.given = op.given /\ went.plan = op.plan
        /\ new.status # "absent"
    BY <2>1 DEF Unguarded, Calls, PlanRecords
  <2> HIDE DEF went, new
  <2>4. \A u \in Writers : ops'[u].given = {} \/ (ops'[u].given = ops[u].given /\ ops'[u].plan = ops[u].plan)
    BY <1>2, <2>1, <2>2, <2>3
  <2>5. \A q \in Plans : plans[q].status # "absent" => plans'[q].status # "absent"
    BY <2>2, <2>3 DEF PlanInv, PlanTypes
  <2>6. \A v \in Writers : \A g \in ops[v].given :
          Stands(g.plan, g.step, g.n) => Stands(g.plan, g.step, g.n)'
    BY <1>0, <2>1
  <2>7. \A v \in Writers : \A g \in ops[v].given :
          plans[ops[v].plan].status # "absent" => plans'[ops[v].plan].status # "absent"
    BY <1>1, <2>5
  <2> HIDE DEF Writers
  <2> QED BY <2>4, <2>6, <2>7, GivenKept
<1>5. CASE \E w \in Deciders, p \in Plans : CreatePlanDraft(w, p)
  <2> PICK w \in Deciders, p \in Plans : CreatePlanDraft(w, p)
    BY <1>5
  <2> DEFINE plan == [AbsentPlan EXCEPT !.status = "draft", !.version = 1]
             op == [NoOp EXCEPT !.plan = p, !.event = "created", !.copy = plan, !.pc = "save"]
  <2>1. ops' = [ops EXCEPT ![w] = op] /\ plans' = [plans EXCEPT ![p] = plan] /\ work' = work
    BY DEF CreatePlanDraft, Placed
  <2>2. op.given = {} /\ plan.status = "draft"
    BY DEF NoOp, AbsentPlan
  <2> HIDE DEF op, plan
  <2>3. \A q \in Plans : plans[q].status # "absent" => plans'[q].status # "absent"
    BY <2>1, <2>2 DEF PlanInv, PlanTypes
  <2>4. w \in Writers
    OBVIOUS
  <2> QED BY <1>0, <1>1, <2>1, <2>2, <2>3, <2>4, OneCallMoves, GivenKept
<1>6. CASE \E w \in Deciders, p \in Plans : \E expected \in Expectations(p) : Decision(w, p, expected)
  BY <1>6, GivenByDecision
<1>7. CASE \E w \in Reporters : \E m \in Members : TransferGroupCoordinator(w, m)
  <2> PICK w \in Reporters, m \in Members : TransferGroupCoordinator(w, m)
    BY <1>7
  <2> DEFINE open == {p \in Plans : plans[p].status \notin {"absent", "completed", "cancelled"}}
             op == [NoOp EXCEPT !.plan = CHOOSE p \in open : TRUE, !.event = "transferred", !.pc = "save"]
  <2>1. /\ ops' = [ops EXCEPT ![w] = op] /\ work' = work
        /\ plans' = [p \in Plans |->
             IF p \in open THEN [plans[p] EXCEPT !.owner = m, !.version = @ + 1] ELSE plans[p]]
    BY DEF TransferGroupCoordinator
  <2>2. op.given = {}
    BY DEF NoOp
  <2> HIDE DEF op
  <2>3. \A q \in Plans : plans'[q].status = plans[q].status
    <3> SUFFICES ASSUME NEW q \in Plans PROVE plans'[q].status = plans[q].status
      OBVIOUS
    <3>1. plans[q] \in PlanRecords
      BY DEF PlanInv, PlanTypes
    <3>2. plans'[q] = IF q \in open THEN [plans[q] EXCEPT !.owner = m, !.version = @ + 1] ELSE plans[q]
      BY <2>1
    <3> HIDE DEF open
    <3> QED BY <3>1, <3>2 DEF PlanRecords
  <2>4. w \in Writers
    OBVIOUS
  <2> QED BY <1>0, <1>1, <2>1, <2>2, <2>3, <2>4, OneCallMoves, GivenKept
<1>8. CASE \E w \in Reporters : \E item \in work :
            \/ \E outcome \in {"done", "failed"} : TaskEnds(w, item, outcome)
            \/ ReviewDelivered(w, item) \/ GroupDelivered(w, item)
  BY <1>8, GivenByReport
<1>9. CASE \E item \in work : EndsUnheard(item)
  <2> PICK item \in work : EndsUnheard(item)
    BY <1>9
  <2> DEFINE late == [item EXCEPT !.kind = "unheard"]
  <2>1. late.plan = item.plan /\ late.step = item.step /\ late.n = item.n /\ late.kind = "unheard"
    BY DEF PlanInv, PlanTypes, Items
  <2>2. /\ work' = (work \ {item}) \cup IF item.kind = "group" THEN {late} ELSE {}
        /\ item.kind \in {"group", "review"} /\ ops' = ops /\ plans' = plans
    BY DEF EndsUnheard
  <2> HIDE DEF late
  <2>3. \A v \in Writers : \A g \in ops[v].given :
          Stands(g.plan, g.step, g.n) => Stands(g.plan, g.step, g.n)'
    BY <2>1, <2>2 DEF Stands
  <2> QED BY <2>2, <2>3, GivenKept
<1>10. CASE \E p \in Plans : ExecutePlanEvent(p)
  BY <1>0, <1>10, GivenKept DEF ExecutePlanEvent
<1>11. CASE Crash
  <2>1. \A w \in Writers : ops'[w].given = {}
    BY <1>2, <1>11 DEF Crash
  <2> QED BY <2>1 DEF GivenIsThere
<1>12. CASE UNCHANGED vars
  BY <1>0, <1>12, GivenKept DEF vars
<1> QED BY <1>3, <1>4, <1>5, <1>6, <1>7, <1>8, <1>9, <1>10, <1>11, <1>12 DEF Next

LEMMA PlansGoOn == Spec => [](PlanInv /\ GivenIsThere)
<1>1. Init => GivenIsThere
  BY DEF Init, GivenIsThere, NoOp
<1> QED BY <1>1, PlanInvInit, PlanInvStep, GivenIsThereStep, PTL DEF Spec

(* The invariant of the plans (cmd/karoz/plans.go): a call that reads a     *)
(* plan, edits its steps in place and replaces it later is followed from    *)
(* its reading to its event, whoever comes in between.                      *)
THEOREM PlansKeepTheirInvariant == Spec => []PlanInv
BY PlansGoOn, PTL

(* A plan that waits for a decision has woken its owner, or has an event in *)
(* the queue that the owner will not take for an old one (schedulePlanEvent *)
(* reads the version again, executePlanEventScheduledRun drops old events). *)
THEOREM ChangesAreAlwaysHeard == Spec => []ChangesAreHeard
<1>1. PlanInv => ChangesAreHeard
  BY DEF PlanInv, OwnerIsWoken, ChangesAreHeard, Changing, Announcing, InFlight
<1> QED BY <1>1, PlansKeepTheirInvariant, PTL

(* A running step has work, or a report about it, under way, or what it was *)
(* last handed out as ended unheard: before the step was set running, or a  *)
(* group's handoff without a reply_to. It never has nothing of the kind,    *)
(* although a report gives no version and decisions edit the array it edits *)
(* (advancePlan, markPlanTaskTerminal, recordPlanGroupDelivery).            *)
THEOREM RunningStepsAlwaysHaveWork == Spec => []RunningStepsHaveWork
<1>1. PlanInv => RunningStepsHaveWork
  BY DEF PlanInv
<1> QED BY <1>1, PlansKeepTheirInvariant, PTL

(* Only a call of the writer itself moves its operation, and a new call     *)
(* needs a writer that has none.                                            *)
LEMMA OthersLeaveACallAlone ==
  ASSUME PlanInv, Next, NEW w \in Writers, ops[w].pc = "replace", ~ Replace(w)
  PROVE  ops'[w] = ops[w] \/ ops'[w] = NoOp
<1>1. /\ ops \in [Writers -> Calls] /\ NoOp.pc = "idle" /\ Deciders \subseteq Writers
      /\ Reporters \subseteq Writers
  BY DEF PlanInv, PlanTypes, NoOp
<1>2. ops[w] # NoOp
  BY <1>1
<1>3. ASSUME NEW v \in Writers, ops[v] = NoOp, ops' = ops \/ \E op : ops' = [ops EXCEPT ![v] = op]
      PROVE  ops'[w] = ops[w]
  BY <1>1, <1>2, <1>3
<1>4. ASSUME NEW v \in Writers, NEW p, NEW event, NEW expected, NEW copy, NEW steps,
             Begin(v, p, event, expected, copy, steps)
      PROVE  ops'[w] = ops[w]
  <2>1. ops[v] = NoOp /\ (ops' = ops \/ ops' = [ops EXCEPT ![v] = Requested(p, event, expected, copy)])
    BY <1>4 DEF Begin
  <2> QED BY <2>1, <1>3
<1>5. ASSUME NEW v \in Writers, NEW p, NEW event, NEW plan, Placed(v, p, event, plan)
      PROVE  ops'[w] = ops[w]
  BY <1>5, <1>3 DEF Placed
<1>6. CASE \E v \in Writers : Mark(v) \/ SendUnsaved(v) \/ Replace(v) \/ Save(v) \/ Tell(v)
  <2> PICK v \in Writers : Mark(v) \/ SendUnsaved(v) \/ Replace(v) \/ Save(v) \/ Tell(v)
    BY <1>6
  <2>1. CASE v = w
    BY <2>1 DEF Mark, SendUnsaved, Save, Tell
  <2>2. CASE v # w
    <3>1. ops' = [ops EXCEPT ![v] = ops'[v]]
      BY <1>1 DEF Mark, SendUnsaved, Replace, Save, Tell
    <3> QED BY <2>2, <3>1, <1>1
  <2> QED BY <2>1, <2>2
<1>7. CASE \E v \in Deciders, p \in Plans : CreatePlanDraft(v, p)
  BY <1>7, <1>1, <1>5 DEF CreatePlanDraft
<1>8. CASE \E v \in Deciders, p \in Plans : \E expected \in Expectations(p) : Decision(v, p, expected)
  <2> PICK v \in Deciders, p \in Plans : \E expected \in Expectations(p) : Decision(v, p, expected)
    BY <1>8
  <2> PICK expected \in Expectations(p) : Decision(v, p, expected)
    OBVIOUS
  <2>1. v \in Writers
    BY <1>1
  <2>2. CASE SubmitPlan(v, p, expected)
    BY <2>1, <2>2, <1>4 DEF SubmitPlan
  <2>3. CASE ActivatePlan(v, p, expected)
    BY <2>1, <2>3, <1>5 DEF ActivatePlan
  <2>4. CASE ChangeStatus(v, p, expected)
    BY <2>1, <2>4, <1>4 DEF ChangeStatus, Advance
  <2>5. ASSUME NEW s \in Steps, ReconcilePlanHistory(v, p, s, expected)
        PROVE  ops'[w] = ops[w]
    BY <2>1, <2>5, <1>4 DEF ReconcilePlanHistory
  <2>6. ASSUME NEW s \in Steps, \/ DispatchTask(v, p, s, expected) \/ DelegateGroup(v, p, s, expected)
                                \/ DelegateReview(v, p, s, expected)
        PROVE  ops'[w] = ops[w]
    <3>1. PICK kind : HandOut(v, p, s, kind, expected)
      BY <2>6 DEF DispatchTask, DelegateGroup, DelegateReview
    <3>2. ops[v] = NoOp /\ \E op : ops' = [ops EXCEPT ![v] = op]
      BY <3>1 DEF HandOut
    <3> QED BY <2>1, <3>2, <1>3
  <2>7. ASSUME NEW s \in Steps, \/ AcceptStep(v, p, s, expected) \/ RequestRework(v, p, s, expected)
                                \/ SkipStep(v, p, s, expected)
        PROVE  ops'[w] = ops[w]
    BY <2>1, <2>7, <1>4 DEF AcceptStep, RequestRework, SkipStep, Advance
  <2>8. ASSUME NEW s \in Steps, BlockStep(v, p, s, expected)
        PROVE  ops'[w] = ops[w]
    BY <2>1, <2>8, <1>4 DEF BlockStep, Advance
  <2>9. ASSUME NEW s \in Steps, AddStep(v, p, s, expected)
        PROVE  ops'[w] = ops[w]
    <3>1. ops[v] = NoOp /\ \E op : ops' = [ops EXCEPT ![v] = op]
      BY <2>9 DEF AddStep
    <3> QED BY <2>1, <3>1, <1>3
  <2> QED BY <2>2, <2>3, <2>4, <2>5, <2>6, <2>7, <2>8, <2>9 DEF Decision
<1>9. CASE \E v \in Reporters, m \in Members : TransferGroupCoordinator(v, m)
  <2> PICK v \in Reporters, m \in Members : TransferGroupCoordinator(v, m)
    BY <1>9
  <2>1. ops[v] = NoOp /\ \E op : ops' = [ops EXCEPT ![v] = op]
    BY DEF TransferGroupCoordinator
  <2> QED BY <1>1, <1>3, <2>1
<1>10. CASE \E v \in Reporters, item \in work :
              \/ \E outcome \in {"done", "failed"} : TaskEnds(v, item, outcome)
              \/ ReviewDelivered(v, item) \/ GroupDelivered(v, item)
  <2> PICK v \in Reporters, item \in work :
              \/ \E outcome \in {"done", "failed"} : TaskEnds(v, item, outcome)
              \/ ReviewDelivered(v, item) \/ GroupDelivered(v, item)
    BY <1>10
  <2>1. ASSUME Ignored(v)
        PROVE  ops'[w] = ops[w]
    BY <2>1 DEF Ignored
  <2>2. ASSUME NEW event, NEW steps, Report(v, item, event, steps)
        PROVE  ops'[w] = ops[w]
    BY <2>2, <1>1, <1>4 DEF Report
  <2>3. ASSUME NEW outcome \in {"done", "failed"}, TaskEnds(v, item, outcome)
        PROVE  ops'[w] = ops[w]
    <3> DEFINE status == IF outcome = "done" THEN "awaiting_decision" ELSE "changes_requested"
               steps == With(StepsOf(item.plan), item.step, status)
    <3>1. Ignored(v) \/ Report(v, item, "task", steps)
      BY <2>3 DEF TaskEnds
    <3> HIDE DEF steps
    <3> QED BY <3>1, <2>1, <2>2
  <2>4. CASE ReviewDelivered(v, item) \/ GroupDelivered(v, item)
    BY <2>4, <2>1, <2>2 DEF ReviewDelivered, GroupDelivered
  <2> QED BY <2>3, <2>4
<1>11. CASE \E p \in Plans : ExecutePlanEvent(p)
  BY <1>11 DEF ExecutePlanEvent
<1>12. CASE Crash
  BY <1>12 DEF Crash
<1>13. CASE \E item \in work : EndsUnheard(item)
  BY <1>13 DEF EndsUnheard
<1> QED BY <1>6, <1>7, <1>8, <1>9, <1>10, <1>11, <1>12, <1>13 DEF Next

(* replacePlan with the version that was read replaces the plan that was    *)
(* read: between the two nobody's change of the plan is lost.               *)
THEOREM VersionedWritesLoseNothingEver == Spec => VersionedWritesLoseNothing
<1> DEFINE Right ==
      \A w \in Writers :
        ops[w].pc = "replace" /\ ops'[w].pc = "save" /\ ops[w].expected # 0 => plans[ops[w].plan] = ops[w].base
<1>1. PlanInv /\ [Next]_vars => [Right]_vars
  <2> SUFFICES ASSUME PlanInv, Next, NEW w \in Writers, ops[w].pc = "replace", ops'[w].pc = "save", ops[w].expected # 0
               PROVE  plans[ops[w].plan] = ops[w].base
    OBVIOUS
  <2>1. CASE Replace(w)
    <3>1. plans[ops[w].plan].version = ops[w].expected
      BY <2>1 DEF Replace, PlanInv, PlanTypes, NoOp
    <3> QED BY <3>1 DEF PlanInv, ReadersAreRight
  <2>2. CASE ~ Replace(w)
    <3>1. ops'[w] = ops[w] \/ ops'[w] = NoOp
      BY <2>2, OthersLeaveACallAlone
    <3> QED BY <3>1 DEF NoOp
  <2> QED BY <2>1, <2>2
<1> QED BY <1>1, PlansKeepTheirInvariant, PTL DEF VersionedWritesLoseNothing, Spec

-----------------------------------------------------------------------------
(* Probes.  What both copies of the registry, the one in memory and the one *)
(* a restart loads, are held against: the snapshots, what was asked, and    *)
(* what became of it.                                                       *)
Worlds == [files : [Asks -> Snapshots], subject : [Asks -> 0 .. MaxAsks], installs : [Asks -> Nat],
           refused : SUBSET Asks, orphans : SUBSET Asks]
World == [files |-> files, subject |-> subject, installs |-> installs,
          refused |-> refused, orphans |-> orphans]

\* The receipt is claimed and not revoked, and the snapshot is the one approved.
Authorized(r, ask, w) ==
  Usable(r.receipt[ask]) /\ w.files[ask] # 0 /\ w.files[ask] = r.receipt[ask].snapshot

\* A monitor was installed by a claim, for the revision it is at; while it is
\* active it may run.
InstalledByAClaim(r, w) ==
  r.monitor.state # "none" =>
    /\ r.monitor.ask \in Asks /\ w.installs[r.monitor.ask] = 1
    /\ r.monitor.rev = w.subject[r.monitor.ask]
    /\ r.receipt[r.monitor.ask].claim # NoMutation
    /\ r.monitor.state = "active" => Authorized(r, r.monitor.ask, w)

\* What was not asked left no trace.
UnaskedIsNowhere(r, w) ==
  \A c \in Asks : w.subject[c] = 0 => r.challenge[c] = "none" /\ r.receipt[c].state = "none"

\* A challenge that is open has no receipt yet, and its source never ran.
OpenIsNew(r, w) ==
  \A c \in Asks : r.challenge[c] \in {"pending", "staging"} =>
    r.receipt[c].state = "none" /\ w.installs[c] = 0 /\ c \notin w.refused

\* What was installed is in force, or its receipt is over; what was refused
\* has none; and every snapshot has its record.
EndsAreFinal(r, w) ==
  \A c \in Asks :
    /\ w.installs[c] = 1 /\ r.receipt[c].state = "live" => r.monitor.state # "none" /\ r.monitor.ask = c
    /\ c \in w.refused => r.receipt[c].state = "none"
    /\ w.files[c] # 0 => \/ r.challenge[c] = "staging"
                         \/ r.receipt[c].state # "none"
                         \/ c \in w.orphans

Good(r, w) ==
  /\ r \in Registry
  /\ InstalledByAClaim(r, w) /\ UnaskedIsNowhere(r, w) /\ OpenIsNew(r, w) /\ EndsAreFinal(r, w)

\* What the file may lag behind memory in, and what not.
FileFollowsMemory ==
  /\ stored.monitor.ask = mem.monitor.ask
  /\ stored.monitor.state = "none" <=> mem.monitor.state = "none"
  /\ \A c \in Asks : mem.challenge[c] = "staging" => stored.challenge[c] = "staging"

Histories ==
  /\ \A c \in Asks : installs[c] <= 1 /\ (subject[c] = 0 => installs[c] = 0 /\ c \notin refused)
  /\ \A c \in refused : installs[c] = 0

\* The approval at work, the checks under way and the fires just made.
ApproverStages == approver.pc \in {"write", "mint"} =>
  approver.ask \in Asks /\ mem.challenge[approver.ask] = "staging"

ChecksRanInstalled ==
  \A g \in Checkers :
    /\ checks[g].pc \in {"authorize", "execute", "commit"} => checks[g].ask \in Asks
    /\ checks[g].ask \in Asks => installs[checks[g].ask] = 1

FiresRanInstalled ==
  \A f \in fires : subject[f[1]] = subject[f[2]] /\ installs[f[1]] = 1 /\ installs[f[2]] = 1

CheckRecord == [pc : CheckerStates, dry : BOOLEAN, cancelled : BOOLEAN,
                ask : Asks \cup {NoAsk}, snapshot : Snapshots, outcome : Outcomes]
OthersTyped ==
  /\ expired \subseteq Asks
  /\ approver \in [pc : {"idle", "write", "mint", "arm", "disarm", "deleting"},
                   ask : Asks \cup {NoAsk}]
  /\ checks \in [Checkers -> CheckRecord] /\ armed \subseteq Checkers
  /\ up \in BOOLEAN /\ owner \in {"here", "leaving", "gone"}
  /\ fires \subseteq Asks \X Asks
  /\ edits \in 0 .. MaxEdits /\ failures \in 0 .. MaxFailures

ProbeInv ==
  /\ World \in Worlds /\ OthersTyped
  /\ Good(mem, World) /\ Good(stored, World) /\ FileFollowsMemory /\ Histories
  /\ ApproverStages /\ ChecksRanInstalled /\ FiresRanInstalled

HIDE PlanAssumption DEF Writers
USE ProbeAssumption

\* A set of numbers that is not empty has a least one.
LEMMA LeastOf ==
  ASSUME NEW T, T \subseteq Nat, T # {}
  PROVE  \E n \in T : \A m \in T : n <= m
<1> DEFINE Less == {p \in Nat \X Nat : p[1] < p[2]}
<1>1. OpToRel(<, Nat) = Less
  BY Zenon DEF OpToRel
<1>2. IsWellFoundedOn(Less, Nat)
  BY <1>1, NatLessThanWellFounded, Zenon
<1>3. \A x, y \in Nat : <<x, y>> \in Less <=> x < y
  OBVIOUS
<1> HIDE DEF Less
<1>4. PICK x \in T : \A y \in T : ~ (<<y, x>> \in Less)
  BY <1>2, WFMin
<1>5. \A y \in T : x \in Nat /\ y \in Nat /\ ~(y < x)
  BY <1>3, <1>4
<1> QED BY <1>5

LEMMA RegistryFields ==
  ASSUME NEW r \in Registry
  PROVE  /\ r.monitor \in MonitorRecord /\ r.reserved \in SUBSET Asks
         /\ r.challenge \in [Asks -> {"none", "pending", "staging", "consumed"}]
         /\ r.receipt \in [Asks -> ReceiptRecord]
BY DEF Registry

\* A copy has the fields of what it was made of, but the mark.
LEMMA ClonedFields ==
  ASSUME NEW r \in Registry
  PROVE  /\ Cloned(r) \in Registry
         /\ Cloned(r).receipt = r.receipt /\ Cloned(r).challenge = r.challenge
         /\ Cloned(r).reserved = r.reserved
         /\ Cloned(r).monitor.ask = r.monitor.ask /\ Cloned(r).monitor.rev = r.monitor.rev
         /\ Cloned(r).monitor.state = r.monitor.state
<1> DEFINE m == [r.monitor EXCEPT !.running = FALSE]
<1>1. m \in MonitorRecord /\ m.ask = r.monitor.ask /\ m.rev = r.monitor.rev /\ m.state = r.monitor.state
  BY RegistryFields DEF MonitorRecord
<1>2. Cloned(r) = [r EXCEPT !.monitor = m]
  BY DEF Cloned
<1> HIDE DEF m
<1> QED BY <1>1, <1>2 DEF Registry

\* What matters of a registry does not depend on the rest of it.
LEMMA GoodCarries ==
  ASSUME NEW w, NEW r \in Registry, NEW x \in Registry, Good(r, w),
         x.receipt = r.receipt, x.challenge = r.challenge,
         x.monitor.ask = r.monitor.ask, x.monitor.rev = r.monitor.rev,
         x.monitor.state = "none" <=> r.monitor.state = "none",
         x.monitor.state = "active" =>
           r.monitor.state = "active" \/ Authorized(r, r.monitor.ask, w)
  PROVE  Good(x, w)
BY DEF Good, InstalledByAClaim, UnaskedIsNowhere, OpenIsNew, EndsAreFinal, Authorized

LEMMA ClonedIsGood ==
  ASSUME NEW w, NEW r, Good(r, w)
  PROVE  Good(Cloned(r), w)
BY ClonedFields, GoodCarries DEF Good

\* A monitor replaced by another of the same ask.
LEMMA MonitorReplaced ==
  ASSUME NEW w, NEW r, Good(r, w), NEW m \in MonitorRecord,
         m.ask = r.monitor.ask, m.rev = r.monitor.rev,
         m.state = "none" <=> r.monitor.state = "none",
         m.state = "active" => r.monitor.state = "active" \/ Authorized(r, r.monitor.ask, w)
  PROVE  /\ [r EXCEPT !.monitor = m] \in Registry /\ Good([r EXCEPT !.monitor = m], w)
         /\ [r EXCEPT !.monitor = m].monitor = m
         /\ [r EXCEPT !.monitor = m].receipt = r.receipt
         /\ [r EXCEPT !.monitor = m].challenge = r.challenge
<1> DEFINE x == [r EXCEPT !.monitor = m]
<1>1. x \in Registry /\ x.monitor = m /\ x.receipt = r.receipt /\ x.challenge = r.challenge
  BY DEF Good, Registry
<1> HIDE DEF x
<1>2. Good(x, w)
  BY <1>1, GoodCarries DEF Good
<1> QED BY <1>1, <1>2 DEF x

LEMMA WorldFields ==
  /\ World.files = files /\ World.subject = subject /\ World.installs = installs
  /\ World.refused = refused /\ World.orphans = orphans
BY DEF World

LEMMA WorldIsTyped ==
  World \in Worlds <=>
    /\ files \in [Asks -> Snapshots] /\ subject \in [Asks -> 0 .. MaxAsks]
    /\ installs \in [Asks -> Nat] /\ refused \subseteq Asks /\ orphans \subseteq Asks
BY DEF World, Worlds

\* The invariant holds the types.
LEMMA InvariantIsTyped ==
  ASSUME ProbeInv
  PROVE  ProbeTypeOK
BY WorldIsTyped DEF ProbeInv, ProbeTypeOK, OthersTyped, CheckRecord, Good

\* What is authorized is authorized by the code.
LEMMA AuthorizedByTheCode ==
  ASSUME NEW r, NEW ask
  PROVE  ProbeAuthorized(ask, r.receipt[ask]) <=> Authorized(r, ask, World)
BY DEF ProbeAuthorized, Authorized, World

-----------------------------------------------------------------------------
(* Pruning.                                                                 *)
LEMMA PrunedFields ==
  ASSUME NEW r \in Registry
  PROVE  /\ pruneApprovals(r) \in Registry
         /\ pruneApprovals(r).monitor = r.monitor
         /\ pruneApprovals(r).reserved = Reserved(r)
         /\ \A c \in Asks :
              /\ pruneApprovals(r).challenge[c] = IF c \in OverChallenges(r) THEN "none" ELSE r.challenge[c]
              /\ pruneApprovals(r).receipt[c] = IF c \in OverReceipts(r) THEN NoReceipt ELSE r.receipt[c]
<1> DEFINE ch == [c \in Asks |-> IF c \in OverChallenges(r) THEN "none" ELSE r.challenge[c]]
           re == [c \in Asks |-> IF c \in OverReceipts(r) THEN NoReceipt ELSE r.receipt[c]]
<1>1. ch \in [Asks -> {"none", "pending", "staging", "consumed"}]
  BY RegistryFields
<1>2. NoReceipt \in ReceiptRecord
  BY DEF NoReceipt, ReceiptRecord, Snapshots
<1>3. re \in [Asks -> ReceiptRecord]
  BY <1>2, RegistryFields
<1>4. Reserved(r) \in SUBSET Asks
  BY RegistryFields DEF Reserved
<1>5. pruneApprovals(r) = [r EXCEPT !.reserved = Reserved(r), !.challenge = ch, !.receipt = re]
  BY DEF pruneApprovals
<1>6. \A c \in Asks : /\ ch[c] = IF c \in OverChallenges(r) THEN "none" ELSE r.challenge[c]
                      /\ re[c] = IF c \in OverReceipts(r) THEN NoReceipt ELSE r.receipt[c]
  OBVIOUS
<1> HIDE DEF ch, re
<1>7. /\ pruneApprovals(r) \in Registry /\ pruneApprovals(r).monitor = r.monitor
      /\ pruneApprovals(r).reserved = Reserved(r)
      /\ pruneApprovals(r).challenge = ch /\ pruneApprovals(r).receipt = re
  BY <1>1, <1>3, <1>4, <1>5 DEF Registry
<1> QED BY <1>6, <1>7

\* The receipt of an installed ask is never over, and its challenge never open.
LEMMA InstalledIsNotOver ==
  ASSUME NEW w, NEW r, Good(r, w), r.monitor.state # "none"
  PROVE  /\ r.monitor.ask \in Asks /\ r.monitor.ask \notin OverReceipts(r)
         /\ r.challenge[r.monitor.ask] # "staging"
BY DEF Good, InstalledByAClaim, OpenIsNew, OverReceipts

\* The world with what pruning leaves of the snapshots.
PrunedWorld == [World EXCEPT !.files = pruneFiles(mem)]

LEMMA PrunedFiles ==
  ASSUME ProbeTypeOK
  PROVE  /\ pruneFiles(mem) \in [Asks -> Snapshots]
         /\ \A c \in Asks : pruneFiles(mem)[c] =
              IF c \in OverReceipts(mem) \/ (c \in OverChallenges(mem) /\ mem.challenge[c] = "staging")
              THEN 0 ELSE files[c]
BY DEF ProbeTypeOK, pruneFiles, OverChallenges, OverReceipts, Snapshots

LEMMA PrunedWorldFields ==
  ASSUME ProbeTypeOK
  PROVE  /\ PrunedWorld \in Worlds
         /\ PrunedWorld.files = pruneFiles(mem) /\ PrunedWorld.subject = subject
         /\ PrunedWorld.installs = installs /\ PrunedWorld.refused = refused
         /\ PrunedWorld.orphans = orphans
BY WorldIsTyped, WorldFields, PrunedFiles DEF ProbeTypeOK, PrunedWorld, Worlds

\* Pruning memory keeps it good, and the file too.
LEMMA PrunedIsGood ==
  ASSUME ProbeInv
  PROVE  Good(pruneApprovals(mem), PrunedWorld) /\ Good(stored, PrunedWorld)
<1> DEFINE x == pruneApprovals(mem)
           w == PrunedWorld
<1>1. /\ ProbeTypeOK /\ Good(mem, World) /\ Good(stored, World) /\ FileFollowsMemory
      /\ mem \in Registry /\ stored \in Registry
  BY InvariantIsTyped DEF ProbeInv, Good
<1>2. /\ x \in Registry /\ x.monitor = mem.monitor
      /\ \A c \in Asks :
           /\ x.challenge[c] = IF c \in OverChallenges(mem) THEN "none" ELSE mem.challenge[c]
           /\ x.receipt[c] = IF c \in OverReceipts(mem) THEN NoReceipt ELSE mem.receipt[c]
  BY <1>1, PrunedFields
<1>3. /\ w.files = pruneFiles(mem) /\ w.subject = subject /\ w.installs = installs
      /\ w.refused = refused /\ w.orphans = orphans
  BY <1>1, PrunedWorldFields
<1>4. /\ World.files = files /\ World.subject = subject /\ World.installs = installs
      /\ World.refused = refused /\ World.orphans = orphans
  BY WorldFields
<1>5. \A c \in Asks : w.files[c] =
        IF c \in OverReceipts(mem) \/ (c \in OverChallenges(mem) /\ mem.challenge[c] = "staging")
        THEN 0 ELSE files[c]
  BY <1>1, <1>3, PrunedFiles
<1>6. mem.monitor.state # "none" =>
        /\ mem.monitor.ask \in Asks /\ mem.monitor.ask \notin OverReceipts(mem)
        /\ mem.challenge[mem.monitor.ask] # "staging"
  BY <1>1, InstalledIsNotOver
<1>7. NoReceipt.state = "none"
  BY DEF NoReceipt
<1> HIDE DEF x, w
<1>8. InstalledByAClaim(x, w)
  BY <1>1, <1>2, <1>3, <1>4, <1>5, <1>6 DEF Good, InstalledByAClaim, Authorized
<1>9. UnaskedIsNowhere(x, w) /\ OpenIsNew(x, w)
  BY <1>1, <1>2, <1>3, <1>4, <1>7 DEF Good, UnaskedIsNowhere, OpenIsNew
<1>10. EndsAreFinal(x, w)
  BY <1>1, <1>2, <1>3, <1>4, <1>5, <1>7 DEF Good, EndsAreFinal
<1>11. InstalledByAClaim(stored, w)
  BY <1>1, <1>3, <1>4, <1>5, <1>6 DEF Good, InstalledByAClaim, Authorized, FileFollowsMemory
<1>12. UnaskedIsNowhere(stored, w) /\ OpenIsNew(stored, w)
  BY <1>1, <1>3, <1>4 DEF Good, UnaskedIsNowhere, OpenIsNew
<1>13. EndsAreFinal(stored, w)
  BY <1>1, <1>3, <1>4, <1>5 DEF Good, EndsAreFinal
<1> QED BY <1>1, <1>2, <1>8, <1>9, <1>10, <1>11, <1>12, <1>13 DEF Good, x, w

-----------------------------------------------------------------------------
(* The actions.                                                             *)

LEMMA MemoryFields ==
  ASSUME ProbeInv
  PROVE  /\ mem \in Registry /\ stored \in Registry
         /\ mem.monitor \in MonitorRecord /\ mem.reserved \in SUBSET Asks
         /\ mem.challenge \in [Asks -> {"none", "pending", "staging", "consumed"}]
         /\ mem.receipt \in [Asks -> ReceiptRecord]
BY RegistryFields DEF ProbeInv, Good

\* One goroutine goes on; what it holds was installed.
RanInstalled(c) ==
  /\ c.pc \in {"authorize", "execute", "commit"} => c.ask \in Asks
  /\ c.ask \in Asks => installs[c.ask] = 1

LEMMA OneCheckMoves ==
  ASSUME OthersTyped, ChecksRanInstalled, UNCHANGED installs,
         NEW g \in Checkers, NEW c \in CheckRecord, RanInstalled(c),
         checks' = [checks EXCEPT ![g] = c]
  PROVE  checks' \in [Checkers -> CheckRecord] /\ ChecksRanInstalled'
<1>1. checks \in [Checkers -> CheckRecord]
  BY DEF OthersTyped
<1>2. \A h \in Checkers : checks'[h] = IF h = g THEN c ELSE checks[h]
  BY <1>1
<1> QED BY <1>1, <1>2 DEF ChecksRanInstalled, RanInstalled

LEMMA OffRanNothing ==
  /\ NoCheck \in CheckRecord /\ RanInstalled(NoCheck)
  /\ \A b \in BOOLEAN : LET w == [NoCheck EXCEPT !.pc = "wait", !.cancelled = b]
                        IN w \in CheckRecord /\ RanInstalled(w)
  /\ LET w == [NoCheck EXCEPT !.pc = "wait"] IN w \in CheckRecord /\ RanInstalled(w)
  /\ LET d == [NoCheck EXCEPT !.pc = "begin", !.dry = TRUE] IN d \in CheckRecord /\ RanInstalled(d)
<1>1. NoAsk \notin Asks
  BY DEF NoAsk, Asks
<1>2. NoCheck \in CheckRecord /\ NoCheck.ask = NoAsk /\ NoCheck.pc = "off"
  BY DEF NoCheck, CheckRecord, CheckerStates, Outcomes, Snapshots, NoAsk
<1>3. \A b \in BOOLEAN : LET w == [NoCheck EXCEPT !.pc = "wait", !.cancelled = b]
                          IN w \in CheckRecord /\ w.ask = NoAsk /\ w.pc = "wait"
  BY <1>2 DEF CheckRecord, CheckerStates
<1>4. LET w == [NoCheck EXCEPT !.pc = "wait"] IN w \in CheckRecord /\ w.ask = NoAsk /\ w.pc = "wait"
  BY <1>2 DEF CheckRecord, CheckerStates
<1>5. LET d == [NoCheck EXCEPT !.pc = "begin", !.dry = TRUE]
      IN d \in CheckRecord /\ d.ask = NoAsk /\ d.pc = "begin"
  BY <1>2 DEF CheckRecord, CheckerStates
<1> QED BY <1>1, <1>2, <1>3, <1>4, <1>5 DEF RanInstalled

LEMMA ChangedCheck ==
  ASSUME NEW c \in CheckRecord, RanInstalled(c), NEW p \in CheckerStates \ {"authorize", "execute", "commit"}
  PROVE  [c EXCEPT !.pc = p] \in CheckRecord /\ RanInstalled([c EXCEPT !.pc = p])
<1>1. [c EXCEPT !.pc = p] \in CheckRecord /\ [c EXCEPT !.pc = p].ask = c.ask
      /\ [c EXCEPT !.pc = p].pc = p
  BY DEF CheckRecord
<1> QED BY <1>1 DEF RanInstalled

LEMMA RestRanNothing ==
  ASSUME OthersTyped, NEW g \in Checkers
  PROVE  Rest(g) \in CheckRecord /\ RanInstalled(Rest(g))
<1>1. checks[g].dry \in BOOLEAN /\ checks[g].cancelled \in BOOLEAN
  BY DEF OthersTyped, CheckRecord
<1> QED BY <1>1, OffRanNothing DEF Rest

LEMMA CancelledChecks ==
  ASSUME OthersTyped, NEW G
  PROVE  /\ Cancelled(G) \in [Checkers -> CheckRecord]
         /\ \A g \in Checkers : Cancelled(G)[g].pc = checks[g].pc /\ Cancelled(G)[g].ask = checks[g].ask
<1>0. \A c \in CheckRecord : /\ [c EXCEPT !.cancelled = TRUE] \in CheckRecord
                             /\ [c EXCEPT !.cancelled = TRUE].pc = c.pc
                             /\ [c EXCEPT !.cancelled = TRUE].ask = c.ask
  BY DEF CheckRecord
<1>1. \A g \in Checkers :
        LET d == [checks[g] EXCEPT !.cancelled = TRUE]
        IN d \in CheckRecord /\ d.pc = checks[g].pc /\ d.ask = checks[g].ask
  BY <1>0 DEF OthersTyped
<1>2. checks \in [Checkers -> CheckRecord]
  BY DEF OthersTyped
<1> QED BY <1>1, <1>2 DEF Cancelled

\* Steps of the goroutines and of the approver that touch no registry.
LEMMA QuietSteps ==
  ASSUME ProbeInv, NEW g,
         \/ (\E c \in Asks : Expire(c)) \/ armProbe \/ cancelProbe
         \/ g \in Checkers /\ (dryRun(g) \/ loopWait(g) \/ authorizeSnapshot(g) \/ executeProbe(g))
  PROVE  ProbeInv'
<1>1. /\ Good(mem, World) /\ Good(stored, World) /\ World \in Worlds /\ OthersTyped
      /\ FileFollowsMemory /\ Histories /\ ApproverStages /\ ChecksRanInstalled /\ FiresRanInstalled
  BY DEF ProbeInv
<1>2. UNCHANGED <<mem, stored, files, subject, installs, refused, orphans, fires, up, owner>>
  BY DEF Expire, armProbe, cancelProbe, dryRun, loopWait, authorizeSnapshot, executeProbe, registryVars,
         historyVars
<1>3. World' = World
  BY <1>2 DEF World
<1>4. Good(mem, World)' /\ Good(stored, World)' /\ (World \in Worlds)' /\ FileFollowsMemory' /\ Histories'
      /\ FiresRanInstalled'
  BY <1>1, <1>2, <1>3 DEF FileFollowsMemory, Histories, FiresRanInstalled
<1>5. (g \in Checkers => checks[g] \in CheckRecord /\ RanInstalled(checks[g])) /\ checks \in [Checkers -> CheckRecord]
  BY <1>1 DEF OthersTyped, ChecksRanInstalled, RanInstalled
<1>6. SUFFICES checks' \in [Checkers -> CheckRecord] /\ ChecksRanInstalled'
  <2>1. OthersTyped' /\ ApproverStages'
    <3>1. CASE \E c \in Asks : Expire(c)
      BY <1>1, <1>2, <1>6, <3>1 DEF OthersTyped, ApproverStages, Expire, bounds
    <3>2. CASE armProbe
      BY <1>1, <1>2, <1>6, <3>2 DEF OthersTyped, ApproverStages, armProbe, bounds, Free, NoAsk
    <3>3. CASE cancelProbe
      BY <1>1, <1>2, <1>6, <3>3 DEF OthersTyped, ApproverStages, cancelProbe, bounds, Free, NoAsk
    <3>4. CASE g \in Checkers /\ dryRun(g)
      BY <1>1, <1>2, <1>6, <3>4 DEF OthersTyped, ApproverStages, dryRun, Spend
    <3>5. CASE g \in Checkers /\ loopWait(g)
      BY <1>1, <1>2, <1>6, <3>5 DEF OthersTyped, ApproverStages, loopWait, Spend, bounds
    <3>6. CASE g \in Checkers /\ authorizeSnapshot(g)
      BY <1>1, <1>2, <1>6, <3>6 DEF OthersTyped, ApproverStages, authorizeSnapshot, bounds
    <3>7. CASE g \in Checkers /\ executeProbe(g)
      BY <1>1, <1>2, <1>6, <3>7 DEF OthersTyped, ApproverStages, executeProbe, bounds
    <3> QED BY <3>1, <3>2, <3>3, <3>4, <3>5, <3>6, <3>7
  <2> QED BY <1>4, <1>6, <2>1 DEF ProbeInv
<1>0. 0 \in Snapshots
  BY DEF Snapshots
<1>7. CASE \E c \in Asks : Expire(c)
  <2>1. UNCHANGED checks
    BY <1>7 DEF Expire
  <2> QED BY <1>1, <1>2, <1>5, <2>1 DEF ChecksRanInstalled
<1>8. CASE armProbe
  <2>1. PICK h \in Checkers : checks' = [Cancelled(armed) EXCEPT ![h] = [NoCheck EXCEPT !.pc = "wait"]]
    BY <1>8 DEF armProbe
  <2> DEFINE w == [NoCheck EXCEPT !.pc = "wait"]
  <2>2. w \in CheckRecord /\ RanInstalled(w)
    BY OffRanNothing
  <2>3. checks' = [Cancelled(armed) EXCEPT ![h] = w]
    BY <2>1
  <2> HIDE DEF w
  <2>4. checks' \in [Checkers -> CheckRecord]
        /\ \A i \in Checkers : checks'[i] = IF i = h THEN w ELSE Cancelled(armed)[i]
    BY <1>1, <2>2, <2>3, CancelledChecks
  <2> QED BY <1>1, <1>2, <2>2, <2>4, CancelledChecks DEF ChecksRanInstalled, RanInstalled
<1>9. CASE cancelProbe
  <2>1. checks' = Cancelled(armed)
    BY <1>9 DEF cancelProbe
  <2> QED BY <1>1, <1>2, <2>1, CancelledChecks DEF ChecksRanInstalled
<1>10. CASE g \in Checkers /\ dryRun(g)
  <2> DEFINE c == [NoCheck EXCEPT !.pc = "begin", !.dry = TRUE]
  <2>1. checks' = [checks EXCEPT ![g] = c]
    BY <1>10 DEF dryRun
  <2>2. c \in CheckRecord /\ RanInstalled(c)
    BY OffRanNothing
  <2> HIDE DEF c
  <2> QED BY <1>10, <1>1, <1>2, <2>1, <2>2, OneCheckMoves
<1>11. CASE g \in Checkers /\ loopWait(g)
  <2>1. PICK c \in {NoCheck, [checks[g] EXCEPT !.pc = "begin"], [checks[g] EXCEPT !.pc = "suppress"]} :
          checks' = [checks EXCEPT ![g] = c]
    BY <1>11 DEF loopWait
  <2>2. c \in CheckRecord /\ RanInstalled(c)
    <3>1. CASE c = NoCheck
      BY <3>1, OffRanNothing
    <3>2. CASE c = [checks[g] EXCEPT !.pc = "begin"]
      BY <1>5, <1>11, <3>2, ChangedCheck DEF CheckerStates
    <3>3. CASE c = [checks[g] EXCEPT !.pc = "suppress"]
      BY <1>5, <1>11, <3>3, ChangedCheck DEF CheckerStates
    <3> QED BY <2>1, <3>1, <3>2, <3>3
  <2> QED BY <1>11, <1>1, <1>2, <2>1, <2>2, OneCheckMoves
<1>12. CASE g \in Checkers /\ authorizeSnapshot(g)
  <2>1. PICK c \in {[checks[g] EXCEPT !.pc = "execute", !.snapshot = 0],
                    [checks[g] EXCEPT !.pc = "clear", !.snapshot = 0, !.ask = NoAsk],
                    [checks[g] EXCEPT !.pc = "unauthorized", !.snapshot = 0]} :
          checks' = [checks EXCEPT ![g] = c]
    BY <1>12 DEF authorizeSnapshot
  <2>2. checks[g].pc = "authorize"
    BY <1>12 DEF authorizeSnapshot
  <2>3. c \in CheckRecord /\ RanInstalled(c)
    <3>1. CASE c = [checks[g] EXCEPT !.pc = "execute", !.snapshot = 0]
      <4>1. c \in CheckRecord /\ c.ask = checks[g].ask
        BY <1>5, <1>12, <1>0, <3>1 DEF CheckRecord, CheckerStates
      <4> QED BY <1>5, <1>12, <2>2, <4>1 DEF RanInstalled
    <3>2. CASE c = [checks[g] EXCEPT !.pc = "clear", !.snapshot = 0, !.ask = NoAsk]
      <4>1. c \in CheckRecord /\ c.ask = NoAsk /\ c.pc = "clear"
        BY <1>5, <1>12, <1>0, <3>2 DEF CheckRecord, CheckerStates
      <4> QED BY <4>1 DEF RanInstalled, NoAsk, Asks
    <3>3. CASE c = [checks[g] EXCEPT !.pc = "unauthorized", !.snapshot = 0]
      <4>1. c \in CheckRecord /\ c.ask = checks[g].ask
        BY <1>5, <1>12, <1>0, <3>3 DEF CheckRecord, CheckerStates
      <4> QED BY <1>5, <1>12, <2>2, <4>1 DEF RanInstalled
    <3> QED BY <2>1, <3>1, <3>2, <3>3
  <2> QED BY <1>12, <1>1, <1>2, <2>1, <2>3, OneCheckMoves
<1>13. CASE g \in Checkers /\ executeProbe(g)
  <2>1. PICK outcome \in Outcomes \ {"none"} :
          checks' = [checks EXCEPT ![g] = IF @.dry THEN [@ EXCEPT !.pc = "clear", !.ask = NoAsk]
                                         ELSE [@ EXCEPT !.pc = "commit", !.outcome = outcome]]
    BY <1>13 DEF executeProbe
  <2>4. PICK c \in {[checks[g] EXCEPT !.pc = "clear", !.ask = NoAsk],
                    [checks[g] EXCEPT !.pc = "commit", !.outcome = outcome]} :
          checks' = [checks EXCEPT ![g] = c]
    BY <2>1
  <2>2. checks[g].pc = "execute"
    BY <1>13 DEF executeProbe
  <2>3. c \in CheckRecord /\ RanInstalled(c)
    <3>1. CASE c = [checks[g] EXCEPT !.pc = "clear", !.ask = NoAsk]
      <4>1. c \in CheckRecord /\ c.ask = NoAsk /\ c.pc = "clear"
        BY <1>5, <1>13, <3>1 DEF CheckRecord, CheckerStates
      <4> QED BY <4>1 DEF RanInstalled, NoAsk, Asks
    <3>2. CASE c = [checks[g] EXCEPT !.pc = "commit", !.outcome = outcome]
      <4>1. c \in CheckRecord /\ c.ask = checks[g].ask
        BY <1>5, <1>13, <2>1, <3>2 DEF CheckRecord, CheckerStates
      <4> QED BY <1>5, <1>13, <2>2, <4>1 DEF RanInstalled
    <3> QED BY <2>4, <3>1, <3>2
  <2> QED BY <1>13, <1>1, <1>2, <2>3, <2>4, OneCheckMoves
<1> QED BY <1>7, <1>8, <1>9, <1>10, <1>11, <1>12, <1>13

LEMMA NoMonitorFields ==
  NoMonitor \in MonitorRecord /\ NoMonitor.state = "none" /\ NoMonitor.ask = NoAsk /\ NoAsk \notin Asks
<1>1. 0 \in 0 .. MaxAsks /\ 0 \in 0 .. MaxErrors
  OBVIOUS
<1> QED BY <1>1 DEF NoMonitor, MonitorRecord, NoAsk, Asks

\* What a save that works leaves, and one that fails.
LEMMA Saved ==
  ASSUME NEW x, NEW w, Good(x, w), mem' = x, stored' = Cloned(x), World' = w
  PROVE  Good(mem, World)' /\ Good(stored, World)' /\ FileFollowsMemory'
<1>1. x \in Registry /\ Good(Cloned(x), w)
  BY ClonedIsGood DEF Good
<1> QED BY <1>1, ClonedFields DEF FileFollowsMemory

LEMMA NotSaved ==
  ASSUME NEW x, NEW w, Good(x, w), Good(stored, w), mem' = x, UNCHANGED stored, World' = w,
         FileFollowsMemory, x.monitor.ask = mem.monitor.ask,
         x.monitor.state = "none" <=> mem.monitor.state = "none",
         \A c \in Asks : x.challenge[c] = "staging" => mem.challenge[c] = "staging"
  PROVE  Good(mem, World)' /\ Good(stored, World)' /\ FileFollowsMemory'
BY DEF FileFollowsMemory

LEMMA Pieces ==
  ASSUME ProbeInv
  PROVE  /\ World \in Worlds /\ OthersTyped /\ Good(mem, World) /\ Good(stored, World)
         /\ FileFollowsMemory /\ Histories /\ ApproverStages /\ ChecksRanInstalled /\ FiresRanInstalled
         /\ mem \in Registry /\ stored \in Registry
BY DEF ProbeInv, Good

LEMMA OneMoreAsk == Unasked # {} =>
  (CHOOSE c \in Unasked : \A d \in Unasked : c <= d) \in Unasked
<1>1. ASSUME Unasked # {}
      PROVE  \E c \in Unasked : \A d \in Unasked : c <= d
  <2>1. Unasked \subseteq Nat
    BY DEF Unasked, Asks
  <2> QED BY <1>1, <2>1, LeastOf
<1> QED BY <1>1

\* A challenge is made of what was not asked before.
LEMMA AskedIsGood ==
  ASSUME NEW r, NEW w \in Worlds, Good(r, w), NEW c \in Asks, w.subject[c] = 0,
         NEW n \in 1 .. MaxAsks, w.installs[c] = 0, c \notin w.refused
  PROVE  LET x == [r EXCEPT !.reserved = @ \cup {c}, !.challenge[c] = "pending"]
         IN Good(x, [w EXCEPT !.subject = [w.subject EXCEPT ![c] = n]])
<1> DEFINE ch == [r.challenge EXCEPT ![c] = "pending"]
           su == [w.subject EXCEPT ![c] = n]
           v == [w EXCEPT !.subject = su]
           x == [r EXCEPT !.reserved = r.reserved \cup {c}, !.challenge = ch]
<1>1. r \in Registry
  BY DEF Good
<1>2. /\ ch \in [Asks -> {"none", "pending", "staging", "consumed"}]
      /\ \A d \in Asks : ch[d] = IF d = c THEN "pending" ELSE r.challenge[d]
  BY <1>1, RegistryFields
<1>3. \A d \in Asks : su[d] = IF d = c THEN n ELSE w.subject[d]
  BY DEF Worlds
<1> HIDE DEF ch, su
<1>4. x \in Registry /\ x.monitor = r.monitor /\ x.receipt = r.receipt /\ x.challenge = ch
  BY <1>1, <1>2 DEF Registry
<1>5. v.subject = su /\ v.files = w.files /\ v.installs = w.installs /\ v.refused = w.refused
      /\ v.orphans = w.orphans
  BY DEF Worlds
<1> HIDE DEF x, v
<1>6. r.receipt[c].state = "none" /\ r.challenge[c] = "none"
  BY DEF Good, UnaskedIsNowhere
<1>7. InstalledByAClaim(x, v)
  BY <1>3, <1>4, <1>5, <1>6 DEF Good, InstalledByAClaim, Authorized
<1>8. UnaskedIsNowhere(x, v)
  BY <1>2, <1>3, <1>4, <1>5, <1>6 DEF Good, UnaskedIsNowhere
<1>9. OpenIsNew(x, v)
  BY <1>2, <1>4, <1>5, <1>6 DEF Good, OpenIsNew
<1>10. EndsAreFinal(x, v)
  BY <1>2, <1>4, <1>5, <1>6 DEF Good, EndsAreFinal
<1>11. Good(x, v)
  BY <1>4, <1>7, <1>8, <1>9, <1>10 DEF Good
<1> QED BY <1>11 DEF x, v, ch, su

LEMMA PruneStep ==
  ASSUME ProbeInv, mem' = pruneApprovals(mem), UNCHANGED stored, World' = PrunedWorld
  PROVE  Good(mem, World)' /\ Good(stored, World)' /\ FileFollowsMemory'
<1>1. /\ pruneApprovals(mem).monitor = mem.monitor
      /\ \A c \in Asks : pruneApprovals(mem).challenge[c] = "staging" => mem.challenge[c] = "staging"
  BY Pieces, PrunedFields
<1> QED BY <1>1, Pieces, PrunedIsGood, NotSaved

LEMMA StepPrepareRefused ==
  ASSUME ProbeInv, prepareRefused
  PROVE  ProbeInv'
<1>1. /\ mem' = pruneApprovals(mem) /\ files' = pruneFiles(mem) /\ approver = Free
      /\ UNCHANGED <<stored, subject, expired, approver, checks, armed, up, owner, installs, refused,
                     fires, orphans, edits, failures>>
  BY DEF prepareRefused, OwnerFree, historyVars, bounds
<1>2. World' = PrunedWorld
  BY <1>1 DEF World, PrunedWorld
<1>3. Good(mem, World)' /\ Good(stored, World)' /\ FileFollowsMemory'
  BY <1>1, <1>2, PruneStep
<1>4. (World \in Worlds)'
  BY <1>2, InvariantIsTyped, PrunedWorldFields
<1>5. OthersTyped' /\ Histories' /\ ChecksRanInstalled' /\ FiresRanInstalled'
  BY <1>1, Pieces DEF OthersTyped, Histories, ChecksRanInstalled, FiresRanInstalled
<1>6. ApproverStages'
  BY <1>1 DEF ApproverStages, Free
<1> QED BY <1>3, <1>4, <1>5, <1>6 DEF ProbeInv

LEMMA StepPrepareApproval ==
  ASSUME ProbeInv, prepareApproval
  PROVE  ProbeInv'
<1> DEFINE r == pruneApprovals(mem)
           c == CHOOSE c \in Unasked : \A d \in Unasked : c <= d
           n == NextRevision(mem)
           x == [r EXCEPT !.reserved = @ \cup {c}, !.challenge[c] = "pending"]
<1>1. /\ approver = Free /\ Unasked # {} /\ n <= MaxAsks /\ files' = pruneFiles(mem)
      /\ UNCHANGED <<expired, approver, checks, armed, up, owner, installs, refused, fires, orphans>>
      /\ \/ SaveWorks(x) /\ subject' = [subject EXCEPT ![c] = n]
         \/ SaveFails(r) /\ UNCHANGED subject
  BY DEF prepareApproval, OwnerFree, historyVars
<1>2. c \in Unasked
  BY <1>1, OneMoreAsk
<1>3. c \in Asks /\ subject[c] = 0 /\ n \in 1 .. MaxAsks
  <2>1. mem.monitor.rev \in Nat
    <3>1. mem.monitor \in MonitorRecord
      BY MemoryFields
    <3>2. mem.monitor.rev \in 0 .. MaxAsks
      BY <3>1 DEF MonitorRecord
    <3> QED BY <3>2
  <2>2. n \in Nat /\ n >= 1
    BY <2>1 DEF NextRevision
  <2>3. c \in Asks /\ subject[c] = 0
    BY <1>2 DEF Unasked
  <2> QED BY <1>1, <2>2, <2>3
<1>4. installs[c] = 0 /\ c \notin refused
  BY <1>3, Pieces DEF Histories
<1> HIDE DEF c, n
<1>5. ApproverStages' /\ OthersTyped' /\ ChecksRanInstalled'
  BY <1>1, Pieces DEF ApproverStages, Free, OthersTyped, ChecksRanInstalled, SaveWorks, SaveFails, Trouble, bounds
<1>6. CASE SaveFails(r) /\ UNCHANGED subject
  <2>1. World' = PrunedWorld /\ mem' = r /\ UNCHANGED stored
    BY <1>1, <1>6 DEF World, PrunedWorld, SaveFails
  <2>2. Good(mem, World)' /\ Good(stored, World)' /\ FileFollowsMemory'
    BY <2>1, PruneStep
  <2>3. (World \in Worlds)'
    BY <2>1, InvariantIsTyped, PrunedWorldFields
  <2>4. Histories' /\ FiresRanInstalled'
    BY <1>1, <1>6, Pieces DEF Histories, FiresRanInstalled
  <2> QED BY <1>5, <2>2, <2>3, <2>4 DEF ProbeInv
<1>7. CASE SaveWorks(x) /\ subject' = [subject EXCEPT ![c] = n]
  <2> DEFINE su == [subject EXCEPT ![c] = n]
             w == [PrunedWorld EXCEPT !.subject = su]
  <2>1. World' = w
    <3>1. files' = pruneFiles(mem) /\ subject' = su /\ UNCHANGED <<installs, refused, orphans>>
      BY <1>1, <1>7
    <3>2. PrunedWorld = [files |-> pruneFiles(mem), subject |-> subject, installs |-> installs,
                         refused |-> refused, orphans |-> orphans]
      BY DEF World, PrunedWorld
    <3> HIDE DEF su
    <3>3. w = [files |-> pruneFiles(mem), subject |-> su, installs |-> installs,
               refused |-> refused, orphans |-> orphans]
      BY <3>2
    <3> QED BY <3>1, <3>3 DEF World
  <2>2. /\ PrunedWorld \in Worlds /\ PrunedWorld.subject = subject /\ PrunedWorld.installs = installs
        /\ PrunedWorld.refused = refused
    BY InvariantIsTyped, PrunedWorldFields
  <2>3. Good(r, PrunedWorld)
    BY PrunedIsGood
  <2>4. Good(x, w)
    BY <1>3, <1>4, <2>2, <2>3, AskedIsGood
  <2>5. subject' \in [Asks -> 0 .. MaxAsks] /\ \A d \in Asks : subject'[d] = IF d = c THEN n ELSE subject[d]
    BY <1>3, <1>7, InvariantIsTyped DEF ProbeTypeOK
  <2>6. (World \in Worlds)'
    BY <1>1, <2>5, PrunedFiles, InvariantIsTyped DEF ProbeTypeOK, World, Worlds
  <2>7. mem' = x /\ stored' = Cloned(x)
    BY <1>7 DEF SaveWorks
  <2> HIDE DEF w, x
  <2>8. Good(mem, World)' /\ Good(stored, World)' /\ FileFollowsMemory'
    BY <2>1, <2>4, <2>7, Saved
  <2>9. Histories'
    BY <1>1, <1>3, <1>4, <2>5, Pieces DEF Histories
  <2>10. fires \subseteq Asks \X Asks
    BY Pieces DEF OthersTyped
  <2>11. FiresRanInstalled'
    BY <1>1, <1>4, <2>5, <2>10, Pieces DEF FiresRanInstalled
  <2> QED BY <1>5, <2>6, <2>8, <2>9, <2>11 DEF ProbeInv
<1> QED BY <1>1, <1>6, <1>7

LEMMA StepConfirmStage ==
  ASSUME ProbeInv, NEW c \in Asks, confirmStage(c)
  PROVE  ProbeInv'
<1> DEFINE ch == [mem.challenge EXCEPT ![c] = "staging"]
           x == [mem EXCEPT !.challenge = ch]
<1>1. /\ approver = Free /\ mem.challenge[c] \in {"pending", "staging"}
      /\ UNCHANGED <<files, subject, expired, checks, armed, up, owner, installs, refused, fires, orphans>>
      /\ \/ /\ \/ mem.challenge[c] = "pending" /\ SaveWorks([mem EXCEPT !.challenge[c] = "staging"])
               \/ mem.challenge[c] = "staging" /\ UNCHANGED <<mem, stored, edits, failures>>
            /\ approver' = [pc |-> "write", ask |-> c]
         \/ SaveFails(mem) /\ UNCHANGED approver
  BY DEF confirmStage, OwnerFree, Open, historyVars, registryVars, bounds
<1>2. World' = World
  BY <1>1 DEF World
<1>3. (World \in Worlds)' /\ OthersTyped' /\ Histories' /\ ChecksRanInstalled' /\ FiresRanInstalled'
  <2>1. OthersTyped'
    BY <1>1, Pieces DEF OthersTyped, SaveWorks, SaveFails, Trouble, bounds
  <2> QED BY <1>1, <1>2, <2>1, Pieces DEF Histories, ChecksRanInstalled, FiresRanInstalled
<1>4. CASE SaveFails(mem) /\ UNCHANGED approver
  <2>1. UNCHANGED <<mem, stored>>
    BY <1>4 DEF SaveFails
  <2>2. Good(mem, World)' /\ Good(stored, World)' /\ FileFollowsMemory' /\ ApproverStages'
    BY <1>2, <1>4, <2>1, Pieces DEF FileFollowsMemory, ApproverStages
  <2> QED BY <1>3, <2>2 DEF ProbeInv
<1>5. CASE mem.challenge[c] = "staging" /\ UNCHANGED <<mem, stored, edits, failures>>
           /\ approver' = [pc |-> "write", ask |-> c]
  <2>1. Good(mem, World)' /\ Good(stored, World)' /\ FileFollowsMemory' /\ ApproverStages'
    BY <1>2, <1>5, Pieces DEF FileFollowsMemory, ApproverStages
  <2> QED BY <1>3, <2>1 DEF ProbeInv
<1>6. CASE mem.challenge[c] = "pending" /\ SaveWorks([mem EXCEPT !.challenge[c] = "staging"])
           /\ approver' = [pc |-> "write", ask |-> c]
  <2>1. mem' = x /\ stored' = Cloned(x)
    BY <1>6 DEF SaveWorks
  <2>2. /\ ch \in [Asks -> {"none", "pending", "staging", "consumed"}]
        /\ \A d \in Asks : ch[d] = IF d = c THEN "staging" ELSE mem.challenge[d]
    BY MemoryFields
  <2> HIDE DEF ch
  <2>3. x \in Registry /\ x.monitor = mem.monitor /\ x.receipt = mem.receipt /\ x.challenge = ch
    BY <2>2, MemoryFields DEF Registry
  <2> HIDE DEF x
  <2>4. InstalledByAClaim(x, World)
    BY <2>3, Pieces DEF Good, InstalledByAClaim, Authorized
  <2>5. UnaskedIsNowhere(x, World)
    BY <1>6, <2>2, <2>3, Pieces DEF Good, UnaskedIsNowhere
  <2>6. OpenIsNew(x, World)
    BY <1>6, <2>2, <2>3, Pieces DEF Good, OpenIsNew
  <2>7. EndsAreFinal(x, World)
    BY <1>6, <2>2, <2>3, Pieces DEF Good, EndsAreFinal
  <2>8. Good(mem, World)' /\ Good(stored, World)' /\ FileFollowsMemory'
    BY <1>2, <2>1, <2>3, <2>4, <2>5, <2>6, <2>7, Saved DEF Good
  <2>9. ApproverStages'
    BY <1>6, <2>1, <2>2, <2>3 DEF ApproverStages
  <2> QED BY <1>3, <2>8, <2>9 DEF ProbeInv
<1> QED BY <1>1, <1>4, <1>5, <1>6

\* The snapshot of an open challenge is written or removed.
LEMMA OpenSnapshot ==
  ASSUME ProbeInv, NEW c \in Asks, mem.challenge[c] = "staging", NEW n \in Snapshots,
         NEW w \in Worlds, w = [World EXCEPT !.files = [files EXCEPT ![c] = n]]
  PROVE  Good(mem, w) /\ Good(stored, w)
<1>1. /\ w.subject = subject /\ w.installs = installs /\ w.refused = refused /\ w.orphans = orphans
      /\ World.files = files /\ World.subject = subject /\ World.installs = installs
      /\ World.refused = refused /\ World.orphans = orphans
  BY DEF World
<1>2. \A d \in Asks : w.files[d] = IF d = c THEN n ELSE files[d]
  <2>1. files \in [Asks -> Snapshots]
    BY InvariantIsTyped DEF ProbeTypeOK
  <2>2. w.files = [files EXCEPT ![c] = n]
    BY DEF World
  <2> QED BY <2>1, <2>2
<1>3. stored.challenge[c] = "staging" /\ installs[c] = 0
  BY <1>1, Pieces DEF FileFollowsMemory, Good, OpenIsNew
<1>4. ASSUME NEW r, Good(r, World), r.challenge[c] = "staging"
      PROVE  Good(r, w)
  <2>1. InstalledByAClaim(r, w)
    BY <1>1, <1>2, <1>3, <1>4 DEF Good, InstalledByAClaim, Authorized
  <2>2. UnaskedIsNowhere(r, w) /\ OpenIsNew(r, w)
    BY <1>1, <1>4 DEF Good, UnaskedIsNowhere, OpenIsNew
  <2>3. EndsAreFinal(r, w)
    BY <1>1, <1>2, <1>4 DEF Good, EndsAreFinal
  <2> QED BY <1>4, <2>1, <2>2, <2>3 DEF Good
<1> QED BY <1>3, <1>4, Pieces

LEMMA StepWriteSnapshot ==
  ASSUME ProbeInv, writeSnapshot
  PROVE  ProbeInv'
<1> DEFINE c == approver.ask
           n == NewFile(c)
           fs == [files EXCEPT ![c] = n]
           w == [World EXCEPT !.files = fs]
<1>1. /\ approver.pc = "write"
      /\ UNCHANGED <<mem, stored, subject, expired, checks, armed, up, owner, installs, refused, fires, orphans>>
      /\ \/ files' = fs /\ approver' = [approver EXCEPT !.pc = "mint"] /\ UNCHANGED <<edits, failures>>
         \/ Trouble /\ approver' = Free /\ UNCHANGED files
  BY DEF writeSnapshot, registryVars, historyVars, bounds
<1>2. c \in Asks /\ mem.challenge[c] = "staging"
  BY <1>1, Pieces DEF ApproverStages
<1>3. approver \in [pc : {"idle", "write", "mint", "arm", "disarm", "deleting"}, ask : Asks \cup {NoAsk}]
  BY Pieces DEF OthersTyped
<1>4. OthersTyped' /\ Histories' /\ ChecksRanInstalled' /\ FiresRanInstalled' /\ FileFollowsMemory'
  <2>1. approver' \in [pc : {"idle", "write", "mint", "arm", "disarm", "deleting"}, ask : Asks \cup {NoAsk}]
    BY <1>1, <1>3 DEF Free
  <2>2. OthersTyped'
    BY <1>1, <2>1, Pieces DEF OthersTyped, Trouble
  <2> QED BY <1>1, <2>2, Pieces DEF Histories, ChecksRanInstalled, FiresRanInstalled, FileFollowsMemory
<1>5. CASE Trouble /\ approver' = Free /\ UNCHANGED files
  <2>1. World' = World
    BY <1>1, <1>5 DEF World
  <2>2. ApproverStages'
    BY <1>5 DEF ApproverStages, Free
  <2> QED BY <1>1, <1>4, <2>1, <2>2, Pieces DEF ProbeInv
<1>6. CASE files' = fs /\ approver' = [approver EXCEPT !.pc = "mint"]
  <2>1. n \in Snapshots
    <3>1. \A a, b : \E k \in Snapshots \ {0} : k \notin {a, b}
      <4>1. 1 \in Snapshots \ {0} /\ 2 \in Snapshots \ {0} /\ 3 \in Snapshots \ {0}
        BY DEF Snapshots
      <4> QED BY <4>1
    <3> QED BY <3>1 DEF NewFile
  <2> HIDE DEF n
  <2>2. fs \in [Asks -> Snapshots]
    BY <1>2, <2>1, InvariantIsTyped DEF ProbeTypeOK
  <2>3. w \in Worlds
    BY <2>2, Pieces DEF Worlds
  <2>4. Good(mem, w) /\ Good(stored, w)
    BY <1>2, <2>1, <2>3, OpenSnapshot
  <2>5. World' = w
    BY <1>1, <1>6 DEF World
  <2> HIDE DEF w
  <2>6. ApproverStages'
    BY <1>1, <1>2, <1>3, <1>6 DEF ApproverStages
  <2> QED BY <1>1, <1>4, <2>3, <2>4, <2>5, <2>6 DEF ProbeInv
<1> QED BY <1>1, <1>5, <1>6

LEMMA StepConfirmMint ==
  ASSUME ProbeInv, confirmMint
  PROVE  ProbeInv'
<1> DEFINE c == approver.ask
           rc == [state |-> "live", snapshot |-> files[c], claim |-> NoMutation]
           ch == [mem.challenge EXCEPT ![c] = "consumed"]
           re == [mem.receipt EXCEPT ![c] = rc]
           x == [mem EXCEPT !.challenge = ch, !.receipt = re]
           fs == [files EXCEPT ![c] = 0]
           w == [World EXCEPT !.files = fs]
<1>1. /\ approver.pc = "mint" /\ approver' = Free
      /\ UNCHANGED <<subject, expired, checks, armed, up, owner, installs, refused, fires, orphans>>
      /\ \/ SaveWorks(x) /\ UNCHANGED files
         \/ SaveFails(mem) /\ files' = fs
         \/ mem.challenge[c] # "staging"
  BY DEF confirmMint, historyVars
<1>2. c \in Asks /\ mem.challenge[c] = "staging"
  BY <1>1, Pieces DEF ApproverStages
<1>3. OthersTyped' /\ Histories' /\ ChecksRanInstalled' /\ FiresRanInstalled' /\ ApproverStages'
  <2>1. approver' \in [pc : {"idle", "write", "mint", "arm", "disarm", "deleting"}, ask : Asks \cup {NoAsk}]
    BY <1>1 DEF Free
  <2>2. edits' \in 0 .. MaxEdits /\ failures' \in 0 .. MaxFailures
    BY <1>1, <1>2, Pieces DEF OthersTyped, SaveWorks, SaveFails, Trouble, bounds
  <2>3. OthersTyped'
    BY <1>1, <2>1, <2>2, Pieces DEF OthersTyped
  <2> QED BY <1>1, <2>3, Pieces DEF Histories, ChecksRanInstalled, FiresRanInstalled, ApproverStages, Free
<1>4. CASE SaveFails(mem) /\ files' = fs
  <2>1. fs \in [Asks -> Snapshots] /\ 0 \in Snapshots
    BY <1>2, InvariantIsTyped DEF ProbeTypeOK, Snapshots
  <2>2. w \in Worlds
    BY <2>1, Pieces DEF Worlds
  <2>3. Good(mem, w) /\ Good(stored, w)
    BY <1>2, <2>1, <2>2, OpenSnapshot
  <2>4. World' = w
    BY <1>1, <1>4 DEF World
  <2>5. UNCHANGED <<mem, stored>>
    BY <1>4 DEF SaveFails
  <2> HIDE DEF w
  <2> QED BY <1>3, <2>2, <2>3, <2>4, <2>5, Pieces DEF ProbeInv, FileFollowsMemory
<1>5. CASE SaveWorks(x) /\ UNCHANGED files
  <2>1. World' = World /\ mem' = x /\ stored' = Cloned(x)
    BY <1>1, <1>5 DEF World, SaveWorks
  <2>2. rc \in ReceiptRecord /\ rc.state = "live"
    BY <1>2, InvariantIsTyped DEF ProbeTypeOK, ReceiptRecord
  <2> HIDE DEF rc
  <2>3. /\ ch \in [Asks -> {"none", "pending", "staging", "consumed"}] /\ re \in [Asks -> ReceiptRecord]
        /\ \A d \in Asks : ch[d] = IF d = c THEN "consumed" ELSE mem.challenge[d]
        /\ \A d \in Asks : re[d] = IF d = c THEN rc ELSE mem.receipt[d]
    BY <2>2, MemoryFields
  <2> HIDE DEF ch, re
  <2>4. x \in Registry /\ x.monitor = mem.monitor /\ x.receipt = re /\ x.challenge = ch
    BY <2>3, MemoryFields DEF Registry
  <2>5. installs[c] = 0 /\ c \notin refused /\ subject[c] # 0
    BY <1>2, WorldFields, Pieces DEF Good, OpenIsNew, UnaskedIsNowhere
  <2> HIDE DEF x, c
  <2>6. InstalledByAClaim(x, World)
    BY <2>3, <2>4, <2>5, WorldFields, Pieces DEF Good, InstalledByAClaim, Authorized
  <2>7. UnaskedIsNowhere(x, World)
    BY <2>3, <2>4, <2>5, WorldFields, Pieces DEF Good, UnaskedIsNowhere
  <2>8. OpenIsNew(x, World)
    BY <2>3, <2>4, Pieces DEF Good, OpenIsNew
  <2>9. EndsAreFinal(x, World)
    BY <2>2, <2>3, <2>4, <2>5, WorldFields, Pieces DEF Good, EndsAreFinal
  <2>10. Good(mem, World)' /\ Good(stored, World)' /\ FileFollowsMemory'
    BY <2>1, <2>4, <2>6, <2>7, <2>8, <2>9, Saved DEF Good
  <2> QED BY <1>3, <2>1, <2>10, Pieces DEF ProbeInv
<1> QED BY <1>1, <1>2, <1>4, <1>5

LEMMA StepDenyChoice ==
  ASSUME ProbeInv, NEW c \in Asks, denyChoice(c)
  PROVE  ProbeInv'
<1> DEFINE ch == [mem.challenge EXCEPT ![c] = "none"]
           rs == mem.reserved \ {c}
           x == [mem EXCEPT !.challenge = ch, !.reserved = rs]
           w == [World EXCEPT !.refused = refused \cup {c}]
<1>1. /\ approver = Free /\ mem.challenge[c] = "pending"
      /\ UNCHANGED <<files, subject, expired, approver, checks, armed, up, owner, installs, fires, orphans>>
      /\ \/ SaveWorks(x) /\ refused' = refused \cup {c}
         \/ SaveFails(x) /\ UNCHANGED refused
  BY DEF denyChoice, OwnerFree, Open
<1>2. /\ ch \in [Asks -> {"none", "pending", "staging", "consumed"}] /\ rs \in SUBSET Asks
      /\ \A d \in Asks : ch[d] = IF d = c THEN "none" ELSE mem.challenge[d]
  BY MemoryFields
<1> HIDE DEF ch, rs
<1>3. x \in Registry /\ x.monitor = mem.monitor /\ x.receipt = mem.receipt /\ x.challenge = ch
  BY <1>2, MemoryFields DEF Registry
<1> HIDE DEF x
<1>4. installs[c] = 0 /\ c \notin refused /\ subject[c] # 0 /\ mem.receipt[c].state = "none"
  BY <1>1, WorldFields, Pieces DEF Good, OpenIsNew, UnaskedIsNowhere
<1>5. /\ w \in Worlds
      /\ w.files = files /\ w.subject = subject /\ w.installs = installs
      /\ w.refused = refused \cup {c} /\ w.orphans = orphans
  BY Pieces DEF World, Worlds
<1> HIDE DEF w
<1>6. Good(x, World)
  <2>1. InstalledByAClaim(x, World) /\ UnaskedIsNowhere(x, World)
    BY <1>2, <1>3, Pieces DEF Good, InstalledByAClaim, Authorized, UnaskedIsNowhere
  <2>2. OpenIsNew(x, World)
    BY <1>2, <1>3, Pieces DEF Good, OpenIsNew
  <2>3. EndsAreFinal(x, World)
    BY <1>1, <1>2, <1>3, Pieces DEF Good, EndsAreFinal
  <2> QED BY <1>3, <2>1, <2>2, <2>3 DEF Good
<1>7. Good(x, w)
  <2>1. InstalledByAClaim(x, w) /\ UnaskedIsNowhere(x, w)
    BY <1>5, <1>6, WorldFields DEF Good, InstalledByAClaim, Authorized, UnaskedIsNowhere
  <2>2. OpenIsNew(x, w)
    BY <1>2, <1>3, <1>5, <1>6, WorldFields DEF Good, OpenIsNew
  <2>3. EndsAreFinal(x, w)
    BY <1>3, <1>4, <1>5, <1>6, WorldFields DEF Good, EndsAreFinal
  <2> QED BY <1>3, <2>1, <2>2, <2>3 DEF Good
<1>8. OthersTyped' /\ ChecksRanInstalled' /\ FiresRanInstalled' /\ ApproverStages'
  <2>1. edits' \in 0 .. MaxEdits /\ failures' \in 0 .. MaxFailures
    BY <1>1, Pieces DEF OthersTyped, SaveWorks, SaveFails, Trouble, bounds
  <2>2. OthersTyped'
    BY <1>1, <2>1, Pieces DEF OthersTyped
  <2> QED BY <1>1, <2>2, Pieces DEF ChecksRanInstalled, FiresRanInstalled, ApproverStages, Free
<1>9. CASE SaveWorks(x) /\ refused' = refused \cup {c}
  <2>1. World' = w
    BY <1>1, <1>9 DEF World, w
  <2>2. Good(mem, World)' /\ Good(stored, World)' /\ FileFollowsMemory'
    BY <1>7, <1>9, <2>1, Saved DEF SaveWorks
  <2>3. Histories'
    BY <1>1, <1>4, <1>9, Pieces DEF Histories
  <2> QED BY <1>5, <1>8, <2>1, <2>2, <2>3 DEF ProbeInv
<1>10. CASE SaveFails(x) /\ UNCHANGED refused
  <2>1. World' = World
    BY <1>1, <1>10 DEF World
  <2>2. Good(mem, World)' /\ Good(stored, World)' /\ FileFollowsMemory'
    BY <1>2, <1>3, <1>6, <1>10, <2>1, Pieces, NotSaved DEF SaveFails
  <2>3. Histories'
    BY <1>1, <1>10, Pieces DEF Histories
  <2> QED BY <1>8, <2>1, <2>2, <2>3, Pieces DEF ProbeInv
<1> QED BY <1>1, <1>9, <1>10

LEMMA StepClaimProbe ==
  ASSUME ProbeInv, NEW c \in Asks, NEW u \in Mutations, NEW s \in {"active", "disabled"}, claimProbe(c, u, s)
  PROVE  ProbeInv'
<1> DEFINE cl == [mem.receipt[c] EXCEPT !.claim = u]
           rv == [mem.receipt EXCEPT ![c] = cl]
           re == [d \in Asks |-> IF Installed(d) /\ d # c /\ rv[d].state # "none"
                                 THEN [rv[d] EXCEPT !.state = "revoked"] ELSE rv[d]]
           m == [NoMonitor EXCEPT !.state = s, !.rev = subject[c], !.ask = c]
           rs == {d \in mem.reserved : subject[d] # subject[c]}
           x == [mem EXCEPT !.monitor = m, !.receipt = re, !.reserved = rs]
           ins == [installs EXCEPT ![c] = @ + 1]
           w == [World EXCEPT !.installs = ins]
<1>1. /\ approver = Free
      /\ UNCHANGED <<files, subject, expired, checks, armed, up, owner, refused, fires, orphans>>
      /\ mem.receipt[c].state = "live" /\ subject[c] = mem.monitor.rev + 1
      /\ ProbeAuthorized(c, cl)
      /\ \/ /\ SaveWorks(x) /\ installs' = ins
            /\ approver' = IF s = "active" THEN [Free EXCEPT !.pc = "arm"] ELSE Free
         \/ SaveFails(Cloned(mem)) /\ UNCHANGED <<installs, approver>>
  BY DEF claimProbe, OwnerFree, Claimable, NextRevision, Cloned
<1>2. /\ installs \in [Asks -> Nat] /\ subject \in [Asks -> 0 .. MaxAsks] /\ mem \in Registry
      /\ mem.monitor \in MonitorRecord /\ mem.receipt \in [Asks -> ReceiptRecord]
  BY InvariantIsTyped, MemoryFields DEF ProbeTypeOK
<1>3. mem.monitor.rev \in Nat /\ mem.receipt[c] \in ReceiptRecord
  <2>1. mem.monitor.rev \in 0 .. MaxAsks
    BY <1>2 DEF MonitorRecord
  <2> QED BY <1>2, <2>1
<1>4. subject[c] # 0 /\ subject[c] # mem.monitor.rev
  BY <1>1, <1>3
<1>5. installs[c] = 0 /\ c \notin refused
  <2>1. installs[c] # 1
    BY <1>1, <1>4, WorldFields, Pieces DEF Good, EndsAreFinal, InstalledByAClaim
  <2>2. c \notin refused
    BY <1>1, WorldFields, Pieces DEF Good, EndsAreFinal
  <2>3. installs[c] <= 1 /\ installs[c] \in Nat
    BY <1>2, Pieces DEF Histories
  <2> QED BY <2>1, <2>2, <2>3
<1>6. ChecksRanInstalled' /\ FiresRanInstalled' /\ ApproverStages' /\ OthersTyped' /\ Histories'
  <2>1. \A d \in Asks : installs'[d] = installs[d] \/ (d = c /\ installs'[d] = 1)
    BY <1>1, <1>2, <1>5
  <2>2. approver' \in [pc : {"idle", "write", "mint", "arm", "disarm", "deleting"}, ask : Asks \cup {NoAsk}]
        /\ approver'.pc \notin {"write", "mint"}
    BY <1>1 DEF Free
  <2>3. edits' \in 0 .. MaxEdits /\ failures' \in 0 .. MaxFailures
    BY <1>1, Pieces DEF OthersTyped, SaveWorks, SaveFails, Trouble, bounds
  <2>4. OthersTyped'
    BY <1>1, <2>2, <2>3, Pieces DEF OthersTyped
  <2>5. ChecksRanInstalled' /\ FiresRanInstalled'
    BY <1>1, <2>1, Pieces DEF OthersTyped, ChecksRanInstalled, FiresRanInstalled
  <2>6. Histories'
    <3>1. refused \subseteq Asks
      BY InvariantIsTyped DEF ProbeTypeOK
    <3> QED BY <1>1, <1>4, <1>5, <2>1, <3>1, Pieces DEF Histories
  <2> QED BY <2>2, <2>4, <2>5, <2>6 DEF ApproverStages
<1>7. CASE SaveFails(Cloned(mem)) /\ UNCHANGED <<installs, approver>>
  <2>1. World' = World
    BY <1>1, <1>7 DEF World
  <2>2. Good(Cloned(mem), World)
    BY Pieces, ClonedIsGood
  <2>3. mem' = Cloned(mem) /\ UNCHANGED stored
    BY <1>7 DEF SaveFails
  <2>4. Good(mem, World)' /\ Good(stored, World)' /\ FileFollowsMemory'
    BY <2>1, <2>2, <2>3, Pieces, ClonedFields, NotSaved
  <2> QED BY <1>6, <2>1, <2>4, Pieces DEF ProbeInv
<1>8. CASE SaveWorks(x) /\ installs' = ins
  <2>1. cl \in ReceiptRecord /\ cl.state = "live" /\ cl.claim = u /\ u # NoMutation
    BY <1>1, <1>3 DEF ReceiptRecord
  <2>2. Usable(cl) /\ files[c] # 0 /\ files[c] = cl.snapshot
    BY <1>1 DEF ProbeAuthorized
  <2>3. m \in MonitorRecord /\ m.state = s /\ m.ask = c /\ m.rev = subject[c]
    <3>1. subject[c] \in 0 .. MaxAsks
      BY <1>2
    <3> HIDE DEF NoMonitor
    <3> QED BY <3>1, NoMonitorFields DEF MonitorRecord
  <2>4. rs \in SUBSET Asks
    BY MemoryFields
  <2> HIDE DEF cl, m, rs
  <2>5. rv \in [Asks -> ReceiptRecord] /\ \A d \in Asks : rv[d] = IF d = c THEN cl ELSE mem.receipt[d]
    BY <1>2, <2>1
  <2> HIDE DEF rv
  <2>6. \A d \in Asks : LET v == [rv[d] EXCEPT !.state = "revoked"]
                        IN v \in ReceiptRecord /\ v.state = "revoked"
    BY <2>5 DEF ReceiptRecord
  <2>7. re \in [Asks -> ReceiptRecord]
    BY <2>5, <2>6
  <2>8. /\ re[c] = cl
        /\ \A d \in Asks \ {c} :
             /\ re[d].state = "live" => ~Installed(d) /\ mem.receipt[d].state = "live"
             /\ re[d].state = "none" <=> mem.receipt[d].state = "none"
    <3>1. re[c] = cl
      BY <2>5
    <3>2. ASSUME NEW d \in Asks \ {c}
          PROVE  /\ re[d].state = "live" => ~Installed(d) /\ mem.receipt[d].state = "live"
                 /\ re[d].state = "none" <=> mem.receipt[d].state = "none"
      <4>1. rv[d] = mem.receipt[d]
        BY <2>5
      <4>2. CASE Installed(d) /\ rv[d].state # "none"
        <5>1. re[d] = [rv[d] EXCEPT !.state = "revoked"]
          BY <4>2
        <5>2. re[d].state = "revoked"
          BY <2>6, <5>1
        <5> QED BY <4>1, <4>2, <5>2
      <4>3. CASE ~Installed(d) \/ rv[d].state = "none"
        <5>1. re[d] = rv[d]
          BY <4>3
        <5> QED BY <4>1, <4>3, <5>1
      <4> QED BY <4>2, <4>3
    <3> QED BY <3>1, <3>2
  <2> HIDE DEF re
  <2>9. x \in Registry /\ x.monitor = m /\ x.receipt = re /\ x.challenge = mem.challenge
    BY <1>2, <2>3, <2>4, <2>7 DEF Registry
  <2>10. ins \in [Asks -> Nat] /\ \A d \in Asks : ins[d] = IF d = c THEN 1 ELSE installs[d]
    BY <1>2, <1>5
  <2> HIDE DEF ins, x
  <2>11. /\ w \in Worlds /\ w.files = files /\ w.subject = subject /\ w.installs = ins
         /\ w.refused = refused /\ w.orphans = orphans
    BY <2>10, Pieces DEF World, Worlds
  <2>12. World' = w
    BY <1>1, <1>8 DEF World
  <2> HIDE DEF w
  <2>13. InstalledByAClaim(x, w)
    BY <2>1, <2>2, <2>3, <2>8, <2>9, <2>10, <2>11 DEF InstalledByAClaim, Authorized
  <2>14. UnaskedIsNowhere(x, w)
    BY <1>4, <2>8, <2>9, <2>11, WorldFields, Pieces DEF Good, UnaskedIsNowhere
  <2>15. OpenIsNew(x, w)
    BY <1>1, <2>8, <2>9, <2>10, <2>11, WorldFields, Pieces DEF Good, OpenIsNew
  <2>16. EndsAreFinal(x, w)
    <3>1. ASSUME NEW d \in Asks, d # c
          PROVE  /\ w.installs[d] = 1 /\ x.receipt[d].state = "live" => x.monitor.state # "none" /\ x.monitor.ask = d
                 /\ d \in w.refused => x.receipt[d].state = "none"
                 /\ w.files[d] # 0 => \/ x.challenge[d] = "staging"
                                      \/ x.receipt[d].state # "none"
                                      \/ d \in w.orphans
      BY <2>8, <2>9, <2>10, <2>11, <3>1, WorldFields, Pieces DEF Good, EndsAreFinal, Installed
    <3> QED BY <1>5, <2>1, <2>3, <2>8, <2>9, <2>11, <3>1 DEF EndsAreFinal
  <2>17. Good(mem, World)' /\ Good(stored, World)' /\ FileFollowsMemory'
    BY <1>8, <2>9, <2>12, <2>13, <2>14, <2>15, <2>16, Saved DEF Good, SaveWorks
  <2> QED BY <1>6, <2>11, <2>12, <2>17 DEF ProbeInv
<1> QED BY <1>1, <1>7, <1>8

\* A step that changes the monitor but not what it has installed, saved or not.
LEMMA MonitorStep ==
  ASSUME ProbeInv, NEW m \in MonitorRecord, m.ask = mem.monitor.ask, m.rev = mem.monitor.rev,
         m.state = "none" <=> mem.monitor.state = "none",
         m.state = "active" => mem.monitor.state = "active" \/ Authorized(mem, mem.monitor.ask, World),
         mem' = [mem EXCEPT !.monitor = m],
         stored' = Cloned([mem EXCEPT !.monitor = m]) \/ UNCHANGED stored,
         UNCHANGED <<files, subject, installs, refused, orphans>>
  PROVE  /\ Good(mem, World)' /\ Good(stored, World)' /\ FileFollowsMemory'
         /\ (World \in Worlds)' /\ Histories' /\ mem'.challenge = mem.challenge
<1> DEFINE x == [mem EXCEPT !.monitor = m]
<1>1. /\ x \in Registry /\ Good(x, World) /\ x.monitor = m /\ x.receipt = mem.receipt
      /\ x.challenge = mem.challenge
  BY Pieces, MonitorReplaced
<1>2. mem' = x /\ (stored' = Cloned(x) \/ UNCHANGED stored)
  OBVIOUS
<1>3. World' = World
  BY DEF World
<1> HIDE DEF x
<1>4. Good(mem, World)' /\ Good(stored, World)' /\ FileFollowsMemory'
  <2>1. CASE stored' = Cloned(x)
    BY <1>1, <1>2, <1>3, <2>1, Saved
  <2>2. CASE UNCHANGED stored
    BY <1>1, <1>2, <1>3, <2>2, Pieces, NotSaved
  <2> QED BY <1>2, <2>1, <2>2
<1> QED BY <1>1, <1>2, <1>3, <1>4, Pieces DEF Histories

LEMMA StepResumeMonitor ==
  ASSUME ProbeInv, resumeMonitor
  PROVE  ProbeInv'
<1> DEFINE m == [mem.monitor EXCEPT !.state = "active", !.code = "", !.errs = 0]
<1>1. /\ mem.monitor.state # "none" /\ Resumable
      /\ mem' = [mem EXCEPT !.monitor = m] /\ stored' = Cloned([mem EXCEPT !.monitor = m])
      /\ approver' = [Free EXCEPT !.pc = "arm"] /\ edits < MaxEdits /\ edits' = edits + 1
      /\ UNCHANGED <<files, subject, expired, checks, armed, up, owner, installs, refused, fires, orphans,
                     failures>>
  BY DEF resumeMonitor, Edit, Spend, historyVars
<1>2. m \in MonitorRecord /\ m.ask = mem.monitor.ask /\ m.rev = mem.monitor.rev /\ m.state = "active"
  <2>1. 0 \in 0 .. MaxErrors /\ mem.monitor \in MonitorRecord
    BY MemoryFields
  <2> QED BY <2>1 DEF MonitorRecord
<1>3. Authorized(mem, mem.monitor.ask, World)
  BY <1>1, AuthorizedByTheCode DEF Resumable
<1> HIDE DEF m
<1>4. /\ Good(mem, World)' /\ Good(stored, World)' /\ FileFollowsMemory' /\ (World \in Worlds)' /\ Histories'
  BY <1>1, <1>2, <1>3, MonitorStep
<1>5. OthersTyped' /\ ChecksRanInstalled' /\ FiresRanInstalled' /\ ApproverStages'
  BY <1>1, Pieces DEF OthersTyped, ChecksRanInstalled, FiresRanInstalled, ApproverStages, Free
<1> QED BY <1>4, <1>5 DEF ProbeInv

LEMMA StepPauseMonitor ==
  ASSUME ProbeInv, pauseMonitor
  PROVE  ProbeInv'
<1> DEFINE m == [mem.monitor EXCEPT !.state = "disabled"]
<1>1. /\ mem.monitor.state # "none"
      /\ mem' = [mem EXCEPT !.monitor = m] /\ stored' = Cloned([mem EXCEPT !.monitor = m])
      /\ approver' = [Free EXCEPT !.pc = "disarm"] /\ edits < MaxEdits /\ edits' = edits + 1
      /\ UNCHANGED <<files, subject, expired, checks, armed, up, owner, installs, refused, fires, orphans,
                     failures>>
  BY DEF pauseMonitor, Edit, Spend, historyVars
<1>2. m \in MonitorRecord /\ m.ask = mem.monitor.ask /\ m.rev = mem.monitor.rev /\ m.state = "disabled"
  BY MemoryFields DEF MonitorRecord
<1> HIDE DEF m
<1>3. /\ Good(mem, World)' /\ Good(stored, World)' /\ FileFollowsMemory' /\ (World \in Worlds)' /\ Histories'
  BY <1>1, <1>2, MonitorStep
<1>4. OthersTyped' /\ ChecksRanInstalled' /\ FiresRanInstalled' /\ ApproverStages'
  BY <1>1, Pieces DEF OthersTyped, ChecksRanInstalled, FiresRanInstalled, ApproverStages, Free
<1> QED BY <1>3, <1>4 DEF ProbeInv

\* Receipts are revoked, and the rest of them stays.
LEMMA RevokedReceipts ==
  ASSUME NEW receipts \in [Asks -> ReceiptRecord], NEW gone
  PROVE  /\ Revoked(receipts, gone) \in [Asks -> ReceiptRecord]
         /\ \A c \in Asks :
              /\ Revoked(receipts, gone)[c].state =
                   IF c \in gone /\ receipts[c].state = "live" THEN "revoked" ELSE receipts[c].state
              /\ Revoked(receipts, gone)[c].claim = receipts[c].claim
<1>1. \A c \in Asks : LET v == [receipts[c] EXCEPT !.state = "revoked"]
                      IN v \in ReceiptRecord /\ v.state = "revoked" /\ v.claim = receipts[c].claim
  BY DEF ReceiptRecord
<1> QED BY <1>1 DEF Revoked

LEMMA StepDeleteMonitor ==
  ASSUME ProbeInv, deleteMonitor
  PROVE  ProbeInv'
<1> DEFINE re == Revoked(mem.receipt, {mem.monitor.ask})
           x == [mem EXCEPT !.monitor = NoMonitor, !.reserved = {}, !.receipt = re]
<1>1. /\ mem' = x /\ stored' = Cloned(x)
      /\ approver' = [Free EXCEPT !.pc = "disarm"] /\ edits < MaxEdits /\ edits' = edits + 1
      /\ UNCHANGED <<files, subject, expired, checks, armed, up, owner, installs, refused, fires, orphans,
                     failures>>
  BY DEF deleteMonitor, Edit, Spend, historyVars
<1>2. /\ re \in [Asks -> ReceiptRecord]
      /\ \A c \in Asks : re[c].state =
           IF c = mem.monitor.ask /\ mem.receipt[c].state = "live" THEN "revoked" ELSE mem.receipt[c].state
  BY MemoryFields, RevokedReceipts
<1> HIDE DEF re
<1>3. x \in Registry /\ x.monitor = NoMonitor /\ x.receipt = re /\ x.challenge = mem.challenge
  BY <1>2, MemoryFields, NoMonitorFields DEF Registry
<1> HIDE DEF x
<1>4. Good(x, World)
  <2>1. InstalledByAClaim(x, World) /\ UnaskedIsNowhere(x, World)
    BY <1>2, <1>3, NoMonitorFields, Pieces DEF Good, InstalledByAClaim, UnaskedIsNowhere
  <2>2. OpenIsNew(x, World)
    BY <1>2, <1>3, Pieces DEF Good, OpenIsNew
  <2>3. EndsAreFinal(x, World)
    BY <1>2, <1>3, NoMonitorFields, Pieces DEF Good, EndsAreFinal
  <2> QED BY <1>3, <2>1, <2>2, <2>3 DEF Good
<1>5. World' = World
  BY <1>1 DEF World
<1>6. Good(mem, World)' /\ Good(stored, World)' /\ FileFollowsMemory'
  BY <1>1, <1>4, <1>5, Saved
<1>7. OthersTyped' /\ ChecksRanInstalled' /\ FiresRanInstalled' /\ ApproverStages' /\ Histories'
  BY <1>1, Pieces DEF OthersTyped, ChecksRanInstalled, FiresRanInstalled, ApproverStages, Free, Histories
<1> QED BY <1>5, <1>6, <1>7, Pieces DEF ProbeInv

LEMMA StepDeleteOwner ==
  ASSUME ProbeInv, deleteOwner
  PROVE  ProbeInv'
<1> DEFINE re == Revoked(mem.receipt, Asks)
           ch == [c \in Asks |-> IF mem.challenge[c] = "consumed" THEN mem.challenge[c] ELSE "none"]
           m == IF mem.monitor.state = "none" THEN mem.monitor
                ELSE [mem.monitor EXCEPT !.state = "disabled", !.code = "owner_deleted"]
           x == [mem EXCEPT !.reserved = {}, !.challenge = ch, !.receipt = re, !.monitor = m]
           or == orphans \cup {c \in Asks : mem.challenge[c] = "staging"}
           w == [World EXCEPT !.orphans = or]
<1>1. /\ mem' = x /\ orphans' = or /\ checks' = Cancelled(armed) /\ armed' = {}
      /\ owner' = "leaving" /\ approver' = [Free EXCEPT !.pc = "deleting"]
      /\ edits < MaxEdits /\ edits' = edits + 1
      /\ UNCHANGED <<stored, files, subject, expired, up, installs, refused, fires, failures>>
  BY DEF deleteOwner, Spend
<1>2. /\ re \in [Asks -> ReceiptRecord]
      /\ \A c \in Asks : /\ re[c].state = IF mem.receipt[c].state = "live" THEN "revoked" ELSE mem.receipt[c].state
                         /\ re[c].claim = mem.receipt[c].claim
  BY MemoryFields, RevokedReceipts
<1>3. /\ ch \in [Asks -> {"none", "pending", "staging", "consumed"}]
      /\ \A c \in Asks : ch[c] = IF mem.challenge[c] = "consumed" THEN mem.challenge[c] ELSE "none"
  BY MemoryFields
<1>4. /\ m \in MonitorRecord /\ m.ask = mem.monitor.ask /\ m.rev = mem.monitor.rev
      /\ m.state = IF mem.monitor.state = "none" THEN "none" ELSE "disabled"
  BY MemoryFields DEF MonitorRecord
<1> HIDE DEF re, ch, m
<1>5. x \in Registry /\ x.monitor = m /\ x.receipt = re /\ x.challenge = ch
  BY <1>2, <1>3, <1>4, MemoryFields DEF Registry
<1> HIDE DEF x
<1>6. or \in SUBSET Asks
  BY InvariantIsTyped DEF ProbeTypeOK
<1>9. orphans \subseteq or /\ \A c \in Asks : mem.challenge[c] = "staging" => c \in or
  OBVIOUS
<1> HIDE DEF or
<1>7. /\ w \in Worlds /\ w.files = files /\ w.subject = subject /\ w.installs = installs
      /\ w.refused = refused /\ w.orphans = or
  BY <1>6, Pieces DEF World, Worlds
<1>8. World' = w
  BY <1>1 DEF World
<1> HIDE DEF w
<1>10. InstalledByAClaim(x, w)
  BY <1>2, <1>4, <1>5, <1>7, WorldFields, Pieces DEF Good, InstalledByAClaim
<1>11. UnaskedIsNowhere(x, w) /\ OpenIsNew(x, w)
  BY <1>2, <1>3, <1>5, <1>7, WorldFields, Pieces DEF Good, UnaskedIsNowhere, OpenIsNew
<1>12. EndsAreFinal(x, w)
  BY <1>2, <1>3, <1>5, <1>7, <1>9, WorldFields, Pieces DEF Good, EndsAreFinal
<1>13. Good(stored, w)
  BY <1>7, <1>9, WorldFields, Pieces
     DEF Good, InstalledByAClaim, UnaskedIsNowhere, OpenIsNew, EndsAreFinal, Authorized
<1>14. Good(mem, World)' /\ Good(stored, World)' /\ FileFollowsMemory'
  BY <1>1, <1>3, <1>4, <1>5, <1>8, <1>10, <1>11, <1>12, <1>13, Pieces, NotSaved DEF Good
<1>15. checks' \in [Checkers -> CheckRecord] /\ ChecksRanInstalled'
  BY <1>1, Pieces, CancelledChecks DEF ChecksRanInstalled
<1>16. OthersTyped' /\ FiresRanInstalled' /\ ApproverStages' /\ Histories'
  BY <1>1, <1>15, Pieces DEF OthersTyped, FiresRanInstalled, ApproverStages, Free, Histories
<1> QED BY <1>7, <1>8, <1>14, <1>15, <1>16 DEF ProbeInv

LEMMA StepDeleteOwnerSaved ==
  ASSUME ProbeInv, deleteOwnerSaved
  PROVE  ProbeInv'
<1>1. /\ approver' = Free /\ owner' \in {"gone", owner}
      /\ UNCHANGED <<files, subject, expired, checks, armed, up, installs, refused, fires, orphans>>
      /\ mem' = mem /\ (stored' = Cloned(mem) \/ UNCHANGED stored)
      /\ edits' = edits /\ (failures' = failures \/ (failures < MaxFailures /\ failures' = failures + 1))
  BY DEF deleteOwnerSaved, SaveWorks, SaveFails, Trouble, historyVars, bounds
<1>2. World' = World
  BY <1>1 DEF World
<1>3. Good(mem, World)' /\ Good(stored, World)' /\ FileFollowsMemory'
  BY <1>1, <1>2, Pieces, Saved, NotSaved
<1>4. OthersTyped' /\ FiresRanInstalled' /\ ApproverStages' /\ Histories' /\ ChecksRanInstalled'
  BY <1>1, Pieces DEF OthersTyped, FiresRanInstalled, ApproverStages, Free, Histories, ChecksRanInstalled
<1> QED BY <1>2, <1>3, <1>4, Pieces DEF ProbeInv

\* A note on the monitor, saved or not; a save that fails loses the mark.
LEMMA NoteStep ==
  ASSUME ProbeInv, NEW g \in Checkers, NEW m \in MonitorRecord, NEW c \in CheckRecord, RanInstalled(c),
         m.ask = mem.monitor.ask, m.rev = mem.monitor.rev,
         mem.monitor.state # "none" => m.state # "none",
         m.state = "active" => mem.monitor.state = "active",
         Note(g, [mem EXCEPT !.monitor = m], c)
  PROVE  ProbeInv'
<1> DEFINE x == [mem EXCEPT !.monitor = m]
<1>1. /\ checks' = [checks EXCEPT ![g] = c]
      /\ UNCHANGED <<files, subject, expired, approver, armed, up, owner, installs, refused, fires, orphans>>
      /\ \/ UNCHANGED <<mem, stored, edits, failures>>
         \/ mem.monitor.state # "none" /\ SaveWorks(x)
         \/ mem.monitor.state # "none" /\ SaveFails(Cloned(mem))
  BY DEF Note, historyVars, registryVars, bounds
<1>2. World' = World
  BY <1>1 DEF World
<1>3. Good(mem, World)' /\ Good(stored, World)' /\ FileFollowsMemory' /\ mem'.challenge = mem.challenge
  <2>1. CASE UNCHANGED <<mem, stored, edits, failures>>
    BY <1>2, <2>1, Pieces DEF FileFollowsMemory
  <2>2. CASE mem.monitor.state # "none" /\ SaveWorks(x)
    <3>1. /\ x \in Registry /\ Good(x, World) /\ x.challenge = mem.challenge
      BY <2>2, Pieces, MonitorReplaced
    <3>2. mem' = x /\ stored' = Cloned(x)
      BY <2>2 DEF SaveWorks
    <3> HIDE DEF x
    <3> QED BY <1>2, <3>1, <3>2, Saved
  <2>3. CASE SaveFails(Cloned(mem))
    <3>1. mem' = Cloned(mem) /\ UNCHANGED stored
      BY <2>3 DEF SaveFails
    <3>2. Good(Cloned(mem), World)
      BY Pieces, ClonedIsGood
    <3> QED BY <1>2, <3>1, <3>2, Pieces, ClonedFields, NotSaved
  <2> QED BY <1>1, <2>1, <2>2, <2>3
<1>4. checks' \in [Checkers -> CheckRecord] /\ ChecksRanInstalled'
  BY <1>1, Pieces, OneCheckMoves
<1>5. edits' \in 0 .. MaxEdits /\ failures' \in 0 .. MaxFailures
  BY <1>1, Pieces DEF OthersTyped, SaveWorks, SaveFails, Trouble, bounds
<1>6. OthersTyped' /\ FiresRanInstalled' /\ ApproverStages' /\ Histories'
  BY <1>1, <1>3, <1>4, <1>5, Pieces DEF OthersTyped, FiresRanInstalled, ApproverStages, Histories
<1> QED BY <1>2, <1>3, <1>4, <1>6, Pieces DEF ProbeInv

LEMMA CheckAtHand ==
  ASSUME ProbeInv, NEW g \in Checkers
  PROVE  checks[g] \in CheckRecord /\ RanInstalled(checks[g]) /\ mem.monitor \in MonitorRecord
BY Pieces, MemoryFields DEF OthersTyped, ChecksRanInstalled, RanInstalled

LEMMA StepResourceSuppressed ==
  ASSUME ProbeInv, NEW g \in Checkers, resourceSuppressed(g)
  PROVE  ProbeInv'
<1> DEFINE m == [mem.monitor EXCEPT !.code = "suppressed"]
<1>1. Note(g, [mem EXCEPT !.monitor = m], Rest(g))
  BY DEF resourceSuppressed
<1>2. m \in MonitorRecord /\ m.ask = mem.monitor.ask /\ m.rev = mem.monitor.rev /\ m.state = mem.monitor.state
  BY MemoryFields DEF MonitorRecord
<1> HIDE DEF m
<1> QED BY <1>1, <1>2, Pieces, RestRanNothing, NoteStep

LEMMA StepFailAuthorization ==
  ASSUME ProbeInv, NEW g \in Checkers, failAuthorization(g)
  PROVE  ProbeInv'
<1> DEFINE m == [mem.monitor EXCEPT !.state = "error", !.code = "authorization"]
           c == IF checks[g].ask = NoAsk THEN Rest(g) ELSE [checks[g] EXCEPT !.pc = "clear", !.ask = NoAsk]
<1>1. Note(g, [mem EXCEPT !.monitor = m], c)
  BY DEF failAuthorization
<1>2. m \in MonitorRecord /\ m.ask = mem.monitor.ask /\ m.rev = mem.monitor.rev /\ m.state = "error"
  BY MemoryFields DEF MonitorRecord
<1>3. c \in CheckRecord /\ RanInstalled(c)
  <2> DEFINE d == [checks[g] EXCEPT !.pc = "clear", !.ask = NoAsk]
  <2>1. d \in CheckRecord /\ d.ask = NoAsk /\ d.pc = "clear"
    BY CheckAtHand DEF CheckRecord, CheckerStates
  <2>2. RanInstalled(d)
    BY <2>1, NoMonitorFields DEF RanInstalled
  <2> QED BY <2>1, <2>2, Pieces, RestRanNothing
<1> HIDE DEF m, c
<1> QED BY <1>1, <1>2, <1>3, NoteStep

LEMMA StepBeginCheck ==
  ASSUME ProbeInv, NEW g \in Checkers, beginCheck(g)
  PROVE  ProbeInv'
<1> DEFINE a == mem.monitor.ask
           re == mem.receipt[a]
           m == [mem.monitor EXCEPT !.running = TRUE]
           n == IF Usable(re) THEN re.snapshot ELSE 0
           c == [checks[g] EXCEPT !.pc = "authorize", !.ask = a, !.snapshot = n]
           d == [checks[g] EXCEPT !.pc = "unauthorized"]
<1>1. /\ UNCHANGED <<stored, files, subject, expired, approver, armed, up, owner, installs, refused, fires,
                     orphans, edits, failures>>
      /\ \/ checks' = [checks EXCEPT ![g] = Rest(g)] /\ UNCHANGED mem
         \/ checks' = [checks EXCEPT ![g] = NoCheck] /\ UNCHANGED mem
         \/ checks' = [checks EXCEPT ![g] = d] /\ UNCHANGED mem
         \/ mem.monitor.state # "none" /\ checks' = [checks EXCEPT ![g] = c] /\ mem' = [mem EXCEPT !.monitor = m]
  BY DEF beginCheck, historyVars, bounds
<1>2. World' = World
  BY <1>1 DEF World
<1>3. m \in MonitorRecord /\ m.ask = mem.monitor.ask /\ m.rev = mem.monitor.rev /\ m.state = mem.monitor.state
  BY MemoryFields DEF MonitorRecord
<1>4. Good(mem, World)' /\ Good(stored, World)' /\ FileFollowsMemory' /\ mem'.challenge = mem.challenge
  <2>1. CASE UNCHANGED mem
    BY <1>1, <1>2, <2>1, Pieces DEF FileFollowsMemory
  <2>2. CASE mem' = [mem EXCEPT !.monitor = m]
    <3> HIDE DEF m
    <3> QED BY <1>1, <1>3, <2>2, MonitorStep
  <2> QED BY <1>1, <2>1, <2>2
<1>5. checks' \in [Checkers -> CheckRecord] /\ ChecksRanInstalled'
  <2>1. CASE checks' = [checks EXCEPT ![g] = Rest(g)]
    BY <1>1, <2>1, Pieces, RestRanNothing, OneCheckMoves
  <2>2. CASE checks' = [checks EXCEPT ![g] = NoCheck]
    BY <1>1, <2>2, Pieces, OffRanNothing, OneCheckMoves
  <2>3. CASE checks' = [checks EXCEPT ![g] = d]
    <3>1. d \in CheckRecord /\ RanInstalled(d)
      BY CheckAtHand, ChangedCheck DEF CheckerStates
    <3> HIDE DEF d
    <3> QED BY <1>1, <2>3, <3>1, Pieces, OneCheckMoves
  <2>4. CASE mem.monitor.state # "none" /\ checks' = [checks EXCEPT ![g] = c]
    <3>1. a \in Asks /\ installs[a] = 1
      BY <2>4, WorldFields, Pieces DEF Good, InstalledByAClaim
    <3>2. n \in Snapshots
      <4>1. 0 \in Snapshots
        BY DEF Snapshots
      <4>2. re \in ReceiptRecord
        BY <3>1, MemoryFields
      <4>3. re.snapshot \in Snapshots
        BY <4>2 DEF ReceiptRecord
      <4> QED BY <4>1, <4>3
    <3> HIDE DEF a, n
    <3>3. c \in CheckRecord /\ c.ask = a
      BY <3>1, <3>2, CheckAtHand DEF CheckRecord, CheckerStates
    <3> HIDE DEF c
    <3>4. RanInstalled(c)
      BY <3>1, <3>3 DEF RanInstalled
    <3> QED BY <1>1, <2>4, <3>3, <3>4, Pieces, OneCheckMoves
  <2> QED BY <1>1, <2>1, <2>2, <2>3, <2>4
<1>6. OthersTyped' /\ FiresRanInstalled' /\ ApproverStages' /\ Histories'
  BY <1>1, <1>4, <1>5, Pieces DEF OthersTyped, FiresRanInstalled, ApproverStages, Histories
<1> QED BY <1>2, <1>4, <1>5, <1>6, Pieces DEF ProbeInv

LEMMA MatchedMonitor ==
  ASSUME NEW m \in MonitorRecord, NEW outcome
  PROVE  /\ MatchProbe(m, outcome) \in MonitorRecord
         /\ MatchProbe(m, outcome).ask = m.ask /\ MatchProbe(m, outcome).rev = m.rev
         /\ MatchProbe(m, outcome).state \in {m.state, "error"}
<1>1. m.errs \in 0 .. MaxErrors /\ 0 \in 0 .. MaxErrors /\ MaxErrors \in 0 .. MaxErrors
  <2>1. m.errs \in 0 .. MaxErrors
    BY DEF MonitorRecord
  <2> QED BY <2>1
<1>2. CASE outcome = "error" /\ m.errs + 1 >= MaxErrors
  <2>1. MatchProbe(m, outcome) = [m EXCEPT !.errs = MaxErrors, !.state = "error", !.code = "errors"]
    BY <1>2 DEF MatchProbe
  <2> QED BY <1>1, <2>1 DEF MonitorRecord
<1>3. CASE outcome = "error" /\ ~(m.errs + 1 >= MaxErrors)
  <2> DEFINE n == m.errs + 1
  <2>1. n \in 0 .. MaxErrors
    BY <1>1, <1>3
  <2>2. MatchProbe(m, outcome) = [m EXCEPT !.errs = n]
    BY <1>3 DEF MatchProbe
  <2> HIDE DEF n
  <2> QED BY <2>1, <2>2 DEF MonitorRecord
<1>4. CASE outcome # "error"
  <2> DEFINE k == IF m.code = "suppressed" THEN "" ELSE m.code
  <2>1. k \in {"", "authorization", "errors", "suppressed", "owner_deleted"}
    BY DEF MonitorRecord
  <2>2. MatchProbe(m, outcome) = [m EXCEPT !.errs = 0, !.code = k]
    BY <1>4 DEF MatchProbe
  <2> HIDE DEF k
  <2> QED BY <1>1, <2>1, <2>2 DEF MonitorRecord
<1> QED BY <1>2, <1>3, <1>4

LEMMA StepCommitResult ==
  ASSUME ProbeInv, NEW g \in Checkers, commitResult(g)
  PROVE  ProbeInv'
<1> DEFINE a == checks[g].ask
           c == [checks[g] EXCEPT !.pc = "clear", !.outcome = "none", !.ask = NoAsk]
           m == MatchProbe(mem.monitor, checks[g].outcome)
           x == [mem EXCEPT !.monitor = m]
<1>1. /\ checks[g].pc = "commit" /\ checks' = [checks EXCEPT ![g] = c]
      /\ UNCHANGED <<files, subject, expired, approver, armed, up, owner, installs, refused, orphans>>
      /\ \/ UNCHANGED <<mem, stored, fires, edits, failures>>
         \/ /\ Current(checks[g]) /\ SaveWorks(x)
            /\ fires' \in {fires \cup {<<mem.monitor.ask, a>>}, fires}
         \/ SaveFails(Cloned(mem)) /\ UNCHANGED fires
  BY DEF commitResult, registryVars, bounds
<1>2. /\ m \in MonitorRecord /\ m.ask = mem.monitor.ask /\ m.rev = mem.monitor.rev
      /\ m.state \in {mem.monitor.state, "error"}
  BY MemoryFields, MatchedMonitor
<1>3. a \in Asks /\ installs[a] = 1
  BY <1>1, Pieces DEF ChecksRanInstalled
<1>4. c \in CheckRecord /\ RanInstalled(c)
  <2>1. c \in CheckRecord /\ c.ask = NoAsk /\ c.pc = "clear"
    BY CheckAtHand DEF CheckRecord, CheckerStates, Outcomes
  <2> QED BY <2>1, NoMonitorFields DEF RanInstalled
<1> HIDE DEF c, m
<1>5. checks' \in [Checkers -> CheckRecord] /\ ChecksRanInstalled'
  BY <1>1, <1>4, Pieces, OneCheckMoves
<1>6. World' = World
  BY <1>1 DEF World
<1>7. /\ Good(mem, World)' /\ Good(stored, World)' /\ FileFollowsMemory' /\ mem'.challenge = mem.challenge
      /\ fires' \subseteq Asks \X Asks /\ FiresRanInstalled'
  <2>1. CASE UNCHANGED <<mem, stored, fires, edits, failures>>
    BY <1>1, <1>6, <2>1, Pieces DEF FileFollowsMemory, FiresRanInstalled, OthersTyped
  <2>2. CASE Current(checks[g]) /\ SaveWorks(x) /\ fires' \in {fires \cup {<<mem.monitor.ask, a>>}, fires}
    <3>1. mem.monitor.state = "active" /\ mem.monitor.rev = subject[a]
      BY <2>2 DEF Current
    <3>2. mem' = x /\ stored' = Cloned(x)
      BY <2>2 DEF SaveWorks
    <3>3. x \in Registry /\ Good(x, World) /\ x.challenge = mem.challenge
      BY <1>2, <3>1, Pieces, MonitorReplaced
    <3> HIDE DEF x
    <3>4. Good(mem, World)' /\ Good(stored, World)' /\ FileFollowsMemory'
      BY <1>6, <3>2, <3>3, Saved
    <3>5. mem.monitor.ask \in Asks /\ installs[mem.monitor.ask] = 1 /\ subject[mem.monitor.ask] = subject[a]
      BY <3>1, WorldFields, Pieces DEF Good, InstalledByAClaim
    <3>6. \A f \in fires' : f \in fires \/ f = <<mem.monitor.ask, a>>
      BY <2>2
    <3>7. fires' \subseteq Asks \X Asks
      BY <1>3, <2>2, <3>5, Pieces DEF OthersTyped
    <3>8. FiresRanInstalled'
      <4> SUFFICES ASSUME NEW f \in fires'
                   PROVE  subject[f[1]] = subject[f[2]] /\ installs[f[1]] = 1 /\ installs[f[2]] = 1
        BY <1>1 DEF FiresRanInstalled
      <4>1. CASE f \in fires
        BY <4>1, Pieces DEF FiresRanInstalled
      <4>2. CASE f = <<mem.monitor.ask, a>>
        <5>1. f[1] = mem.monitor.ask /\ f[2] = a
          BY <4>2
        <5> HIDE DEF a
        <5> QED BY <1>3, <3>5, <5>1
      <4> QED BY <3>6, <4>1, <4>2
    <3> QED BY <3>2, <3>3, <3>4, <3>7, <3>8
  <2>3. CASE SaveFails(Cloned(mem)) /\ UNCHANGED fires
    <3>1. mem' = Cloned(mem) /\ UNCHANGED stored
      BY <2>3 DEF SaveFails
    <3>2. Good(mem, World)' /\ Good(stored, World)' /\ FileFollowsMemory'
      BY <1>6, <3>1, Pieces, ClonedFields, ClonedIsGood, NotSaved
    <3>3. mem'.challenge = mem.challenge
      BY <3>1, Pieces, ClonedFields
    <3> QED BY <1>1, <2>3, <3>2, <3>3, Pieces DEF FiresRanInstalled, OthersTyped
  <2> QED BY <1>1, <2>1, <2>2, <2>3
<1>8. edits' \in 0 .. MaxEdits /\ failures' \in 0 .. MaxFailures
  BY <1>1, Pieces DEF OthersTyped, SaveWorks, SaveFails, Trouble, bounds
<1>9. OthersTyped' /\ ApproverStages' /\ Histories'
  BY <1>1, <1>5, <1>7, <1>8, Pieces DEF OthersTyped, ApproverStages, Histories
<1> QED BY <1>5, <1>6, <1>7, <1>9, Pieces DEF ProbeInv

LEMMA StepClearRunning ==
  ASSUME ProbeInv, NEW g \in Checkers, clearRunning(g)
  PROVE  ProbeInv'
<1>1. /\ checks' = [checks EXCEPT ![g] = Rest(g)] /\ mem' = Cloned(mem) /\ fires' = {}
      /\ UNCHANGED <<stored, files, subject, expired, approver, armed, up, owner, installs, refused, orphans,
                     edits, failures>>
  BY DEF clearRunning, bounds
<1>2. World' = World
  BY <1>1 DEF World
<1>3. Good(mem, World)' /\ Good(stored, World)' /\ FileFollowsMemory' /\ mem'.challenge = mem.challenge
  BY <1>1, <1>2, Pieces, ClonedFields, ClonedIsGood, NotSaved
<1>4. checks' \in [Checkers -> CheckRecord] /\ ChecksRanInstalled'
  BY <1>1, Pieces, RestRanNothing, OneCheckMoves
<1>5. OthersTyped' /\ ApproverStages' /\ Histories' /\ FiresRanInstalled'
  BY <1>1, <1>3, <1>4, Pieces DEF OthersTyped, ApproverStages, Histories, FiresRanInstalled
<1> QED BY <1>2, <1>3, <1>4, <1>5, Pieces DEF ProbeInv

LEMMA StepServerCrash ==
  ASSUME ProbeInv, ServerCrash
  PROVE  ProbeInv'
<1>1. /\ up' = FALSE /\ approver' = Free /\ armed' = {} /\ checks' = [g \in Checkers |-> NoCheck]
      /\ mem' = stored /\ owner' \in {"here", owner} /\ edits' = edits
      /\ failures < MaxFailures /\ failures' = failures + 1
      /\ UNCHANGED <<stored, files, subject, expired, installs, refused, fires, orphans>>
  BY DEF ServerCrash, Trouble, historyVars
<1>2. World' = World
  BY <1>1 DEF World
<1>3. Good(mem, World)' /\ Good(stored, World)' /\ FileFollowsMemory'
  BY <1>1, <1>2, Pieces DEF FileFollowsMemory
<1>4. checks' \in [Checkers -> CheckRecord] /\ ChecksRanInstalled'
  BY <1>1, OffRanNothing DEF ChecksRanInstalled, RanInstalled
<1>5. approver' \in [pc : {"idle", "write", "mint", "arm", "disarm", "deleting"}, ask : Asks \cup {NoAsk}]
  BY <1>1 DEF Free
<1>6. failures' \in 0 .. MaxFailures /\ edits' \in 0 .. MaxEdits
  BY <1>1, Pieces DEF OthersTyped
<1>7. OthersTyped'
  BY <1>1, <1>4, <1>5, <1>6, Pieces DEF OthersTyped
<1>8. ApproverStages' /\ Histories' /\ FiresRanInstalled'
  BY <1>1, Pieces DEF ApproverStages, Histories, FiresRanInstalled, Free
<1> QED BY <1>2, <1>3, <1>4, <1>7, <1>8, Pieces DEF ProbeInv

LEMMA StepRestart ==
  ASSUME ProbeInv, Restart
  PROVE  ProbeInv'
<1> DEFINE r == pruneApprovals(mem)
           e == [r.monitor EXCEPT !.state = "error", !.code = "authorization"]
           x == [r EXCEPT !.monitor = e]
<1>1. /\ files' = pruneFiles(mem) /\ up' = TRUE
      /\ UNCHANGED <<subject, expired, checks, armed, owner, installs, refused, fires, orphans>>
      /\ approver' \in {[Free EXCEPT !.pc = "arm"], Free}
      /\ SaveWorks(r) \/ (r.monitor.state = "active" /\ SaveWorks(x))
  BY DEF Restart, historyVars
<1>2. World' = PrunedWorld
  BY <1>1 DEF World, PrunedWorld
<1>3. Good(r, PrunedWorld) /\ r \in Registry
  BY PrunedIsGood DEF Good
<1>4. Good(mem, World)' /\ Good(stored, World)' /\ FileFollowsMemory'
  <2>1. CASE SaveWorks(r)
    BY <1>2, <1>3, <2>1, Saved DEF SaveWorks
  <2>2. CASE r.monitor.state = "active" /\ SaveWorks(x)
    <3> HIDE DEF r
    <3>1. e \in MonitorRecord /\ e.ask = r.monitor.ask /\ e.rev = r.monitor.rev /\ e.state = "error"
      BY <1>3, RegistryFields DEF MonitorRecord
    <3> HIDE DEF e
    <3>2. Good(x, PrunedWorld)
      BY <1>3, <2>2, <3>1, MonitorReplaced
    <3> QED BY <1>2, <2>2, <3>2, Saved DEF SaveWorks
  <2> QED BY <1>1, <2>1, <2>2
<1>5. (World \in Worlds)'
  BY <1>2, InvariantIsTyped, PrunedWorldFields
<1>6. edits' = edits /\ failures' = failures
  BY <1>1 DEF SaveWorks, bounds
<1>7. OthersTyped' /\ ApproverStages' /\ Histories' /\ FiresRanInstalled' /\ ChecksRanInstalled'
  BY <1>1, <1>6, Pieces DEF OthersTyped, ApproverStages, Histories, FiresRanInstalled, ChecksRanInstalled, Free
<1> QED BY <1>4, <1>5, <1>7 DEF ProbeInv

-----------------------------------------------------------------------------
(* The theorems.                                                            *)
LEMMA ProbesBegin == ProbeInit => ProbeInv
<1> SUFFICES ASSUME ProbeInit PROVE ProbeInv
  OBVIOUS
<1>1. World \in Worlds
  BY WorldIsTyped DEF ProbeInit, Snapshots
<1>2. NoReceipt \in ReceiptRecord /\ NoReceipt.state = "none"
  BY DEF NoReceipt, ReceiptRecord, Snapshots
<1>3. /\ Empty \in Registry /\ Empty.monitor = NoMonitor
      /\ \A c \in Asks : Empty.challenge[c] = "none" /\ Empty.receipt[c] = NoReceipt
  BY <1>2, NoMonitorFields DEF Empty, Registry
<1>4. /\ \A c \in Asks : files[c] = 0 /\ installs[c] = 0
      /\ refused = {} /\ fires = {} /\ mem = Empty /\ stored = Empty /\ approver = Free
  BY DEF ProbeInit
<1>5. Good(Empty, World)
  BY <1>2, <1>3, <1>4, WorldFields, NoMonitorFields
     DEF Good, InstalledByAClaim, UnaskedIsNowhere, OpenIsNew, EndsAreFinal
<1>6. OthersTyped /\ ChecksRanInstalled
  <2>1. \A g \in Checkers : checks[g] = NoCheck
    BY DEF ProbeInit
  <2>2. checks \in [Checkers -> CheckRecord]
    BY OffRanNothing DEF ProbeInit
  <2>3. approver \in [pc : {"idle", "write", "mint", "arm", "disarm", "deleting"}, ask : Asks \cup {NoAsk}]
    BY <1>4 DEF Free
  <2>4. 0 \in 0 .. MaxEdits /\ 0 \in 0 .. MaxFailures
    OBVIOUS
  <2>5. OthersTyped
    BY <2>2, <2>3, <2>4 DEF ProbeInit, OthersTyped
  <2> QED BY <2>1, <2>5, OffRanNothing DEF ChecksRanInstalled, RanInstalled
<1>7. FileFollowsMemory /\ Histories /\ ApproverStages /\ FiresRanInstalled
  BY <1>4 DEF FileFollowsMemory, Histories, ApproverStages, FiresRanInstalled, Free
<1> QED BY <1>1, <1>4, <1>5, <1>6, <1>7 DEF ProbeInv

LEMMA ProbesStutter ==
  ASSUME ProbeInv, UNCHANGED probeVars
  PROVE  ProbeInv'
<1>1. UNCHANGED <<mem, stored, files, subject, expired, approver, checks, armed, up, owner,
                  installs, refused, fires, orphans, edits, failures>>
  BY DEF probeVars, registryVars, historyVars, bounds
<1>2. World' = World
  BY <1>1 DEF World
<1> QED BY <1>1, <1>2, Pieces
        DEF ProbeInv, OthersTyped, FileFollowsMemory, Histories, ApproverStages, ChecksRanInstalled,
            FiresRanInstalled

LEMMA ProbesStep ==
  ASSUME ProbeInv, ProbeNext
  PROVE  ProbeInv'
<1>1. CASE prepareApproval \/ prepareRefused
  BY <1>1, StepPrepareApproval, StepPrepareRefused
<1>2. ASSUME NEW c \in Asks, confirmStage(c) \/ denyChoice(c)
      PROVE  ProbeInv'
  BY <1>2, StepConfirmStage, StepDenyChoice
<1>3. ASSUME NEW g,
             \/ (\E c \in Asks : Expire(c)) \/ armProbe \/ cancelProbe
             \/ g \in Checkers /\ (dryRun(g) \/ loopWait(g) \/ authorizeSnapshot(g) \/ executeProbe(g))
      PROVE  ProbeInv'
  BY <1>3, QuietSteps
<1>4. ASSUME NEW c \in Asks, NEW u \in Mutations, NEW s \in {"active", "disabled"}, claimProbe(c, u, s)
      PROVE  ProbeInv'
  BY <1>4, StepClaimProbe
<1>5. CASE resumeMonitor \/ pauseMonitor \/ deleteMonitor \/ deleteOwner
  BY <1>5, StepResumeMonitor, StepPauseMonitor, StepDeleteMonitor, StepDeleteOwner
<1>6. CASE writeSnapshot \/ confirmMint \/ deleteOwnerSaved
  BY <1>6, StepWriteSnapshot, StepConfirmMint, StepDeleteOwnerSaved
<1>7. ASSUME NEW g \in Checkers,
             resourceSuppressed(g) \/ beginCheck(g) \/ failAuthorization(g) \/ commitResult(g) \/ clearRunning(g)
      PROVE  ProbeInv'
  BY <1>7, StepResourceSuppressed, StepBeginCheck, StepFailAuthorization, StepCommitResult, StepClearRunning
<1>8. CASE ServerCrash \/ Restart
  BY <1>8, StepServerCrash, StepRestart
<1> QED BY <1>1, <1>2, <1>3, <1>4, <1>5, <1>6, <1>7, <1>8 DEF ProbeNext, ApproverStep, CheckStep

\* The invariant is stronger than what the runs check.
LEMMA InvariantHoldsApprovals ==
  ASSUME ProbeInv
  PROVE  ApprovalsHold
<1>1. InstalledIsApproved
  BY Pieces, WorldFields, AuthorizedByTheCode DEF InstalledIsApproved, Good, InstalledByAClaim
<1>2. ApprovedOnce
  BY Pieces, WorldFields DEF ApprovedOnce, Histories, Good, EndsAreFinal
<1>3. FiresMatchTheRevision
  <2>1. 1 > 0
    OBVIOUS
  <2> QED BY <2>1, Pieces DEF FiresMatchTheRevision, FiresRanInstalled
<1>4. SnapshotsHaveARecord
  BY Pieces, WorldFields DEF SnapshotsHaveARecord, Good, EndsAreFinal
<1> QED BY <1>1, <1>2, <1>3, <1>4 DEF ApprovalsHold

\* The registry in memory and in monitors.json, the approvals and the checks
\* (types.go, monitor_probe_runtime.go) keep their types.
THEOREM ProbesTypeCorrect == ProbeSpec => []ProbeTypeOK
<1>1. ProbeInv => ProbeTypeOK
  BY InvariantIsTyped
<1>2. ProbeInv /\ [ProbeNext]_probeVars => ProbeInv'
  BY ProbesStep, ProbesStutter
<1> QED BY ProbesBegin, <1>1, <1>2, PTL DEF ProbeSpec

\* The probe that may run is the one that was approved (claimScriptProbeMonitor,
\* runMonitorProbe, loadMonitors): its receipt, claim, revision and snapshot
\* agree in memory and in monitors.json, an approval installs once and never
\* after a denial, a fire comes from a source of the revision that fires, and
\* every snapshot has a record; for any number of approvals, clients, checks,
\* edits, crashes and failed saves.
THEOREM ApprovalsAlwaysHold == ProbeSpec => []ApprovalsHold
<1>1. ProbeInv => ApprovalsHold
  BY InvariantHoldsApprovals
<1>2. ProbeInv /\ [ProbeNext]_probeVars => ProbeInv'
  BY ProbesStep, ProbesStutter
<1> QED BY ProbesBegin, <1>1, <1>2, PTL DEF ProbeSpec

HIDE ProbeAssumption
-----------------------------------------------------------------------------
(* Monitors.  The types, without the bounds.                                *)
EntryRecord == [state : MonitorStates, kind : Kinds, ownerGone : BOOLEAN,
                triggers : Nat, pending : [RuntimeEvents -> PendingRecord]]
StageRecord == [pc : {"idle", "next", "admit", "save", "settle", "confirm"},
                todo : SUBSET Fires, fire : Fires \cup {NoFire}, tries : Attempts,
                answer : {"none", "admitted", "already_present", "failed"}]
FiringTypes ==
  /\ monitors \in [Mons -> EntryRecord] /\ registry \in [Mons -> EntryRecord]
  /\ queue \in QueueRecord /\ runs \in QueueRecord
  /\ stages \in [Stages -> StageRecord]
  /\ fired \in [Fires -> Nat] /\ done \in [Fires -> Nat]
  /\ unsaved \in [Fires -> Nat] /\ lost \in [Fires -> Nat]

\* A monitor that is not there, or has lost its owner: it holds no fire.
Retired(rec) == rec.state \in {"unborn", "deleted"} \/ rec.ownerGone
CopyOK(rec) ==
  /\ Retired(rec) => \A e \in RuntimeEvents : rec.pending[e].status = "none"
  /\ rec.ownerGone => rec.state # "active"

\* What monitors.json may differ in from memory, and what not.
CopiesAgree ==
  \A m \in Mons :
    /\ CopyOK(monitors[m]) /\ CopyOK(registry[m])
    /\ monitors[m].state = "unborn" <=> registry[m].state = "unborn"
    /\ monitors[m].kind = registry[m].kind
    /\ ~ Retired(monitors[m]) =>
         \A e \in RuntimeEvents :
           monitors[m].pending[e].status = "none" <=> registry[m].pending[e].status = "none"

\* Who holds a fire, and who has decided about it.
Claims(s, f) == stages[s].pc \in {"admit", "save", "settle"} /\ stages[s].fire = f
Saves(s, f) == stages[s].pc = "save" /\ stages[s].fire = f
Confirms(s, f) == stages[s].pc = "confirm" /\ stages[s].fire = f
Accepts(s, f) == \/ stages[s].pc = "settle" /\ stages[s].fire = f /\ stages[s].answer # "failed"
                 \/ Confirms(s, f)
StagesHoldFires ==
  \A s \in Stages :
    /\ stages[s].pc \in {"idle", "next"} => stages[s].fire = NoFire
    /\ stages[s].pc \notin {"idle", "next"} =>
         stages[s].fire \in Fires /\ monitors[stages[s].fire[1]].state # "unborn"
    /\ \A t \in Stages : stages[s].pc = "save" /\ stages[t].pc = "save" => s = t

\* What a queue says of a fire: that it has it, and that it is known to it by
\* something that no confirmation has taken away.
Touched(q, f) == q.jobs[f] # "none" \/ f \in q.proofs
Guarded(q, f) == (q.jobs[f] # "none" /\ f \notin q.proofs) \/ f \in q.receipts
QueueFits(q, f) ==
  /\ f \in q.receipts => q.jobs[f] = "none" /\ f \notin q.proofs
  /\ Touched(q, f) \/ f \in q.receipts =>
       monitors[f[1]].state # "unborn" /\ monitors[f[1]].kind = "notify_agent"
  /\ f \in q.receipts => done[f] > 0
  /\ q.jobs[f] = "cancelled" => f \in ended
\* A job that only memory has is being saved, and is there until it has succeeded.
QueuesFit(f) ==
  /\ QueueFits(queue, f) /\ QueueFits(runs, f)
  /\ queue.jobs[f] # "none" /\ runs.jobs[f] = "none" => \E s \in Stages : Saves(s, f)
  /\ \A s \in Stages : Saves(s, f) => queue.jobs[f] # "none" \/ done[f] > 0

\* A fire that nobody has overtaken has one dispatcher at most.
Dispatched(f) ==
  f \notin overtaken /\ ~ Retired(monitors[f[1]]) =>
    \A s \in Stages : Claims(s, f) =>
      StatusOf(f) = "admitting" /\ \A t \in Stages : Claims(t, f) => t = s

\* The successes a fire may still come to: by what is in the queue, by being
\* pending, and by the confirmations under way, of which the first takes
\* away the receipt that stops the others.
SavedStatus(f) == registry[f[1]].pending[f[2]].status
Awaits(f) == StatusOf(f) # "none" \/ SavedStatus(f) # "none"
Confirming(f) == {s \in Stages : Confirms(s, f)}
ByQueue(touched) == IF touched THEN 1 ELSE 0
ByPending(awaits, guarded, k) == IF awaits /\ (~ guarded \/ k > 0) THEN 1 ELSE 0
ByConfirming(retired, guarded, k) ==
  IF retired \/ k = 0 THEN 0 ELSE IF guarded THEN k - 1 ELSE k
Chances(f) ==
  ByQueue(Touched(queue, f)) + ByPending(Awaits(f), Guarded(queue, f), Cardinality(Confirming(f)))
    + ByConfirming(Retired(monitors[f[1]]), Guarded(queue, f), Cardinality(Confirming(f)))
Weighed(f) == f \notin overtaken => done[f] + Chances(f) <= fired[f] + lost[f]

\* And the successes that a restart would leave to it, by the two files.
FileChances(f) ==
  ByQueue(Touched(runs, f)) + ByPending(SavedStatus(f) # "none", Guarded(runs, f), 0)
FileWeighed(f) ==
  f \notin overtaken => done[f] + FileChances(f) <= fired[f] + lost[f] + unsaved[f]

\* A fire that was saved is pending, or was dealt with, for good; a job that is still
\* being saved does not count for that, since it may be taken back.
Past(f) == f \in board \/ done[f] > 0 \/ f \in ended
Handled(f) == Past(f) \/ (queue.jobs[f] # "none" /\ runs.jobs[f] # "none")
Pends(f) == StatusOf(f) # "none" /\ SavedStatus(f) # "none"
Kept(f) ==
  /\ fired[f] > 0 => Pends(f) \/ Handled(f) \/ f \in dropped
  /\ \A s \in Stages : Accepts(s, f) => Handled(f)
  /\ \A s \in Stages : Saves(s, f) =>
       /\ fired[f] > 0 => Past(f) \/ Pends(f) \/ f \in dropped
       /\ \A t \in Stages : Accepts(t, f) => Past(f)

\* Who comes back under a dropped fire's name starts from nothing.
Over(f) ==
  f \in dropped =>
    /\ monitors[f[1]].state # "unborn"
    /\ Retired(monitors[f[1]]) \/ (StatusOf(f) = "none" /\ \A s \in Stages : ~ Claims(s, f))

FireOK(f) == QueuesFit(f) /\ Dispatched(f) /\ Weighed(f) /\ FileWeighed(f) /\ Kept(f) /\ Over(f)
FiringInv ==
  /\ FiringTypes /\ CopiesAgree /\ StagesHoldFires
  /\ \A f \in Fires : FireOK(f)

USE MonitorAssumption

LEMMA FireParts ==
  /\ \A f \in Fires : f[1] \in Mons /\ f[2] \in RuntimeEvents /\ f # NoFire
  /\ \A f, g \in Fires : f[1] = g[1] /\ f[2] = g[2] => f = g
  /\ \A m \in Mons, e \in RuntimeEvents : <<m, e>> \in Fires
BY DEF Fires

LEMMA ValuesAreTyped ==
  /\ Unborn \in EntryRecord /\ NoPending \in [RuntimeEvents -> PendingRecord]
  /\ Frozen \in PendingRecord /\ NotPending \in PendingRecord
  /\ Idle \in StageRecord /\ EmptyQueue \in QueueRecord
BY DEF Unborn, EntryRecord, NoPending, NotPending, PendingRecord, Attempts, Frozen, Idle, StageRecord,
       EmptyQueue, QueueRecord, JobStates, MonitorStates, Kinds

LEMMA OnwardIsIdle ==
  ASSUME NEW rest \in SUBSET Fires
  PROVE  /\ Onward(rest) \in StageRecord /\ Onward(rest).fire = NoFire
         /\ Onward(rest).pc \in {"idle", "next"}
<1>1. CASE rest = {}
  BY <1>1 DEF Onward, Idle, StageRecord, Attempts
<1>2. CASE rest # {}
  <2>1. Onward(rest) = [pc |-> "next", todo |-> rest, fire |-> NoFire, tries |-> 0, answer |-> "none"]
    BY <1>2 DEF Onward, Idle
  <2> QED BY <2>1 DEF StageRecord, Attempts
<1> QED BY <1>1, <1>2

\* How many confirm a fire, and how that changes.
LEMMA Confirmations ==
  ASSUME NEW S \in SUBSET Stages
  PROVE  /\ IsFiniteSet(S) /\ Cardinality(S) \in Nat
         /\ Cardinality(S) = 0 <=> S = {}
         /\ \A s : s \notin S => Cardinality(S \cup {s}) = Cardinality(S) + 1
         /\ \A s \in S : Cardinality(S \ {s}) = Cardinality(S) - 1 /\ Cardinality(S) > 0
<1>1. IsFiniteSet(S) /\ Cardinality(S) \in Nat
  BY FS_Subset, FS_CardinalityType
<1>2. Cardinality(S) = 0 <=> S = {}
  BY <1>1, FS_EmptySet
<1>3. \A s : s \notin S => Cardinality(S \cup {s}) = Cardinality(S) + 1
  BY <1>1, FS_AddElement
<1>4. \A s \in S : Cardinality(S \ {s}) = Cardinality(S) - 1
  BY <1>1, FS_RemoveElement
<1> QED BY <1>1, <1>2, <1>3, <1>4

\* A step that does not touch a fire, but may write memory to the file.
Same(f) ==
  /\ monitors'[f[1]].state = "unborn" <=> monitors[f[1]].state = "unborn"
  /\ monitors'[f[1]].kind = monitors[f[1]].kind
  /\ Retired(monitors[f[1]])' <=> Retired(monitors[f[1]])
  /\ StatusOf(f)' = StatusOf(f)
  /\ SavedStatus(f)' # "none" => SavedStatus(f) # "none"
  /\ Pends(f) => SavedStatus(f)' # "none"
  /\ queue'.jobs[f] = queue.jobs[f] /\ runs'.jobs[f] = runs.jobs[f]
  /\ f \in queue'.receipts <=> f \in queue.receipts
  /\ f \in runs'.receipts <=> f \in runs.receipts
  /\ f \in queue'.proofs <=> f \in queue.proofs
  /\ f \in runs'.proofs <=> f \in runs.proofs
  /\ \A s \in Stages : /\ Claims(s, f)' <=> Claims(s, f)
                       /\ Confirms(s, f)' <=> Confirms(s, f)
                       /\ Accepts(s, f)' <=> Accepts(s, f)
                       /\ Saves(s, f)' <=> Saves(s, f)
  /\ fired'[f] = fired[f] /\ done'[f] = done[f] /\ unsaved'[f] = unsaved[f] /\ lost'[f] = lost[f]
  /\ board \subseteq board' /\ ended \subseteq ended' /\ overtaken \subseteq overtaken'
  /\ f \in dropped' <=> f \in dropped

LEMMA LessIsLeft ==
  ASSUME NEW k \in Nat, NEW a, NEW p, NEW q, NEW g, NEW r, NEW t, q => p, r => t
  PROVE  ByQueue(a) + ByPending(q, g, k) + ByConfirming(t, g, k)
           <= ByQueue(a) + ByPending(p, g, k) + ByConfirming(r, g, k)
BY DEF ByQueue, ByPending, ByConfirming

\* The file of the runs is not written, and what has happened since gives a restart no
\* more to lose; or it is written, as the queue then is.
FileStays(f) ==
  /\ Touched(runs, f)' <=> Touched(runs, f)
  /\ Guarded(runs, f)' <=> Guarded(runs, f)
  /\ done'[f] + unsaved[f] + lost[f] <= done[f] + unsaved'[f] + lost'[f]
  /\ \/ fired'[f] = fired[f] /\ (SavedStatus(f)' # "none" => SavedStatus(f) # "none")
     \/ fired'[f] = fired[f] + 1
FileIsQueue(f) ==
  /\ Touched(runs, f)' <=> Touched(queue, f)'
  /\ Guarded(runs, f)' <=> Guarded(queue, f)'

LEMMA FileFollows ==
  ASSUME NEW f \in Fires, FiringTypes, FiringTypes', FileWeighed(f), Weighed(f)',
         f \in overtaken => f \in overtaken', FileStays(f) \/ FileIsQueue(f)
  PROVE  FileWeighed(f)'
<1> SUFFICES ASSUME f \notin overtaken'
             PROVE  done'[f] + FileChances(f)' <= fired'[f] + lost'[f] + unsaved'[f]
  BY DEF FileWeighed
<1>1. /\ done[f] \in Nat /\ fired[f] \in Nat /\ lost[f] \in Nat /\ unsaved[f] \in Nat
      /\ done'[f] \in Nat /\ fired'[f] \in Nat /\ lost'[f] \in Nat /\ unsaved'[f] \in Nat
  BY DEF FiringTypes
<1>2. /\ FileChances(f) \in Nat /\ FileChances(f)' \in Nat
      /\ done[f] + FileChances(f) <= fired[f] + lost[f] + unsaved[f]
  BY DEF FileWeighed, FileChances, ByQueue, ByPending
<1>3. CASE FileStays(f)
  <2>1. /\ FileChances(f)' <= FileChances(f) + 1
        /\ (SavedStatus(f)' # "none" => SavedStatus(f) # "none") => FileChances(f)' <= FileChances(f)
    BY <1>3 DEF FileStays, FileChances, ByQueue, ByPending
  <2>2. FileChances(f)' - FileChances(f) <= fired'[f] - fired[f]
    BY <1>1, <1>2, <1>3, <2>1 DEF FileStays
  <2>3. done'[f] + unsaved[f] + lost[f] <= done[f] + unsaved'[f] + lost'[f]
    BY <1>3 DEF FileStays
  <2> QED BY <1>1, <1>2, <2>2, <2>3
<1>4. CASE FileIsQueue(f)
  <2>1. Cardinality(Confirming(f)') \in Nat
    BY Confirmations DEF Confirming
  <2> DEFINE k == Cardinality(Confirming(f)')
             g == Guarded(queue, f)'
  <2>2. /\ FileChances(f)' = ByQueue(Touched(queue, f)') + ByPending(SavedStatus(f)' # "none", g, 0)
        /\ Chances(f)' = ByQueue(Touched(queue, f)') + ByPending(Awaits(f)', g, k)
                           + ByConfirming(Retired(monitors[f[1]])', g, k)
    BY <1>4 DEF FileIsQueue, FileChances, Chances, ByQueue, ByPending, ByConfirming
  <2>3. SavedStatus(f)' # "none" => Awaits(f)'
    BY DEF Awaits
  <2> HIDE DEF k, g
  <2>4. FileChances(f)' <= Chances(f)' /\ Chances(f)' \in Nat
    BY <2>1, <2>2, <2>3 DEF k, ByQueue, ByPending, ByConfirming
  <2>5. done'[f] + Chances(f)' <= fired'[f] + lost'[f]
    BY DEF Weighed
  <2> QED BY <1>1, <1>2, <2>4, <2>5
<1> QED BY <1>3, <1>4

LEMMA TheSameFireIsOK ==
  ASSUME NEW f \in Fires, FiringTypes, FiringTypes', FireOK(f), Same(f)
  PROVE  FireOK(f)'
<1>1. Confirming(f)' = Confirming(f)
  BY DEF Same, Confirming
<1>2. QueuesFit(f)'
  BY DEF FireOK, QueuesFit, QueueFits, Touched, Guarded, Same
<1>3. Dispatched(f)'
  BY DEF FireOK, Dispatched, Same
<1>4. Weighed(f)'
  <2>1. Awaits(f)' => Awaits(f)
    BY DEF Awaits, Same
  <2>2. /\ Touched(queue, f)' <=> Touched(queue, f)
        /\ Guarded(queue, f)' <=> Guarded(queue, f)
        /\ Retired(monitors[f[1]])' <=> Retired(monitors[f[1]])
    BY DEF Touched, Guarded, Same
  <2>3. Cardinality(Confirming(f)) \in Nat
    BY Confirmations DEF Confirming
  <2> DEFINE k == Cardinality(Confirming(f))
  <2>4. ByQueue(Touched(queue, f)') = ByQueue(Touched(queue, f)) /\ ByQueue(Touched(queue, f)) \in Nat
    BY <2>2 DEF ByQueue
  <2>5. ByPending(Awaits(f)', Guarded(queue, f)', k) <= ByPending(Awaits(f), Guarded(queue, f), k)
        /\ ByPending(Awaits(f)', Guarded(queue, f)', k) \in Nat
        /\ ByPending(Awaits(f), Guarded(queue, f), k) \in Nat
    BY <2>1, <2>2 DEF ByPending
  <2>6. ByConfirming(Retired(monitors[f[1]])', Guarded(queue, f)', k)
          = ByConfirming(Retired(monitors[f[1]]), Guarded(queue, f), k)
        /\ ByConfirming(Retired(monitors[f[1]]), Guarded(queue, f), k) \in Nat
    BY <2>2, <2>3 DEF ByConfirming
  <2>7. Chances(f)' <= Chances(f) /\ Chances(f)' \in Nat /\ Chances(f) \in Nat
    BY <1>1, <2>4, <2>5, <2>6 DEF Chances
  <2> QED BY <2>7 DEF FireOK, Weighed, Same, FiringTypes
<1>5. Kept(f)'
  BY DEF FireOK, Kept, Handled, Past, Pends, Same
<1>6. Over(f)'
  BY DEF FireOK, Over, Same
<1>7. FileWeighed(f)'
  <2>1. FileStays(f)
    BY DEF FileStays, Same, Touched, Guarded, FiringTypes
  <2> QED BY <1>4, <2>1, FileFollows DEF FireOK, Same
<1> QED BY <1>2, <1>3, <1>4, <1>5, <1>6, <1>7 DEF FireOK

-----------------------------------------------------------------------------
(* Steps that touch monitors only.                                          *)

LEMMA EntryFacts ==
  ASSUME FiringTypes
  PROVE  /\ \A m \in Mons : /\ monitors[m] \in EntryRecord /\ registry[m] \in EntryRecord
                            /\ \A e \in RuntimeEvents : /\ monitors[m].pending[e] \in PendingRecord
                                                        /\ registry[m].pending[e] \in PendingRecord
         /\ \A f \in Fires : StatusOf(f) \in {"none", "pending", "admitting"}
         /\ \A s \in Stages : stages[s] \in StageRecord
         /\ \A f \in Fires : fired[f] \in Nat /\ done[f] \in Nat
<1>1. \A r \in EntryRecord : \A e \in RuntimeEvents : r.pending[e] \in PendingRecord
  BY DEF EntryRecord
<1>2. \A m \in Mons : monitors[m] \in EntryRecord /\ registry[m] \in EntryRecord
  BY DEF FiringTypes
<1>3. \A f \in Fires : StatusOf(f) \in {"none", "pending", "admitting"}
  BY <1>1, <1>2, FireParts DEF StatusOf, PendingRecord
<1> QED BY <1>1, <1>2, <1>3 DEF FiringTypes

\* The histories and the queue stay.
FiresStay == UNCHANGED <<queue, runs, stages, fired, done, unsaved, lost, board, ended, overtaken>>

LEMMA PendingIsSaved ==
  ASSUME CopiesAgree, NEW f \in Fires, StatusOf(f) # "none"
  PROVE  ~ Retired(monitors[f[1]]) /\ SavedStatus(f) # "none"
BY FireParts DEF CopiesAgree, CopyOK, StatusOf, SavedStatus, Retired

LEMMA StagesStay ==
  ASSUME UNCHANGED stages
  PROVE  \A s \in Stages, f \in Fires :
           /\ Claims(s, f)' <=> Claims(s, f)
           /\ Confirms(s, f)' <=> Confirms(s, f)
           /\ Accepts(s, f)' <=> Accepts(s, f)
           /\ Saves(s, f)' <=> Saves(s, f)
BY DEF Claims, Confirms, Accepts, Saves

LEMMA FileWritten ==
  ASSUME FiringInv, FiresStay, UNCHANGED <<monitors, dropped>>, registry' = registry \/ registry' = monitors
  PROVE  FiringInv'
<1>1. FiringTypes' /\ StagesHoldFires'
  BY DEF FiringInv, FiringTypes, StagesHoldFires, FiresStay
<1>2. CopiesAgree'
  BY DEF FiringInv, CopiesAgree, CopyOK, Retired
<1>3. ASSUME NEW f \in Fires PROVE FireOK(f)'
  <2>1. SavedStatus(f)' \in {SavedStatus(f), StatusOf(f)}
    BY DEF SavedStatus, StatusOf
  <2>2. Same(f)
    BY <2>1, StagesStay, PendingIsSaved DEF FiringInv, Same, FiresStay, StatusOf, Retired, Pends
  <2> QED BY <1>1, <2>2, TheSameFireIsOK DEF FiringInv
<1> QED BY <1>1, <1>2, <1>3 DEF FiringInv

\* A monitor replaced in both copies by one that has, or holds, no fire.
LEMMA CreateIsOK ==
  ASSUME FiringInv, NEW m \in Mons, NEW kind \in Kinds, CreateMonitor(m, kind)
  PROVE  FiringInv'
<1> DEFINE new == [Unborn EXCEPT !.state = "active", !.kind = kind]
<1>1. /\ monitors' = [monitors EXCEPT ![m] = new] /\ registry' = monitors'
      /\ monitors[m].state = "unborn" /\ FiresStay /\ UNCHANGED dropped
  BY DEF CreateMonitor, SavedBoth, FiresStay
<1>2. /\ new \in EntryRecord /\ new.state = "active" /\ new.kind = kind /\ new.ownerGone = FALSE
      /\ new.pending = NoPending
  BY ValuesAreTyped DEF Unborn, EntryRecord, MonitorStates
<1>3. \A e \in RuntimeEvents : new.pending[e].status = "none"
  BY <1>2 DEF NoPending, NotPending
<1> HIDE DEF new
<1>4. \A n \in Mons : monitors'[n] = (IF n = m THEN new ELSE monitors[n]) /\ registry'[n] = monitors'[n]
  BY <1>1 DEF FiringInv, FiringTypes
<1>5. FiringTypes'
  BY <1>1, <1>2 DEF FiringInv, FiringTypes, FiresStay
<1>6. CopiesAgree'
  BY <1>2, <1>3, <1>4 DEF FiringInv, CopiesAgree, CopyOK, Retired
<1>7. StagesHoldFires'
  BY <1>1, <1>2, <1>4, FireParts DEF FiringInv, StagesHoldFires, FiresStay
<1>8. ASSUME NEW f \in Fires PROVE FireOK(f)'
  <2>0. FireOK(f) /\ f[1] \in Mons /\ f[2] \in RuntimeEvents
    BY FireParts DEF FiringInv
  <2>1. CASE f[1] # m
    <3>0. monitors'[f[1]] = monitors[f[1]] /\ registry'[f[1]] = monitors[f[1]]
      BY <1>4, <2>0, <2>1
    <3>1. Same(f)
      BY <1>1, <2>0, <3>0, StagesStay, PendingIsSaved
      DEF FiringInv, Same, FiresStay, StatusOf, SavedStatus, Retired, Pends
    <3> QED BY <1>5, <2>0, <3>1, TheSameFireIsOK DEF FiringInv
  <2>2. CASE f[1] = m
    <3>1. /\ StatusOf(f) = "none" /\ SavedStatus(f) = "none"
          /\ StatusOf(f)' = "none" /\ SavedStatus(f)' = "none"
      BY <1>1, <1>3, <1>4, <2>0, <2>2 DEF FiringInv, CopiesAgree, CopyOK, Retired, StatusOf, SavedStatus
    <3>2. \A s \in Stages : ~ Claims(s, f) /\ ~ Confirms(s, f) /\ ~ Accepts(s, f) /\ ~ Saves(s, f)
      BY <1>1, <2>2, FireParts DEF FiringInv, StagesHoldFires, Claims, Confirms, Accepts, Saves
    <3>3. /\ ~ Touched(queue, f) /\ f \notin queue.receipts /\ ~ Touched(runs, f) /\ f \notin runs.receipts
          /\ f \notin dropped
      BY <1>1, <2>0, <2>2 DEF FireOK, QueuesFit, QueueFits, Over
    <3>4. \A s \in Stages : ~ Claims(s, f)' /\ ~ Confirms(s, f)' /\ ~ Accepts(s, f)' /\ ~ Saves(s, f)'
      BY <1>1, <3>2, StagesStay DEF FiresStay
    <3>5. QueuesFit(f)' /\ Dispatched(f)' /\ Over(f)'
      BY <1>1, <2>0, <3>3, <3>4
      DEF FireOK, QueuesFit, QueueFits, Dispatched, Over, Touched, Guarded, FiresStay
    <3>6. Kept(f)'
      BY <1>1, <2>0, <3>1, <3>4 DEF FireOK, Kept, Handled, Past, Pends, FiresStay
    <3>7. Weighed(f)'
      <4>1. Confirming(f)' = {} /\ Confirming(f) = {} /\ Cardinality({}) = 0
        BY <3>2, <3>4, FS_EmptySet DEF Confirming
      <4>2. ~ Touched(queue, f)' /\ ~ Awaits(f)'
        BY <1>1, <3>1, <3>3 DEF Touched, Awaits, FiresStay
      <4>3. Chances(f)' = 0
        BY <4>1, <4>2 DEF Chances, ByQueue, ByPending, ByConfirming
      <4>4. Chances(f) = 0
        BY <3>1, <3>3, <4>1 DEF Chances, ByQueue, ByPending, ByConfirming, Awaits
      <4> QED BY <1>1, <2>0, <4>3, <4>4 DEF FireOK, Weighed, FiresStay
    <3>8. FileWeighed(f)'
      <4>1. FileStays(f)
        BY <1>1, <1>5, <2>0, <3>1, <3>3 DEF FileStays, Touched, Guarded, FiresStay, FiringInv, FiringTypes
      <4> QED BY <1>1, <1>5, <2>0, <3>7, <4>1, FileFollows DEF FireOK, FiringInv, FiresStay
    <3> QED BY <3>5, <3>6, <3>7, <3>8 DEF FireOK
  <2> QED BY <2>1, <2>2
<1> QED BY <1>5, <1>6, <1>7, <1>8 DEF FiringInv

LEMMA SetStateIsOK ==
  ASSUME FiringInv, NEW m \in Mons, NEW state \in {"active", "disabled"}, SetMonitorState(m, state)
  PROVE  FiringInv'
<1> DEFINE new == [monitors[m] EXCEPT !.state = state]
<1>1. /\ monitors' = [monitors EXCEPT ![m] = new] /\ registry' = monitors'
      /\ Exists(m)
      /\ state = "active" => ~ monitors[m].ownerGone
      /\ FiresStay /\ UNCHANGED dropped
  BY DEF SetMonitorState, SavedBoth, FiresStay
<1>2. monitors[m] \in EntryRecord
  BY EntryFacts DEF FiringInv
<1>3. /\ new \in EntryRecord /\ new.state = state /\ new.kind = monitors[m].kind
      /\ new.ownerGone = monitors[m].ownerGone /\ new.pending = monitors[m].pending
  BY <1>2 DEF EntryRecord, MonitorStates
<1> HIDE DEF new
<1>4. \A n \in Mons : monitors'[n] = (IF n = m THEN new ELSE monitors[n]) /\ registry'[n] = monitors'[n]
  BY <1>1 DEF FiringInv, FiringTypes
<1>5. FiringTypes'
  BY <1>1, <1>3 DEF FiringInv, FiringTypes, FiresStay
<1>6. \A n \in Mons : /\ Retired(monitors[n])' <=> Retired(monitors[n])
                      /\ monitors'[n].state = "unborn" <=> monitors[n].state = "unborn"
                      /\ monitors'[n].kind = monitors[n].kind /\ monitors'[n].pending = monitors[n].pending
                      /\ monitors'[n].ownerGone = monitors[n].ownerGone
                      /\ monitors'[n].state = "active" => monitors[n].state = "active" \/ ~ monitors[n].ownerGone
  BY <1>1, <1>3, <1>4 DEF Retired, Exists
<1>7. CopiesAgree'
  <2>1. \A n \in Mons : CopyOK(monitors[n])'
    BY <1>6 DEF FiringInv, CopiesAgree, CopyOK
  <2>2. \A n \in Mons : registry'[n] = monitors'[n]
    BY <1>4
  <2>3. \A n \in Mons : CopyOK(registry[n])'
    BY <2>1, <2>2 DEF CopyOK, Retired
  <2> QED BY <2>1, <2>2, <2>3 DEF CopiesAgree
<1>8. StagesHoldFires'
  BY <1>1, <1>6, FireParts DEF FiringInv, StagesHoldFires, FiresStay
<1>9. ASSUME NEW f \in Fires PROVE FireOK(f)'
  <2>1. f[1] \in Mons /\ SavedStatus(f)' = StatusOf(f) /\ StatusOf(f)' = StatusOf(f)
    BY <1>4, <1>6, FireParts DEF SavedStatus, StatusOf
  <2>2. Same(f)
    BY <1>1, <1>6, <2>1, StagesStay, PendingIsSaved DEF FiringInv, Same, FiresStay, Pends
  <2> QED BY <1>5, <2>2, TheSameFireIsOK DEF FiringInv
<1> QED BY <1>5, <1>7, <1>8, <1>9 DEF FiringInv

LEMMA ChancesAreNat ==
  ASSUME NEW f \in Fires
  PROVE  Chances(f) \in Nat /\ Cardinality(Confirming(f)) \in Nat
<1>1. Cardinality(Confirming(f)) \in Nat
  BY Confirmations DEF Confirming
<1> QED BY <1>1 DEF Chances, ByQueue, ByPending, ByConfirming

\* A fire whose monitor is deleted, or loses its owner, is dropped.
LEMMA DroppedIsOK ==
  ASSUME NEW f \in Fires, FiringTypes, FiringTypes', FireOK(f), FiresStay,
         Awaits(f)' => Awaits(f), SavedStatus(f)' # "none" => SavedStatus(f) # "none",
         Retired(monitors[f[1]])', monitors'[f[1]].state # "unborn",
         monitors'[f[1]].kind \in {monitors[f[1]].kind, "notify_agent"}, f \in dropped'
  PROVE  FireOK(f)'
<1>1. \A s \in Stages : /\ Claims(s, f)' <=> Claims(s, f)
                        /\ Confirms(s, f)' <=> Confirms(s, f)
                        /\ Accepts(s, f)' <=> Accepts(s, f)
                        /\ Saves(s, f)' <=> Saves(s, f)
  BY StagesStay DEF FiresStay
<1>2. QueuesFit(f)'
  BY <1>1 DEF FireOK, QueuesFit, QueueFits, Touched, Guarded, FiresStay
<1>3. Dispatched(f)' /\ Over(f)'
  BY DEF Dispatched, Over
<1>4. Kept(f)'
  BY <1>1 DEF FireOK, Kept, Handled, Past, FiresStay
<1>5. Weighed(f)'
  <2> DEFINE k == Cardinality(Confirming(f))
  <2>1. Confirming(f)' = Confirming(f) /\ k \in Nat
    BY <1>1, ChancesAreNat DEF Confirming
  <2>2. UNCHANGED <<Touched(queue, f), Guarded(queue, f)>>
    BY DEF FiresStay, Touched, Guarded
  <2>3. ByPending(Awaits(f)', Guarded(queue, f)', k) <= ByPending(Awaits(f), Guarded(queue, f), k)
    BY <2>2 DEF ByPending
  <2>4. ByConfirming(Retired(monitors[f[1]])', Guarded(queue, f)', k) = 0
        /\ ByConfirming(Retired(monitors[f[1]]), Guarded(queue, f), k) \in Nat
    BY <2>1 DEF ByConfirming
  <2>5. ByPending(Awaits(f)', Guarded(queue, f)', k) \in Nat /\ ByPending(Awaits(f), Guarded(queue, f), k) \in Nat
        /\ ByQueue(Touched(queue, f)) \in Nat /\ ByQueue(Touched(queue, f))' = ByQueue(Touched(queue, f))
    BY <2>2 DEF ByPending, ByQueue
  <2>6. Chances(f)' <= Chances(f) /\ Chances(f)' \in Nat /\ Chances(f) \in Nat
    <3>1. /\ Chances(f)' = ByQueue(Touched(queue, f))' + ByPending(Awaits(f)', Guarded(queue, f)', k)
                             + ByConfirming(Retired(monitors[f[1]])', Guarded(queue, f)', k)
          /\ Chances(f) = ByQueue(Touched(queue, f)) + ByPending(Awaits(f), Guarded(queue, f), k)
                             + ByConfirming(Retired(monitors[f[1]]), Guarded(queue, f), k)
      BY <2>1 DEF Chances
    <3> HIDE DEF k
    <3> QED BY <2>3, <2>4, <2>5, <3>1
  <2> QED BY <2>6 DEF FireOK, Weighed, FiresStay, FiringTypes
<1>6. FileWeighed(f)'
  <2>1. FileStays(f)
    BY DEF FileStays, Touched, Guarded, FiresStay, FiringTypes
  <2> QED BY <1>5, <2>1, FileFollows DEF FireOK, FiresStay
<1> QED BY <1>2, <1>3, <1>4, <1>5, <1>6 DEF FireOK

LEMMA DeleteIsOK ==
  ASSUME FiringInv, NEW m \in Mons, DeleteMonitor(m)
  PROVE  FiringInv'
<1> DEFINE new == [Unborn EXCEPT !.state = "deleted"]
<1>1. /\ monitors' = [monitors EXCEPT ![m] = new] /\ registry' = monitors'
      /\ Exists(m) /\ FiresStay /\ dropped' = dropped \cup ({m} \X RuntimeEvents)
  BY DEF DeleteMonitor, SavedBoth, FiresStay
<1>2. /\ new \in EntryRecord /\ new.state = "deleted" /\ new.kind = "notify_agent" /\ new.ownerGone = FALSE
      /\ new.pending = NoPending
  BY ValuesAreTyped DEF Unborn, EntryRecord, MonitorStates
<1>3. \A e \in RuntimeEvents : new.pending[e].status = "none"
  BY <1>2 DEF NoPending, NotPending
<1> HIDE DEF new
<1>4. \A n \in Mons : monitors'[n] = (IF n = m THEN new ELSE monitors[n]) /\ registry'[n] = monitors'[n]
  BY <1>1 DEF FiringInv, FiringTypes
<1>5. FiringTypes'
  BY <1>1, <1>2 DEF FiringInv, FiringTypes, FiresStay
<1>6. CopiesAgree'
  BY <1>2, <1>3, <1>4 DEF FiringInv, CopiesAgree, CopyOK, Retired
<1>7. StagesHoldFires'
  BY <1>1, <1>2, <1>4, FireParts DEF FiringInv, StagesHoldFires, FiresStay
<1>8. ASSUME NEW f \in Fires PROVE FireOK(f)'
  <2>0. FireOK(f) /\ f[1] \in Mons /\ f[2] \in RuntimeEvents
    BY FireParts DEF FiringInv
  <2>1. CASE f[1] # m
    <3>0. monitors'[f[1]] = monitors[f[1]] /\ registry'[f[1]] = monitors[f[1]] /\ f \notin {m} \X RuntimeEvents
      BY <1>4, <2>0, <2>1
    <3>1. Same(f)
      BY <1>1, <2>0, <3>0, StagesStay, PendingIsSaved
      DEF FiringInv, Same, FiresStay, StatusOf, SavedStatus, Retired, Pends
    <3> QED BY <1>5, <2>0, <3>1, TheSameFireIsOK DEF FiringInv
  <2>2. CASE f[1] = m
    <3>1. ~ Awaits(f)' /\ SavedStatus(f)' = "none" /\ f \in dropped' /\ Retired(monitors[f[1]])'
      BY <1>1, <1>2, <1>3, <1>4, <2>0, <2>2, FireParts DEF Awaits, StatusOf, SavedStatus, Retired, Fires
    <3> QED BY <1>1, <1>2, <1>4, <1>5, <2>0, <2>2, <3>1, DroppedIsOK DEF FiringInv
  <2> QED BY <2>1, <2>2
<1> QED BY <1>5, <1>6, <1>7, <1>8 DEF FiringInv

\* Whoever is removed takes his monitors' fires with him, in memory.
LEMMA RemoveIsOK ==
  ASSUME FiringInv, RemoveOwner
  PROVE  FiringInv'
<1>1. /\ monitors' = [m \in Mons |->
                        IF Exists(m) THEN [monitors[m] EXCEPT !.state = "disabled", !.ownerGone = TRUE,
                                                              !.pending = NoPending]
                        ELSE monitors[m]]
      /\ dropped' = dropped \cup {f \in Fires : Exists(f[1])}
      /\ FiresStay /\ UNCHANGED registry
  BY DEF RemoveOwner, FiresStay
<1>2. \A r \in EntryRecord :
        LET n == [r EXCEPT !.state = "disabled", !.ownerGone = TRUE, !.pending = NoPending]
        IN  /\ n \in EntryRecord /\ n.state = "disabled" /\ n.kind = r.kind /\ n.ownerGone
            /\ n.pending = NoPending
  BY ValuesAreTyped DEF EntryRecord, MonitorStates
<1>3. \A e \in RuntimeEvents : NoPending[e].status = "none"
  BY DEF NoPending, NotPending
<1>4. \A m \in Mons :
        /\ monitors'[m] \in EntryRecord /\ monitors'[m].kind = monitors[m].kind
        /\ Exists(m) => /\ monitors'[m].state = "disabled" /\ monitors'[m].ownerGone
                        /\ monitors'[m].pending = NoPending
        /\ ~ Exists(m) => monitors'[m] = monitors[m]
  BY <1>1, <1>2, EntryFacts DEF FiringInv
<1>5. FiringTypes'
  BY <1>1, <1>4 DEF FiringInv, FiringTypes, FiresStay
<1>6. \A m \in Mons : Retired(monitors[m])'
  BY <1>4 DEF Retired, Exists
<1>7. CopiesAgree'
  <2>1. \A m \in Mons : CopyOK(monitors[m])'
    BY <1>3, <1>4 DEF FiringInv, CopiesAgree, CopyOK, Retired
  <2>2. \A m \in Mons : monitors'[m].state = "unborn" <=> monitors[m].state = "unborn"
    BY <1>4 DEF Exists
  <2>3. \A m \in Mons : CopyOK(registry[m])'
    BY <1>1 DEF FiringInv, CopiesAgree, CopyOK, Retired
  <2>4. \A m \in Mons : /\ monitors'[m].state = "unborn" <=> registry'[m].state = "unborn"
                        /\ monitors'[m].kind = registry'[m].kind
    <3>1. registry' = registry
      BY <1>1
    <3>2. \A m \in Mons : /\ monitors[m].state = "unborn" <=> registry[m].state = "unborn"
                          /\ monitors[m].kind = registry[m].kind
      BY DEF FiringInv, CopiesAgree
    <3>3. \A m \in Mons : monitors'[m].kind = monitors[m].kind
      BY <1>4
    <3> QED BY <2>2, <3>1, <3>2, <3>3
  <2> QED BY <1>6, <2>1, <2>3, <2>4 DEF CopiesAgree
<1>8. StagesHoldFires'
  BY <1>1, <1>4, FireParts DEF FiringInv, StagesHoldFires, FiresStay
<1>9. ASSUME NEW f \in Fires PROVE FireOK(f)'
  <2>0. FireOK(f) /\ f[1] \in Mons /\ f[2] \in RuntimeEvents /\ SavedStatus(f)' = SavedStatus(f)
    BY <1>1, FireParts DEF FiringInv, SavedStatus
  <2>1. CASE ~ Exists(f[1])
    <3>0. monitors'[f[1]] = monitors[f[1]] /\ f \notin {g \in Fires : Exists(g[1])}
      BY <1>4, <2>0, <2>1
    <3>1. Same(f)
      BY <1>1, <2>0, <3>0, StagesStay, PendingIsSaved
      DEF FiringInv, Same, FiresStay, StatusOf, Retired, Pends
    <3> QED BY <1>5, <2>0, <3>1, TheSameFireIsOK DEF FiringInv
  <2>2. CASE Exists(f[1])
    <3>1. StatusOf(f)' = "none" /\ f \in dropped' /\ Retired(monitors[f[1]])'
      <4>1. monitors'[f[1]].pending = NoPending
        BY <1>4, <2>0, <2>2
      <4>2. StatusOf(f)' = "none"
        BY <1>3, <2>0, <4>1 DEF StatusOf
      <4>3. f \in {g \in Fires : Exists(g[1])}
        BY <2>2
      <4> QED BY <1>1, <1>6, <2>0, <4>2, <4>3
    <3>2. Awaits(f)' => Awaits(f)
      BY <2>0, <3>1 DEF Awaits
    <3> QED BY <1>1, <1>4, <1>5, <2>0, <2>2, <3>1, <3>2, DroppedIsOK DEF FiringInv
  <2> QED BY <2>1, <2>2
<1> QED BY <1>5, <1>7, <1>8, <1>9 DEF FiringInv

\* The file of the monitors is written, or nothing is that a fire depends on.
LEMMA QuietUserSteps ==
  ASSUME FiringInv, SaveRemoval \/ RecreateOwner \/ CollectPending
  PROVE  FiringInv'
<1>1. FiresStay /\ UNCHANGED <<monitors, dropped>> /\ (registry' = registry \/ registry' = monitors)
  BY DEF SaveRemoval, RecreateOwner, CollectPending, FiresStay
<1> QED BY <1>1, FileWritten

\* A goroutine that holds no fire goes on to hold none.
LEMMA IdleStageMoves ==
  ASSUME FiringTypes, StagesHoldFires, NEW s \in Stages, stages[s].pc \in {"idle", "next"},
         NEW w \in StageRecord, w.pc \in {"idle", "next"}, w.fire = NoFire,
         stages' = [stages EXCEPT ![s] = w]
  PROVE  /\ stages' \in [Stages -> StageRecord]
         /\ \A t \in Stages, f \in Fires :
              /\ Claims(t, f)' <=> Claims(t, f)
              /\ Confirms(t, f)' <=> Confirms(t, f)
              /\ Accepts(t, f)' <=> Accepts(t, f)
              /\ Saves(t, f)' <=> Saves(t, f)
         /\ \A t \in Stages : /\ stages'[t].pc \in {"idle", "next"} <=> stages[t].pc \in {"idle", "next"}
                              /\ stages'[t].fire = stages[t].fire
                              /\ stages'[t].pc = "save" <=> stages[t].pc = "save"
<1>1. \A t \in Stages : stages'[t] = IF t = s THEN w ELSE stages[t]
  BY DEF FiringTypes
<1> QED BY <1>1, FireParts DEF FiringTypes, StagesHoldFires, Claims, Confirms, Accepts, Saves

LEMMA RetryIsOK ==
  ASSUME FiringInv, NEW s \in Stages, NEW f \in Fires, Retry(s, f)
  PROVE  FiringInv'
<1> DEFINE w == [Idle EXCEPT !.pc = "next", !.todo = {f}]
<1>1. w \in StageRecord /\ w.pc \in {"idle", "next"} /\ w.fire = NoFire
  <2>1. w = Onward({f})
    BY DEF Onward
  <2> HIDE DEF w
  <2>2. /\ Onward({f}) \in StageRecord /\ Onward({f}).fire = NoFire
        /\ Onward({f}).pc \in {"idle", "next"}
    BY OnwardIsIdle
  <2> QED BY <2>1, <2>2
<1>2. /\ stages[s].pc = "idle" /\ stages' = [stages EXCEPT ![s] = w]
      /\ UNCHANGED <<monitors, registry, queue, runs, board, fired, done, unsaved, lost, dropped, ended, overtaken>>
  BY DEF Retry
<1> HIDE DEF w
<1>3. /\ stages' \in [Stages -> StageRecord]
      /\ \A t \in Stages, g \in Fires :
           /\ Claims(t, g)' <=> Claims(t, g)
           /\ Confirms(t, g)' <=> Confirms(t, g)
           /\ Accepts(t, g)' <=> Accepts(t, g)
           /\ Saves(t, g)' <=> Saves(t, g)
      /\ \A t \in Stages : /\ stages'[t].pc \in {"idle", "next"} <=> stages[t].pc \in {"idle", "next"}
                           /\ stages'[t].fire = stages[t].fire
                           /\ stages'[t].pc = "save" <=> stages[t].pc = "save"
  BY <1>1, <1>2, IdleStageMoves DEF FiringInv
<1>4. FiringTypes' /\ CopiesAgree' /\ StagesHoldFires'
  BY <1>2, <1>3 DEF FiringInv, FiringTypes, CopiesAgree, CopyOK, Retired, StagesHoldFires
<1>5. ASSUME NEW g \in Fires PROVE FireOK(g)'
  <2>1. Same(g)
    BY <1>2, <1>3 DEF Same, StatusOf, SavedStatus, Retired, Pends
  <2> QED BY <1>4, <2>1, TheSameFireIsOK DEF FiringInv
<1> QED BY <1>4, <1>5 DEF FiringInv

-----------------------------------------------------------------------------
(* Steps of the queue.                                                      *)

LEMMA QueueFacts ==
  ASSUME NEW q \in QueueRecord
  PROVE  /\ q.jobs \in [Fires -> JobStates]
         /\ q.receipts \in SUBSET Fires /\ q.proofs \in SUBSET Fires
BY DEF QueueRecord

\* What the stages see of a fire stays, and so do its monitor and its past.
SeenTheSame(f) ==
  /\ UNCHANGED <<monitors, registry, overtaken, dropped>>
  /\ fired'[f] = fired[f] /\ done'[f] = done[f] /\ lost'[f] = lost[f]
  /\ board \subseteq board' /\ ended \subseteq ended'
  /\ \A s \in Stages : /\ Claims(s, f)' <=> Claims(s, f)
                       /\ Confirms(s, f)' <=> Confirms(s, f)
                       /\ Accepts(s, f)' <=> Accepts(s, f)
                       /\ Saves(s, f)' <=> Saves(s, f)

\* The queue changes nothing that matters for the fire; the file may be as it
\* was, or be written as a whole.
QueueTheSame(f) ==
  /\ queue'.jobs[f] = "none" <=> queue.jobs[f] = "none"
  /\ queue'.jobs[f] = "cancelled" => queue.jobs[f] = "cancelled" \/ f \in ended'
  /\ f \in queue'.receipts <=> f \in queue.receipts
  /\ f \in queue'.proofs <=> f \in queue.proofs
  /\ (runs' = runs /\ unsaved'[f] = unsaved[f]) \/ runs' = queue'

LEMMA QueueKeepsFire ==
  ASSUME NEW f \in Fires, FiringTypes, FiringTypes', FireOK(f), SeenTheSame(f), QueueTheSame(f)
  PROVE  FireOK(f)'
<1>1. /\ Touched(queue, f)' <=> Touched(queue, f)
      /\ Guarded(queue, f)' <=> Guarded(queue, f)
  BY DEF Touched, Guarded, QueueTheSame
<1>2. QueueFits(queue, f)'
  BY <1>1 DEF FireOK, QueuesFit, QueueFits, SeenTheSame, QueueTheSame
<1>3. QueuesFit(f)'
  <2>1. CASE runs' = runs
    BY <1>1, <1>2, <2>1 DEF FireOK, QueuesFit, QueueFits, SeenTheSame, QueueTheSame, Touched, Guarded
  <2>2. CASE runs' = queue'
    <3>1. QueueFits(runs, f)'
      BY <1>2, <2>2 DEF QueueFits, Touched
    <3> QED BY <1>2, <2>2, <3>1 DEF FireOK, QueuesFit, SeenTheSame, QueueTheSame, Touched, Guarded
  <2> QED BY <2>1, <2>2 DEF QueueTheSame
<1>4. Dispatched(f)' /\ Over(f)'
  BY DEF FireOK, Dispatched, Over, SeenTheSame, StatusOf, Retired
<1>5. Kept(f)'
  <2>1. /\ Past(f) => Past(f)'
        /\ Pends(f)' <=> Pends(f)
        /\ Handled(f) => Handled(f)'
    BY DEF SeenTheSame, QueueTheSame, Past, Pends, Handled, StatusOf, SavedStatus
  <2> QED BY <2>1 DEF FireOK, Kept, SeenTheSame
<1>6. Weighed(f)'
  <2>1. Confirming(f)' = Confirming(f)
    BY DEF SeenTheSame, Confirming
  <2>2. Awaits(f)' <=> Awaits(f)
    BY DEF SeenTheSame, Awaits, StatusOf, SavedStatus
  <2>3. Retired(monitors[f[1]])' <=> Retired(monitors[f[1]])
    BY DEF SeenTheSame, Retired
  <2>4. Chances(f)' = Chances(f)
    BY <1>1, <2>1, <2>2, <2>3 DEF Chances, ByQueue, ByPending, ByConfirming
  <2> QED BY <2>4 DEF FireOK, Weighed, SeenTheSame
<1>7. FileWeighed(f)'
  <2>1. FileStays(f) \/ FileIsQueue(f)
    BY DEF FileStays, FileIsQueue, SeenTheSame, QueueTheSame, SavedStatus, Touched, Guarded, FiringTypes
  <2> QED BY <1>6, <2>1, FileFollows DEF FireOK, SeenTheSame
<1> QED BY <1>3, <1>4, <1>5, <1>6, <1>7 DEF FireOK

LEMMA FenceIsOK ==
  ASSUME FiringInv, FenceOwner
  PROVE  FiringInv'
<1> DEFINE j == [f \in Fires |-> IF queue.jobs[f] = "queued" THEN "cancelled" ELSE queue.jobs[f]]
<1>1. /\ queue' = [queue EXCEPT !.jobs = j] /\ ended' = ended \cup {f \in Fires : queue.jobs[f] = "queued"}
      /\ UNCHANGED <<monitors, registry, board, stages, fired, done, lost, dropped, overtaken>>
      /\ (runs' = runs /\ unsaved' = unsaved) \/ (runs' = queue' /\ unsaved' = [f \in Fires |-> 0])
  BY DEF FenceOwner, QueueSaved
<1>2. /\ queue.jobs \in [Fires -> JobStates]
      /\ queue \in QueueRecord
  BY QueueFacts DEF FiringInv, FiringTypes
<1>3. /\ j \in [Fires -> JobStates]
      /\ \A f \in Fires : j[f] = IF queue.jobs[f] = "queued" THEN "cancelled" ELSE queue.jobs[f]
  BY <1>2 DEF JobStates
<1> HIDE DEF j
<1>4. /\ queue'.jobs = j /\ queue'.receipts = queue.receipts /\ queue'.proofs = queue.proofs
      /\ queue' \in QueueRecord
  BY <1>1, <1>2, <1>3 DEF QueueRecord
<1>5. FiringTypes' /\ CopiesAgree' /\ StagesHoldFires'
  BY <1>1, <1>4 DEF FiringInv, FiringTypes, CopiesAgree, CopyOK, Retired, StagesHoldFires
<1>6. ASSUME NEW f \in Fires PROVE FireOK(f)'
  <2>1. SeenTheSame(f)
    BY <1>1, StagesStay DEF SeenTheSame
  <2>2. QueueTheSame(f)
    BY <1>1, <1>3, <1>4 DEF QueueTheSame
  <2> QED BY <1>5, <2>1, <2>2, QueueKeepsFire DEF FiringInv
<1> QED BY <1>5, <1>6 DEF FiringInv

LEMMA RunEndsIsOK ==
  ASSUME FiringInv, NEW f \in Fires, RunEnds(f)
  PROVE  FiringInv'
<1>1. CASE queue.jobs[f] = "none"
  <2>1. FiresStay /\ UNCHANGED <<monitors, registry, dropped>>
    BY <1>1 DEF RunEnds, FiresStay
  <2> QED BY <2>1, FileWritten
<1>2. CASE queue.jobs[f] # "none"
  <2>1. PICK end \in {"cancelled", "failed", "queued"} :
          /\ queue' = [queue EXCEPT !.jobs[f] = end]
          /\ ended' = IF end = "cancelled" THEN ended \cup {f} ELSE ended
    BY <1>2 DEF RunEnds
  <2>2. UNCHANGED <<monitors, registry, runs, board, stages, fired, done, unsaved, lost, dropped, overtaken>>
    BY DEF RunEnds
  <2>3. /\ queue.jobs \in [Fires -> JobStates]
        /\ queue \in QueueRecord
    BY QueueFacts DEF FiringInv, FiringTypes
  <2>4. /\ queue'.jobs = [queue.jobs EXCEPT ![f] = end]
        /\ queue'.receipts = queue.receipts /\ queue'.proofs = queue.proofs /\ queue' \in QueueRecord
    BY <2>1, <2>3 DEF QueueRecord, JobStates
  <2>5. FiringTypes' /\ CopiesAgree' /\ StagesHoldFires'
    BY <2>2, <2>4 DEF FiringInv, FiringTypes, CopiesAgree, CopyOK, Retired, StagesHoldFires
  <2>6. ASSUME NEW g \in Fires PROVE FireOK(g)'
    <3>1. SeenTheSame(g)
      BY <2>1, <2>2, StagesStay DEF SeenTheSame
    <3>2. QueueTheSame(g)
      BY <1>2, <2>1, <2>2, <2>3, <2>4 DEF QueueTheSame
    <3> QED BY <2>5, <3>1, <3>2, QueueKeepsFire DEF FiringInv
  <2> QED BY <2>5, <2>6 DEF FiringInv
<1> QED BY <1>1, <1>2

\* The worker takes a job, or saves the queue.
LEMMA ClaimRunIsOK ==
  ASSUME FiringInv, NEW f \in Fires, ClaimRun(f)
  PROVE  FiringInv'
<1>1. /\ queue.jobs[f] = "queued" /\ queue' = [queue EXCEPT !.jobs[f] = "running"]
      /\ UNCHANGED <<monitors, registry, runs, board, stages, fired, done, unsaved, lost, ended, dropped,
                     overtaken>>
  BY DEF ClaimRun
<1>2. /\ queue.jobs \in [Fires -> JobStates]
      /\ queue \in QueueRecord
  BY QueueFacts DEF FiringInv, FiringTypes
<1>3. /\ queue'.jobs = [queue.jobs EXCEPT ![f] = "running"]
      /\ queue'.receipts = queue.receipts /\ queue'.proofs = queue.proofs /\ queue' \in QueueRecord
  BY <1>1, <1>2 DEF QueueRecord, JobStates
<1>4. FiringTypes' /\ CopiesAgree' /\ StagesHoldFires'
  BY <1>1, <1>3 DEF FiringInv, FiringTypes, CopiesAgree, CopyOK, Retired, StagesHoldFires
<1>5. ASSUME NEW g \in Fires PROVE FireOK(g)'
  <2>1. SeenTheSame(g)
    BY <1>1, StagesStay DEF SeenTheSame
  <2>2. QueueTheSame(g)
    BY <1>1, <1>2, <1>3 DEF QueueTheSame
  <2> QED BY <1>4, <2>1, <2>2, QueueKeepsFire DEF FiringInv
<1> QED BY <1>4, <1>5 DEF FiringInv

LEMMA SaveQueueIsOK ==
  ASSUME FiringInv, SaveQueue
  PROVE  FiringInv'
<1>1. /\ (runs' = runs /\ unsaved' = unsaved) \/ (runs' = queue' /\ unsaved' = [f \in Fires |-> 0])
      /\ UNCHANGED <<monitors, registry, queue, board, stages, fired, done, lost, ended, dropped, overtaken>>
  BY DEF SaveQueue, QueueSaved
<1>2. FiringTypes' /\ CopiesAgree' /\ StagesHoldFires'
  BY <1>1 DEF FiringInv, FiringTypes, CopiesAgree, CopyOK, Retired, StagesHoldFires
<1>3. ASSUME NEW f \in Fires PROVE FireOK(f)'
  <2>1. SeenTheSame(f)
    BY <1>1, StagesStay DEF SeenTheSame
  <2>2. QueueTheSame(f)
    BY <1>1 DEF QueueTheSame
  <2> QED BY <1>2, <2>1, <2>2, QueueKeepsFire DEF FiringInv
<1> QED BY <1>2, <1>3 DEF FiringInv

\* A run that succeeds takes one chance, by the queue if its job is there, or is lost.
LEMMA RunSucceedsIsOK ==
  ASSUME FiringInv, NEW f \in Fires, RunSucceeds(f)
  PROVE  FiringInv'
<1>1. /\ done' = [done EXCEPT ![f] = done[f] + 1]
      /\ \/ /\ queue.jobs[f] # "none" /\ queue' = Completed(f)
            /\ unsaved' = [unsaved EXCEPT ![f] = unsaved[f] + 1] /\ lost' = lost
         \/ /\ queue.jobs[f] = "none" /\ queue' = queue
            /\ lost' = [lost EXCEPT ![f] = lost[f] + 1] /\ unsaved' = unsaved
      /\ UNCHANGED <<monitors, registry, runs, board, stages, fired, ended, dropped, overtaken>>
  BY DEF RunSucceeds
<1>2. /\ queue.jobs \in [Fires -> JobStates]
      /\ queue \in QueueRecord /\ queue.receipts \in SUBSET Fires /\ queue.proofs \in SUBSET Fires
  BY QueueFacts DEF FiringInv, FiringTypes
<1>3. /\ Completed(f).jobs = [queue.jobs EXCEPT ![f] = "none"] /\ Completed(f).proofs = queue.proofs \ {f}
      /\ Completed(f).receipts = IF f \in queue.proofs THEN queue.receipts ELSE queue.receipts \cup {f}
      /\ Completed(f) \in QueueRecord
  <2> DEFINE jobs == [queue.jobs EXCEPT ![f] = "none"]
             proofs == queue.proofs \ {f}
             receipts == IF f \in queue.proofs THEN queue.receipts ELSE queue.receipts \cup {f}
  <2>1. Completed(f) = [queue EXCEPT !.jobs = jobs, !.proofs = proofs, !.receipts = receipts]
    BY DEF Completed
  <2>2. jobs \in [Fires -> JobStates] /\ proofs \in SUBSET Fires /\ receipts \in SUBSET Fires
    BY <1>2 DEF JobStates
  <2>3. /\ Completed(f).jobs = jobs /\ Completed(f).proofs = proofs /\ Completed(f).receipts = receipts
        /\ Completed(f) \in QueueRecord
    <3> HIDE DEF jobs, proofs, receipts
    <3> QED BY <1>2, <2>1, <2>2 DEF QueueRecord
  <2> QED BY <2>3
<1>4. /\ \A g \in Fires : done[g] \in Nat /\ done'[g] = IF g = f THEN done[f] + 1 ELSE done[g]
      /\ \A g \in Fires : g # f => lost'[g] = lost[g] /\ unsaved'[g] = unsaved[g]
      /\ lost[f] \in Nat /\ unsaved[f] \in Nat
      /\ done' \in [Fires -> Nat] /\ lost' \in [Fires -> Nat] /\ unsaved' \in [Fires -> Nat]
  BY <1>1 DEF FiringInv, FiringTypes
<1>5. FiringTypes' /\ CopiesAgree' /\ StagesHoldFires'
  BY <1>1, <1>2, <1>3, <1>4 DEF FiringInv, FiringTypes, CopiesAgree, CopyOK, Retired, StagesHoldFires
<1>6. ASSUME NEW g \in Fires, g # f PROVE FireOK(g)'
  <2>1. SeenTheSame(g)
    BY <1>1, <1>4, <1>6, StagesStay DEF SeenTheSame
  <2>2. QueueTheSame(g)
    BY <1>1, <1>2, <1>3, <1>4, <1>6 DEF QueueTheSame
  <2> QED BY <1>5, <2>1, <2>2, QueueKeepsFire DEF FiringInv
<1>7. FireOK(f)'
  <2>0. FireOK(f) /\ done'[f] > 0 /\ done'[f] = done[f] + 1 /\ fired[f] \in Nat /\ done[f] \in Nat
    BY <1>4 DEF FiringInv, FiringTypes
  <2>1. queue'.jobs[f] = "none"
    BY <1>1, <1>2, <1>3
  <2>2. Guarded(queue, f)' <=> Guarded(queue, f)
    BY <1>1, <1>2, <1>3, <2>0 DEF Guarded, FireOK, QueuesFit, QueueFits
  <2>3. /\ queue.jobs[f] # "none" => Touched(queue, f) /\ ~ Touched(queue, f)'
        /\ queue.jobs[f] = "none" => (Touched(queue, f)' <=> Touched(queue, f))
    BY <1>1, <1>2, <1>3 DEF Touched
  <2>4. QueueFits(queue, f)'
    <3>1. f \in queue'.receipts => f \notin queue'.proofs
      BY <1>1, <1>3, <2>0 DEF FireOK, QueuesFit, QueueFits
    <3>2. Touched(queue, f)' \/ f \in queue'.receipts => Touched(queue, f) \/ f \in queue.receipts
      BY <1>1, <2>3
    <3> QED BY <1>1, <2>0, <2>1, <3>1, <3>2 DEF QueueFits, FireOK, QueuesFit
  <2>5. QueueFits(runs, f)'
    BY <1>1, <2>0 DEF FireOK, QueuesFit, QueueFits, Touched
  <2>6. QueuesFit(f)'
    BY <2>0, <2>1, <2>4, <2>5 DEF QueuesFit
  <2>7. Dispatched(f)' /\ Over(f)'
    BY <1>1, <2>0, StagesStay DEF FireOK, Dispatched, Over, StatusOf, Retired
  <2>8. Kept(f)'
    BY <2>0 DEF Kept, Handled, Past
  <2>9. Weighed(f)'
    <3> DEFINE k == Cardinality(Confirming(f))
    <3>1. Confirming(f)' = Confirming(f)
      BY <1>1, StagesStay DEF Confirming
    <3>2. Awaits(f)' <=> Awaits(f)
      BY <1>1 DEF Awaits, StatusOf, SavedStatus
    <3>3. Retired(monitors[f[1]])' <=> Retired(monitors[f[1]])
      BY <1>1 DEF Retired
    <3>4. k \in Nat
      BY ChancesAreNat
    <3>5. ByPending(Awaits(f)', Guarded(queue, f)', k) = ByPending(Awaits(f), Guarded(queue, f), k)
          /\ ByPending(Awaits(f), Guarded(queue, f), k) \in Nat
      BY <2>2, <3>2 DEF ByPending
    <3>6. ByConfirming(Retired(monitors[f[1]])', Guarded(queue, f)', k)
            = ByConfirming(Retired(monitors[f[1]]), Guarded(queue, f), k)
          /\ ByConfirming(Retired(monitors[f[1]]), Guarded(queue, f), k) \in Nat
      BY <2>2, <3>3, <3>4 DEF ByConfirming
    <3>7. Chances(f)' \in Nat /\ Chances(f) \in Nat /\ lost[f] \in Nat
      BY <1>4, <3>1, <3>5, <3>6, ChancesAreNat DEF Chances, ByQueue
    <3>8. CASE queue.jobs[f] # "none"
      <4>1. ByQueue(Touched(queue, f)) = 1 /\ ByQueue(Touched(queue, f)') = 0
        BY <2>3, <3>8 DEF ByQueue
      <4>2. Chances(f)' + 1 = Chances(f)
        BY <3>1, <3>5, <3>6, <4>1 DEF Chances
      <4> QED BY <1>1, <2>0, <3>7, <3>8, <4>2 DEF FireOK, Weighed
    <3>9. CASE queue.jobs[f] = "none"
      <4>1. ByQueue(Touched(queue, f)') = ByQueue(Touched(queue, f))
        BY <2>3, <3>9 DEF ByQueue
      <4>2. Chances(f)' = Chances(f)
        BY <3>1, <3>5, <3>6, <4>1 DEF Chances
      <4>3. lost'[f] = lost[f] + 1
        BY <1>1, <3>9 DEF FiringInv, FiringTypes
      <4> QED BY <1>1, <2>0, <3>7, <4>2, <4>3 DEF FireOK, Weighed
    <3> QED BY <3>8, <3>9
  <2>10. FileWeighed(f)'
    <3>1. done'[f] + unsaved[f] + lost[f] <= done[f] + unsaved'[f] + lost'[f]
      BY <1>1, <1>4, <2>0 DEF FiringInv, FiringTypes
    <3>2. FileStays(f)
      BY <1>1, <3>1 DEF FileStays, Touched, Guarded, SavedStatus
    <3> QED BY <1>1, <1>5, <2>0, <2>9, <3>2, FileFollows DEF FireOK, FiringInv
  <2> QED BY <2>6, <2>7, <2>8, <2>9, <2>10 DEF FireOK
<1> QED BY <1>5, <1>6, <1>7 DEF FiringInv

-----------------------------------------------------------------------------
(* The dispatch of a fire.                                                  *)

\* One goroutine turns from one fire, or none, to that fire or none.
Turns(s, f, w) ==
  /\ stages' = [stages EXCEPT ![s] = w] /\ w \in StageRecord
  /\ stages[s].fire \in {f, NoFire} /\ w.fire \in {f, NoFire}

LEMMA TurnFacts ==
  ASSUME FiringTypes, NEW s \in Stages, NEW f \in Fires, NEW w, Turns(s, f, w)
  PROVE  /\ stages' \in [Stages -> StageRecord] /\ stages'[s] = w
         /\ \A t \in Stages : t # s => stages'[t] = stages[t]
         /\ \A g \in Fires, t \in Stages : g # f \/ t # s =>
              /\ Claims(t, g)' <=> Claims(t, g)
              /\ Confirms(t, g)' <=> Confirms(t, g)
              /\ Accepts(t, g)' <=> Accepts(t, g)
              /\ Saves(t, g)' <=> Saves(t, g)
<1>1. \A t \in Stages : stages'[t] = IF t = s THEN w ELSE stages[t]
  BY DEF FiringTypes, Turns
<1>2. stages' \in [Stages -> StageRecord]
  BY DEF FiringTypes, Turns
<1> QED BY <1>1, <1>2, FireParts DEF Turns, Claims, Confirms, Accepts, Saves

LEMMA TurnsHoldFires ==
  ASSUME FiringInv, NEW s \in Stages, NEW f \in Fires, NEW w, Turns(s, f, w),
         w.pc \in {"idle", "next"} => w.fire = NoFire,
         w.pc \notin {"idle", "next"} => w.fire = f /\ monitors'[f[1]].state # "unborn",
         w.pc = "save" => \A t \in Stages : stages[t].pc # "save",
         \A m \in Mons : monitors'[m].state = "unborn" <=> monitors[m].state = "unborn"
  PROVE  StagesHoldFires'
<1>1. /\ stages'[s] = w /\ \A t \in Stages : t # s => stages'[t] = stages[t]
  BY TurnFacts DEF FiringInv
<1> QED BY <1>1, FireParts DEF FiringInv, StagesHoldFires

\* One fire is put, in memory, and in the file perhaps.
LEMMA PutFacts ==
  ASSUME FiringTypes, NEW f \in Fires, NEW x \in PendingRecord
  PROVE  /\ Put(f, x) \in [Mons -> EntryRecord]
         /\ \A m \in Mons : /\ Put(f, x)[m].state = monitors[m].state
                            /\ Put(f, x)[m].kind = monitors[m].kind
                            /\ Put(f, x)[m].ownerGone = monitors[m].ownerGone
         /\ \A g \in Fires : Put(f, x)[g[1]].pending[g[2]] = IF g = f THEN x ELSE monitors[g[1]].pending[g[2]]
<1> DEFINE p == [monitors[f[1]].pending EXCEPT ![f[2]] = x]
           r == [monitors[f[1]] EXCEPT !.pending = p]
<1>1. f[1] \in Mons /\ f[2] \in RuntimeEvents /\ monitors[f[1]] \in EntryRecord
  BY FireParts, EntryFacts
<1>2. /\ p \in [RuntimeEvents -> PendingRecord]
      /\ \A e \in RuntimeEvents : p[e] = IF e = f[2] THEN x ELSE monitors[f[1]].pending[e]
  BY <1>1 DEF EntryRecord
<1> HIDE DEF p
<1>3. /\ r \in EntryRecord /\ r.state = monitors[f[1]].state /\ r.kind = monitors[f[1]].kind
      /\ r.ownerGone = monitors[f[1]].ownerGone /\ r.pending = p
  BY <1>1, <1>2 DEF EntryRecord
<1>4. Put(f, x) = [monitors EXCEPT ![f[1]] = r]
  BY DEF Put, p
<1> HIDE DEF r
<1>5. /\ Put(f, x) \in [Mons -> EntryRecord]
      /\ \A m \in Mons : Put(f, x)[m] = IF m = f[1] THEN r ELSE monitors[m]
  BY <1>3, <1>4 DEF FiringTypes
<1>6. ASSUME NEW g \in Fires
      PROVE  Put(f, x)[g[1]].pending[g[2]] = IF g = f THEN x ELSE monitors[g[1]].pending[g[2]]
  BY <1>1, <1>2, <1>3, <1>5, FireParts
<1> QED BY <1>3, <1>5, <1>6

\* The entry of a fire that is pending is replaced; nothing else of the monitors changes.
Replaced(f, x) ==
  /\ StatusOf(f) # "none" /\ x \in PendingRecord /\ monitors' = Put(f, x)
  /\ registry' = monitors' \/ (registry' = registry /\ x.status # "none")

LEMMA ReplacedFacts ==
  ASSUME FiringInv, NEW f \in Fires, NEW x, Replaced(f, x)
  PROVE  /\ ~ Retired(monitors[f[1]]) /\ SavedStatus(f) # "none" /\ f \notin dropped
         /\ monitors[f[1]].state # "unborn"
         /\ monitors' \in [Mons -> EntryRecord] /\ registry' \in [Mons -> EntryRecord]
         /\ \A m \in Mons : /\ Retired(monitors[m])' <=> Retired(monitors[m])
                            /\ monitors'[m].state = monitors[m].state
                            /\ monitors'[m].kind = monitors[m].kind
         /\ StatusOf(f)' = x.status
         /\ SavedStatus(f)' # "none" <=> x.status # "none"
         /\ \A g \in Fires : g # f =>
              StatusOf(g)' = StatusOf(g) /\ SavedStatus(g)' \in {SavedStatus(g), StatusOf(g)}
         /\ CopiesAgree'
<1>1. /\ monitors' \in [Mons -> EntryRecord]
      /\ \A m \in Mons : /\ monitors'[m].state = monitors[m].state
                         /\ monitors'[m].kind = monitors[m].kind
                         /\ monitors'[m].ownerGone = monitors[m].ownerGone
      /\ \A g \in Fires : monitors'[g[1]].pending[g[2]] = IF g = f THEN x ELSE monitors[g[1]].pending[g[2]]
  BY PutFacts DEF FiringInv, Replaced
<1>2. registry' \in [Mons -> EntryRecord]
  BY <1>1 DEF Replaced, FiringInv, FiringTypes
<1>3. ~ Retired(monitors[f[1]])
  BY FireParts DEF Replaced, FiringInv, CopiesAgree, CopyOK, StatusOf
<1>4. SavedStatus(f) # "none" /\ monitors[f[1]].state # "unborn"
  BY <1>3, FireParts DEF Replaced, FiringInv, CopiesAgree, SavedStatus, StatusOf, Retired
<1>5. f \notin dropped
  BY <1>3 DEF FiringInv, FireOK, Over, Replaced
<1>6. \A m \in Mons : Retired(monitors[m])' <=> Retired(monitors[m])
  BY <1>1 DEF Retired
<1>7. /\ StatusOf(f)' = x.status
      /\ \A g \in Fires : g # f => StatusOf(g)' = StatusOf(g)
  BY <1>1 DEF StatusOf
<1>8. \/ registry' = monitors' /\ \A g \in Fires : SavedStatus(g)' = StatusOf(g)'
      \/ registry' = registry /\ x.status # "none" /\ \A g \in Fires : SavedStatus(g)' = SavedStatus(g)
  BY DEF Replaced, SavedStatus, StatusOf
<1>9. /\ SavedStatus(f)' # "none" <=> x.status # "none"
      /\ \A g \in Fires : g # f => SavedStatus(g)' \in {SavedStatus(g), StatusOf(g)}
  BY <1>4, <1>7, <1>8
<1>10. CopiesAgree'
  <2>1. ASSUME NEW m \in Mons PROVE CopyOK(monitors[m])'
    <3>1. CASE Retired(monitors[m])
      <4>1. \A e \in RuntimeEvents : monitors'[m].pending[e] = monitors[m].pending[e]
        <5> SUFFICES ASSUME NEW e \in RuntimeEvents PROVE monitors'[m].pending[e] = monitors[m].pending[e]
          OBVIOUS
        <5>1. <<m, e>> \in Fires /\ <<m, e>> # f
          BY <1>3, <3>1, FireParts
        <5> QED BY <1>1, <5>1
      <4> QED BY <1>1, <3>1, <4>1 DEF FiringInv, CopiesAgree, CopyOK, Retired
    <3>2. CASE ~ Retired(monitors[m])
      BY <1>1, <1>6, <3>2 DEF CopyOK, Retired
    <3> QED BY <3>1, <3>2
  <2>2. CASE registry' = monitors'
    <3>1. \A m \in Mons : CopyOK(registry[m])'
      BY <2>1, <2>2 DEF CopyOK, Retired
    <3> QED BY <2>1, <2>2, <3>1 DEF CopiesAgree
  <2>3. CASE registry' = registry /\ x.status # "none"
    <3>1. \A m \in Mons : CopyOK(registry[m])'
      BY <2>3 DEF FiringInv, CopiesAgree, CopyOK, Retired
    <3>2. \A m \in Mons : /\ monitors'[m].state = "unborn" <=> registry'[m].state = "unborn"
                          /\ monitors'[m].kind = registry'[m].kind
      BY <1>1, <2>3 DEF FiringInv, CopiesAgree
    <3>3. ASSUME NEW m \in Mons, ~ Retired(monitors[m])', NEW e \in RuntimeEvents
          PROVE  monitors'[m].pending[e].status = "none" <=> registry'[m].pending[e].status = "none"
      <4>1. <<m, e>> \in Fires /\ ~ Retired(monitors[m])
        BY <1>6, <3>3, FireParts
      <4>2. monitors[m].pending[e].status = "none" <=> registry[m].pending[e].status = "none"
        BY <4>1 DEF FiringInv, CopiesAgree
      <4>3. CASE <<m, e>> = f
        <5>1. monitors[m].pending[e].status # "none" /\ monitors'[m].pending[e].status # "none"
          BY <1>1, <2>3, <4>1, <4>3 DEF Replaced, StatusOf
        <5> QED BY <2>3, <4>2, <5>1
      <4>4. CASE <<m, e>> # f
        <5>1. monitors'[m].pending[e] = monitors[m].pending[e]
          BY <1>1, <4>1, <4>4
        <5> QED BY <2>3, <4>2, <5>1
      <4> QED BY <4>3, <4>4
    <3> QED BY <2>1, <3>1, <3>2, <3>3 DEF CopiesAgree
  <2> QED BY <2>2, <2>3 DEF Replaced
<1> QED BY <1>1, <1>2, <1>3, <1>4, <1>5, <1>6, <1>7, <1>9, <1>10

\* What a turn of one goroutine on one fire leaves of every other fire.
LEMMA OtherFires ==
  ASSUME FiringInv, FiringTypes', NEW s \in Stages, NEW f \in Fires, NEW w, Turns(s, f, w), NEW g \in Fires, g # f,
         UNCHANGED <<queue, runs, board, fired, done, unsaved, lost, ended, overtaken, dropped>>,
         \/ UNCHANGED monitors /\ (registry' = registry \/ registry' = monitors)
         \/ \E x \in PendingRecord : Replaced(f, x)
  PROVE  FireOK(g)'
<1>1. \A t \in Stages : /\ Claims(t, g)' <=> Claims(t, g)
                        /\ Confirms(t, g)' <=> Confirms(t, g)
                        /\ Accepts(t, g)' <=> Accepts(t, g)
                        /\ Saves(t, g)' <=> Saves(t, g)
  BY TurnFacts DEF FiringInv
<1>2. /\ Retired(monitors[g[1]])' <=> Retired(monitors[g[1]])
      /\ monitors'[g[1]].state = monitors[g[1]].state /\ monitors'[g[1]].kind = monitors[g[1]].kind
      /\ StatusOf(g)' = StatusOf(g) /\ SavedStatus(g)' \in {SavedStatus(g), StatusOf(g)}
  <2>1. CASE UNCHANGED monitors /\ (registry' = registry \/ registry' = monitors)
    BY <2>1 DEF Retired, StatusOf, SavedStatus
  <2>2. CASE \E x \in PendingRecord : Replaced(f, x)
    BY <2>2, ReplacedFacts, FireParts
  <2> QED BY <2>1, <2>2
<1>3. Same(g)
  BY <1>1, <1>2, PendingIsSaved DEF FiringInv, Same, Pends
<1> QED BY <1>3, TheSameFireIsOK DEF FiringInv

\* A goroutine is through with a fire, or passes it over; the fire stays pending
\* if it was, and its monitor is as it was.
LEMMA LeftAlone ==
  ASSUME FiringInv, FiringTypes', NEW s \in Stages, NEW f \in Fires, NEW w, Turns(s, f, w),
         stages[s].pc \notin {"confirm", "save"}, w.fire = NoFire,
         UNCHANGED <<queue, runs, board, fired, done, unsaved, lost, ended, overtaken, dropped>>,
         \/ UNCHANGED monitors /\ (registry' = registry \/ registry' = monitors)
         \/ \E x \in PendingRecord : Replaced(f, x) /\ x.status # "none" /\ Claims(s, f)
  PROVE  FireOK(f)'
<1>0. FireOK(f) /\ StatusOf(f) \in {"none", "pending", "admitting"} /\ f \in Fires
  BY EntryFacts DEF FiringInv
<1>1. /\ \A t \in Stages : t # s => /\ Claims(t, f)' <=> Claims(t, f)
                                    /\ Confirms(t, f)' <=> Confirms(t, f)
                                    /\ Accepts(t, f)' <=> Accepts(t, f)
                                    /\ Saves(t, f)' <=> Saves(t, f)
      /\ ~ Claims(s, f)' /\ ~ Confirms(s, f)' /\ ~ Accepts(s, f)' /\ ~ Saves(s, f)'
      /\ ~ Confirms(s, f) /\ ~ Saves(s, f)
  BY TurnFacts, FireParts DEF FiringInv, Claims, Confirms, Accepts, Saves
<1>2. /\ Retired(monitors[f[1]])' <=> Retired(monitors[f[1]])
      /\ monitors'[f[1]].state = monitors[f[1]].state /\ monitors'[f[1]].kind = monitors[f[1]].kind
      /\ StatusOf(f)' # "none" <=> StatusOf(f) # "none"
      /\ SavedStatus(f)' # "none" => SavedStatus(f) # "none"
      /\ StatusOf(f) # "none" /\ SavedStatus(f) # "none" => SavedStatus(f)' # "none"
      /\ StatusOf(f)' = StatusOf(f) \/ (Claims(s, f) /\ f \notin dropped)
  <2>1. CASE UNCHANGED monitors /\ (registry' = registry \/ registry' = monitors)
    BY <2>1, PendingIsSaved DEF FiringInv, Retired, StatusOf, SavedStatus
  <2>2. CASE \E x \in PendingRecord : Replaced(f, x) /\ x.status # "none" /\ Claims(s, f)
    <3>1. PICK x \in PendingRecord : Replaced(f, x) /\ x.status # "none" /\ Claims(s, f)
      BY <2>2
    <3>2. StatusOf(f) # "none"
      BY <3>1 DEF Replaced
    <3>3. /\ SavedStatus(f) # "none" /\ f \notin dropped /\ StatusOf(f)' = x.status
          /\ SavedStatus(f)' # "none"
          /\ Retired(monitors[f[1]])' <=> Retired(monitors[f[1]])
          /\ monitors'[f[1]].state = monitors[f[1]].state /\ monitors'[f[1]].kind = monitors[f[1]].kind
      BY <3>1, ReplacedFacts, FireParts
    <3> QED BY <3>1, <3>2, <3>3
  <2> QED BY <2>1, <2>2
<1>3. QueuesFit(f)'
  BY <1>0, <1>1, <1>2 DEF FireOK, QueuesFit, QueueFits, Touched, Guarded
<1>4. Dispatched(f)'
  BY <1>0, <1>1, <1>2 DEF FireOK, Dispatched
<1>5. Kept(f)'
  BY <1>0, <1>1, <1>2 DEF FireOK, Kept, Handled, Past, Pends
<1>6. Over(f)'
  BY <1>0, <1>1, <1>2 DEF FireOK, Over
<1>7. Weighed(f)'
  <2> DEFINE k == Cardinality(Confirming(f))
  <2>1. Confirming(f)' = Confirming(f) /\ k \in Nat
    BY <1>1, ChancesAreNat DEF Confirming
  <2>2. /\ Touched(queue, f)' <=> Touched(queue, f)
        /\ Guarded(queue, f)' <=> Guarded(queue, f)
        /\ Awaits(f)' => Awaits(f)
    BY <1>2 DEF Touched, Guarded, Awaits
  <2>3. /\ ByQueue(Touched(queue, f)') = ByQueue(Touched(queue, f)) /\ ByQueue(Touched(queue, f)) \in Nat
        /\ ByPending(Awaits(f)', Guarded(queue, f)', k) <= ByPending(Awaits(f), Guarded(queue, f), k)
        /\ ByPending(Awaits(f)', Guarded(queue, f)', k) \in Nat
        /\ ByPending(Awaits(f), Guarded(queue, f), k) \in Nat
    BY <2>2 DEF ByQueue, ByPending
  <2>4. ByConfirming(Retired(monitors[f[1]])', Guarded(queue, f)', k)
          = ByConfirming(Retired(monitors[f[1]]), Guarded(queue, f), k)
        /\ ByConfirming(Retired(monitors[f[1]]), Guarded(queue, f), k) \in Nat
    BY <1>2, <2>1, <2>2 DEF ByConfirming
  <2>5. Chances(f)' <= Chances(f) /\ Chances(f)' \in Nat /\ Chances(f) \in Nat
    BY <2>1, <2>3, <2>4 DEF Chances
  <2> QED BY <1>0, <2>5 DEF FireOK, Weighed, FiringInv, FiringTypes
<1>8. FileWeighed(f)'
  <2>1. FileStays(f)
    BY <1>2 DEF FileStays, Touched, Guarded, FiringInv, FiringTypes
  <2> QED BY <1>0, <1>7, <2>1, FileFollows DEF FireOK, FiringInv
<1> QED BY <1>3, <1>4, <1>5, <1>6, <1>7, <1>8 DEF FireOK

LEMMA TodoIsFires ==
  ASSUME FiringTypes, NEW s \in Stages
  PROVE  /\ stages[s] \in StageRecord /\ stages[s].todo \in SUBSET Fires
         /\ stages[s].tries \in Attempts /\ stages[s].fire \in Fires \cup {NoFire}
<1>1. stages[s] \in StageRecord
  BY DEF FiringTypes
<1> QED BY <1>1 DEF StageRecord

LEMMA ClaimIsOK ==
  ASSUME FiringInv, NEW s \in Stages, NEW f \in Fires, Claim(s, f)
  PROVE  FiringInv'
<1> DEFINE rest == stages[s].todo \ {f}
           x == [monitors[f[1]].pending[f[2]] EXCEPT !.status = "admitting"]
           a == [pc |-> "admit", todo |-> rest, fire |-> f,
                 tries |-> monitors[f[1]].pending[f[2]].attempts, answer |-> "none"]
<1>1. /\ stages[s].pc = "next" /\ stages[s].fire = NoFire
      /\ UNCHANGED <<queue, runs, board, fired, done, unsaved, lost, ended, overtaken, dropped>>
  BY DEF Claim, FiringInv, StagesHoldFires
<1>2. rest \in SUBSET Fires /\ FiringTypes /\ monitors[f[1]].pending[f[2]] \in PendingRecord
  BY TodoIsFires, EntryFacts, FireParts DEF FiringInv
<1>3. /\ Onward(rest) \in StageRecord /\ Onward(rest).fire = NoFire /\ Onward(rest).pc \in {"idle", "next"}
      /\ x \in PendingRecord /\ x.status = "admitting"
      /\ a \in StageRecord /\ a.pc = "admit" /\ a.fire = f
  BY <1>2, OnwardIsIdle DEF PendingRecord, StageRecord
<1> HIDE DEF x, a
<1>4. CASE stages' = [stages EXCEPT ![s] = Onward(rest)] /\ UNCHANGED <<monitors, registry>>
  <2>1. Turns(s, f, Onward(rest))
    BY <1>1, <1>3, <1>4 DEF Turns
  <2>2. StagesHoldFires'
    BY <1>3, <1>4, <2>1, TurnsHoldFires
  <2>3. FiringTypes' /\ CopiesAgree'
    BY <1>1, <1>2, <1>4, <2>1, TurnFacts DEF FiringInv, FiringTypes, CopiesAgree, CopyOK, Retired
  <2>4. FireOK(f)'
    BY <1>1, <1>3, <1>4, <2>1, <2>3, LeftAlone
  <2>5. \A g \in Fires : g # f => FireOK(g)'
    BY <1>1, <1>4, <2>1, <2>3, OtherFires
  <2> QED BY <2>2, <2>3, <2>4, <2>5 DEF FiringInv
<1>5. CASE /\ StatusOf(f) = "pending" /\ monitors' = Put(f, x) /\ registry' = monitors'
           /\ stages' = [stages EXCEPT ![s] = a]
  <2>1. Turns(s, f, a) /\ Replaced(f, x)
    BY <1>1, <1>3, <1>5 DEF Turns, Replaced
  <2>2. /\ ~ Retired(monitors[f[1]]) /\ f \notin dropped /\ monitors[f[1]].state # "unborn"
        /\ monitors' \in [Mons -> EntryRecord] /\ registry' \in [Mons -> EntryRecord]
        /\ \A m \in Mons : /\ Retired(monitors[m])' <=> Retired(monitors[m])
                           /\ monitors'[m].state = monitors[m].state
                           /\ monitors'[m].kind = monitors[m].kind
        /\ StatusOf(f)' = "admitting" /\ SavedStatus(f)' # "none" /\ SavedStatus(f) # "none" /\ CopiesAgree'
    BY <1>3, <2>1, ReplacedFacts
  <2>3. StagesHoldFires'
    BY <1>3, <2>1, <2>2, TurnsHoldFires, FireParts
  <2>4. FiringTypes'
    BY <1>1, <1>2, <2>1, <2>2, TurnFacts DEF FiringTypes
  <2>5. \A g \in Fires : g # f => FireOK(g)'
    BY <1>1, <1>3, <2>1, <2>4, OtherFires
  <2>6. FireOK(f)'
    <3>0. FireOK(f) /\ f[1] \in Mons
      BY FireParts DEF FiringInv
    <3>1. /\ \A t \in Stages : t # s => /\ Claims(t, f)' <=> Claims(t, f)
                                        /\ Confirms(t, f)' <=> Confirms(t, f)
                                        /\ Accepts(t, f)' <=> Accepts(t, f)
                                        /\ Saves(t, f)' <=> Saves(t, f)
          /\ Claims(s, f)' /\ ~ Confirms(s, f)' /\ ~ Accepts(s, f)' /\ ~ Saves(s, f)'
          /\ ~ Saves(s, f) /\ ~ Claims(s, f) /\ ~ Confirms(s, f) /\ ~ Accepts(s, f)
      BY <1>1, <1>2, <1>3, <2>1, TurnFacts DEF Claims, Confirms, Accepts, Saves
    <3>2. QueuesFit(f)'
      BY <1>1, <2>2, <3>0, <3>1 DEF FireOK, QueuesFit, QueueFits, Touched, Guarded
    <3>3. Dispatched(f)'
      BY <1>1, <1>5, <2>2, <3>0, <3>1 DEF FireOK, Dispatched
    <3>4. Kept(f)' /\ Over(f)'
      BY <1>1, <2>2, <3>0, <3>1 DEF FireOK, Kept, Handled, Past, Pends, Over
    <3>5. Weighed(f)'
      <4>1. Confirming(f)' = Confirming(f)
        BY <3>1 DEF Confirming
      <4>2. /\ Touched(queue, f)' <=> Touched(queue, f)
            /\ Guarded(queue, f)' <=> Guarded(queue, f)
            /\ Awaits(f)' /\ Awaits(f)
            /\ Retired(monitors[f[1]])' <=> Retired(monitors[f[1]])
        BY <1>1, <1>5, <2>2, <3>0 DEF Touched, Guarded, Awaits
      <4>3. Chances(f)' = Chances(f)
        BY <4>1, <4>2 DEF Chances, ByQueue, ByPending, ByConfirming
      <4> QED BY <1>1, <3>0, <4>3 DEF FireOK, Weighed
    <3>6. FileWeighed(f)'
      <4>1. FileStays(f)
        BY <1>1, <2>2 DEF FileStays, Touched, Guarded, FiringInv, FiringTypes
      <4> QED BY <1>1, <2>4, <3>0, <3>5, <4>1, FileFollows DEF FireOK, FiringInv
    <3> QED BY <3>2, <3>3, <3>4, <3>5, <3>6 DEF FireOK
  <2> QED BY <2>2, <2>3, <2>4, <2>5, <2>6 DEF FiringInv
<1> QED BY <1>4, <1>5 DEF Claim, x, a

LEMMA HeldFire ==
  ASSUME FiringInv, NEW s \in Stages, stages[s].pc \in {"admit", "save", "settle", "confirm"}
  PROVE  /\ stages[s].fire \in Fires /\ monitors[stages[s].fire[1]].state # "unborn"
         /\ stages[s].fire # NoFire /\ stages[s] \in StageRecord
BY FireParts DEF FiringInv, StagesHoldFires, FiringTypes

\* A goroutine that has been answered settles: the fire is to be tried again, or
\* is not pending any more and waits for its confirmation.
LEMMA SettleIsOK ==
  ASSUME FiringInv, NEW s \in Stages, NEW f, f = stages[s].fire, Settle(s)
  PROVE  FiringInv'
<1> DEFINE next == Onward(stages[s].todo)
           again == [status |-> "pending",
                     attempts |-> IF monitors[f[1]].pending[f[2]].attempts < 2
                                  THEN monitors[f[1]].pending[f[2]].attempts + 1 ELSE 2]
           wait == [stages[s] EXCEPT !.pc = "confirm"]
<1>1. /\ stages[s].pc = "settle"
      /\ UNCHANGED <<queue, runs, board, fired, done, unsaved, lost, ended, overtaken, dropped>>
  BY DEF Settle
<1>2. f \in Fires /\ f # NoFire /\ stages[s] \in StageRecord /\ FiringTypes /\ monitors[f[1]].state # "unborn"
  BY <1>1, HeldFire DEF FiringInv
<1>3. /\ next \in StageRecord /\ next.fire = NoFire /\ next.pc \in {"idle", "next"}
      /\ wait \in StageRecord /\ wait.pc = "confirm" /\ wait.fire = f
  BY <1>2, TodoIsFires, OnwardIsIdle DEF StageRecord
<1>4. again \in PendingRecord /\ again.status = "pending" /\ NotPending \in PendingRecord
      /\ NotPending.status = "none"
  <2>1. monitors[f[1]].pending[f[2]].attempts \in Attempts
    BY <1>2, EntryFacts, FireParts DEF PendingRecord
  <2> QED BY <2>1, ValuesAreTyped, SMTT(40) DEF PendingRecord, Attempts, NotPending
<1>5. Claims(s, f) /\ FireOK(f) /\ ~ Confirms(s, f)
  BY <1>1, <1>2 DEF Claims, Confirms, FiringInv
<1>6. \/ /\ stages' = [stages EXCEPT ![s] = next]
         /\ \/ UNCHANGED monitors /\ (registry' = registry \/ registry' = monitors)
            \/ Replaced(f, again)
      \/ /\ stages' = [stages EXCEPT ![s] = wait] /\ stages[s].answer # "failed"
         /\ \/ StatusOf(f) = "none" /\ UNCHANGED monitors /\ registry' = monitors
            \/ Replaced(f, NotPending) /\ registry' = monitors'
  BY <1>1, <1>4 DEF Settle, Settled, NextFire, Replaced
<1> HIDE DEF next, again, wait
<1>7. CASE /\ stages' = [stages EXCEPT ![s] = next]
           /\ \/ UNCHANGED monitors /\ (registry' = registry \/ registry' = monitors)
              \/ Replaced(f, again)
  <2>1. Turns(s, f, next)
    BY <1>2, <1>3, <1>7 DEF Turns
  <2>2. /\ monitors' \in [Mons -> EntryRecord] /\ registry' \in [Mons -> EntryRecord] /\ CopiesAgree'
        /\ \A m \in Mons : monitors'[m].state = "unborn" <=> monitors[m].state = "unborn"
    <3>1. CASE Replaced(f, again)
      BY <1>2, <3>1, ReplacedFacts
    <3>2. CASE UNCHANGED monitors /\ (registry' = registry \/ registry' = monitors)
      BY <3>2 DEF FiringInv, FiringTypes, CopiesAgree, CopyOK, Retired
    <3> QED BY <1>7, <3>1, <3>2
  <2>3. StagesHoldFires'
    BY <1>2, <1>3, <2>1, <2>2, TurnsHoldFires
  <2>4. FiringTypes'
    BY <1>1, <1>2, <2>1, <2>2, TurnFacts DEF FiringTypes
  <2>5. FireOK(f)'
    BY <1>1, <1>2, <1>3, <1>4, <1>5, <1>7, <2>1, <2>4, LeftAlone
  <2>6. \A g \in Fires : g # f => FireOK(g)'
    BY <1>1, <1>2, <1>4, <1>7, <2>1, <2>4, OtherFires
  <2> QED BY <2>2, <2>3, <2>4, <2>5, <2>6 DEF FiringInv
<1>8. CASE /\ stages' = [stages EXCEPT ![s] = wait] /\ stages[s].answer # "failed"
           /\ \/ StatusOf(f) = "none" /\ UNCHANGED monitors /\ registry' = monitors
              \/ Replaced(f, NotPending) /\ registry' = monitors'
  <2>1. Turns(s, f, wait)
    BY <1>2, <1>3, <1>8 DEF Turns
  <2>2. /\ monitors' \in [Mons -> EntryRecord] /\ registry' \in [Mons -> EntryRecord] /\ CopiesAgree'
        /\ \A m \in Mons : /\ monitors'[m].state = "unborn" <=> monitors[m].state = "unborn"
                           /\ Retired(monitors[m])' <=> Retired(monitors[m])
                           /\ monitors'[m].kind = monitors[m].kind
        /\ StatusOf(f)' = "none" /\ SavedStatus(f)' = "none"
    <3>1. CASE Replaced(f, NotPending) /\ registry' = monitors'
      BY <1>2, <1>4, <3>1, ReplacedFacts
    <3>2. CASE StatusOf(f) = "none" /\ UNCHANGED monitors /\ registry' = monitors
      BY <3>2 DEF FiringInv, FiringTypes, CopiesAgree, CopyOK, Retired, StatusOf, SavedStatus
    <3> QED BY <1>8, <3>1, <3>2
  <2>3. StagesHoldFires'
    BY <1>2, <1>3, <2>1, <2>2, TurnsHoldFires, FireParts
  <2>4. FiringTypes'
    BY <1>1, <1>2, <2>1, <2>2, TurnFacts DEF FiringTypes
  <2>5. \A g \in Fires : g # f => FireOK(g)'
    BY <1>1, <1>2, <1>4, <1>8, <2>1, <2>4, OtherFires
  <2>6. FireOK(f)'
    <3>0. f[1] \in Mons
      BY <1>2, FireParts
    <3>1. /\ \A t \in Stages : t # s => /\ Claims(t, f)' <=> Claims(t, f)
                                        /\ Confirms(t, f)' <=> Confirms(t, f)
                                        /\ Accepts(t, f)' <=> Accepts(t, f)
                                        /\ Saves(t, f)' <=> Saves(t, f)
          /\ ~ Claims(s, f)' /\ Confirms(s, f)' /\ Accepts(s, f)' /\ Accepts(s, f)
          /\ ~ Saves(s, f)' /\ ~ Saves(s, f)
      BY <1>1, <1>2, <1>3, <1>8, <2>1, TurnFacts DEF Claims, Confirms, Accepts, Saves
    <3>2. QueuesFit(f)'
      BY <1>1, <1>5, <2>2, <3>0, <3>1 DEF FireOK, QueuesFit, QueueFits, Touched, Guarded
    <3>3. Dispatched(f)'
      BY <1>1, <1>5, <2>2, <3>0, <3>1 DEF FireOK, Dispatched
    <3>4. Kept(f)' /\ Over(f)'
      BY <1>1, <1>5, <2>2, <3>0, <3>1 DEF FireOK, Kept, Handled, Past, Pends, Over
    <3>5. Weighed(f)'
      <4> DEFINE k == Cardinality(Confirming(f))
      <4>1. Confirming(f)' = Confirming(f) \cup {s} /\ s \notin Confirming(f)
        BY <1>5, <3>1 DEF Confirming
      <4>2. Cardinality(Confirming(f)') = k + 1 /\ k \in Nat
        <5>1. Confirming(f) \in SUBSET Stages
          BY DEF Confirming
        <5> QED BY <4>1, <5>1, Confirmations
      <4>3. /\ Touched(queue, f)' <=> Touched(queue, f)
            /\ Guarded(queue, f)' <=> Guarded(queue, f)
            /\ ~ Awaits(f)'
            /\ Retired(monitors[f[1]])' <=> Retired(monitors[f[1]])
        BY <1>1, <2>2, <3>0 DEF Touched, Guarded, Awaits
      <4>4. f \notin overtaken /\ ~ Retired(monitors[f[1]]) => Awaits(f)
        BY <1>5 DEF FireOK, Dispatched, Awaits
      <4>5. f \notin overtaken => Chances(f)' <= Chances(f)
        <5> SUFFICES ASSUME f \notin overtaken PROVE Chances(f)' <= Chances(f)
          OBVIOUS
        <5>1. /\ Chances(f)' = ByQueue(Touched(queue, f)') + ByPending(Awaits(f)', Guarded(queue, f)', k + 1)
                                 + ByConfirming(Retired(monitors[f[1]])', Guarded(queue, f)', k + 1)
              /\ Chances(f) = ByQueue(Touched(queue, f)) + ByPending(Awaits(f), Guarded(queue, f), k)
                                 + ByConfirming(Retired(monitors[f[1]]), Guarded(queue, f), k)
          BY <4>2 DEF Chances
        <5> HIDE DEF k
        <5>2. ByQueue(Touched(queue, f)') = ByQueue(Touched(queue, f)) /\ ByQueue(Touched(queue, f)) \in Nat
          BY <4>3 DEF ByQueue
        <5>3. ByPending(Awaits(f)', Guarded(queue, f)', k + 1) = 0
          BY <4>3 DEF ByPending
        <5>4. ByConfirming(Retired(monitors[f[1]])', Guarded(queue, f)', k + 1)
                <= ByPending(Awaits(f), Guarded(queue, f), k)
                     + ByConfirming(Retired(monitors[f[1]]), Guarded(queue, f), k)
              /\ ByPending(Awaits(f), Guarded(queue, f), k) \in Nat
              /\ ByConfirming(Retired(monitors[f[1]]), Guarded(queue, f), k) \in Nat
              /\ ByConfirming(Retired(monitors[f[1]])', Guarded(queue, f)', k + 1) \in Nat
          BY <4>2, <4>3, <4>4 DEF ByPending, ByConfirming
        <5> QED BY <5>1, <5>2, <5>3, <5>4
      <4>6. Chances(f)' \in Nat /\ Chances(f) \in Nat /\ done[f] \in Nat /\ fired[f] \in Nat
            /\ lost[f] \in Nat
        <5>1. Chances(f)' \in Nat
          BY <4>2 DEF Chances, ByQueue, ByPending, ByConfirming
        <5> QED BY <1>2, <5>1, ChancesAreNat DEF FiringTypes
      <4> QED BY <1>1, <1>5, <4>5, <4>6 DEF FireOK, Weighed
    <3>6. FileWeighed(f)'
      <4>1. FileStays(f)
        BY <1>1, <1>2, <2>2 DEF FileStays, Touched, Guarded, FiringInv, FiringTypes
      <4> QED BY <1>1, <1>2, <1>5, <2>4, <3>5, <4>1, FileFollows DEF FireOK, FiringInv
    <3> QED BY <3>2, <3>3, <3>4, <3>5, <3>6 DEF FireOK
  <2> QED BY <2>2, <2>3, <2>4, <2>5, <2>6 DEF FiringInv
<1> QED BY <1>6, <1>7, <1>8

\* The receipt is taken away; a run that is still there will need none.
LEMMA ConfirmIsOK ==
  ASSUME FiringInv, NEW s \in Stages, NEW f, f = stages[s].fire, Confirm(s)
  PROVE  FiringInv'
<1> DEFINE next == Onward(stages[s].todo)
           live == queue.jobs[f] # "none"
<1>1. /\ stages[s].pc = "confirm" /\ stages' = [stages EXCEPT ![s] = next]
      /\ UNCHANGED <<monitors, registry, board, fired, done, lost, dropped, ended, overtaken>>
      /\ (runs' = runs /\ unsaved' = unsaved) \/ (runs' = queue' /\ unsaved' = [g \in Fires |-> 0])
      /\ queue' = [queue EXCEPT !.receipts = queue.receipts \ {f},
                                !.proofs = IF live THEN queue.proofs \cup {f} ELSE queue.proofs \ {f}]
  BY DEF Confirm, NextFire, QueueSaved
<1>2. f \in Fires /\ f # NoFire /\ FiringTypes /\ FireOK(f)
  BY <1>1, HeldFire DEF FiringInv
<1>3. /\ next \in StageRecord /\ next.fire = NoFire /\ next.pc \in {"idle", "next"}
  BY <1>2, TodoIsFires, OnwardIsIdle
<1> HIDE DEF next
<1>4. Turns(s, f, next)
  BY <1>1, <1>3 DEF Turns
<1>5. /\ queue \in QueueRecord /\ queue.jobs \in [Fires -> JobStates]
      /\ queue.receipts \in SUBSET Fires /\ queue.proofs \in SUBSET Fires
  BY <1>2, QueueFacts DEF FiringTypes
<1>6. /\ queue'.jobs = queue.jobs /\ queue'.receipts = queue.receipts \ {f}
      /\ queue'.proofs = (IF live THEN queue.proofs \cup {f} ELSE queue.proofs \ {f})
      /\ queue' \in QueueRecord
  BY <1>1, <1>2, <1>5 DEF QueueRecord
<1>7. FiringTypes' /\ CopiesAgree'
  BY <1>1, <1>2, <1>4, <1>6, TurnFacts DEF FiringInv, FiringTypes, CopiesAgree, CopyOK, Retired
<1>8. StagesHoldFires'
  BY <1>1, <1>2, <1>3, <1>4, TurnsHoldFires
<1>9. ASSUME NEW g \in Fires, g # f PROVE FireOK(g)'
  <2>1. SeenTheSame(g)
    BY <1>1, <1>2, <1>4, <1>9, TurnFacts DEF SeenTheSame
  <2>2. QueueTheSame(g)
    BY <1>1, <1>6, <1>9 DEF QueueTheSame
  <2> QED BY <1>2, <1>7, <2>1, <2>2, QueueKeepsFire DEF FiringInv
<1>10. FireOK(f)'
  <2>1. /\ \A t \in Stages : t # s => /\ Claims(t, f)' <=> Claims(t, f)
                                      /\ Confirms(t, f)' <=> Confirms(t, f)
                                      /\ Accepts(t, f)' <=> Accepts(t, f)
                                      /\ Saves(t, f)' <=> Saves(t, f)
        /\ ~ Claims(s, f)' /\ ~ Confirms(s, f)' /\ ~ Accepts(s, f)' /\ ~ Saves(s, f)'
        /\ ~ Saves(s, f) /\ ~ Claims(s, f) /\ Confirms(s, f) /\ Accepts(s, f)
    BY <1>1, <1>2, <1>3, <1>4, TurnFacts DEF Claims, Confirms, Accepts, Saves
  <2>2. \A t \in Stages : Saves(t, f)' <=> Saves(t, f)
    BY <2>1
  <2>3. /\ f \notin queue'.receipts /\ queue'.jobs[f] = queue.jobs[f]
        /\ f \in queue'.proofs <=> live
    BY <1>6
  <2>4. /\ Touched(queue, f)' => Touched(queue, f)
        /\ ~ Guarded(queue, f)'
    BY <2>3 DEF Touched, Guarded
  <2>5. QueueFits(queue, f)'
    BY <1>1, <1>2, <2>3, <2>4 DEF FireOK, QueuesFit, QueueFits
  <2>6. QueuesFit(f)'
    <3>1. CASE runs' = queue'
      <4>1. QueueFits(runs, f)'
        BY <2>5, <3>1 DEF QueueFits, Touched
      <4> QED BY <1>1, <1>2, <2>2, <2>3, <2>5, <3>1, <4>1 DEF FireOK, QueuesFit
    <3>2. CASE runs' = runs
      <4>1. QueueFits(runs, f)'
        BY <1>1, <1>2, <3>2 DEF FireOK, QueuesFit, QueueFits, Touched
      <4> QED BY <1>1, <1>2, <2>2, <2>3, <2>5, <3>2, <4>1 DEF FireOK, QueuesFit
    <3> QED BY <1>1, <3>1, <3>2
  <2>7. Dispatched(f)' /\ Over(f)'
    BY <1>1, <1>2, <2>1 DEF FireOK, Dispatched, Over, StatusOf, Retired
  <2>8. Kept(f)'
    <3>1. /\ Past(f)' <=> Past(f)
          /\ Pends(f)' <=> Pends(f)
          /\ Handled(f) => Handled(f)'
      BY <1>1, <2>3 DEF Past, Pends, Handled, StatusOf, SavedStatus
    <3> QED BY <1>1, <1>2, <2>1, <3>1 DEF FireOK, Kept
  <2>9. Weighed(f)'
    <3> DEFINE k == Cardinality(Confirming(f))
    <3>1. Confirming(f)' = Confirming(f) \ {s} /\ s \in Confirming(f)
      BY <2>1 DEF Confirming
    <3>2. Cardinality(Confirming(f)') = k - 1 /\ k \in Nat /\ k > 0 /\ k - 1 \in Nat
      <4>1. Confirming(f) \in SUBSET Stages
        BY DEF Confirming
      <4>2. Cardinality(Confirming(f)') = k - 1 /\ k \in Nat /\ k > 0
        BY <3>1, <4>1, Confirmations
      <4> QED BY <4>2
    <3>3. /\ Awaits(f)' <=> Awaits(f)
          /\ Retired(monitors[f[1]])' <=> Retired(monitors[f[1]])
      BY <1>1 DEF Awaits, StatusOf, SavedStatus, Retired
    <3>4. /\ Chances(f)' = ByQueue(Touched(queue, f)') + ByPending(Awaits(f)', Guarded(queue, f)', k - 1)
                             + ByConfirming(Retired(monitors[f[1]])', Guarded(queue, f)', k - 1)
          /\ Chances(f) = ByQueue(Touched(queue, f)) + ByPending(Awaits(f), Guarded(queue, f), k)
                             + ByConfirming(Retired(monitors[f[1]]), Guarded(queue, f), k)
      BY <3>2 DEF Chances
    <3> HIDE DEF k
    <3>5. /\ ByQueue(Touched(queue, f)') <= ByQueue(Touched(queue, f)) /\ ByQueue(Touched(queue, f)) \in Nat
          /\ ByQueue(Touched(queue, f)') \in Nat
      BY <2>4 DEF ByQueue
    <3>6. /\ ByPending(Awaits(f)', Guarded(queue, f)', k - 1) = ByPending(Awaits(f), Guarded(queue, f), k)
          /\ ByPending(Awaits(f), Guarded(queue, f), k) \in Nat
      BY <2>4, <3>2, <3>3 DEF ByPending
    <3>7. /\ ByConfirming(Retired(monitors[f[1]])', Guarded(queue, f)', k - 1)
               <= ByConfirming(Retired(monitors[f[1]]), Guarded(queue, f), k)
          /\ ByConfirming(Retired(monitors[f[1]])', Guarded(queue, f)', k - 1) \in Nat
          /\ ByConfirming(Retired(monitors[f[1]]), Guarded(queue, f), k) \in Nat
      BY <2>4, <3>2, <3>3 DEF ByConfirming
    <3>8. Chances(f)' <= Chances(f) /\ Chances(f)' \in Nat /\ Chances(f) \in Nat
      BY <3>4, <3>5, <3>6, <3>7
    <3> QED BY <1>1, <1>2, <3>8 DEF FireOK, Weighed, FiringTypes
  <2>10. FileWeighed(f)'
    <3>1. FileStays(f) \/ FileIsQueue(f)
      <4>1. CASE runs' = queue'
        BY <4>1 DEF FileIsQueue, Touched, Guarded
      <4>2. CASE runs' = runs /\ unsaved' = unsaved
        BY <1>1, <1>2, <4>2 DEF FileStays, SavedStatus, Touched, Guarded, FiringTypes
      <4> QED BY <1>1, <4>1, <4>2
    <3> QED BY <1>1, <1>2, <1>7, <2>9, <3>1, FileFollows DEF FireOK
  <2> QED BY <2>6, <2>7, <2>8, <2>9, <2>10 DEF FireOK
<1> QED BY <1>7, <1>8, <1>9, <1>10 DEF FiringInv

\* A fire is offered: refused, or on the blackboard, or known to the queue, or queued.
LEMMA AdmitAnswersIsOK ==
  ASSUME FiringInv, NEW s \in Stages, NEW f, f = stages[s].fire, Admit(s), stages'[s].pc # "save"
  PROVE  FiringInv'
<1>1. /\ stages[s].pc = "admit" /\ OwnerMuFree
      /\ UNCHANGED <<monitors, registry, runs, fired, done, unsaved, lost, dropped, ended, overtaken>>
  BY DEF Admit
<1>2. f \in Fires /\ f # NoFire /\ FiringTypes /\ FireOK(f) /\ stages[s] \in StageRecord
      /\ monitors[f[1]].state # "unborn" /\ f[1] \in Mons
  BY <1>1, HeldFire, FireParts DEF FiringInv
<1>3. PICK answer \in {"failed", "admitted", "already_present"} :
        /\ stages' = [stages EXCEPT ![s].pc = "settle", ![s].answer = answer]
        /\ \/ answer = "failed" /\ UNCHANGED board
           \/ OnBoard(f) /\ board' = board \cup {f}
           \/ KnownToQueue(f) /\ UNCHANGED board
  <2>1. stages' # [stages EXCEPT ![s].pc = "save"]
    BY <1>2 DEF FiringTypes, StageRecord
  <2> QED BY <2>1 DEF Admit, Answer
<1>4. UNCHANGED queue
  <2>1. stages' # [stages EXCEPT ![s].pc = "save"]
    BY <1>2 DEF FiringTypes, StageRecord
  <2> QED BY <2>1 DEF Admit
<1> DEFINE w == [stages[s] EXCEPT !.pc = "settle", !.answer = answer]
<1>5. /\ w \in StageRecord /\ w.pc = "settle" /\ w.fire = f /\ w.answer = answer
      /\ stages' = [stages EXCEPT ![s] = w]
  <2>1. w \in StageRecord /\ w.pc = "settle" /\ w.fire = f /\ w.answer = answer
    BY <1>2 DEF StageRecord
  <2>2. stages' = [stages EXCEPT ![s] = w]
    BY <1>3
  <2> QED BY <2>1, <2>2
<1> HIDE DEF w
<1>6. Turns(s, f, w)
  BY <1>5 DEF Turns
<1>7. FiringTypes' /\ CopiesAgree'
  BY <1>1, <1>2, <1>4, <1>6, TurnFacts DEF FiringInv, FiringTypes, CopiesAgree, CopyOK, Retired
<1>8. StagesHoldFires'
  BY <1>1, <1>2, <1>5, <1>6, TurnsHoldFires
<1>9. board \subseteq board'
  BY <1>3
<1>10. ASSUME NEW g \in Fires, g # f PROVE FireOK(g)'
  <2>1. SeenTheSame(g)
    BY <1>1, <1>2, <1>6, <1>9, <1>10, TurnFacts DEF SeenTheSame
  <2>2. QueueTheSame(g)
    BY <1>1, <1>4 DEF QueueTheSame
  <2> QED BY <1>2, <1>7, <2>1, <2>2, QueueKeepsFire DEF FiringInv
<1>11. /\ \A t \in Stages : t # s => /\ Claims(t, f)' <=> Claims(t, f)
                                     /\ Confirms(t, f)' <=> Confirms(t, f)
                                     /\ Accepts(t, f)' <=> Accepts(t, f)
                                     /\ Saves(t, f)' <=> Saves(t, f)
       /\ Claims(s, f)' /\ ~ Confirms(s, f)' /\ Claims(s, f) /\ ~ Confirms(s, f) /\ ~ Accepts(s, f)
       /\ Accepts(s, f)' <=> answer # "failed"
       /\ ~ Saves(s, f) /\ ~ Saves(s, f)'
  BY <1>1, <1>2, <1>5, <1>6, TurnFacts DEF Claims, Confirms, Accepts, Saves
<1>12. CASE answer = "failed"
  <2>1. SeenTheSame(f) /\ QueueTheSame(f)
    BY <1>1, <1>3, <1>4, <1>11, <1>12, <1>9 DEF SeenTheSame, QueueTheSame
  <2> QED BY <1>2, <1>7, <1>8, <1>10, <2>1, QueueKeepsFire DEF FiringInv
\* Whoever is told that the fire is known may rely on it: nobody is saving a job.
<1>13. CASE answer # "failed" /\ (f \in board' \/ KnownToQueue(f))
  <2>1. Handled(f)' /\ \A t \in Stages : ~ Saves(t, f)'
    <3>1. \A t \in Stages : ~ Saves(t, f) /\ ~ Saves(t, f)'
      BY <1>1, <1>11 DEF OwnerMuFree, Saves
    <3> QED BY <1>1, <1>2, <1>4, <1>13, <3>1 DEF Handled, Past, KnownToQueue, FireOK, QueuesFit, QueueFits
  <2>2. QueuesFit(f)'
    BY <1>1, <1>2, <1>4, <1>11 DEF FireOK, QueuesFit, QueueFits, Touched
  <2>3. Dispatched(f)' /\ Over(f)'
    BY <1>1, <1>2, <1>11 DEF FireOK, Dispatched, Over, StatusOf, Retired
  <2>4. Kept(f)'
    BY <2>1 DEF Kept
  <2>5. Weighed(f)'
    <3>1. Confirming(f)' = Confirming(f)
      BY <1>11 DEF Confirming
    <3>2. Chances(f)' = Chances(f)
      BY <1>1, <1>4, <3>1 DEF Chances, Touched, Guarded, Awaits, StatusOf, SavedStatus, Retired
    <3> QED BY <1>1, <1>2, <3>2 DEF FireOK, Weighed
  <2>6. FileWeighed(f)'
    <3>1. FileStays(f)
      BY <1>1, <1>2 DEF FileStays, SavedStatus, Touched, Guarded, FiringTypes
    <3> QED BY <1>1, <1>2, <1>7, <2>5, <3>1, FileFollows DEF FireOK
  <2> QED BY <1>7, <1>8, <1>10, <2>2, <2>3, <2>4, <2>5, <2>6 DEF FireOK, FiringInv
<1> QED BY <1>3, <1>12, <1>13

LEMMA AdmitEnqueuesIsOK ==
  ASSUME FiringInv, NEW s \in Stages, NEW f, f = stages[s].fire, Admit(s), stages'[s].pc = "save"
  PROVE  FiringInv'
<1>1. /\ stages[s].pc = "admit" /\ OwnerMuFree
      /\ UNCHANGED <<monitors, registry, runs, fired, done, unsaved, lost, dropped, ended, overtaken>>
  BY DEF Admit
<1>2. f \in Fires /\ f # NoFire /\ FiringTypes /\ FireOK(f) /\ stages[s] \in StageRecord
      /\ monitors[f[1]].state # "unborn" /\ f[1] \in Mons
  BY <1>1, HeldFire, FireParts DEF FiringInv
<1>3. /\ Available(f) /\ ~ OnBoard(f) /\ ~ KnownToQueue(f)
      /\ queue' = Enqueued(f) /\ stages' = [stages EXCEPT ![s].pc = "save"] /\ UNCHANGED board
  <2>1. \A a : stages' # [stages EXCEPT ![s].pc = "settle", ![s].answer = a]
    BY <1>2 DEF FiringTypes, StageRecord
  <2> QED BY <2>1 DEF Admit, Answer
<1> DEFINE w == [stages[s] EXCEPT !.pc = "save"]
<1>4. /\ w \in StageRecord /\ w.pc = "save" /\ w.fire = f
      /\ stages' = [stages EXCEPT ![s] = w]
  BY <1>2, <1>3 DEF StageRecord
<1> HIDE DEF w
<1>5. Turns(s, f, w)
  BY <1>4 DEF Turns
<1>6. /\ queue \in QueueRecord /\ queue.jobs \in [Fires -> JobStates]
      /\ Enqueued(f) \in QueueRecord /\ Enqueued(f).jobs = [queue.jobs EXCEPT ![f] = "queued"]
      /\ Enqueued(f).receipts = queue.receipts /\ Enqueued(f).proofs = queue.proofs
  <2>1. queue \in QueueRecord /\ queue.jobs \in [Fires -> JobStates]
    BY <1>2, QueueFacts DEF FiringTypes
  <2> QED BY <1>2, <2>1 DEF QueueRecord, Enqueued, JobStates
<1>7. FiringTypes' /\ CopiesAgree'
  <2>1. queue' \in QueueRecord /\ stages' \in [Stages -> StageRecord]
    BY <1>2, <1>3, <1>5, <1>6, TurnFacts
  <2> QED BY <1>1, <1>2, <2>1 DEF FiringInv, FiringTypes, CopiesAgree, CopyOK, Retired
<1>8. StagesHoldFires'
  <2>1. \A t \in Stages : stages[t].pc # "save"
    BY <1>1 DEF OwnerMuFree
  <2> QED BY <1>1, <1>2, <1>4, <1>5, <2>1, TurnsHoldFires
<1>9. ASSUME NEW g \in Fires, g # f PROVE FireOK(g)'
  <2>1. SeenTheSame(g)
    BY <1>1, <1>2, <1>3, <1>5, <1>9, TurnFacts DEF SeenTheSame
  <2>2. QueueTheSame(g)
    BY <1>1, <1>3, <1>6, <1>9 DEF QueueTheSame
  <2> QED BY <1>2, <1>7, <2>1, <2>2, QueueKeepsFire DEF FiringInv
<1>10. FireOK(f)'
  <2>1. /\ \A t \in Stages : t # s => /\ Claims(t, f)' <=> Claims(t, f)
                                      /\ Confirms(t, f)' <=> Confirms(t, f)
                                      /\ Accepts(t, f)' <=> Accepts(t, f)
        /\ Claims(s, f)' /\ ~ Confirms(s, f)' /\ Claims(s, f) /\ ~ Confirms(s, f)
        /\ ~ Accepts(s, f) /\ ~ Accepts(s, f)' /\ Saves(s, f)'
    BY <1>1, <1>2, <1>4, <1>5, TurnFacts DEF Claims, Confirms, Accepts, Saves
  <2>2. queue'.jobs[f] = "queued" /\ f \notin queue'.receipts /\ (f \in queue'.proofs <=> f \in queue.proofs)
        /\ queue.jobs[f] = "none" /\ f \notin queue.receipts
    BY <1>2, <1>3, <1>6 DEF KnownToQueue
  <2>3. monitors[f[1]].kind = "notify_agent"
    <3>1. monitors[f[1]].kind \in Kinds
      BY <1>2, EntryFacts DEF EntryRecord
    <3> QED BY <1>3, <3>1 DEF OnBoard, Kinds
  <2>4. ~ Retired(monitors[f[1]])
    BY <1>2, <1>3 DEF Available, Retired, FiringInv, CopiesAgree, CopyOK
  <2>5. QueueFits(queue, f)' /\ QueueFits(runs, f)'
    BY <1>1, <1>2, <2>2, <2>3 DEF FireOK, QueuesFit, QueueFits, Touched
  <2>6. QueuesFit(f)'
    BY <2>1, <2>2, <2>5 DEF QueuesFit
  <2>7. Dispatched(f)' /\ Over(f)'
    BY <1>1, <1>2, <2>1 DEF FireOK, Dispatched, Over, StatusOf, Retired
  <2>8. Kept(f)'
    <3>1. Handled(f) => Past(f)
      BY <2>2 DEF Handled
    <3>2. /\ Past(f)' <=> Past(f)
          /\ Pends(f)' <=> Pends(f)
          /\ Past(f)' => Handled(f)'
      BY <1>1, <1>3 DEF Past, Pends, Handled, StatusOf, SavedStatus
    <3> QED BY <1>1, <1>2, <2>1, <3>1, <3>2 DEF FireOK, Kept
  <2>9. Weighed(f)'
    <3> SUFFICES ASSUME f \notin overtaken PROVE done[f] + Chances(f)' <= fired[f] + lost[f]
      BY <1>1 DEF Weighed
    <3> DEFINE k == Cardinality(Confirming(f))
    <3>1. Confirming(f)' = Confirming(f) /\ k \in Nat
      BY <1>2, <2>1, ChancesAreNat DEF Confirming
    <3>2. Awaits(f) /\ Awaits(f)' /\ ~ Retired(monitors[f[1]])'
      BY <1>1, <1>2, <2>1, <2>4 DEF FireOK, Dispatched, Awaits, StatusOf, SavedStatus, Retired
    <3>3. /\ Touched(queue, f)' /\ ~ Guarded(queue, f)
          /\ Guarded(queue, f)' <=> f \notin queue.proofs
          /\ Touched(queue, f) <=> f \in queue.proofs
      BY <2>2 DEF Touched, Guarded
    <3>4. /\ Chances(f)' = ByQueue(Touched(queue, f)') + ByPending(Awaits(f)', Guarded(queue, f)', k)
                             + ByConfirming(Retired(monitors[f[1]])', Guarded(queue, f)', k)
          /\ Chances(f) = ByQueue(Touched(queue, f)) + ByPending(Awaits(f), Guarded(queue, f), k)
                             + ByConfirming(Retired(monitors[f[1]]), Guarded(queue, f), k)
      BY <3>1 DEF Chances
    <3> HIDE DEF k
    <3>5. Chances(f) = (IF f \in queue.proofs THEN 1 ELSE 0) + 1 + k
      BY <2>4, <3>1, <3>2, <3>3, <3>4 DEF ByQueue, ByPending, ByConfirming
    <3>6. Chances(f)' <= (IF f \in queue.proofs THEN 1 ELSE 0) + 1 + k
      BY <2>4, <3>1, <3>2, <3>3, <3>4 DEF ByQueue, ByPending, ByConfirming
    <3>7. Chances(f)' \in Nat
      BY <3>1, <3>4 DEF ByQueue, ByPending, ByConfirming
    <3>8. done[f] + Chances(f) <= fired[f] + lost[f] /\ done[f] \in Nat /\ fired[f] \in Nat
          /\ lost[f] \in Nat /\ Chances(f) \in Nat
      BY <1>2, ChancesAreNat DEF FireOK, Weighed, FiringTypes
    <3>9. Chances(f)' <= Chances(f)
      BY <3>5, <3>6
    <3> QED BY <3>7, <3>8, <3>9
  <2>10. FileWeighed(f)'
    <3>1. FileStays(f)
      BY <1>1, <1>2 DEF FileStays, SavedStatus, Touched, Guarded, FiringTypes
    <3> QED BY <1>1, <1>2, <1>7, <2>9, <3>1, FileFollows DEF FireOK
  <2> QED BY <2>6, <2>7, <2>8, <2>9, <2>10 DEF FireOK
<1> QED BY <1>7, <1>8, <1>9, <1>10 DEF FiringInv

\* The job is saved, and may be relied on; or it is taken back, and takes a chance with
\* it if it gives one to the fire that is pending again.
LEMMA SaveAdmittedIsOK ==
  ASSUME FiringInv, NEW s \in Stages, NEW f, f = stages[s].fire, SaveAdmitted(s)
  PROVE  FiringInv'
<1>1. /\ stages[s].pc = "save"
      /\ UNCHANGED <<monitors, registry, board, fired, done, lost, dropped, ended, overtaken>>
  BY DEF SaveAdmitted
<1>2. f \in Fires /\ f # NoFire /\ FiringTypes /\ FireOK(f) /\ stages[s] \in StageRecord
      /\ monitors[f[1]].state # "unborn" /\ f[1] \in Mons
  BY <1>1, HeldFire, FireParts DEF FiringInv
<1>3. PICK answer \in {"failed", "admitted", "already_present"} :
        /\ stages' = [stages EXCEPT ![s].pc = "settle", ![s].answer = answer]
        /\ \/ queue' = queue /\ runs' = queue' /\ unsaved' = [g \in Fires |-> 0]
           \/ /\ queue' = [queue EXCEPT !.jobs[f] = "none"] /\ runs' = runs /\ unsaved' = unsaved
              /\ answer = IF f \in queue.receipts THEN "already_present" ELSE "failed"
  BY DEF SaveAdmitted, Answer, QueueSaved
<1> DEFINE w == [stages[s] EXCEPT !.pc = "settle", !.answer = answer]
<1>4. /\ w \in StageRecord /\ w.pc = "settle" /\ w.fire = f /\ w.answer = answer
      /\ stages' = [stages EXCEPT ![s] = w]
  <2>1. w \in StageRecord /\ w.pc = "settle" /\ w.fire = f /\ w.answer = answer
    BY <1>2 DEF StageRecord
  <2>2. stages' = [stages EXCEPT ![s] = w]
    BY <1>3
  <2> QED BY <2>1, <2>2
<1> HIDE DEF w
<1>5. Turns(s, f, w)
  BY <1>4 DEF Turns
<1>6. /\ queue \in QueueRecord /\ queue.jobs \in [Fires -> JobStates]
      /\ [queue EXCEPT !.jobs[f] = "none"] \in QueueRecord
      /\ [queue EXCEPT !.jobs[f] = "none"].jobs = [queue.jobs EXCEPT ![f] = "none"]
      /\ [queue EXCEPT !.jobs[f] = "none"].receipts = queue.receipts
      /\ [queue EXCEPT !.jobs[f] = "none"].proofs = queue.proofs
  <2>1. queue \in QueueRecord /\ queue.jobs \in [Fires -> JobStates]
    BY <1>2, QueueFacts DEF FiringTypes
  <2> QED BY <1>2, <2>1 DEF QueueRecord, JobStates
<1>7. FiringTypes' /\ CopiesAgree'
  <2>1. unsaved' \in [Fires -> Nat]
    BY <1>2, <1>3 DEF FiringTypes
  <2>2. queue' \in QueueRecord /\ runs' \in QueueRecord
    BY <1>2, <1>3, <1>6 DEF FiringTypes
  <2> QED BY <1>1, <1>2, <1>5, <2>1, <2>2, TurnFacts DEF FiringInv, FiringTypes, CopiesAgree, CopyOK, Retired
<1>8. StagesHoldFires'
  BY <1>1, <1>2, <1>4, <1>5, TurnsHoldFires
<1>9. ASSUME NEW g \in Fires, g # f PROVE FireOK(g)'
  <2>1. SeenTheSame(g)
    BY <1>1, <1>2, <1>5, <1>9, TurnFacts DEF SeenTheSame
  <2>2. QueueTheSame(g)
    BY <1>3, <1>6, <1>9 DEF QueueTheSame
  <2> QED BY <1>2, <1>7, <2>1, <2>2, QueueKeepsFire DEF FiringInv
<1>10. FireOK(f)'
  <2>1. /\ \A t \in Stages : t # s => /\ Claims(t, f)' <=> Claims(t, f)
                                      /\ Confirms(t, f)' <=> Confirms(t, f)
                                      /\ Accepts(t, f)' <=> Accepts(t, f)
                                      /\ ~ Saves(t, f) /\ ~ Saves(t, f)'
        /\ Claims(s, f)' /\ ~ Confirms(s, f)' /\ Claims(s, f) /\ ~ Confirms(s, f)
        /\ ~ Accepts(s, f) /\ (Accepts(s, f)' <=> answer # "failed") /\ Saves(s, f) /\ ~ Saves(s, f)'
    <3>1. \A t \in Stages : t # s => ~ Saves(t, f)
      BY <1>1 DEF FiringInv, StagesHoldFires, Saves
    <3> QED BY <1>1, <1>2, <1>4, <1>5, <3>1, TurnFacts DEF Claims, Confirms, Accepts, Saves
  <2>2. Dispatched(f)' /\ Over(f)'
    BY <1>1, <1>2, <2>1 DEF FireOK, Dispatched, Over, StatusOf, Retired
  <2>3. \A t \in Stages : ~ Saves(t, f)'
    BY <2>1
  <2>4. Confirming(f)' = Confirming(f)
    BY <2>1 DEF Confirming
  <2>5. /\ Past(f)' <=> Past(f)
        /\ Pends(f)' <=> Pends(f)
        /\ Awaits(f)' <=> Awaits(f)
        /\ Retired(monitors[f[1]])' <=> Retired(monitors[f[1]])
    BY <1>1 DEF Past, Pends, Awaits, StatusOf, SavedStatus, Retired
  <2>6. CASE queue' = queue /\ runs' = queue' /\ unsaved' = [g \in Fires |-> 0]
    <3>1. queue.jobs[f] # "none" \/ done[f] > 0
      BY <1>2, <2>1 DEF FireOK, QueuesFit
    <3>2. Handled(f)'
      BY <1>1, <2>6, <3>1 DEF Handled, Past
    <3>3. QueueFits(queue, f)' /\ QueueFits(runs, f)'
      BY <1>1, <1>2, <2>6 DEF FireOK, QueuesFit, QueueFits, Touched
    <3>4. QueuesFit(f)' /\ Kept(f)'
      BY <2>3, <2>6, <3>2, <3>3 DEF QueuesFit, Kept
    <3>5. Weighed(f)'
      <4>1. Chances(f)' = Chances(f)
        BY <2>4, <2>5, <2>6 DEF Chances, Touched, Guarded, ByQueue, ByPending, ByConfirming
      <4> QED BY <1>1, <1>2, <4>1 DEF FireOK, Weighed
    <3>6. FileWeighed(f)'
      <4>1. FileIsQueue(f)
        BY <2>6 DEF FileIsQueue, Touched, Guarded
      <4> QED BY <1>1, <1>2, <1>7, <3>5, <4>1, FileFollows DEF FireOK
    <3> QED BY <2>2, <3>4, <3>5, <3>6 DEF FireOK
  <2>7. CASE /\ queue' = [queue EXCEPT !.jobs[f] = "none"] /\ runs' = runs /\ unsaved' = unsaved
             /\ answer = IF f \in queue.receipts THEN "already_present" ELSE "failed"
    <3>1. /\ queue'.jobs[f] = "none"
          /\ f \in queue'.receipts <=> f \in queue.receipts
          /\ f \in queue'.proofs <=> f \in queue.proofs
      BY <1>2, <1>6, <2>7
    <3>2. QueueFits(queue, f)'
      BY <1>1, <1>2, <3>1 DEF FireOK, QueuesFit, QueueFits, Touched
    <3>3. QueueFits(runs, f)'
      BY <1>1, <1>2, <2>7 DEF FireOK, QueuesFit, QueueFits, Touched
    <3>4. QueuesFit(f)'
      BY <2>3, <3>1, <3>2, <3>3 DEF QueuesFit
    <3>5. Kept(f)'
      <4>1. \A t \in Stages : Accepts(t, f)' => Past(f)
        BY <1>2, <2>1, <2>7 DEF FireOK, Kept, Past, QueuesFit, QueueFits
      <4>2. fired[f] > 0 => Past(f) \/ Pends(f) \/ f \in dropped
        BY <1>2, <2>1 DEF FireOK, Kept
      <4>3. Past(f) => Handled(f)'
        BY <2>5 DEF Handled
      <4> QED BY <1>1, <2>3, <2>5, <4>1, <4>2, <4>3 DEF Kept
    <3>6. Weighed(f)'
      <4> DEFINE k == Cardinality(Confirming(f))
      <4>1. k \in Nat
        BY <1>2, ChancesAreNat
      <4>2. /\ Touched(queue, f)' <=> f \in queue.proofs
            /\ Guarded(queue, f)' <=> f \in queue.receipts
            /\ Touched(queue, f) <=> queue.jobs[f] # "none" \/ f \in queue.proofs
            /\ Guarded(queue, f) <=> (queue.jobs[f] # "none" /\ f \notin queue.proofs) \/ f \in queue.receipts
        BY <3>1 DEF Touched, Guarded
      <4>3. /\ Chances(f)' = ByQueue(Touched(queue, f)') + ByPending(Awaits(f), Guarded(queue, f)', k)
                               + ByConfirming(Retired(monitors[f[1]]), Guarded(queue, f)', k)
            /\ Chances(f) = ByQueue(Touched(queue, f)) + ByPending(Awaits(f), Guarded(queue, f), k)
                               + ByConfirming(Retired(monitors[f[1]]), Guarded(queue, f), k)
        BY <2>4, <2>5 DEF Chances, ByPending, ByConfirming
      <4>4. Chances(f) \in Nat /\ lost[f] \in Nat /\ done[f] \in Nat /\ fired[f] \in Nat
        BY <1>2, ChancesAreNat DEF FiringTypes
      <4> HIDE DEF k
      <4>5. Chances(f)' <= Chances(f) /\ Chances(f)' \in Nat
        <5>1. CASE queue.jobs[f] = "none" \/ f \in queue.proofs
          BY <4>1, <4>2, <4>3, <5>1 DEF ByQueue, ByPending, ByConfirming
        <5>2. CASE queue.jobs[f] # "none" /\ f \notin queue.proofs
          <6>1. f \notin queue.receipts
            BY <1>2, <5>2 DEF FireOK, QueuesFit, QueueFits
          <6> QED BY <4>1, <4>2, <4>3, <5>2, <6>1 DEF ByQueue, ByPending, ByConfirming
        <5> QED BY <5>1, <5>2
      <4> QED BY <1>1, <1>2, <4>4, <4>5 DEF FireOK, Weighed
    <3>7. FileWeighed(f)'
      <4>1. FileStays(f)
        BY <1>1, <1>2, <2>7 DEF FileStays, SavedStatus, Touched, Guarded, FiringTypes
      <4> QED BY <1>1, <1>2, <1>7, <3>6, <4>1, FileFollows DEF FireOK
    <3> QED BY <2>2, <3>4, <3>5, <3>6, <3>7 DEF FireOK
  <2> QED BY <1>3, <2>6, <2>7
<1> QED BY <1>7, <1>8, <1>9, <1>10 DEF FiringInv

-----------------------------------------------------------------------------
(* An event is evaluated.                                                   *)

LEMMA AfterFacts ==
  ASSUME NEW r \in EntryRecord, NEW e \in RuntimeEvents, NEW v \in Verdicts(r),
         r.state \notin {"unborn", "deleted"}
  PROVE  /\ After(r, v, e) \in EntryRecord
         /\ After(r, v, e).kind = r.kind /\ After(r, v, e).ownerGone = r.ownerGone
         /\ After(r, v, e).state \notin {"unborn", "deleted"}
         /\ After(r, v, e).state = "active" => r.state = "active"
         /\ v = "fire" => r.state = "active"
         /\ v = "fire" /\ ~ FullOrPresent(r, e) =>
              /\ r.pending[e].status = "none"
              /\ \A d \in RuntimeEvents :
                   After(r, v, e).pending[d] = IF d = e THEN Frozen ELSE r.pending[d]
         /\ ~ (v = "fire" /\ ~ FullOrPresent(r, e)) => After(r, v, e).pending = r.pending
<1>1. /\ v \in {"fire", "suppressed", "expired", "exhausted", "rate_limit"}
      /\ v = "fire" => r.state = "active"
  BY DEF Verdicts
<1>2. ~ FullOrPresent(r, e) => r.pending[e].status = "none"
  BY DEF FullOrPresent, PendingOf
<1>3. CASE v = "fire"
  <2> DEFINE st == IF MaxTriggers > 0 /\ r.triggers + 1 >= MaxTriggers THEN "exhausted" ELSE r.state
             b == [r EXCEPT !.triggers = r.triggers + 1]
             c == [b EXCEPT !.state = st]
             p == [r.pending EXCEPT ![e] = Frozen]
  <2>1. st \in {"exhausted", "active"}
    BY <1>1, <1>3
  <2> HIDE DEF st
  <2>2. /\ c \in EntryRecord /\ c.kind = r.kind /\ c.ownerGone = r.ownerGone /\ c.state = st
        /\ c.pending = r.pending
    <3>1. /\ b \in EntryRecord /\ b.kind = r.kind /\ b.ownerGone = r.ownerGone
          /\ b.pending = r.pending
      BY DEF EntryRecord
    <3> HIDE DEF b
    <3> QED BY <2>1, <3>1 DEF EntryRecord, MonitorStates
  <2>3. AfterFire(r, e) = IF FullOrPresent(r, e) THEN [c EXCEPT !.state = "error"]
                          ELSE [c EXCEPT !.pending[e] = Frozen]
    BY DEF AfterFire, st
  <2> HIDE DEF c
  <2>4. /\ p \in [RuntimeEvents -> PendingRecord]
        /\ \A d \in RuntimeEvents : p[d] = IF d = e THEN Frozen ELSE r.pending[d]
    BY ValuesAreTyped DEF EntryRecord
  <2> HIDE DEF p
  <2>5. CASE FullOrPresent(r, e)
    <3>1. After(r, v, e) = [c EXCEPT !.state = "error"]
      BY <1>3, <2>3, <2>5 DEF After
    <3> QED BY <1>1, <1>3, <2>2, <2>5, <3>1 DEF EntryRecord, MonitorStates
  <2>6. CASE ~ FullOrPresent(r, e)
    <3>1. After(r, v, e) = [c EXCEPT !.pending = p]
      BY <1>3, <2>2, <2>3, <2>6 DEF After, p
    <3>2. /\ [c EXCEPT !.pending = p] \in EntryRecord
          /\ [c EXCEPT !.pending = p].kind = r.kind /\ [c EXCEPT !.pending = p].ownerGone = r.ownerGone
          /\ [c EXCEPT !.pending = p].state = st /\ [c EXCEPT !.pending = p].pending = p
      BY <2>2, <2>4 DEF EntryRecord
    <3> QED BY <1>1, <1>2, <1>3, <2>1, <2>4, <2>6, <3>1, <3>2
  <2> QED BY <2>5, <2>6
<1>4. CASE v = "suppressed"
  BY <1>1, <1>4 DEF After
<1>5. CASE v = "rate_limit"
  <2>1. After(r, v, e) = [r EXCEPT !.state = "error"]
    BY <1>5 DEF After
  <2> QED BY <1>5, <2>1 DEF EntryRecord, MonitorStates
<1>6. CASE v \in {"expired", "exhausted"}
  <2>1. After(r, v, e) = [r EXCEPT !.state = v]
    BY <1>6 DEF After
  <2> QED BY <1>6, <2>1 DEF EntryRecord, MonitorStates
<1> QED BY <1>1, <1>3, <1>4, <1>5, <1>6

LEMMA EvaluateIsOK ==
  ASSUME FiringInv, NEW s \in Stages, NEW e \in RuntimeEvents, Evaluate(s, e)
  PROVE  FiringInv'
<1>1. CASE UNCHANGED <<monitors, registry, stages, fired, dropped>>
  BY <1>1, FileWritten DEF Evaluate, FiresStay
<1>2. CASE ~ UNCHANGED <<monitors, registry, stages, fired, dropped>>
  <2>1. PICK verdict \in [{m \in Mons : Exists(m)} -> {"fire", "suppressed", "expired",
                                                       "exhausted", "rate_limit"}] :
          LET next == [m \in Mons |-> IF Exists(m) THEN After(monitors[m], verdict[m], e)
                                      ELSE monitors[m]]
              frozen == {m \in DOMAIN verdict : /\ verdict[m] = "fire"
                                                /\ ~FullOrPresent(monitors[m], e)} \X {e}
          IN  /\ \A m \in DOMAIN verdict : verdict[m] \in Verdicts(monitors[m])
              /\ monitors' = next /\ registry' = next
              /\ stages' = [stages EXCEPT ![s] = Onward(frozen)]
              /\ fired' = [f \in Fires |-> fired[f] + IF f \in frozen THEN 1 ELSE 0]
              /\ dropped' = dropped \ frozen
    BY <1>2 DEF Evaluate
  <2> DEFINE Freezes(m) == Exists(m) /\ verdict[m] = "fire" /\ ~ FullOrPresent(monitors[m], e)
             frozen == {m \in DOMAIN verdict : /\ verdict[m] = "fire"
                                               /\ ~FullOrPresent(monitors[m], e)} \X {e}
  <2>2. /\ stages[s].pc = "idle"
        /\ UNCHANGED <<queue, runs, board, done, unsaved, lost, ended, overtaken>>
    BY DEF Evaluate
  <2>3. \A f \in Fires : f \in frozen <=> f[2] = e /\ Freezes(f[1])
    BY DEF Fires
  <2>4. frozen \in SUBSET Fires
    BY DEF Fires
  <2>5. \A m \in Mons :
          /\ registry'[m] = monitors'[m] /\ monitors'[m] \in EntryRecord
          /\ monitors'[m].kind = monitors[m].kind /\ monitors'[m].ownerGone = monitors[m].ownerGone
          /\ monitors'[m].state = "active" => monitors[m].state = "active"
          /\ monitors'[m].state \in {"unborn", "deleted"} <=> monitors[m].state \in {"unborn", "deleted"}
          /\ monitors'[m].state = "unborn" <=> monitors[m].state = "unborn"
          /\ Freezes(m) => /\ monitors[m].state = "active" /\ monitors[m].pending[e].status = "none"
                           /\ \A d \in RuntimeEvents :
                                monitors'[m].pending[d] = IF d = e THEN Frozen ELSE monitors[m].pending[d]
          /\ ~ Freezes(m) => monitors'[m].pending = monitors[m].pending
    <3> TAKE m \in Mons
    <3>0. monitors[m] \in EntryRecord
      BY EntryFacts DEF FiringInv
    <3>1. registry'[m] = monitors'[m]
      BY <2>1
    <3>2. CASE Exists(m)
      <4>1. monitors'[m] = After(monitors[m], verdict[m], e) /\ verdict[m] \in Verdicts(monitors[m])
        BY <2>1, <3>2
      <4>2. monitors[m].state \notin {"unborn", "deleted"}
        BY <3>2 DEF Exists
      <4> QED BY <3>0, <3>1, <3>2, <4>1, <4>2, AfterFacts
    <3>3. CASE ~ Exists(m)
      <4>1. monitors'[m] = monitors[m]
        BY <2>1, <3>3
      <4> QED BY <3>0, <3>1, <3>3, <4>1
    <3> QED BY <3>2, <3>3
  <2>6. /\ stages' = [stages EXCEPT ![s] = Onward(frozen)] /\ dropped' = dropped \ frozen
        /\ fired' = [f \in Fires |-> fired[f] + IF f \in frozen THEN 1 ELSE 0]
        /\ monitors' \in [Mons -> EntryRecord] /\ registry' \in [Mons -> EntryRecord]
    <3>1. /\ stages' = [stages EXCEPT ![s] = Onward(frozen)] /\ dropped' = dropped \ frozen
          /\ fired' = [f \in Fires |-> fired[f] + IF f \in frozen THEN 1 ELSE 0]
      BY <2>1
    <3>2. monitors' = [m \in Mons |-> monitors'[m]] /\ registry' = [m \in Mons |-> registry'[m]]
      BY <2>1
    <3> QED BY <2>5, <3>1, <3>2
  <2> HIDE DEF Freezes, frozen
  <2>7. /\ Onward(frozen) \in StageRecord /\ Onward(frozen).fire = NoFire
        /\ Onward(frozen).pc \in {"idle", "next"}
    BY <2>4, OnwardIsIdle
  <2>8. /\ stages' \in [Stages -> StageRecord]
        /\ \A t \in Stages, g \in Fires :
             /\ Claims(t, g)' <=> Claims(t, g)
             /\ Confirms(t, g)' <=> Confirms(t, g)
             /\ Accepts(t, g)' <=> Accepts(t, g)
             /\ Saves(t, g)' <=> Saves(t, g)
        /\ \A t \in Stages : /\ stages'[t].pc \in {"idle", "next"} <=> stages[t].pc \in {"idle", "next"}
                             /\ stages'[t].fire = stages[t].fire
                             /\ stages'[t].pc = "save" <=> stages[t].pc = "save"
    BY <2>2, <2>6, <2>7, IdleStageMoves DEF FiringInv
  <2>9. \A f \in Fires : fired'[f] = fired[f] + (IF f \in frozen THEN 1 ELSE 0) /\ fired[f] \in Nat
    BY <2>6 DEF FiringInv, FiringTypes
  <2>10. FiringTypes'
    <3>1. fired' \in [Fires -> Nat]
      BY <2>6, <2>9
    <3> QED BY <2>2, <2>6, <2>8, <3>1 DEF FiringInv, FiringTypes
  <2>11. \A m \in Mons : /\ Retired(monitors[m])' <=> Retired(monitors[m])
                         /\ Freezes(m) => ~ Retired(monitors[m])
    BY <2>5 DEF Retired, FiringInv, CopiesAgree, CopyOK
  <2>12. CopiesAgree'
    <3>1. ASSUME NEW m \in Mons PROVE CopyOK(monitors[m])'
      <4>1. CopyOK(monitors[m])
        BY DEF FiringInv, CopiesAgree
      <4>2. Retired(monitors[m])' => monitors'[m].pending = monitors[m].pending /\ Retired(monitors[m])
        BY <2>5, <2>11
      <4>3. monitors'[m].ownerGone => monitors[m].ownerGone /\ (monitors'[m].state = "active" => monitors[m].state = "active")
        BY <2>5
      <4> QED BY <4>1, <4>2, <4>3 DEF CopyOK
    <3>2. \A m \in Mons : registry'[m] = monitors'[m]
      BY <2>5
    <3>3. \A m \in Mons : CopyOK(registry[m])'
      BY <3>1, <3>2 DEF CopyOK, Retired
    <3> QED BY <3>1, <3>2, <3>3 DEF CopiesAgree
  <2>13. StagesHoldFires'
    <3>1. \A m \in Mons : monitors'[m].state = "unborn" <=> monitors[m].state = "unborn"
      BY <2>5
    <3> QED BY <2>8, <3>1, FireParts DEF FiringInv, StagesHoldFires
  <2>14. ASSUME NEW f \in Fires, f \notin frozen PROVE FireOK(f)'
    <3>0. f[1] \in Mons /\ f[2] \in RuntimeEvents /\ monitors[f[1]] \in EntryRecord
      BY EntryFacts, FireParts DEF FiringInv
    <3>1. monitors'[f[1]].pending[f[2]] = monitors[f[1]].pending[f[2]]
      <4>1. CASE Freezes(f[1])
        <5>1. f[2] # e
          BY <2>3, <2>14, <4>1
        <5> QED BY <2>5, <3>0, <4>1, <5>1
      <4>2. CASE ~ Freezes(f[1])
        BY <2>5, <3>0, <4>2
      <4> QED BY <4>1, <4>2
    <3>2. StatusOf(f)' = StatusOf(f) /\ SavedStatus(f)' = StatusOf(f)
      BY <2>5, <3>0, <3>1 DEF StatusOf, SavedStatus
    <3>3. fired'[f] = fired[f] /\ (f \in dropped' <=> f \in dropped)
      BY <2>6, <2>9, <2>14
    <3>4. Same(f)
      BY <2>2, <2>5, <2>8, <2>11, <3>0, <3>2, <3>3, PendingIsSaved DEF FiringInv, Same, Pends
    <3> QED BY <2>10, <3>4, TheSameFireIsOK DEF FiringInv
  <2>15. ASSUME NEW f \in Fires, f \in frozen PROVE FireOK(f)'
    <3>0. f[1] \in Mons /\ f[2] = e /\ Freezes(f[1]) /\ FireOK(f) /\ ~ Retired(monitors[f[1]])
      BY <2>3, <2>11, <2>15, FireParts DEF FiringInv
    <3>1. StatusOf(f) = "none" /\ SavedStatus(f) = "none"
      BY <2>5, <3>0 DEF StatusOf, SavedStatus, FiringInv, CopiesAgree
    <3>2. StatusOf(f)' = "pending" /\ SavedStatus(f)' = "pending"
      <4>1. monitors[f[1]] \in EntryRecord
        BY <3>0, EntryFacts DEF FiringInv
      <4>2. monitors'[f[1]].pending[e] = Frozen /\ registry'[f[1]] = monitors'[f[1]]
        BY <2>5, <3>0, <4>1
      <4> QED BY <3>0, <4>2 DEF StatusOf, SavedStatus, Frozen
    <3>3. fired'[f] = fired[f] + 1 /\ f \notin dropped' /\ fired[f] \in Nat /\ done[f] \in Nat
      BY <2>6, <2>9, <2>15, EntryFacts DEF FiringInv
    <3>4. QueuesFit(f)'
      BY <2>2, <2>5, <2>8, <3>0 DEF FireOK, QueuesFit, QueueFits, Touched, Guarded
    <3>5. Dispatched(f)'
      BY <2>2, <2>8, <2>11, <3>0, <3>1 DEF FireOK, Dispatched
    <3>6. Kept(f)' /\ Over(f)'
      BY <2>2, <2>8, <3>0, <3>2, <3>3 DEF FireOK, Kept, Over, Handled, Past, Pends
    <3>7. Weighed(f)'
      <4> DEFINE k == Cardinality(Confirming(f))
      <4>1. Confirming(f)' = Confirming(f) /\ k \in Nat
        BY <2>8, ChancesAreNat DEF Confirming
      <4>2. /\ Touched(queue, f)' <=> Touched(queue, f)
            /\ Guarded(queue, f)' <=> Guarded(queue, f)
            /\ Retired(monitors[f[1]])' <=> Retired(monitors[f[1]])
            /\ ~ Awaits(f) /\ Awaits(f)'
        BY <2>2, <2>11, <3>0, <3>1, <3>2 DEF Touched, Guarded, Awaits
      <4>3. /\ Chances(f)' = ByQueue(Touched(queue, f)') + ByPending(Awaits(f)', Guarded(queue, f)', k)
                               + ByConfirming(Retired(monitors[f[1]])', Guarded(queue, f)', k)
            /\ Chances(f) = ByQueue(Touched(queue, f)) + ByPending(Awaits(f), Guarded(queue, f), k)
                               + ByConfirming(Retired(monitors[f[1]]), Guarded(queue, f), k)
        BY <4>1 DEF Chances
      <4> HIDE DEF k
      <4>4. ByQueue(Touched(queue, f)') = ByQueue(Touched(queue, f)) /\ ByQueue(Touched(queue, f)) \in Nat
        BY <4>2 DEF ByQueue
      <4>5. /\ ByPending(Awaits(f)', Guarded(queue, f)', k) \in {0, 1}
            /\ ByPending(Awaits(f), Guarded(queue, f), k) = 0
        BY <4>2 DEF ByPending
      <4>6. /\ ByConfirming(Retired(monitors[f[1]])', Guarded(queue, f)', k)
                 = ByConfirming(Retired(monitors[f[1]]), Guarded(queue, f), k)
            /\ ByConfirming(Retired(monitors[f[1]]), Guarded(queue, f), k) \in Nat
        BY <4>1, <4>2 DEF ByConfirming
      <4>7. Chances(f)' <= Chances(f) + 1 /\ Chances(f)' \in Nat /\ Chances(f) \in Nat
        BY <4>3, <4>4, <4>5, <4>6
      <4>8. lost[f] \in Nat
        BY DEF FiringInv, FiringTypes
      <4> QED BY <2>2, <3>0, <3>3, <4>7, <4>8 DEF FireOK, Weighed
    <3>8. FileWeighed(f)'
      <4>1. FileStays(f)
        BY <2>2, <3>3 DEF FileStays, Touched, Guarded, FiringInv, FiringTypes
      <4> QED BY <2>2, <2>10, <3>0, <3>7, <4>1, FileFollows DEF FireOK, FiringInv
    <3> QED BY <3>4, <3>5, <3>6, <3>7, <3>8 DEF FireOK
  <2> QED BY <2>10, <2>12, <2>13, <2>14, <2>15 DEF FiringInv
<1> QED BY <1>1, <1>2

-----------------------------------------------------------------------------
(* A restart.                                                               *)

LEMMA CrashIsOK ==
  ASSUME FiringInv, MonitorCrash
  PROVE  FiringInv'
<1>1. PICK j \in [Fires -> JobStates] :
        (\A f \in Fires : j[f] \in AfterStop(runs.jobs[f])) /\ queue' = [runs EXCEPT !.jobs = j] /\ runs' = queue'
  BY DEF MonitorCrash, Recovered
<1>2. /\ monitors' = registry /\ registry' = registry
      /\ stages' = [s \in Stages |-> Idle]
      /\ dropped' = {f \in dropped : SavedStatus(f) = "none"}
      /\ lost' = [f \in Fires |-> lost[f] + unsaved[f]] /\ unsaved' = [f \in Fires |-> 0]
      /\ UNCHANGED <<board, fired, done, ended, overtaken>>
  BY DEF MonitorCrash, SavedStatus
<1>3. runs \in QueueRecord /\ runs.jobs \in [Fires -> JobStates]
  BY QueueFacts DEF FiringInv, FiringTypes
<1>4. /\ queue'.jobs = j /\ queue'.receipts = runs.receipts /\ queue'.proofs = runs.proofs
      /\ queue' \in QueueRecord /\ runs' = queue'
  BY <1>1, <1>3 DEF QueueRecord
<1>5. FiringTypes'
  BY <1>2, <1>4, ValuesAreTyped DEF FiringInv, FiringTypes
<1>6. \A m \in Mons : /\ CopyOK(monitors[m])' /\ CopyOK(registry[m])' /\ monitors'[m] = registry[m]
                      /\ monitors[m].state = "unborn" <=> registry[m].state = "unborn"
                      /\ monitors[m].kind = registry[m].kind
  BY <1>2 DEF FiringInv, CopiesAgree, CopyOK, Retired
<1>7. CopiesAgree'
  BY <1>2, <1>6 DEF CopiesAgree
<1>8. \A s \in Stages : stages'[s].pc = "idle" /\ stages'[s].fire = NoFire
  BY <1>2 DEF Idle
<1>9. StagesHoldFires'
  BY <1>8 DEF StagesHoldFires
<1>10. ASSUME NEW f \in Fires PROVE FireOK(f)'
  <2>0. FireOK(f) /\ f[1] \in Mons
    BY FireParts DEF FiringInv
  <2>1. \A s \in Stages : ~ Claims(s, f)' /\ ~ Confirms(s, f)' /\ ~ Accepts(s, f)' /\ ~ Saves(s, f)'
    BY <1>8, FireParts DEF Claims, Confirms, Accepts, Saves
  <2>2. /\ queue'.jobs[f] = "none" <=> runs.jobs[f] \in {"none", "cancelled"}
        /\ queue'.jobs[f] # "cancelled"
        /\ f \in queue'.receipts <=> f \in runs.receipts
        /\ f \in queue'.proofs <=> f \in runs.proofs
    <3>1. j[f] \in AfterStop(runs.jobs[f]) /\ queue'.jobs[f] = j[f]
      BY <1>1, <1>4
    <3>2. runs.jobs[f] \in JobStates
      BY <1>3
    <3> QED BY <1>4, <3>1, <3>2 DEF AfterStop, JobStates
  <2>3. /\ Touched(queue, f)' => Touched(runs, f)
        /\ Guarded(queue, f)' => Guarded(runs, f)
        /\ Guarded(runs, f) /\ ~ Guarded(queue, f)' => Touched(runs, f) /\ ~ Touched(queue, f)'
    BY <2>2 DEF Touched, Guarded
  <2>4. QueueFits(queue, f)' /\ QueueFits(runs, f)'
    <3>1. QueueFits(queue, f)'
      BY <1>2, <1>6, <2>0, <2>2, <2>3 DEF FireOK, QueuesFit, QueueFits
    <3> QED BY <1>4, <3>1 DEF QueueFits, Touched
  <2>5. QueuesFit(f)'
    BY <1>4, <2>1, <2>4 DEF QueuesFit
  <2>6. /\ StatusOf(f)' = SavedStatus(f) /\ SavedStatus(f)' = SavedStatus(f)
        /\ f \in dropped' <=> f \in dropped /\ SavedStatus(f) = "none"
    BY <1>2 DEF StatusOf, SavedStatus
  <2>7. Dispatched(f)'
    BY <2>1 DEF Dispatched
  <2>8. Over(f)'
    BY <1>6, <2>0, <2>1, <2>6 DEF Over, FireOK
  <2>9. Kept(f)'
    <3>1. Handled(f) => Handled(f)'
      BY <1>2, <1>4, <2>0, <2>2 DEF Handled, Past, FireOK, QueuesFit, QueueFits
    <3>2. fired'[f] = fired[f] /\ (Pends(f)' <=> SavedStatus(f) # "none")
      BY <1>2, <2>6 DEF Pends
    <3> QED BY <2>0, <2>1, <2>6, <3>1, <3>2 DEF Kept, FireOK, Pends
  <2>10. Weighed(f)'
    <3>1. Confirming(f)' = {} /\ Cardinality({}) = 0
      BY <2>1, FS_EmptySet DEF Confirming
    <3>2. Chances(f)' = ByQueue(Touched(queue, f)') + ByPending(Awaits(f)', Guarded(queue, f)', 0)
      BY <3>1 DEF Chances, ByConfirming, ByPending, ByQueue
    <3>3. Awaits(f)' <=> SavedStatus(f) # "none"
      BY <2>6 DEF Awaits
    <3>4. Chances(f)' <= FileChances(f) /\ Chances(f)' \in Nat /\ FileChances(f) \in Nat
      BY <2>3, <3>2, <3>3 DEF FileChances, ByQueue, ByPending
    <3>5. /\ done[f] \in Nat /\ fired[f] \in Nat /\ lost[f] \in Nat /\ unsaved[f] \in Nat
          /\ lost'[f] = lost[f] + unsaved[f] /\ done'[f] = done[f] /\ fired'[f] = fired[f]
      BY <1>2 DEF FiringInv, FiringTypes
    <3> QED BY <1>2, <2>0, <3>4, <3>5 DEF FireOK, Weighed, FileWeighed
  <2>11. FileWeighed(f)'
    <3>1. FileIsQueue(f)
      BY <1>4 DEF FileIsQueue, Touched, Guarded
    <3> QED BY <1>2, <1>5, <2>0, <2>10, <3>1, FileFollows DEF FireOK, FiringInv
  <2> QED BY <2>5, <2>7, <2>8, <2>9, <2>10, <2>11 DEF FireOK
<1> QED BY <1>5, <1>7, <1>9, <1>10 DEF FiringInv

\* A pending fire is dispatched anew; a dispatcher that was at it is overtaken.
LEMMA ResumeIsOK ==
  ASSUME FiringInv, NEW f \in Fires, ResumePending(f)
  PROVE  FiringInv'
<1> DEFINE x == [monitors[f[1]].pending[f[2]] EXCEPT !.status = "pending"]
<1>1. /\ stages[Main].pc = "idle" /\ Main \in Stages
      /\ stages' = [stages EXCEPT ![Main] = Onward({f})]
      /\ overtaken' = IF \E s \in Stages : stages[s].fire = f THEN overtaken \cup {f} ELSE overtaken
      /\ UNCHANGED <<queue, runs, board, fired, done, unsaved, lost, dropped, ended>>
  BY DEF ResumePending, Onward
<1>2. x \in PendingRecord /\ x.status = "pending"
  <2>1. monitors[f[1]].pending[f[2]] \in PendingRecord
    BY EntryFacts, FireParts DEF FiringInv
  <2> QED BY <2>1 DEF PendingRecord
<1>3. \/ StatusOf(f) = "none" /\ UNCHANGED monitors /\ (registry' = registry \/ registry' = monitors)
      \/ Replaced(f, x)
  BY <1>2 DEF ResumePending, Replaced
<1> HIDE DEF x
<1>4. /\ Onward({f}) \in StageRecord /\ Onward({f}).fire = NoFire /\ Onward({f}).pc \in {"idle", "next"}
  BY OnwardIsIdle
<1>5. /\ stages' \in [Stages -> StageRecord]
      /\ \A t \in Stages, g \in Fires :
           /\ Claims(t, g)' <=> Claims(t, g)
           /\ Confirms(t, g)' <=> Confirms(t, g)
           /\ Accepts(t, g)' <=> Accepts(t, g)
           /\ Saves(t, g)' <=> Saves(t, g)
      /\ \A t \in Stages : /\ stages'[t].pc \in {"idle", "next"} <=> stages[t].pc \in {"idle", "next"}
                           /\ stages'[t].fire = stages[t].fire
                           /\ stages'[t].pc = "save" <=> stages[t].pc = "save"
  BY <1>1, <1>4, IdleStageMoves DEF FiringInv
<1>6. /\ monitors' \in [Mons -> EntryRecord] /\ registry' \in [Mons -> EntryRecord] /\ CopiesAgree'
      /\ \A m \in Mons : /\ Retired(monitors[m])' <=> Retired(monitors[m])
                         /\ monitors'[m].state = "unborn" <=> monitors[m].state = "unborn"
                         /\ monitors'[m].kind = monitors[m].kind
      /\ \A g \in Fires : g # f => StatusOf(g)' = StatusOf(g) /\ SavedStatus(g)' \in {SavedStatus(g), StatusOf(g)}
  <2>1. CASE Replaced(f, x)
    BY <2>1, ReplacedFacts
  <2>2. CASE UNCHANGED monitors /\ (registry' = registry \/ registry' = monitors)
    <3>1. monitors' \in [Mons -> EntryRecord] /\ registry' \in [Mons -> EntryRecord] /\ CopiesAgree'
      BY <2>2 DEF FiringInv, FiringTypes, CopiesAgree, CopyOK, Retired
    <3>2. \A g \in Fires : StatusOf(g)' = StatusOf(g) /\ SavedStatus(g)' \in {SavedStatus(g), StatusOf(g)}
      BY <2>2 DEF StatusOf, SavedStatus
    <3> QED BY <2>2, <3>1, <3>2 DEF Retired
  <2> QED BY <1>3, <2>1, <2>2
<1>7. FiringTypes' /\ StagesHoldFires'
  BY <1>1, <1>5, <1>6, FireParts DEF FiringInv, FiringTypes, StagesHoldFires
<1>8. ASSUME NEW g \in Fires, g # f PROVE FireOK(g)'
  <2>1. Same(g)
    BY <1>1, <1>5, <1>6, <1>8, FireParts, PendingIsSaved DEF FiringInv, Same, Pends
  <2> QED BY <1>7, <2>1, TheSameFireIsOK DEF FiringInv
<1>9. FireOK(f)'
  <2>0. FireOK(f) /\ f[1] \in Mons
    BY FireParts DEF FiringInv
  <2>1. CASE StatusOf(f) = "none" /\ UNCHANGED monitors /\ (registry' = registry \/ registry' = monitors)
    <3>1. StatusOf(f)' = StatusOf(f) /\ SavedStatus(f)' \in {SavedStatus(f), StatusOf(f)}
      BY <2>1 DEF StatusOf, SavedStatus
    <3>2. Same(f)
      BY <1>1, <1>5, <1>6, <2>0, <2>1, <3>1 DEF Same, Pends
    <3> QED BY <1>7, <2>0, <3>2, TheSameFireIsOK DEF FiringInv
  <2>2. CASE Replaced(f, x)
    <3>1. /\ StatusOf(f)' = "pending" /\ SavedStatus(f)' # "none" /\ Awaits(f) /\ f \notin dropped
          /\ SavedStatus(f) # "none"
      BY <1>2, <2>2, ReplacedFacts DEF Awaits, Replaced
    <3>2. f \notin overtaken' => f \notin overtaken /\ \A s \in Stages : ~ Claims(s, f)'
      BY <1>1, <1>5 DEF Claims
    <3>3. QueuesFit(f)'
      BY <1>1, <1>5, <1>6, <2>0 DEF FireOK, QueuesFit, QueueFits, Touched, Guarded
    <3>4. Dispatched(f)'
      BY <3>2 DEF Dispatched
    <3>5. Kept(f)' /\ Over(f)'
      BY <1>1, <1>5, <2>0, <3>1 DEF FireOK, Kept, Over, Handled, Past, Pends
    <3>6. Weighed(f)'
      <4>1. Confirming(f)' = Confirming(f)
        BY <1>5 DEF Confirming
      <4>2. /\ Touched(queue, f)' <=> Touched(queue, f)
            /\ Guarded(queue, f)' <=> Guarded(queue, f)
            /\ Retired(monitors[f[1]])' <=> Retired(monitors[f[1]])
            /\ Awaits(f)'
        BY <1>1, <1>6, <2>0, <3>1 DEF Touched, Guarded, Awaits
      <4>3. Chances(f)' = Chances(f)
        BY <3>1, <4>1, <4>2 DEF Chances, ByQueue, ByPending, ByConfirming
      <4> QED BY <1>1, <2>0, <3>2, <4>3 DEF FireOK, Weighed
    <3>7. FileWeighed(f)'
      <4>1. FileStays(f)
        BY <1>1, <3>1 DEF FileStays, Touched, Guarded, FiringInv, FiringTypes
      <4> QED BY <1>1, <1>7, <2>0, <3>6, <4>1, FileFollows DEF FireOK, FiringInv
    <3> QED BY <3>3, <3>4, <3>5, <3>6, <3>7 DEF FireOK
  <2> QED BY <1>3, <2>1, <2>2
<1> QED BY <1>6, <1>7, <1>8, <1>9 DEF FiringInv

-----------------------------------------------------------------------------
LEMMA FiringStarts == MonitorInit => FiringInv
<1> SUFFICES ASSUME MonitorInit PROVE FiringInv
  OBVIOUS
<1>1. FiringTypes
  BY ValuesAreTyped DEF MonitorInit, FiringTypes
<1>2. \A m \in Mons : /\ monitors[m] = Unborn /\ registry[m] = Unborn /\ monitors[m].state = "unborn"
                      /\ \A e \in RuntimeEvents : /\ monitors[m].pending[e].status = "none"
                                                  /\ registry[m].pending[e].status = "none"
  BY DEF MonitorInit, Unborn, NoPending, NotPending
<1>3. CopiesAgree
  BY <1>2 DEF CopiesAgree, CopyOK, Unborn
<1>4. StagesHoldFires /\ \A s \in Stages : stages[s].pc = "idle"
  BY DEF MonitorInit, StagesHoldFires, Idle
<1>5. ASSUME NEW f \in Fires PROVE FireOK(f)
  <2>1. /\ ~ Touched(queue, f) /\ f \notin queue.receipts /\ f \notin queue.proofs /\ queue.jobs[f] = "none"
        /\ runs = queue /\ f \notin dropped /\ fired[f] = 0 /\ done[f] = 0
        /\ unsaved[f] = 0 /\ lost[f] = 0
    BY DEF MonitorInit, EmptyQueue, Touched
  <2>2. \A s \in Stages : ~ Claims(s, f) /\ ~ Confirms(s, f) /\ ~ Accepts(s, f) /\ ~ Saves(s, f)
    BY <1>4 DEF Claims, Confirms, Accepts, Saves
  <2>3. ~ Awaits(f)
    BY <1>2, FireParts DEF Awaits, StatusOf, SavedStatus
  <2>4. Confirming(f) = {} /\ Cardinality({}) = 0
    BY <2>2, FS_EmptySet DEF Confirming
  <2>5. Chances(f) = 0 /\ FileChances(f) = 0
    BY <2>1, <2>3, <2>4 DEF Chances, FileChances, ByQueue, ByPending, ByConfirming, Awaits
  <2> QED BY <2>1, <2>2, <2>5
          DEF FireOK, QueuesFit, QueueFits, Touched, Guarded, Dispatched, Weighed, FileWeighed, Kept, Over
<1> QED BY <1>1, <1>3, <1>4, <1>5 DEF FiringInv

LEMMA FiringStutters ==
  ASSUME FiringInv, UNCHANGED monitorVars
  PROVE  FiringInv'
<1>1. FiresStay /\ UNCHANGED <<monitors, registry, dropped>>
  BY DEF monitorVars, FiresStay
<1> QED BY <1>1, FileWritten

LEMMA FiringGoesOn ==
  ASSUME FiringInv, [MonitorNext]_monitorVars
  PROVE  FiringInv'
<1>1. CASE UserStep
  BY <1>1, CreateIsOK, SetStateIsOK, DeleteIsOK, FenceIsOK, RemoveIsOK, QuietUserSteps DEF UserStep
<1>2. ASSUME NEW s \in Stages, Dispatch(s) PROVE FiringInv'
  BY <1>2, ClaimIsOK, AdmitAnswersIsOK, AdmitEnqueuesIsOK, SaveAdmittedIsOK, SettleIsOK, ConfirmIsOK DEF Dispatch
<1>3. ASSUME NEW s \in Stages, NEW e \in RuntimeEvents, Evaluate(s, e) PROVE FiringInv'
  BY <1>3, EvaluateIsOK
<1>4. ASSUME NEW s \in Stages, NEW f \in Fires, Retry(s, f) PROVE FiringInv'
  BY <1>4, RetryIsOK
<1>5. ASSUME NEW f \in Fires, ClaimRun(f) \/ RunSucceeds(f) \/ RunEnds(f) \/ ResumePending(f) PROVE FiringInv'
  BY <1>5, ClaimRunIsOK, RunSucceedsIsOK, RunEndsIsOK, ResumeIsOK
<1>6. CASE SaveQueue \/ MonitorCrash \/ CollectPending
  BY <1>6, SaveQueueIsOK, CrashIsOK, QuietUserSteps
<1>7. CASE UNCHANGED monitorVars
  BY <1>7, FiringStutters
<1> QED BY <1>1, <1>2, <1>3, <1>4, <1>5, <1>6, <1>7 DEF MonitorNext

\* However an evaluation, a dispatch and its retry, the user, a deletion of the agent, a failed
\* save and a restart meet, the fires keep the invariant above: monitors.json and
\* agent-run-queue.json never disagree so far that a fire could be admitted again
\* (evaluateRuntimeMonitorEvent, dispatchMonitorPending, resumeMonitorPending).
THEOREM FiresKeepTheirInvariant == MonitorSpec => []FiringInv
<1> QED BY FiringStarts, FiringGoesOn, PTL DEF MonitorSpec

LEMMA FiresRunOnceFollows == FiringInv => FiresRunOnce
<1> SUFFICES ASSUME FiringInv PROVE FiresRunOnce
  OBVIOUS
<1>1. RunsOncePerFire
  <2> SUFFICES ASSUME NEW f \in Fires, f \notin overtaken PROVE done[f] <= fired[f] + lost[f]
    BY DEF RunsOncePerFire
  <2>1. done[f] + Chances(f) <= fired[f] + lost[f] /\ done[f] \in Nat /\ fired[f] \in Nat
        /\ lost[f] \in Nat /\ Chances(f) \in Nat
    BY ChancesAreNat DEF FiringInv, FireOK, Weighed, FiringTypes
  <2> QED BY <2>1
<1>2. FiresAreKept
  BY DEF FiresAreKept, FiringInv, FireOK, Kept, Handled, Past, Pends, SavedStatus
<1> QED BY <1>1, <1>2 DEF FiresRunOnce

\* A fire that was saved is pending in one file, or known to the other, or over. Its run
\* succeeds once more than it was fired only for a success that the scheduler never knew of (its
\* job was taken back, RollbackEnqueue) or had not saved when the process stopped (Complete,
\* saveScheduledRuns), and where a second dispatcher overtook the first: dispatchMonitorPending
\* removes the fire only when the scheduler knows it, and the receipt that stops a second
\* admission goes only after that (ConfirmMonitorFirePendingRemoval).
THEOREM FiresAlwaysRunOnce == MonitorSpec => []FiresRunOnce
<1> QED BY FiresKeepTheirInvariant, FiresRunOnceFollows, PTL

LEMMA DroppedAreFires ==
  ASSUME dropped \subseteq Fires, [MonitorNext]_monitorVars
  PROVE  (dropped \subseteq Fires)'
<1>1. CASE UserStep
  BY <1>1 DEF UserStep, CreateMonitor, DeleteMonitor, SetMonitorState, FenceOwner, RemoveOwner, SaveRemoval,
              RecreateOwner, Fires
<1>2. ASSUME NEW s \in Stages, Dispatch(s) PROVE UNCHANGED dropped
  BY <1>2 DEF Dispatch, Claim, Admit, SaveAdmitted, Settle, Confirm
<1>3. ASSUME NEW s \in Stages, NEW e \in RuntimeEvents, Evaluate(s, e) PROVE dropped' \subseteq dropped
  BY <1>3 DEF Evaluate
<1>4. ASSUME NEW s \in Stages, NEW f \in Fires, Retry(s, f) PROVE UNCHANGED dropped
  BY <1>4 DEF Retry
<1>5. ASSUME NEW f \in Fires, ClaimRun(f) \/ RunSucceeds(f) \/ RunEnds(f) \/ ResumePending(f) PROVE UNCHANGED dropped
  BY <1>5 DEF ClaimRun, RunSucceeds, RunEnds, ResumePending
<1>6. CASE SaveQueue \/ MonitorCrash \/ CollectPending
  BY <1>6 DEF SaveQueue, MonitorCrash, CollectPending
<1>7. CASE UNCHANGED monitorVars
  BY <1>7 DEF monitorVars
<1> QED BY <1>1, <1>2, <1>3, <1>4, <1>5, <1>6, <1>7 DEF MonitorNext

\* Only an admission queues a fire or puts it on the blackboard.
LEMMA OnlyAdmitAdmits ==
  ASSUME FiringInv, [MonitorNext]_monitorVars, NEW f \in Fires,
         \/ running # f /\ Live(queue, f)' /\ ~ Live(queue, f) /\ ~ Live(runs, f)
         \/ f \in board' /\ f \notin board
  PROVE  \E s \in Stages : Claims(s, f) /\ monitors[f[1]].state = "active"
<1>0. /\ queue \in QueueRecord /\ queue.jobs \in [Fires -> JobStates]
      /\ runs \in QueueRecord /\ runs.jobs \in [Fires -> JobStates]
  BY QueueFacts DEF FiringInv, FiringTypes
<1>1. ~ UNCHANGED <<queue, board>>
  BY DEF Live
<1>2. ASSUME NEW s \in Stages, Admit(s)
      PROVE  Claims(s, f) /\ monitors[f[1]].state = "active"
  <2>1. stages[s].pc = "admit"
    BY <1>2 DEF Admit
  <2>2. CASE f = stages[s].fire
    <3>1. Available(f)
      BY <1>2, <2>2 DEF Admit
    <3> QED BY <2>1, <2>2, <3>1 DEF Claims, Available
  <2>3. CASE f # stages[s].fire
    <3>1. \/ UNCHANGED queue
          \/ queue' = Enqueued(stages[s].fire)
      BY <1>2 DEF Admit
    <3>2. queue'.jobs[f] = queue.jobs[f]
      BY <1>0, <2>3, <3>1 DEF Enqueued, QueueRecord
    <3>3. board' = board \/ board' = board \cup {stages[s].fire}
      BY <1>2 DEF Admit
    <3> QED BY <2>3, <3>2, <3>3 DEF Live
  <2> QED BY <2>2, <2>3
<1>3. CASE FenceOwner
  <2>1. queue'.jobs = [g \in Fires |-> IF queue.jobs[g] = "queued" THEN "cancelled" ELSE queue.jobs[g]]
    BY <1>0, <1>3 DEF FenceOwner, QueueRecord
  <2> QED BY <1>3, <2>1 DEF FenceOwner, Live
<1>4. ASSUME NEW s \in Stages, Confirm(s) \/ SaveAdmitted(s) PROVE FALSE
  <2>1. /\ queue'.jobs = queue.jobs \/ queue'.jobs = [queue.jobs EXCEPT ![stages[s].fire] = "none"]
        /\ board' = board
    BY <1>0, <1>4 DEF Confirm, SaveAdmitted, QueueRecord
  <2> QED BY <1>0, <2>1 DEF Live
<1>5. ASSUME NEW g \in Fires, RunSucceeds(g) PROVE FALSE
  <2>1. /\ queue'.jobs = queue.jobs \/ queue'.jobs = [queue.jobs EXCEPT ![g] = "none"]
        /\ board' = board
    BY <1>0, <1>5 DEF RunSucceeds, Completed, QueueRecord
  <2> QED BY <1>0, <2>1 DEF Live
<1>6. ASSUME NEW g \in Fires, RunEnds(g) \/ ClaimRun(g) PROVE FALSE
  <2>1. /\ \/ UNCHANGED queue
           \/ /\ running = g \/ queue.jobs[g] = "queued"
              /\ \E end \in {"cancelled", "failed", "queued", "running"} :
                   queue' = [queue EXCEPT !.jobs[g] = end]
        /\ board' = board
    BY <1>6 DEF RunEnds, ClaimRun
  <2>2. /\ f # g => queue'.jobs[f] = queue.jobs[f]
        /\ f = g => running = f \/ Live(queue, f) \/ UNCHANGED queue
    BY <1>0, <2>1 DEF Live, QueueRecord
  <2> QED BY <2>1, <2>2 DEF Live
<1>7. CASE MonitorCrash
  <2>1. /\ queue'.jobs[f] \in AfterStop(runs.jobs[f])
        /\ board' = board
    BY <1>0, <1>7 DEF MonitorCrash, Recovered, QueueRecord
  <2>2. runs.jobs[f] \in JobStates
    BY <1>0
  <2> QED BY <2>1, <2>2 DEF AfterStop, JobStates, Live
<1>8. CASE UserStep
  <2>1. FenceOwner
    BY <1>1, <1>8 DEF UserStep, CreateMonitor, DeleteMonitor, SetMonitorState, RemoveOwner, SaveRemoval,
                      RecreateOwner
  <2> QED BY <1>3, <2>1
<1>9. ASSUME NEW s \in Stages, Dispatch(s) PROVE Admit(s)
  <2>1. Admit(s) \/ SaveAdmitted(s) \/ Confirm(s)
    BY <1>1, <1>9 DEF Dispatch, Claim, Settle
  <2> QED BY <1>4, <2>1
<1>10. ASSUME NEW s \in Stages, NEW e \in RuntimeEvents, Evaluate(s, e) PROVE FALSE
  BY <1>1, <1>10 DEF Evaluate
<1>11. ASSUME NEW s \in Stages, NEW g \in Fires, Retry(s, g) PROVE FALSE
  BY <1>1, <1>11 DEF Retry
<1>12. ASSUME NEW g \in Fires, ResumePending(g) PROVE FALSE
  BY <1>1, <1>12 DEF ResumePending
<1>13. ~ SaveQueue /\ ~ CollectPending /\ ~ UNCHANGED monitorVars
  BY <1>1 DEF SaveQueue, CollectPending, monitorVars
<1> QED BY <1>2, <1>5, <1>6, <1>7, <1>8, <1>3, <1>9, <1>10, <1>11, <1>12, <1>13 DEF MonitorNext

\* Once a monitor or its agent is deleted, no fire of it is queued or posted that was not
\* already, or running: a dispatcher under way is turned away by monitorAdmissionAvailable, and what comes
\* back after a restart comes back without it (deleteProjectAgent, deleteMonitor).
THEOREM DroppedAlwaysStaysDropped == MonitorSpec => DroppedStaysDropped
<1> DEFINE Right == \A f \in dropped : /\ running # f /\ ~ Live(queue, f) /\ ~ Live(runs, f)
                                            => ~ Live(queue', f)
                                       /\ f \in board' => f \in board
           AreFires == dropped \subseteq Fires
<1>1. FiringInv /\ AreFires /\ [MonitorNext]_monitorVars => [Right]_monitorVars
  <2> SUFFICES ASSUME FiringInv, AreFires, [MonitorNext]_monitorVars, NEW f \in dropped
               PROVE  /\ running # f /\ ~ Live(queue, f) /\ ~ Live(runs, f) => ~ Live(queue', f)
                      /\ f \in board' => f \in board
    OBVIOUS
  <2>1. f \in Fires /\ FireOK(f)
    BY DEF FiringInv
  <2>2. ASSUME NEW s \in Stages, Claims(s, f), monitors[f[1]].state = "active" PROVE FALSE
    <3>1. Retired(monitors[f[1]])
      BY <2>1, <2>2 DEF FireOK, Over
    <3> QED BY <2>1, <2>2, <3>1, FireParts DEF FiringInv, CopiesAgree, CopyOK, Retired
  <2> QED BY <2>1, <2>2, OnlyAdmitAdmits DEF Live
<1>2. MonitorInit => AreFires
  BY DEF MonitorInit
<1>3. AreFires /\ [MonitorNext]_monitorVars => AreFires'
  BY DroppedAreFires
<1> HIDE DEF AreFires
<1> QED BY <1>1, <1>2, <1>3, FiresKeepTheirInvariant, PTL DEF DroppedStaysDropped, MonitorSpec
=============================================================================
