----------------------------- MODULE MCScheduler -----------------------------
(***************************************************************************)
(* Instances of Scheduler for TLC.  Jobs are numbered in the order of      *)
(* their CreatedAt; the configurations pick the job set.                   *)
(***************************************************************************)
EXTENDS SchedulerInvariants

CONSTANTS a1, a2, k1, k2

MCAgentOf == [j \in Jobs |-> IF j <= 3 THEN a1 ELSE a2]
MCKindOf == [j \in Jobs |-> IF j = 2 THEN "monitor_event" ELSE "handoff"]
(* Jobs 1 and 3 are two attempts to schedule the same event. *)
MCDedupOf == [j \in Jobs |-> CASE j \in {1, 3} -> k1 [] j = 2 -> k2 [] OTHER -> NoKey]
MCCreated == [j \in Jobs |-> j]

=============================================================================
