------------------------ MODULE RunControlInvariants ------------------------
(***************************************************************************)
(* The inductive invariant behind the theorems about RunControl.  What the *)
(* registry promises rests on turns being numbered (SlotShape), on how far *)
(* each goroutine is (StartShape, JobShape, CancellerShape), on effects    *)
(* being marked before a commit (MarkShape), and on there being at most    *)
(* one goroutine that owes a run its terminal event (ReportShape).         *)
(***************************************************************************)
EXTENDS RunControl

(* Handles exist only beside a run.  The current turn is a new one, and an  *)
(* accepted cancellation of it is still marked.                             *)
SlotShape ==
  /\ slot.run = NoRun => control = NoControl
  /\ slot.run # NoRun =>
       /\ starts[slot.run] > 0
       /\ Current \notin results \cup ended
       /\ Current \in claims => control.cancelling
  /\ \A t \in claims \cup results \cup ended : t[2] <= starts[t[1]]

(* Who works for a turn has begun the run.                                  *)
BegunPC == {"begun", "claimed", "bind", "running", "answered", "ready", "committed",
            "finishing", "removed", "reporting"}

StartShape == \A r \in Runs : proc[r].pc \in BegunPC => starts[r] > 0

(* A live job has an attempt left, and a job the worker holds is running.   *)
JobShape ==
  \A j \in Scheduled :
    /\ job[j].status \in {"queued", "running"} => job[j].attempt < MaxAttempts
    /\ ~ At(j, "idle") => job[j].status = "running"

(* A canceller knows the run it is about, whose cancellation it has claimed, *)
(* and the context it is going to cancel.                                    *)
CancellerShape ==
  \A c \in Cancellers :
    /\ canceller[c].pc \notin {"idle", "over"} =>
         canceller[c].run \in Runs /\ \E t \in claims : t[1] = canceller[c].run
    /\ canceller[c].pc = "signal" => canceller[c].ctx \in Turns

(* Past its commit a run that marks its effects is never queued again, and  *)
(* one that does not is queued again by nothing but a failed attempt.       *)
Answered(r) == \E t \in results : t[1] = r

MarkShape ==
  \A j \in Scheduled :
    /\ j \notin Unmarked =>
         /\ At(j, "ready") => job[j].effects
         /\ Answered(j) => job[j].effects
    /\ ~ MayRepeat(j) =>
         /\ Answered(j) =>
              /\ proc[j].pc \in {"committed", "reporting", "returned", "idle"}
              /\ At(j, "idle") => job[j].status # "queued"
         /\ \A t, u \in results : t[1] = j /\ u[1] = j => t = u

(* Who has removed a direct run owes it the terminal event, and is alone.   *)
ProcOwes(d) == proc[d].pc \in {"committed", "removed", "reporting"}
CancelOwes(c, d) == canceller[c].run = d /\ canceller[c].pc \in {"removed", "reporting"}

ReportShape ==
  \A d \in Direct :
    /\ proc[d].pc \in {"idle", "busy", "queued", "again"} => starts[d] = 0
    /\ starts[d] <= 1
    /\ ledger[d].terminals <= 1
    /\ ledger[d].terminals = 1 =>
         starts[d] = 1 /\ slot.run # d /\ ~ ProcOwes(d) /\ \A c \in Cancellers : ~ CancelOwes(c, d)
    /\ ProcOwes(d) => slot.run # d /\ \A c \in Cancellers : ~ CancelOwes(c, d)
    /\ \A c \in Cancellers :
         CancelOwes(c, d) =>
           starts[d] = 1 /\ slot.run # d /\ \A e \in Cancellers : CancelOwes(e, d) => e = c

IInv ==
  /\ TypeOK
  /\ SlotShape
  /\ StartShape
  /\ JobShape
  /\ CancellerShape
  /\ MarkShape
  /\ ReportShape
  /\ CancelExcludesResult
  /\ WatchersAreWoken
  /\ TurnsOwnTheSlot

=============================================================================
