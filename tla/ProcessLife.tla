----------------------------- MODULE ProcessLife -----------------------------
(***************************************************************************)
(* What the durable record of a background process promises: it is live    *)
(* once, it ends once, its end is announced before it is released, and     *)
(* nothing is undone, however often the program that keeps it restarts.    *)
(***************************************************************************)
CONSTANT Procs

VARIABLE life   \* [Procs -> {"unknown", "live", "ended", "announced", "released"}]

Move(p, from, to) == life[p] = from /\ life' = [life EXCEPT ![p] = to]

Init == life = [p \in Procs |-> "unknown"]

(* After a restart all live processes have ended.                           *)
Restart == life' = [p \in Procs |-> IF life[p] = "live" THEN "ended" ELSE life[p]]

Next ==
  \/ \E p \in Procs : \/ Move(p, "unknown", "live") \/ Move(p, "live", "ended")
                      \/ Move(p, "ended", "announced") \/ Move(p, "announced", "released")
  \/ Restart

Spec == Init /\ [][Next]_life

=============================================================================
