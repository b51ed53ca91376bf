--------------------------- MODULE SupervisorProofs ---------------------------
(***************************************************************************)
(* For any number of processes, any limits and any interleaving of starts, *)
(* ends, stops and shutdowns: live processes have an owner and count       *)
(* against the limit, success is true, and an end is written once.         *)
(*                                                                         *)
(* What makes this inductive is a table of the places in which a process   *)
(* can be (Placed), each with what is then true of its group, its handle,  *)
(* its ownership and its record. A step moves one process from one place   *)
(* to another and leaves the others where they are; what callers still     *)
(* have to do (Callers) only ever names processes in places where that is  *)
(* harmless.                                                               *)
(***************************************************************************)
EXTENDS Supervisor, FiniteSetTheorems, TLAPS

(* The records, by type.                                                    *)
Starts == [at : {"idle", "open", "mark", "register", "rollback", "refuse", "recover"},
           p : Procs \cup {NoProc}, tries : 0 .. TerminalRetries - 1]
HandleRecords == [waiter : {"none", "waiting", "observed", "done"}, gate : BOOLEAN,
                  registered : BOOLEAN, timed : BOOLEAN, cause : Causes \cup {"none"},
                  result : {"open", "ok", "failed"}, logStuck : BOOLEAN]
Owns == [kind : {"none", "record", "handle"}, by : {Nobody, "stop", "shutdown"},
         tries : 0 .. TerminalRetries - 1]
Finishes == [by : Finishers \cup {Nobody}, end : Ends, tries : 0 .. TerminalRetries - 1]
Stops == [at : {"idle", "signalled", "contained", "recover", "faulted"}, p : Procs \cup {NoProc}]
Shutdowns == [at : {"idle", "faulted", "signal", "await", "complete", "failed"},
              left : SUBSET Procs, tosignal : SUBSET Procs, toawait : SUBSET Procs,
              contained : SUBSET Procs]
Records == [state : {"none", "starting", "running", "acknowledged"} \cup Ends, saved : BOOLEAN]
Groups == {"none", "running", "left", "dead"}

Still(p) == os[p] \in {"none", "dead"}

(* Nobody finishes the process, nobody recovers it.                         *)
Alone(p) == finish[p].by = Nobody /\ own[p].by = Nobody
Unkept(p) == own[p].kind = "none" /\ own[p].by = Nobody /\ p \notin faulted
Starting(p) == start.p = p /\ start.at # "idle"
Unregistered(p) == handle[p].result = "open" /\ ~ handle[p].registered /\ ~ handle[p].timed

(* It was never started, or its reservation failed.                         *)
Unborn(p) ==
  /\ ~ Starting(p) /\ Unkept(p) /\ Alone(p) /\ p \notin handles
  /\ os[p] = "none" /\ handle[p] = NewHandle
  /\ record[p].state \in {"none", "starting"}

(* Its Start is at work on it, before it is registered.                     *)
InStart(p) ==
  /\ Starting(p) /\ Unkept(p) /\ Alone(p) /\ p \notin handles /\ Unregistered(p)
  /\ \/ At("open") /\ os[p] = "none" /\ handle[p] = NewHandle /\ record[p].state = "starting"
     \/ At("mark") /\ os[p] # "none" /\ ~ handle[p].gate /\ handle[p].waiter \in {"waiting", "observed"}
                   /\ record[p].state = "starting"
     \/ At("register") /\ os[p] # "none" /\ ~ handle[p].gate /\ handle[p].waiter \in {"waiting", "observed"}
                   /\ record[p].state = "running"
     \/ At("rollback") /\ os[p] # "none" /\ ~ handle[p].gate /\ handle[p].waiter \in {"waiting", "observed"}
                   /\ record[p].state = "running"
     \/ At("refuse") /\ Still(p) /\ record[p].state \in {"starting", "running", "refused", "acknowledged"}

(* It is registered: running, exited, being finished, or stuck with an end  *)
(* that could not be saved.                                                 *)
Supervised(p) ==
  /\ (Starting(p) => At("recover")) /\ Unkept(p) /\ p \in handles
  /\ handle[p].registered /\ handle[p].gate /\ handle[p].waiter # "none"
  /\ handle[p].result \in {"open", "failed"} /\ os[p] # "none"
  /\ \/ finish[p].by = Nobody /\ handle[p].result = "open" /\ record[p].state = "running"
     \/ /\ finish[p].by # Nobody /\ handle[p].result = "open" /\ os[p] = "dead"
        /\ record[p].state \in {"running", "acknowledged", finish[p].end}
     \/ /\ finish[p].by = Nobody /\ handle[p].result = "failed" /\ os[p] = "dead"
        /\ handle[p].waiter = "done"

(* Its end is saved and it was let go.                                      *)
Finished(p) ==
  /\ (Starting(p) => At("recover")) /\ Unkept(p) /\ Alone(p) /\ p \notin handles
  /\ handle[p] = [NewHandle EXCEPT !.waiter = "done", !.result = "ok"]
  /\ os[p] = "dead" /\ record[p].saved /\ record[p].state \in Ends \cup {"acknowledged"}

(* Its refusal is saved.                                                    *)
Refused(p) ==
  /\ ~ Starting(p) /\ Unkept(p) /\ Alone(p) /\ p \notin handles /\ Unregistered(p)
  /\ Still(p) /\ record[p].saved /\ record[p].state \in {"refused", "acknowledged"}

(* Its Start could not let go of it: its ownership is to be recovered, or   *)
(* was, by another than the one who may still be at it.                     *)
Kept(p) ==
  /\ ~ Starting(p) /\ own[p].kind # "none" /\ finish[p].by = Nobody /\ p \notin handles /\ Unregistered(p)
  /\ record[p].state \in {"starting", "running", "refused", "acknowledged"}
  /\ own[p].kind = "record" \/ own[p].by # Nobody \/ p \notin faulted => Still(p)
  /\ p \notin faulted => record[p].saved

Placed(p) ==
  \/ Unborn(p) \/ InStart(p) \/ Supervised(p) \/ Finished(p) \/ Refused(p) \/ Kept(p)

(* Those who call the supervisor name a process only where it is harmless.  *)
Registered(p) == Supervised(p) \/ Finished(p)
LetGo(p) == Finished(p) \/ (Kept(p) /\ p \notin faulted)
Awaited == shutdown.tosignal \cup shutdown.toawait \cup shutdown.contained
Named(p) ==
  /\ Starting(p) /\ At("recover") => Registered(p)
  /\ stop.p = p /\ stop.at = "faulted" => Kept(p)
  /\ stop.p = p /\ stop.at # "faulted" => Registered(p)
  /\ p \in shutdown.left => Kept(p)
  /\ p \in Awaited => Registered(p)
  /\ p \in stopped => LetGo(p)
  /\ own[p].by = "shutdown" => Closed
Callers ==
  /\ start.at # "idle" <=> start.p \in Procs
  /\ stop.at # "idle" <=> stop.p \in Procs
  /\ Closed => start.at = "idle"
  /\ shutdown.at = "complete" => handles = {} /\ faulted = {}

(* What counts against the limit: also the one that is being started.       *)
Counted ==
  Owned \cup {q \in Procs : Starting(q) /\ start.at \in {"open", "mark", "register", "rollback"}}
Bounded == Cardinality(Counted) <= MaxConcurrent

(* The types; an attempt that is not over is not the last.                  *)
Types ==
  /\ start \in Starts /\ os \in [Procs -> Groups] /\ handle \in [Procs -> HandleRecords]
  /\ handles \subseteq Procs /\ faulted \subseteq Procs
  /\ own \in [Procs -> Owns] /\ finish \in [Procs -> Finishes] /\ stop \in Stops
  /\ stopped \subseteq Procs /\ shutdown \in Shutdowns /\ record \in [Procs -> Records]
  /\ recovery \subseteq Procs /\ faults \in 0 .. MaxFaults

SupervisorInv == Types /\ (\A p \in Procs : Placed(p) /\ Named(p)) /\ Callers /\ Bounded

LEMMA TypesAre ==
  Types <=>
    /\ start \in Starts /\ os \in [Procs -> Groups] /\ handle \in [Procs -> HandleRecords]
    /\ handles \subseteq Procs /\ faulted \subseteq Procs
    /\ own \in [Procs -> Owns] /\ finish \in [Procs -> Finishes] /\ stop \in Stops
    /\ stopped \subseteq Procs /\ shutdown \in Shutdowns /\ record \in [Procs -> Records]
    /\ recovery \subseteq Procs /\ faults \in 0 .. MaxFaults
BY DEF Types

LEMMA TypesAreNext ==
  Types' <=>
    /\ start' \in Starts /\ os' \in [Procs -> Groups] /\ handle' \in [Procs -> HandleRecords]
    /\ handles' \subseteq Procs /\ faulted' \subseteq Procs
    /\ own' \in [Procs -> Owns] /\ finish' \in [Procs -> Finishes] /\ stop' \in Stops
    /\ stopped' \subseteq Procs /\ shutdown' \in Shutdowns /\ record' \in [Procs -> Records]
    /\ recovery' \subseteq Procs /\ faults' \in 0 .. MaxFaults
BY DEF Types

(* A function changed at p.                                                 *)
LEMMA ChangedAt ==
  ASSUME NEW S, NEW T, NEW f \in [S -> T], NEW p \in S, NEW v \in T
  PROVE  /\ [f EXCEPT ![p] = v] \in [S -> T]
         /\ [f EXCEPT ![p] = v][p] = v
         /\ \A q \in S \ {p} : [f EXCEPT ![p] = v][q] = f[q]
OBVIOUS

-----------------------------------------------------------------------------
(* A step is one process's: it is in a place again, it goes on counting     *)
(* only if it counted before, and the others stay where they are.           *)
Same(q) ==
  /\ os'[q] = os[q] /\ handle'[q] = handle[q] /\ own'[q] = own[q]
  /\ finish'[q] = finish[q] /\ record'[q] = record[q]
  /\ (q \in handles' <=> q \in handles) /\ (q \in faulted' <=> q \in faulted)
  /\ (Starting(q)' <=> Starting(q)) /\ (Starting(q) => start'.at = start.at)

Counts(q) ==
  \/ q \in handles
  \/ q \in faulted /\ own[q].kind = "handle"
  \/ Starting(q) /\ start.at \in {"open", "mark", "register", "rollback"}

(* Nobody names q who did not name it before.                               *)
Unnamed(q) ==
  /\ stop'.p = q => stop'.at # "idle" /\ stop.p = q /\ (stop'.at = "faulted" <=> stop.at = "faulted")
  /\ q \in shutdown'.left => q \in shutdown.left
  /\ q \in Awaited' => q \in Awaited
  /\ q \in stopped' => q \in stopped
  /\ Closed => Closed'

Moves(p) ==
  /\ \A q \in Procs \ {p} : Same(q) /\ Unnamed(q)
  /\ Placed(p)' /\ Named(p)'
  /\ Counts(p)' => Counts(p)

LEMMA SameStays ==
  ASSUME NEW q \in Procs, Same(q), Unnamed(q), Placed(q), Named(q)
  PROVE  Placed(q)' /\ Named(q)' /\ (Counts(q)' <=> Counts(q))
<1>1. (Unborn(q)' <=> Unborn(q)) /\ (InStart(q)' <=> InStart(q))
  BY DEF Same, Unborn, InStart, Starting, Unkept, Alone, Unregistered, Still, At
<1>2. (Supervised(q)' <=> Supervised(q)) /\ (Finished(q)' <=> Finished(q))
  BY DEF Same, Supervised, Finished, Starting, Unkept, Alone, At
<1>3. (Refused(q)' <=> Refused(q)) /\ (Kept(q)' <=> Kept(q))
  BY DEF Same, Refused, Kept, Starting, Unkept, Alone, Unregistered, Still
<1>4. Counts(q)' <=> Counts(q)
  BY DEF Same, Counts
<1>5. LetGo(q)' <=> LetGo(q)
  BY <1>2, <1>3 DEF LetGo, Same
<1>6. Registered(q)' <=> Registered(q)
  BY <1>2 DEF Registered
<1>7. Starting(q)' /\ At("recover")' => Starting(q) /\ At("recover")
  BY DEF Same, At
<1>8. Named(q)'
  BY <1>3, <1>5, <1>6, <1>7 DEF Named, Unnamed, Same
<1> QED
  BY <1>1, <1>2, <1>3, <1>4, <1>8 DEF Placed

LEMMA CountedAre ==
  ASSUME Types
  PROVE  Counted = {q \in Procs : Counts(q)}
BY DEF Types, Counted, Owned, Counts, Starting

LEMMA MovesAll ==
  ASSUME SupervisorInv, Types', NEW p \in Procs, Moves(p)
  PROVE  (\A q \in Procs : Placed(q)' /\ Named(q)') /\ Bounded'
<1>1. \A q \in Procs : Placed(q)' /\ Named(q)' /\ (Counts(q)' => Counts(q))
  BY SameStays DEF SupervisorInv, Moves
<1>2. Counted = {q \in Procs : Counts(q)}
  BY CountedAre DEF SupervisorInv
<1>3. Counted' = {q \in Procs : Counts(q)'}
  BY DEF Types, Counted, Owned, Counts, Starting
<1>4. Counted' \subseteq Counted /\ IsFiniteSet(Counted)
  BY <1>1, <1>2, <1>3, SupervisorAssumption, FS_Subset
<1>5. Cardinality(Counted') <= Cardinality(Counted) /\ Cardinality(Counted) \in Nat /\ Cardinality(Counted') \in Nat
  BY <1>4, FS_Subset, FS_CardinalityType
<1> QED
  BY <1>1, <1>5, SupervisorAssumption DEF SupervisorInv, Bounded

LEMMA Spends ==
  ASSUME faults \in 0 .. MaxFaults, NEW ok \in BOOLEAN, Spend(ok) PROVE faults' \in 0 .. MaxFaults
BY SupervisorAssumption DEF Spend

LEMMA Reports ==
  ASSUME recovery \subseteq Procs, NEW ok \in BOOLEAN, NEW p \in Procs, Report(ok, p)
  PROVE  recovery' \subseteq Procs
BY DEF Report

LEMMA HandleAt == ASSUME Types, NEW p \in Procs PROVE handle[p] \in HandleRecords
BY TypesAre

LEMMA HandleChanges ==
  ASSUME Types, NEW p \in Procs, NEW h \in HandleRecords, handle' = [handle EXCEPT ![p] = h]
  PROVE  /\ handle' \in [Procs -> HandleRecords] /\ handle'[p] = h
         /\ \A q \in Procs \ {p} : handle'[q] = handle[q]
BY TypesAre

LEMMA IdleStart == Idle \in Starts /\ Idle.at = "idle" /\ Idle.p = NoProc
BY SupervisorAssumption DEF Idle, Starts

Step(p) == Types' /\ Callers' /\ Moves(p)

(* Nobody who stops or shuts down is at work on a process that is not yet   *)
(* registered and not left to be recovered.                                 *)
Unasked(p) == stop.p # p /\ p \notin shutdown.left /\ p \notin Awaited /\ p \notin stopped

LEMMA NobodyAsks ==
  ASSUME NEW p \in Procs, Named(p), Unborn(p) \/ InStart(p)
  PROVE  Unasked(p)
BY DEF Unasked, Named, Registered, LetGo, Unborn, InStart, Supervised, Finished, Kept, NewHandle, Unkept, Unregistered, At

LEMMA StartsAt ==
  ASSUME SupervisorInv, NEW p \in Procs, start.p = p, ~ At("recover"), ~ At("idle")
  PROVE  Types /\ Callers /\ Starting(p) /\ InStart(p) /\ Unasked(p) /\ Named(p) /\ ~ Closed
<1>1. Types /\ Callers /\ Placed(p) /\ Named(p) /\ Starting(p)
  BY DEF SupervisorInv, Starting, At
<1>2. InStart(p)
  BY <1>1 DEF Placed, Unborn, Supervised, Finished, Refused, Kept, At
<1> QED
  BY <1>1, <1>2, NobodyAsks DEF Callers, At

-----------------------------------------------------------------------------
(* Start *)

(* What a step of Start leaves alone.                                       *)
OthersRest(p) ==
  /\ UNCHANGED <<stop, shutdown, stopped>> /\ own'[p].by = own[p].by
  /\ \A q \in Procs \ {p} : /\ os'[q] = os[q] /\ handle'[q] = handle[q] /\ own'[q] = own[q]
                            /\ finish'[q] = finish[q] /\ record'[q] = record[q]
                            /\ (q \in handles' <=> q \in handles) /\ (q \in faulted' <=> q \in faulted)

LEMMA StartRests ==
  ASSUME SupervisorInv, NEW p \in Procs, OthersRest(p),
         start.p = p \/ start.at = "idle", start'.p = p \/ start' = Idle
  PROVE  \A q \in Procs \ {p} : Same(q) /\ Unnamed(q)
<1>1. Types /\ Callers
  BY DEF SupervisorInv
<1> QED
  BY <1>1, SupervisorAssumption DEF OthersRest, Same, Unnamed, Starting, Idle, Awaited, Callers, Closed

LEMMA StartCalls ==
  ASSUME SupervisorInv, NEW p \in Procs, UNCHANGED <<stop, shutdown>>, ~ Closed, (start'.p = p /\ start'.at # "idle") \/ start' = Idle
  PROVE  Callers'
BY SupervisorAssumption DEF SupervisorInv, Callers, Closed, Idle

LEMMA UnaskedNext ==
  ASSUME NEW p \in Procs, Unasked(p), Named(p), OthersRest(p), (Starting(p) /\ At("recover"))' => Registered(p)'
  PROVE  Named(p)'
BY DEF Unasked, OthersRest, Named, Awaited, Closed

LEMMA AdmitSteps ==
  ASSUME SupervisorInv, NEW p \in Procs, NEW ok \in BOOLEAN, Admit(p, ok)
  PROVE  Types' /\ Callers' /\ (\A q \in Procs : Placed(q)' /\ Named(q)') /\ Bounded'
<1> USE SupervisorAssumption
<1>0. Types /\ Callers /\ Placed(p) /\ Named(p) /\ ~ Starting(p) /\ start.at = "idle"
  BY DEF SupervisorInv, Admit, Starting
<1>1. start' = (IF ok THEN [at |-> "open", p |-> p, tries |-> 0] ELSE Idle)
  BY DEF Admit
<1>2. PICK s \in {"none", "starting"} : record' = [record EXCEPT ![p].state = s] /\ (ok => s = "starting")
  <2>1. CASE ok
    BY <2>1 DEF Admit
  <2>2. CASE ~ ok
    BY <2>2 DEF Admit
  <2> QED BY <2>1, <2>2
<1>3. record' \in [Procs -> Records] /\ record'[p].state = s /\ \A q \in Procs \ {p} : record'[q] = record[q]
  BY <1>0, <1>2, TypesAre DEF Records
<1>4. Types'
  BY <1>0, <1>1, <1>3, Spends, TypesAre, TypesAreNext DEF Admit, Starts, Idle
<1>5. Unborn(p)
  BY <1>0 DEF Admit, Placed, Unborn, InStart, Supervised, Finished, Refused, Kept, Ends
<1>6. OthersRest(p) /\ \A q \in Procs \ {p} : Same(q) /\ Unnamed(q)
  <2>1. OthersRest(p)
    BY <1>3 DEF OthersRest, Admit
  <2> QED BY <1>0, <1>1, <2>1, StartRests
<1>7. Callers'
  BY <1>0, <1>1, StartCalls DEF Admit
<1>8. Placed(p)' /\ Named(p)'
  <2>1. CASE ok
    <3>1. InStart(p)'
      BY <1>0, <1>1, <1>2, <1>3, <1>5, <2>1 DEF Admit, Unborn, InStart, Starting, Unkept, Alone, Unregistered, NewHandle, At
    <3> QED BY <1>0, <1>1, <1>5, <1>6, <2>1, <3>1, NobodyAsks, UnaskedNext DEF Placed, At
  <2>2. CASE ~ ok
    <3>1. Unborn(p)'
      BY <1>0, <1>1, <1>3, <1>5, <2>2 DEF Admit, Unborn, Starting, Unkept, Alone, Idle
    <3> QED BY <1>0, <1>1, <1>5, <1>6, <2>2, <3>1, NobodyAsks, UnaskedNext DEF Placed, At, Idle
  <2> QED BY <2>1, <2>2
<1>9. Bounded'
  <2>1. Counted' \subseteq Owned \cup {p}
    BY <1>0, <1>1 DEF Counted, Owned, Admit, Starting, Idle, Types
  <2>2. Owned \in SUBSET Procs /\ IsFiniteSet(Owned)
    BY <1>0, FS_Subset DEF Owned, Types
  <2>3. IsFiniteSet(Owned \cup {p}) /\ (p \notin Owned => Cardinality(Owned \cup {p}) = Cardinality(Owned) + 1)
    BY <2>2, FS_AddElement
  <2>4. p \in Owned => Owned \cup {p} = Owned
    OBVIOUS
  <2>5. Cardinality(Counted') <= Cardinality(Owned \cup {p})
    BY <2>1, <2>3, FS_Subset
  <2>6. Cardinality(Owned) \in Nat /\ Cardinality(Counted') \in Nat /\ Cardinality(Owned \cup {p}) \in Nat
    BY <2>1, <2>2, <2>3, FS_Subset, FS_CardinalityType
  <2> QED BY <2>3, <2>4, <2>5, <2>6 DEF Bounded, Admit
<1> QED BY <1>4, <1>6, <1>7, <1>8, <1>9, SameStays DEF SupervisorInv

LEMMA StartMoves ==
  ASSUME SupervisorInv, NEW p \in Procs, start.p = p, ~ At("recover"), ~ At("idle"),
         OthersRest(p), Types', (start'.p = p /\ start'.at # "idle") \/ start' = Idle, Placed(p)',
         (Starting(p) /\ At("recover"))' => Registered(p)', Counts(p)' => Counts(p)
  PROVE  Step(p)
<1>1. Types /\ Starting(p) /\ InStart(p) /\ Unasked(p) /\ Named(p) /\ ~ Closed
  BY StartsAt
<1>2. Callers'
  BY <1>1, StartCalls DEF OthersRest
<1> QED
  BY <1>1, <1>2, StartRests, UnaskedNext DEF Step, Moves

LEMMA LaunchSteps ==
  ASSUME SupervisorInv, NEW p \in Procs, Launch(p)
  PROVE  Step(p)
<1>1. Types /\ InStart(p) /\ start.at = "open" /\ start.p = p
  BY StartsAt DEF Launch, At
<1>2. start' = [start EXCEPT !.at = "mark"] /\ os' = [os EXCEPT ![p] = "running"]
      /\ handle' = [handle EXCEPT ![p] = [handle[p] EXCEPT !.waiter = "waiting"]]
  BY DEF Launch, Go
<1>3. start' \in Starts /\ start'.at = "mark" /\ start'.p = p
  BY <1>1, <1>2, TypesAre DEF Starts
<1>4. handle' \in [Procs -> HandleRecords] /\ os' \in [Procs -> Groups] /\ os'[p] = "running"
  BY <1>1, <1>2, TypesAre DEF HandleRecords, Groups
<1>5. handle'[p] = [handle[p] EXCEPT !.waiter = "waiting"]
  BY <1>1, <1>2, TypesAre
<1>6. OthersRest(p)
  BY <1>1, <1>2, TypesAre DEF OthersRest, Launch
<1>7. Types'
  BY <1>1, <1>3, <1>4, TypesAre, TypesAreNext DEF Launch
<1>8. InStart(p)'
  BY <1>1, <1>3, <1>4, <1>5 DEF Launch, InStart, Starting, Unkept, Alone, Unregistered, NewHandle, At
<1> QED
  BY <1>1, <1>3, <1>6, <1>7, <1>8, StartMoves DEF Placed, Counts, Starting, At

LEMMA LaunchFailsSteps ==
  ASSUME SupervisorInv, NEW p \in Procs, LaunchFails(p)
  PROVE  Step(p)
<1>1. Types /\ InStart(p) /\ start.at = "open" /\ start.p = p
  BY StartsAt DEF LaunchFails, At
<1>2. start' = [start EXCEPT !.at = "refuse"] /\ (os' = os \/ os' = [os EXCEPT ![p] = "dead"])
  BY DEF LaunchFails, Go
<1>3. start' \in Starts /\ start'.at = "refuse" /\ start'.p = p
  BY <1>1, <1>2, TypesAre DEF Starts
<1>4. os' \in [Procs -> Groups] /\ os'[p] \in {os[p], "dead"}
  BY <1>1, <1>2, TypesAre DEF Groups
<1>5. OthersRest(p)
  BY <1>1, <1>2, TypesAre DEF OthersRest, LaunchFails
<1>6. Types'
  BY <1>1, <1>3, <1>4, Spends, TypesAre, TypesAreNext DEF LaunchFails
<1>7. InStart(p)'
  BY <1>1, <1>3, <1>4 DEF LaunchFails, InStart, Starting, Unkept, Alone, Unregistered, NewHandle, At, Still
<1> QED
  BY <1>1, <1>3, <1>5, <1>6, <1>7, StartMoves DEF Placed, Counts, Starting, At, InStart, Unkept

LEMMA Retains ==
  ASSUME Types, NEW p \in Procs, NEW kind \in {"record", "handle"}, Retain(p, kind)
  PROVE  /\ own' \in [Procs -> Owns] /\ faulted' \subseteq Procs
         /\ own'[p].kind = kind /\ own'[p].by = own[p].by /\ p \in faulted'
         /\ \A q \in Procs \ {p} : own'[q] = own[q] /\ (q \in faulted' <=> q \in faulted)
<1>1. own' = [own EXCEPT ![p] = [own[p] EXCEPT !.kind = kind]] /\ faulted' = faulted \cup {p}
  BY DEF Retain
<1> QED
  BY <1>1, TypesAre DEF Owns

LEMMA LaunchEscapesSteps ==
  ASSUME SupervisorInv, NEW p \in Procs, LaunchEscapes(p)
  PROVE  Step(p)
<1>1. Types /\ InStart(p) /\ start.at = "open" /\ start.p = p
  BY StartsAt DEF LaunchEscapes, At
<1>2. PICK left \in {"running", "dead"} :
        os' = [os EXCEPT ![p] = left] /\ handle' = [handle EXCEPT ![p] = [handle[p] EXCEPT !.gate = TRUE]]
  BY DEF LaunchEscapes
<1>3. start' = Idle /\ start' \in Starts
  BY IdleStart DEF LaunchEscapes
<1>4. os' \in [Procs -> Groups]
  BY <1>1, <1>2, TypesAre DEF Groups
<1>5. handle' \in [Procs -> HandleRecords] /\ handle'[p] = [handle[p] EXCEPT !.gate = TRUE]
  <2>1. [handle[p] EXCEPT !.gate = TRUE] \in HandleRecords
    BY HandleAt, <1>1 DEF HandleRecords
  <2> QED BY <1>1, <1>2, <2>1, HandleChanges
<1>6. Retain(p, "handle")
  BY DEF LaunchEscapes
<1>7. OthersRest(p)
  BY <1>1, <1>2, <1>6, Retains, TypesAre DEF OthersRest, LaunchEscapes
<1>8. Types'
  BY <1>1, <1>3, <1>4, <1>5, <1>6, Spends, Reports, Retains, TypesAre, TypesAreNext DEF LaunchEscapes
<1>9. Kept(p)'
  BY <1>1, <1>3, <1>5, <1>6, Retains, SupervisorAssumption
  DEF LaunchEscapes, InStart, Kept, Starting, Unkept, Alone, Unregistered, NewHandle, At, Idle
<1> QED
  BY <1>1, <1>3, <1>7, <1>8, <1>9, StartMoves DEF Placed, Counts, Starting, At, Idle

LEMMA MarkRunningSteps ==
  ASSUME SupervisorInv, NEW p \in Procs, NEW ok \in BOOLEAN, MarkRunning(p, ok)
  PROVE  Step(p)
<1>1. Types /\ InStart(p) /\ start.at = "mark" /\ start.p = p
  BY StartsAt DEF MarkRunning, At
<1>2. PICK at \in {"register", "rollback"} : start' = [start EXCEPT !.at = at]
  BY DEF MarkRunning, Go
<1>3. start' \in Starts /\ start'.at = at /\ start'.p = p
  BY <1>1, <1>2, TypesAre DEF Starts
<1>4. record' = [record EXCEPT ![p] = [record[p] EXCEPT !.state = "running"]]
  BY DEF MarkRunning
<1>5. record' \in [Procs -> Records] /\ record'[p].state = "running"
  BY <1>1, <1>4, TypesAre DEF Records
<1>6. OthersRest(p)
  BY <1>1, <1>4, TypesAre DEF OthersRest, MarkRunning
<1>7. Types'
  BY <1>1, <1>3, <1>5, Spends, TypesAre, TypesAreNext DEF MarkRunning
<1>8. InStart(p)'
  BY <1>1, <1>3, <1>5 DEF MarkRunning, InStart, Starting, Unkept, Alone, Unregistered, At
<1> QED
  BY <1>1, <1>3, <1>6, <1>7, <1>8, StartMoves DEF Placed, Counts, Starting, At

LEMMA RegisterSteps ==
  ASSUME SupervisorInv, NEW p \in Procs, NEW timed \in BOOLEAN, Register(p, timed)
  PROVE  Step(p)
<1>1. Types /\ InStart(p) /\ start.at = "register" /\ start.p = p
  BY StartsAt DEF Register, At
<1>2. start' = [start EXCEPT !.at = "recover"] \/ start' = Idle
  BY DEF Register
<1>3. start' \in Starts /\ ((start'.at = "recover" /\ start'.p = p) \/ start' = Idle)
  BY <1>1, <1>2, IdleStart, TypesAre DEF Starts
<1>4. handle' = [handle EXCEPT ![p] = [handle[p] EXCEPT !.registered = TRUE, !.gate = TRUE, !.timed = timed]]
  BY DEF Register
<1>5. handle' \in [Procs -> HandleRecords]
      /\ handle'[p] = [handle[p] EXCEPT !.registered = TRUE, !.gate = TRUE, !.timed = timed]
  <2>1. [handle[p] EXCEPT !.registered = TRUE, !.gate = TRUE, !.timed = timed] \in HandleRecords
    BY HandleAt, <1>1 DEF HandleRecords
  <2> QED BY <1>1, <1>4, <2>1, HandleChanges
<1>6. OthersRest(p)
  BY <1>1, <1>4, TypesAre DEF OthersRest, Register
<1>7. Types'
  BY <1>1, <1>3, <1>5, TypesAre, TypesAreNext DEF Register
<1>8. handle'[p].registered /\ handle'[p].gate /\ handle'[p].waiter = handle[p].waiter /\ handle'[p].result = handle[p].result
  BY <1>1, <1>5, TypesAre DEF HandleRecords
<1>9. Supervised(p)'
  BY <1>1, <1>3, <1>8 DEF Register, InStart, Supervised, Starting, Unkept, Alone, Unregistered, At, Idle
<1> QED
  BY <1>1, <1>3, <1>6, <1>7, <1>9, StartMoves DEF Placed, Registered, Counts, Starting, At, Idle

LEMMA EarlyLogFailsSteps ==
  ASSUME SupervisorInv, NEW p \in Procs, EarlyLogFails(p)
  PROVE  Step(p)
<1>1. Types /\ InStart(p) /\ start.at = "register" /\ start.p = p
  BY StartsAt DEF EarlyLogFails, At
<1>2. start' \in Starts /\ start'.at = "rollback" /\ start'.p = p
  BY <1>1, TypesAre DEF Starts, EarlyLogFails, Go
<1>3. OthersRest(p)
  BY DEF OthersRest, EarlyLogFails
<1>4. Types'
  BY <1>1, <1>2, Spends, TypesAre, TypesAreNext DEF EarlyLogFails
<1>5. InStart(p)'
  BY <1>1, <1>2 DEF EarlyLogFails, InStart, Starting, Unkept, Alone, Unregistered, At
<1> QED
  BY <1>1, <1>2, <1>3, <1>4, <1>5, StartMoves DEF Placed, Counts, Starting, At

(* MarkTerminal: the end is in the record, or the record was acknowledged   *)
(* or has another end; what is saved stays saved.                           *)
LEMMA EndMarked ==
  ASSUME Types, NEW p \in Procs, NEW end \in Ends, NEW ok \in BOOLEAN, MarkTerminal(p, end, ok)
  PROVE  /\ record' \in [Procs -> Records] /\ faults' \in 0 .. MaxFaults
         /\ \A q \in Procs \ {p} : record'[q] = record[q]
         /\ record[p].saved => record'[p].saved
         /\ ok => record'[p].saved
         /\ \/ record'[p].state = end /\ Accepts(p, end)
            \/ ~ ok /\ record'[p] = record[p] /\ ~ Accepts(p, end)
<1>1. CASE Accepts(p, end)
  <2>1. record' = [record EXCEPT ![p] = [record[p] EXCEPT !.state = end, !.saved = record[p].saved \/ ok]]
    BY <1>1 DEF MarkTerminal
  <2>2. record[p] \in Records
    BY TypesAre
  <2>3. (record[p].saved \/ ok) \in BOOLEAN
    BY <2>2 DEF Records
  <2>4. [record[p] EXCEPT !.state = end, !.saved = record[p].saved \/ ok] \in Records
    BY <2>2, <2>3 DEF Records
  <2>5. record' \in [Procs -> Records] /\ \A q \in Procs \ {p} : record'[q] = record[q]
    BY <2>1, <2>4, TypesAre
  <2>6. record'[p] = [record[p] EXCEPT !.state = end, !.saved = record[p].saved \/ ok]
    BY <2>1, TypesAre
  <2>7. record'[p].state = end /\ (record'[p].saved <=> record[p].saved \/ ok)
    BY <2>2, <2>6 DEF Records
  <2> QED
    BY <1>1, <2>5, <2>7, Spends, TypesAre DEF MarkTerminal
<1>2. CASE ~ Accepts(p, end)
  BY <1>2, TypesAre DEF MarkTerminal
<1> QED BY <1>1, <1>2

(* Contain: the group is gone, or it is as it was and nobody was told that  *)
(* it is gone.                                                              *)
LEMMA Contained ==
  ASSUME Types, NEW p \in Procs, NEW ok \in BOOLEAN, Contain(p, ok)
  PROVE  /\ os' \in [Procs -> Groups]
         /\ \A q \in Procs \ {p} : os'[q] = os[q]
         /\ os'[p] = "dead" \/ os'[p] = os[p]
         /\ ok => os'[p] = "dead"
BY TypesAre DEF Contain, Groups

(* cleanupUnregistered.                                                     *)
LEMMA CleanedUp ==
  ASSUME Types, NEW p \in Procs, NEW ok \in BOOLEAN, NEW stuck \in BOOLEAN, Cleanup(p, ok, stuck)
  PROVE  /\ handle' \in [Procs -> HandleRecords] /\ faults' \in 0 .. MaxFaults /\ recovery' \subseteq Procs
         /\ \A q \in Procs \ {p} : handle'[q] = handle[q] /\ os'[q] = os[q]
         /\ ~ handle'[p].registered /\ handle'[p].gate
         /\ handle'[p].timed = handle[p].timed /\ handle'[p].result = handle[p].result
         /\ os' \in [Procs -> Groups]
         /\ os'[p] = "dead" \/ os'[p] = os[p]
         /\ ok => os'[p] = "dead"
<1>1. PICK cause \in Causes \cup {"none"}, waiter \in {"none", "waiting", "observed", "done"}, logStuck \in BOOLEAN :
        handle' = [handle EXCEPT ![p] = [handle[p] EXCEPT !.cause = cause, !.logStuck = logStuck, !.gate = TRUE,
                                                          !.registered = FALSE, !.waiter = waiter]]
  <2>0. handle[p] \in HandleRecords
    BY HandleAt
  <2>1. (handle[p].logStuck \/ stuck) \in BOOLEAN /\ handle[p].cause \in Causes \cup {"none"}
        /\ handle[p].waiter \in {"none", "waiting", "observed", "done"}
    BY <2>0 DEF HandleRecords
  <2>2. FirstCause(handle[p], "failed")
          = [handle[p] EXCEPT !.cause = IF handle[p].cause = "none" THEN "failed" ELSE handle[p].cause]
    BY <2>0 DEF FirstCause, HandleRecords
  <2>3. DEFINE h == CloseLog(FirstCause(handle[p], "failed"), stuck)
  <2>4. h = [handle[p] EXCEPT !.cause = IF handle[p].cause = "none" THEN "failed" ELSE handle[p].cause,
                              !.logStuck = handle[p].logStuck \/ stuck]
    BY <2>0, <2>2 DEF CloseLog, HandleRecords
  <2>5. handle' = [handle EXCEPT ![p] = [h EXCEPT !.gate = TRUE, !.registered = FALSE,
                                           !.waiter = IF ok /\ h.waiter # "none" THEN "done" ELSE h.waiter]]
    BY DEF Cleanup
  <2>6. h.waiter = handle[p].waiter
    BY <2>0, <2>4 DEF HandleRecords
  <2> QED
    BY <2>0, <2>1, <2>4, <2>5, <2>6, ZenonT(60) DEF Causes
<1>2. handle[p] \in HandleRecords
  BY HandleAt
<1>3. [handle[p] EXCEPT !.cause = cause, !.logStuck = logStuck, !.gate = TRUE,
                        !.registered = FALSE, !.waiter = waiter] \in HandleRecords
  BY <1>2 DEF HandleRecords
<1>4. /\ handle' \in [Procs -> HandleRecords] /\ \A q \in Procs \ {p} : handle'[q] = handle[q]
      /\ handle'[p] = [handle[p] EXCEPT !.cause = cause, !.logStuck = logStuck, !.gate = TRUE,
                                        !.registered = FALSE, !.waiter = waiter]
  BY <1>1, <1>3, HandleChanges
<1>5. ~ handle'[p].registered /\ handle'[p].gate /\ handle'[p].timed = handle[p].timed
      /\ handle'[p].result = handle[p].result
  BY <1>2, <1>4 DEF HandleRecords
<1>6. Contain(p, ok) /\ faults' \in 0 .. MaxFaults /\ recovery' \subseteq Procs
  BY Spends, Reports, TypesAre DEF Cleanup
<1> QED
  BY <1>4, <1>5, <1>6, Contained

LEMMA RollbackSpawnSteps ==
  ASSUME SupervisorInv, NEW p \in Procs, NEW ok \in BOOLEAN, NEW stuck \in BOOLEAN, RollbackSpawn(p, ok, stuck)
  PROVE  Step(p)
<1>1. Types /\ InStart(p) /\ start.at = "rollback" /\ start.p = p /\ Cleanup(p, ok, stuck)
  BY StartsAt DEF RollbackSpawn, At
<1>2. /\ handle' \in [Procs -> HandleRecords] /\ faults' \in 0 .. MaxFaults /\ recovery' \subseteq Procs
      /\ \A q \in Procs \ {p} : handle'[q] = handle[q] /\ os'[q] = os[q]
      /\ ~ handle'[p].registered /\ handle'[p].gate
      /\ handle'[p].timed = handle[p].timed /\ handle'[p].result = handle[p].result
      /\ os' \in [Procs -> Groups]
      /\ ok => os'[p] = "dead"
  BY <1>1, CleanedUp
<1>3. CASE ok
  <2>1. start' \in Starts /\ start'.at = "refuse" /\ start'.p = p
    BY <1>1, <1>3, TypesAre DEF Starts, RollbackSpawn, Go
  <2>2. OthersRest(p)
    BY <1>2, <1>3 DEF OthersRest, RollbackSpawn
  <2>3. Types'
    BY <1>1, <1>2, <1>3, <2>1, TypesAre, TypesAreNext DEF RollbackSpawn
  <2>4. InStart(p)'
    BY <1>1, <1>2, <1>3, <2>1 DEF RollbackSpawn, InStart, Starting, Unkept, Alone, Unregistered, At, Still
  <2> QED
    BY <1>1, <2>1, <2>2, <2>3, <2>4, StartMoves DEF Placed, Counts, Starting, At, InStart, Unkept
<1>4. CASE ~ ok
  <2>1. start' = Idle /\ start' \in Starts /\ Retain(p, "handle")
    BY <1>4, IdleStart DEF RollbackSpawn
  <2>2. OthersRest(p)
    BY <1>1, <1>2, <1>4, <2>1, Retains DEF OthersRest, RollbackSpawn
  <2>3. Types'
    BY <1>1, <1>2, <2>1, Retains, TypesAre, TypesAreNext DEF RollbackSpawn
  <2>4. Kept(p)'
    BY <1>1, <1>2, <2>1, Retains, IdleStart
    DEF RollbackSpawn, InStart, Kept, Starting, Unkept, Alone, Unregistered, At, Nobody
  <2> QED
    BY <1>1, <2>1, <2>2, <2>3, <2>4, IdleStart, StartMoves DEF Placed, Counts, Starting, At
<1> QED BY <1>3, <1>4

LEMMA RefuseSteps ==
  ASSUME SupervisorInv, NEW p \in Procs, NEW ok \in BOOLEAN, Refuse(p, ok)
  PROVE  Step(p)
<1>1. Types /\ InStart(p) /\ start.at = "refuse" /\ start.p = p /\ MarkTerminal(p, "refused", ok)
  BY StartsAt DEF Refuse, At
<1>2. /\ record' \in [Procs -> Records] /\ faults' \in 0 .. MaxFaults
      /\ \A q \in Procs \ {p} : record'[q] = record[q]
      /\ ok => record'[p].saved
      /\ \/ record'[p].state = "refused"
         \/ ~ ok /\ record'[p] = record[p] /\ ~ Accepts(p, "refused")
  BY <1>1, EndMarked DEF Ends
<1>3. record'[p].state \in {"refused", "acknowledged"}
  BY <1>1, <1>2 DEF InStart, Accepts, At, Ends
<1>4. recovery' \subseteq Procs
  BY <1>1, Reports, TypesAre DEF Refuse
<1>5. CASE ~ ok /\ start.tries + 1 # TerminalRetries
  <2>1. start' = [start EXCEPT !.tries = start.tries + 1]
    BY <1>5 DEF Refuse
  <2>2. start' \in Starts /\ start'.at = "refuse" /\ start'.p = p
    BY <1>1, <1>5, <2>1, SupervisorAssumption, TypesAre DEF Starts
  <2>3. OthersRest(p)
    BY <1>2, <1>5 DEF OthersRest, Refuse
  <2>4. Types'
    BY <1>1, <1>2, <1>4, <1>5, <2>2, TypesAre, TypesAreNext DEF Refuse
  <2>5. InStart(p)'
    BY <1>1, <1>3, <1>5, <2>2 DEF Refuse, InStart, Starting, Unkept, Alone, Unregistered, At, Still
  <2> QED
    BY <1>1, <2>2, <2>3, <2>4, <2>5, StartMoves DEF Placed, Counts, Starting, At, InStart, Unkept
<1>6. CASE ~ ok /\ start.tries + 1 = TerminalRetries
  <2>1. start' = Idle /\ start' \in Starts /\ Retain(p, "record")
    BY <1>6, IdleStart DEF Refuse
  <2>2. OthersRest(p)
    BY <1>1, <1>2, <1>6, <2>1, Retains DEF OthersRest, Refuse
  <2>3. Types'
    BY <1>1, <1>2, <1>4, <2>1, Retains, TypesAre, TypesAreNext DEF Refuse
  <2>4. Kept(p)'
    BY <1>1, <1>3, <2>1, Retains, IdleStart
    DEF Refuse, InStart, Kept, Starting, Unkept, Alone, Unregistered, At, Still
  <2> QED
    BY <1>1, <2>1, <2>2, <2>3, <2>4, IdleStart, Retains, StartMoves DEF Placed, Counts, Starting, At, Refuse, InStart
<1>7. CASE ok
  <2>1. start' = Idle /\ start' \in Starts
    BY <1>7, IdleStart DEF Refuse
  <2>2. OthersRest(p)
    BY <1>1, <1>2, <1>7, <2>1 DEF OthersRest, Refuse
  <2>3. Types'
    BY <1>1, <1>2, <1>4, <1>7, <2>1, TypesAre, TypesAreNext DEF Refuse
  <2>4. Refused(p)'
    BY <1>1, <1>2, <1>3, <1>7, <2>1, IdleStart
    DEF Refuse, InStart, Refused, Starting, Unkept, Alone, Unregistered, At, Still
  <2> QED
    BY <1>1, <1>7, <2>1, <2>2, <2>3, <2>4, IdleStart, StartMoves DEF Placed, Counts, Starting, At, Refuse, InStart, Unkept
<1> QED BY <1>5, <1>6, <1>7

-----------------------------------------------------------------------------
(* Steps past the registration *)

Stays(p) ==
  \A q \in Procs \ {p} : /\ os'[q] = os[q] /\ handle'[q] = handle[q] /\ own'[q] = own[q]
                         /\ finish'[q] = finish[q] /\ record'[q] = record[q]
                         /\ (q \in handles' <=> q \in handles) /\ (q \in faulted' <=> q \in faulted)

(* Nobody comes to name a process; Start may let go of p, and Stop may      *)
(* return success for it.                                                   *)
CallersRest(p) ==
  /\ start' = start \/ (start.p = p /\ start' = Idle)
  /\ \/ stop'.at = "idle" /\ stop'.p = NoProc
     \/ stop'.p = stop.p /\ stop'.at = stop.at
     \/ stop'.p = stop.p /\ {stop.at, stop'.at} \subseteq {"signalled", "contained", "recover"}
  /\ shutdown'.left \subseteq shutdown.left /\ Awaited' \subseteq Awaited
  /\ Closed' <=> Closed
  /\ shutdown'.at = "complete" => shutdown.at = "complete"
  /\ handles' \subseteq handles /\ faulted' \subseteq faulted
  /\ stopped' \subseteq stopped \cup {p}

(* The process is in its place, or in one as good to those who name it.     *)
Holds(p) ==
  /\ Placed(p)'
  /\ Registered(p) => Registered(p)'
  /\ Kept(p) => Kept(p)'
  /\ LetGo(p) => LetGo(p)'
  /\ p \in stopped' => p \in stopped \/ LetGo(p)'
  /\ own'[p].by = "shutdown" => own[p].by = "shutdown" \/ Closed
  /\ own'[p].kind = own[p].kind

LEMMA EndMoves ==
  ASSUME SupervisorInv, NEW p \in Procs, Types', Stays(p), CallersRest(p), Holds(p)
  PROVE  Step(p)
<1>1. Types /\ Callers /\ Named(p) /\ p # NoProc
  BY SupervisorAssumption DEF SupervisorInv
<1>2. \A q \in Procs \ {p} : Same(q) /\ Unnamed(q)
  BY <1>1, SupervisorAssumption DEF Stays, CallersRest, Same, Unnamed, Starting, Idle, Callers
<1>3. Starting(p)' => Starting(p) /\ start' = start
  BY <1>1 DEF CallersRest, Starting, Idle
<1>4. Named(p)'
  BY <1>1, <1>3 DEF CallersRest, Holds, Named, At
<1>5. Callers'
  BY <1>1, SupervisorAssumption DEF CallersRest, Callers, Idle, Closed
<1>6. Counts(p)' => Counts(p)
  BY <1>1, <1>3 DEF CallersRest, Counts, Holds
<1> QED
  BY <1>2, <1>4, <1>5, <1>6 DEF Step, Moves, Holds

(* The handle of a process that was let go.                                 *)
LEMMA FinishedHandle ==
  LET h == [NewHandle EXCEPT !.waiter = "done", !.result = "ok"]
  IN  /\ h \in HandleRecords /\ h.waiter = "done" /\ h.result = "ok"
      /\ ~ h.registered /\ ~ h.timed /\ ~ h.gate
BY DEF NewHandle, HandleRecords

LEMMA StartReturnsSteps ==
  ASSUME SupervisorInv, NEW p \in Procs, StartReturns(p)
  PROVE  Step(p)
<1>1. Types /\ Placed(p) /\ start' = Idle /\ start' \in Starts /\ Starting(p) /\ At("recover")
  BY IdleStart DEF SupervisorInv, StartReturns, At, Starting
<1>2. Types'
  BY <1>1, TypesAre, TypesAreNext DEF StartReturns
<1>3. Stays(p) /\ CallersRest(p)
  BY <1>1 DEF Stays, CallersRest, StartReturns, Awaited, Closed
<1>4. (Supervised(p) => Supervised(p)') /\ (Finished(p) => Finished(p)')
  BY <1>1, IdleStart DEF Supervised, Finished, Starting, Unkept, Alone, StartReturns
<1>5. Supervised(p) \/ Finished(p)
  BY <1>1 DEF Placed, Unborn, InStart, Refused, Kept, At
<1>6. Holds(p)
  BY <1>1, <1>4, <1>5 DEF Holds, Placed, Registered, LetGo, StartReturns, Kept, Supervised, Finished, Unkept
<1> QED
  BY <1>2, <1>3, <1>6, EndMoves

-----------------------------------------------------------------------------
(* Steps that change nothing but the waiter and the cause of a process      *)
(* whose waiter is at work.                                                 *)
LEMMA HandleMoves ==
  ASSUME SupervisorInv, NEW p \in Procs, NEW h \in HandleRecords, handle' = [handle EXCEPT ![p] = h],
         h.gate = handle[p].gate, h.registered = handle[p].registered, h.timed = handle[p].timed,
         h.result = handle[p].result, handle[p].waiter \in {"waiting", "observed"},
         h.waiter \in {"waiting", "observed"} \/ (handle[p].gate /\ h.waiter = "done"),
         UNCHANGED <<start, os, own, finish, record, handles, faulted>>, stopped' = stopped
  PROVE  Stays(p) /\ Holds(p) /\ handle' \in [Procs -> HandleRecords]
<1>1. Types /\ Placed(p)
  BY DEF SupervisorInv
<1>2. handle'[p] = h /\ handle' \in [Procs -> HandleRecords] /\ \A q \in Procs \ {p} : handle'[q] = handle[q]
  BY <1>1, HandleChanges
<1>3. ~ Unborn(p) /\ ~ Finished(p)
  <2>1. ~ Finished(p)
    BY FinishedHandle DEF Finished
  <2>2. ~ Unborn(p)
    BY DEF Unborn, NewHandle
  <2> QED BY <2>1, <2>2
<1>4. InStart(p) => InStart(p)'
  BY <1>2 DEF InStart, Starting, Unkept, Alone, Unregistered, NewHandle, At, Still
<1>5. Supervised(p) => Supervised(p)'
  BY <1>2 DEF Supervised, Starting, Unkept, At
<1>6. (Refused(p) => Refused(p)') /\ (Kept(p) => Kept(p)')
  BY <1>2 DEF Refused, Kept, Starting, Unkept, Alone, Unregistered, Still
<1> QED
  BY <1>1, <1>2, <1>3, <1>4, <1>5, <1>6 DEF Stays, Holds, Placed, Registered, LetGo

LEMMA WaitReturnsSteps ==
  ASSUME SupervisorInv, NEW p \in Procs, WaitReturns(p)
  PROVE  Step(p)
<1>1. Types
  BY DEF SupervisorInv
<1>2. handle[p] \in HandleRecords
  BY <1>1, HandleAt
<1> DEFINE h == [handle[p] EXCEPT !.waiter = "observed"]
<1>3. h \in HandleRecords /\ h.gate = handle[p].gate /\ h.registered = handle[p].registered
      /\ h.timed = handle[p].timed /\ h.result = handle[p].result /\ h.waiter = "observed"
  BY <1>2 DEF HandleRecords
<1>4. handle' = [handle EXCEPT ![p] = h]
  BY DEF WaitReturns
<1> HIDE DEF h
<1>5. Stays(p) /\ Holds(p) /\ handle' \in [Procs -> HandleRecords]
  BY <1>3, <1>4, HandleMoves DEF WaitReturns
<1>6. Types'
  BY <1>1, <1>5, TypesAre, TypesAreNext DEF WaitReturns
<1>7. CallersRest(p)
  BY DEF CallersRest, WaitReturns, Awaited, Closed
<1> QED
  BY <1>5, <1>6, <1>7, EndMoves

LEMMA WaiterLeavesSteps ==
  ASSUME SupervisorInv, NEW p \in Procs, WaiterLeaves(p)
  PROVE  Step(p)
<1>1. Types
  BY DEF SupervisorInv
<1>2. handle[p] \in HandleRecords
  BY <1>1, HandleAt
<1> DEFINE h == [handle[p] EXCEPT !.waiter = "done"]
<1>3. h \in HandleRecords /\ h.gate = handle[p].gate /\ h.registered = handle[p].registered
      /\ h.timed = handle[p].timed /\ h.result = handle[p].result /\ h.waiter = "done"
  BY <1>2 DEF HandleRecords
<1>4. handle' = [handle EXCEPT ![p] = h]
  BY DEF WaiterLeaves
<1> HIDE DEF h
<1>5. Stays(p) /\ Holds(p) /\ handle' \in [Procs -> HandleRecords]
  BY <1>3, <1>4, HandleMoves DEF WaiterLeaves
<1>6. Types'
  BY <1>1, <1>5, TypesAre, TypesAreNext DEF WaiterLeaves
<1>7. CallersRest(p)
  BY DEF CallersRest, WaiterLeaves, Awaited, Closed
<1> QED
  BY <1>5, <1>6, <1>7, EndMoves

LEMMA AcknowledgeSteps ==
  ASSUME SupervisorInv, NEW p \in Procs, Acknowledge(p)
  PROVE  Step(p)
<1>1. Types /\ Placed(p)
  BY DEF SupervisorInv
<1> DEFINE r == [state |-> "acknowledged", saved |-> TRUE]
<1>2. r \in Records /\ r.state = "acknowledged" /\ r.saved
  BY DEF Records
<1>3. record' = [record EXCEPT ![p] = r]
  BY DEF Acknowledge
<1> HIDE DEF r
<1>4. record' \in [Procs -> Records] /\ record'[p] = r /\ \A q \in Procs \ {p} : record'[q] = record[q]
  BY <1>1, <1>2, <1>3, TypesAre
<1>5. Types'
  BY <1>1, <1>4, TypesAre, TypesAreNext DEF Acknowledge
<1>6. Stays(p) /\ CallersRest(p)
  BY <1>4 DEF Stays, CallersRest, Acknowledge, Awaited, Closed
<1>7. ~ Unborn(p)
  BY DEF Unborn, Acknowledge, Ends
<1>8. InStart(p) => InStart(p)'
  BY <1>2, <1>4 DEF Acknowledge, InStart, Starting, Unkept, Alone, Unregistered, At, Still, Ends
<1>9. (Supervised(p) => Supervised(p)') /\ (Finished(p) => Finished(p)')
  BY <1>2, <1>4 DEF Acknowledge, Supervised, Finished, Starting, Unkept, Alone, At, Ends
<1>10. (Refused(p) => Refused(p)') /\ (Kept(p) => Kept(p)')
  BY <1>2, <1>4 DEF Acknowledge, Refused, Kept, Starting, Unkept, Alone, Unregistered, Still
<1>11. Holds(p)
  BY <1>1, <1>7, <1>8, <1>9, <1>10 DEF Holds, Placed, Registered, LetGo, Acknowledge
<1> QED
  BY <1>5, <1>6, <1>11, EndMoves

LEMMA ExitSteps ==
  ASSUME SupervisorInv, NEW p \in Procs, NEW rest \in {"left", "dead"}, Exit(p, rest)
  PROVE  Step(p)
<1>1. Types /\ Placed(p)
  BY DEF SupervisorInv
<1>2. os' \in [Procs -> Groups] /\ os'[p] = rest /\ \A q \in Procs \ {p} : os'[q] = os[q]
  BY <1>1, TypesAre DEF Exit, Groups
<1>3. Types'
  BY <1>1, <1>2, TypesAre, TypesAreNext DEF Exit
<1>4. Stays(p) /\ CallersRest(p)
  BY <1>2 DEF Stays, CallersRest, Exit, Awaited, Closed
<1>5. ~ Unborn(p) /\ ~ Finished(p) /\ ~ Refused(p)
  BY DEF Unborn, Finished, Refused, Exit, Still
<1>6. InStart(p) => InStart(p)'
  BY <1>2 DEF Exit, InStart, Starting, Unkept, Alone, Unregistered, At, Still
<1>7. Supervised(p) => Supervised(p)'
  BY <1>2 DEF Exit, Supervised, Starting, Unkept, At
<1>8. Kept(p) => Kept(p)'
  BY <1>2 DEF Exit, Kept, Starting, Unregistered, Still
<1>9. Holds(p)
  BY <1>1, <1>5, <1>6, <1>7, <1>8 DEF Holds, Placed, Registered, LetGo, Exit
<1> QED
  BY <1>3, <1>4, <1>9, EndMoves

-----------------------------------------------------------------------------
(* The end of a registered process *)

(* Whoever has to finish a process that has no result finds it supervised.  *)
LEMMA WantedIsSupervised ==
  ASSUME SupervisorInv, NEW p \in Procs, NEW who \in Finishers, Wants(p, who), handle[p].result = "open"
  PROVE  Supervised(p)
<1>1. Placed(p) /\ Named(p) /\ Callers
  BY DEF SupervisorInv
<1>2. ~ Finished(p)
  BY FinishedHandle DEF Finished
<1>3. CASE who = "waiter"
  <2>1. handle[p].registered
    BY <1>3 DEF Wants
  <2>2. ~ Unborn(p)
    BY <2>1 DEF Unborn, NewHandle
  <2> QED
    BY <1>1, <1>2, <2>1, <2>2 DEF Placed, InStart, Refused, Kept, Unregistered
<1>4. CASE who = "start"
  BY <1>1, <1>2, <1>4 DEF Wants, Named, Registered, Starting, At
<1>5. CASE who = "stop"
  BY <1>1, <1>2, <1>5 DEF Wants, Named, Registered
<1>6. CASE who = "shutdown"
  BY <1>1, <1>2, <1>6 DEF Wants, Named, Registered, Awaited
<1> QED
  BY <1>3, <1>4, <1>5, <1>6 DEF Finishers

LEMMA FinalizeSteps ==
  ASSUME SupervisorInv, NEW p \in Procs, NEW who \in Finishers, Finalize(p, who)
  PROVE  Step(p)
<1>1. Types /\ Supervised(p)
  BY WantedIsSupervised DEF SupervisorInv, Finalize
<1>2. EndOf(p) \in Ends
  BY <1>1, HandleAt DEF EndOf, HandleRecords, Causes, Ends
<1> DEFINE f == [by |-> who, end |-> EndOf(p), tries |-> 0]
<1>3. f \in Finishes /\ f.by = who /\ who # Nobody
  BY <1>2, SupervisorAssumption DEF Finishes, Finishers, Nobody
<1>4. finish' = [finish EXCEPT ![p] = f] /\ os' = [os EXCEPT ![p] = "dead"]
  BY DEF Finalize
<1> HIDE DEF f
<1>5. /\ finish' \in [Procs -> Finishes] /\ finish'[p] = f /\ os' \in [Procs -> Groups] /\ os'[p] = "dead"
      /\ \A q \in Procs \ {p} : finish'[q] = finish[q] /\ os'[q] = os[q]
  BY <1>1, <1>3, <1>4, TypesAre DEF Groups
<1>6. Types'
  BY <1>1, <1>5, TypesAre, TypesAreNext DEF Finalize
<1>7. Stays(p) /\ CallersRest(p)
  BY <1>5 DEF Stays, CallersRest, Finalize, Awaited, Closed
<1>8. Supervised(p)'
  BY <1>1, <1>3, <1>5 DEF Finalize, Supervised, Starting, Unkept, At
<1>9. Holds(p)
  BY <1>1, <1>8 DEF Holds, Placed, Registered, LetGo, Kept, Supervised, Finished, Finalize, Unkept
<1> QED
  BY <1>6, <1>7, <1>9, EndMoves

(* Whoever gives up names nothing any more.                                 *)
LEMMA GivenUp ==
  ASSUME SupervisorInv, NEW p \in Procs, NEW who \in Finishers, GivesUp(who),
         who = "start" => start.p = p, who = "shutdown" => Closed,
         UNCHANGED <<handles, faulted, stopped>>
  PROVE  CallersRest(p) /\ start' \in Starts /\ stop' \in Stops /\ shutdown' \in Shutdowns
<1>1. Types
  BY IdleStart DEF SupervisorInv
<1>2. start' = start \/ (start.p = p /\ start' = Idle)
  BY DEF GivesUp
<1>3. stop' = stop \/ stop' = [at |-> "idle", p |-> NoProc]
  BY DEF GivesUp
<1>4. shutdown' = shutdown \/ (Closed /\ shutdown' = [IdleShutdown EXCEPT !.at = "failed"])
  BY DEF GivesUp
<1>5. [IdleShutdown EXCEPT !.at = "failed"]
        = [at |-> "failed", left |-> {}, tosignal |-> {}, toawait |-> {}, contained |-> {}]
  BY DEF IdleShutdown
<1>6. start' \in Starts /\ stop' \in Stops /\ shutdown' \in Shutdowns
  BY <1>1, <1>2, <1>3, <1>4, <1>5, IdleStart, TypesAre DEF Stops, Shutdowns
<1>7. CallersRest(p)
  BY <1>2, <1>3, <1>4, <1>5 DEF CallersRest, Awaited, Closed
<1> QED
  BY <1>6, <1>7

LEMMA FinalizeFailsSteps ==
  ASSUME SupervisorInv, NEW p \in Procs, NEW who \in Finishers, NEW stuck \in BOOLEAN, FinalizeFails(p, who, stuck)
  PROVE  Step(p)
<1>1. Types /\ Supervised(p) /\ handle[p] \in HandleRecords
  BY WantedIsSupervised, HandleAt DEF SupervisorInv, FinalizeFails
<1>2. PICK waiter \in {"none", "waiting", "observed", "done"}, logStuck \in BOOLEAN :
        /\ handle' = [handle EXCEPT ![p] = [handle[p] EXCEPT !.waiter = waiter, !.logStuck = logStuck]]
        /\ waiter = handle[p].waiter \/ waiter = "done"
  <2>1. CloseLog(handle[p], stuck) = [handle[p] EXCEPT !.logStuck = handle[p].logStuck \/ stuck]
    BY <1>1 DEF CloseLog
  <2>2. (handle[p].logStuck \/ stuck) \in BOOLEAN /\ handle[p].waiter \in {"none", "waiting", "observed", "done"}
    BY <1>1 DEF HandleRecords
  <2>3. [handle[p] EXCEPT !.logStuck = handle[p].logStuck \/ stuck].waiter = handle[p].waiter
    BY <1>1 DEF HandleRecords
  <2>4. handle' = [handle EXCEPT ![p] = [CloseLog(handle[p], stuck) EXCEPT
                     !.waiter = IF who = "waiter" THEN "done" ELSE handle[p].waiter]]
    BY DEF FinalizeFails
  <2> QED
    BY <1>1, <2>1, <2>2, <2>3, <2>4, ZenonT(60) DEF HandleRecords
<1> DEFINE h == [handle[p] EXCEPT !.waiter = waiter, !.logStuck = logStuck]
<1>3. h \in HandleRecords /\ h.waiter = waiter /\ h.registered = handle[p].registered
      /\ h.gate = handle[p].gate /\ h.result = handle[p].result
  BY <1>1 DEF HandleRecords
<1>4. handle' = [handle EXCEPT ![p] = h]
  BY <1>2
<1> HIDE DEF h
<1>5. handle' \in [Procs -> HandleRecords] /\ handle'[p] = h /\ \A q \in Procs \ {p} : handle'[q] = handle[q]
  BY <1>1, <1>3, <1>4, HandleChanges
<1>6. /\ os' \in [Procs -> Groups] /\ \A q \in Procs \ {p} : os'[q] = os[q]
      /\ os'[p] = "dead" \/ os'[p] = os[p]
  BY <1>1, Contained DEF FinalizeFails
<1>7. CallersRest(p) /\ start' \in Starts /\ stop' \in Stops /\ shutdown' \in Shutdowns
  BY GivenUp DEF FinalizeFails, Wants, Closed
<1>8. faults' \in 0 .. MaxFaults /\ recovery' \subseteq Procs
  BY <1>1, Spends, Reports, TypesAre DEF FinalizeFails
<1>9. Types'
  BY <1>1, <1>5, <1>6, <1>7, <1>8, TypesAre, TypesAreNext DEF FinalizeFails
<1>10. Stays(p)
  BY <1>5, <1>6 DEF Stays, FinalizeFails
<1>11. Starting(p)' => Starting(p) /\ start' = start
  BY <1>7, SupervisorAssumption DEF CallersRest, Starting, Idle
<1>12. Supervised(p)'
  BY <1>1, <1>2, <1>3, <1>5, <1>6, <1>11 DEF FinalizeFails, Supervised, Unkept, At
<1>13. Holds(p)
  BY <1>1, <1>12 DEF Holds, Placed, Registered, LetGo, Kept, Supervised, Finished, FinalizeFails, Unkept
<1> QED
  BY <1>7, <1>9, <1>10, <1>13, EndMoves

LEMMA FinishSteps ==
  ASSUME SupervisorInv, NEW p \in Procs, NEW ok \in BOOLEAN, Finish(p, ok)
  PROVE  Step(p)
<1>1. Types /\ Placed(p) /\ finish[p].by # Nobody /\ finish[p] \in Finishes
  BY TypesAre DEF SupervisorInv, Finish
<1>2. Supervised(p)
  BY <1>1 DEF Placed, Unborn, InStart, Finished, Refused, Kept, Alone
<1>3. /\ record' \in [Procs -> Records] /\ faults' \in 0 .. MaxFaults
      /\ \A q \in Procs \ {p} : record'[q] = record[q]
      /\ ok => record'[p].saved
      /\ \/ record'[p].state = finish[p].end
         \/ ~ ok /\ record'[p] = record[p] /\ ~ Accepts(p, finish[p].end)
  BY <1>1, EndMarked DEF Finish, Finishes
<1>4. record'[p].state \in {"acknowledged", finish[p].end} /\ (ok => record'[p].state = finish[p].end)
  BY <1>1, <1>2, <1>3 DEF Supervised, Accepts, Ends
<1>5. recovery' \subseteq Procs
  BY <1>1, Reports, TypesAre DEF Finish
<1>6. CallersRest(p)
  BY DEF CallersRest, Finish, Awaited, Closed
<1>7. NoFinish \in Finishes /\ NoFinish.by = Nobody
  BY SupervisorAssumption DEF NoFinish, Finishes, Ends
<1>8. CASE ~ ok /\ finish[p].tries + 1 # TerminalRetries
  <2> DEFINE f == [finish[p] EXCEPT !.tries = finish[p].tries + 1]
  <2>1. f \in Finishes /\ f.by = finish[p].by /\ f.end = finish[p].end
    BY <1>1, <1>8, SupervisorAssumption DEF Finishes
  <2>2. finish' = [finish EXCEPT ![p] = f]
    BY <1>8 DEF Finish
  <2> HIDE DEF f
  <2>3. finish' \in [Procs -> Finishes] /\ finish'[p] = f /\ \A q \in Procs \ {p} : finish'[q] = finish[q]
    BY <1>1, <2>1, <2>2, TypesAre
  <2>4. UNCHANGED <<handles, handle>>
    <3>1. handle' = [handle EXCEPT ![p] = handle[p]]
      BY <1>8 DEF Finish
    <3> QED BY <1>1, <1>8, <3>1, TypesAre DEF Finish
  <2>5. Types'
    BY <1>1, <1>3, <1>5, <2>3, <2>4, TypesAre, TypesAreNext DEF Finish
  <2>6. Stays(p)
    BY <1>3, <2>3, <2>4 DEF Stays, Finish
  <2>7. Supervised(p)'
    BY <1>1, <1>2, <1>4, <2>1, <2>3, <2>4 DEF Finish, Supervised, Starting, Unkept, At
  <2>8. Holds(p)
    BY <1>2, <2>7 DEF Holds, Placed, Registered, LetGo, Kept, Supervised, Finished, Finish, Unkept
  <2> QED BY <1>6, <2>5, <2>6, <2>8, EndMoves
<1>9. CASE ~ ok /\ finish[p].tries + 1 = TerminalRetries
  <2> DEFINE h == [handle[p] EXCEPT !.waiter = "done", !.result = "failed"]
  <2>1. h \in HandleRecords /\ h.waiter = "done" /\ h.result = "failed"
        /\ h.registered = handle[p].registered /\ h.gate = handle[p].gate
    BY <1>1, HandleAt DEF HandleRecords
  <2>2. handle' = [handle EXCEPT ![p] = h] /\ finish' = [finish EXCEPT ![p] = NoFinish] /\ handles' = handles
    BY <1>9 DEF Finish
  <2> HIDE DEF h
  <2>3. handle' \in [Procs -> HandleRecords] /\ handle'[p] = h /\ \A q \in Procs \ {p} : handle'[q] = handle[q]
    BY <1>1, <2>1, <2>2, HandleChanges
  <2>4. finish' \in [Procs -> Finishes] /\ finish'[p] = NoFinish /\ \A q \in Procs \ {p} : finish'[q] = finish[q]
    BY <1>1, <1>7, <2>2, TypesAre
  <2>5. Types'
    BY <1>1, <1>3, <1>5, <2>2, <2>3, <2>4, TypesAre, TypesAreNext DEF Finish
  <2>6. Stays(p)
    BY <1>3, <2>2, <2>3, <2>4 DEF Stays, Finish
  <2>7. Supervised(p)'
    BY <1>1, <1>2, <1>7, <2>1, <2>2, <2>3, <2>4 DEF Finish, Supervised, Starting, Unkept, At
  <2>8. Holds(p)
    BY <1>2, <2>7 DEF Holds, Placed, Registered, LetGo, Kept, Supervised, Finished, Finish, Unkept
  <2> QED BY <1>6, <2>5, <2>6, <2>8, EndMoves
<1>10. CASE ok
  <2> DEFINE h == [NewHandle EXCEPT !.waiter = "done", !.result = "ok"]
  <2>1. h \in HandleRecords
    BY FinishedHandle
  <2>2. handle' = [handle EXCEPT ![p] = h] /\ finish' = [finish EXCEPT ![p] = NoFinish] /\ handles' = handles \ {p}
    BY <1>10 DEF Finish
  <2>3. handle' \in [Procs -> HandleRecords] /\ handle'[p] = h /\ \A q \in Procs \ {p} : handle'[q] = handle[q]
    <3> HIDE DEF h
    <3> QED BY <1>1, <2>1, <2>2, HandleChanges
  <2>4. finish' \in [Procs -> Finishes] /\ finish'[p] = NoFinish /\ \A q \in Procs \ {p} : finish'[q] = finish[q]
    BY <1>1, <1>7, <2>2, TypesAre
  <2>5. Types'
    <3> HIDE DEF h
    <3> QED BY <1>1, <1>3, <1>5, <2>2, <2>3, <2>4, TypesAre, TypesAreNext DEF Finish
  <2>6. Stays(p)
    BY <1>3, <2>2, <2>3, <2>4 DEF Stays, Finish
  <2>7. Finished(p)'
    <3>1. finish[p].end \in Ends
      BY <1>1 DEF Finishes
    <3> QED BY <1>1, <1>2, <1>3, <1>4, <1>7, <1>10, <2>2, <2>3, <2>4, <3>1
            DEF Finish, Supervised, Finished, Alone, Starting, Unkept, At
  <2>8. Holds(p)
    BY <1>2, <2>7 DEF Holds, Placed, Registered, LetGo, Kept, Supervised, Finish, Unkept
  <2> QED BY <1>6, <2>5, <2>6, <2>8, EndMoves
<1> QED BY <1>8, <1>9, <1>10

LEMMA EndByForceSteps ==
  ASSUME SupervisorInv, NEW p \in Procs, NEW ok \in BOOLEAN, EndByForce(p, "failed", ok), faults' \in 0 .. MaxFaults,
         handle[p].registered \/ handle[p].timed
  PROVE  Step(p)
<1>1. Types /\ Placed(p) /\ handle[p] \in HandleRecords
  BY HandleAt DEF SupervisorInv
<1>2. Supervised(p)
  <2>1. ~ Unborn(p)
    BY DEF Unborn, NewHandle
  <2>2. ~ Finished(p)
    BY FinishedHandle DEF Finished
  <2> QED BY <1>1, <2>1, <2>2 DEF Placed, InStart, Refused, Kept, Unregistered
<1>3. PICK cause \in Causes \cup {"none"} :
        handle' = [handle EXCEPT ![p] = [handle[p] EXCEPT !.cause = cause, !.timed = FALSE]]
  <2>1. FirstCause(handle[p], "failed") = [handle[p] EXCEPT !.cause = "failed"] \/ FirstCause(handle[p], "failed") = handle[p]
    BY DEF FirstCause
  <2>2. handle[p] = [handle[p] EXCEPT !.cause = handle[p].cause] /\ handle[p].cause \in Causes \cup {"none"}
    BY <1>1 DEF HandleRecords
  <2>3. handle' = [handle EXCEPT ![p] = [FirstCause(handle[p], "failed") EXCEPT !.timed = FALSE]]
    BY DEF EndByForce
  <2> QED BY <1>1, <2>1, <2>2, <2>3 DEF Causes, HandleRecords
<1> DEFINE h == [handle[p] EXCEPT !.cause = cause, !.timed = FALSE]
<1>4. h \in HandleRecords /\ h.waiter = handle[p].waiter /\ h.registered = handle[p].registered
      /\ h.gate = handle[p].gate /\ h.result = handle[p].result
  BY <1>1 DEF HandleRecords
<1>5. handle' = [handle EXCEPT ![p] = h]
  BY <1>3
<1> HIDE DEF h
<1>6. handle' \in [Procs -> HandleRecords] /\ handle'[p] = h /\ \A q \in Procs \ {p} : handle'[q] = handle[q]
  BY <1>1, <1>4, <1>5, HandleChanges
<1>7. /\ os' \in [Procs -> Groups] /\ \A q \in Procs \ {p} : os'[q] = os[q]
      /\ os'[p] = "dead" \/ os'[p] = os[p]
  BY <1>1, Contained DEF EndByForce
<1>8. recovery' \subseteq Procs
  BY <1>1, Reports, TypesAre DEF EndByForce
<1>9. Types'
  BY <1>1, <1>6, <1>7, <1>8, TypesAre, TypesAreNext DEF EndByForce
<1>10. Stays(p) /\ CallersRest(p)
  BY <1>6, <1>7 DEF Stays, CallersRest, EndByForce, Awaited, Closed
<1>11. Supervised(p)'
  BY <1>2, <1>4, <1>6, <1>7 DEF EndByForce, Supervised, Starting, Unkept, At
<1>12. Holds(p)
  BY <1>2, <1>11 DEF Holds, Placed, Registered, LetGo, Kept, Supervised, Finished, EndByForce, Unkept
<1> QED
  BY <1>9, <1>10, <1>12, EndMoves

LEMMA LifetimeSteps ==
  ASSUME SupervisorInv, NEW p \in Procs, NEW ok \in BOOLEAN, Lifetime(p, ok) \/ LogWriteFails(p, ok)
  PROVE  Step(p)
<1>1. EndByForce(p, "failed", ok) /\ (handle[p].registered \/ handle[p].timed)
  BY DEF Lifetime, LogWriteFails
<1>2. faults' \in 0 .. MaxFaults
  BY Spends, TypesAre DEF Lifetime, LogWriteFails, SupervisorInv
<1> QED
  BY <1>1, <1>2, EndByForceSteps

-----------------------------------------------------------------------------
(* Stop *)

(* FirstCause changes nothing but the cause.                                *)
LEMMA CauseNoted ==
  ASSUME NEW h \in HandleRecords, NEW cause \in Causes
  PROVE  LET g == FirstCause(h, cause)
         IN  /\ g \in HandleRecords /\ g.waiter = h.waiter /\ g.gate = h.gate /\ g.registered = h.registered
             /\ g.timed = h.timed /\ g.result = h.result
<1>1. [h EXCEPT !.cause = cause] \in HandleRecords
  BY DEF HandleRecords
<1> QED
  BY <1>1 DEF FirstCause, HandleRecords

(* Stop names a process that is supervised, or left to be recovered.        *)
LEMMA StopWithCauseSteps ==
  ASSUME SupervisorInv, NEW p \in Procs, StopWithCause(p)
  PROVE  Step(p)
<1>1. Types /\ Placed(p) /\ Named(p) /\ Callers /\ handle[p] \in HandleRecords /\ p # NoProc
  BY HandleAt, SupervisorAssumption DEF SupervisorInv
<1>2. IF p \in handles THEN Supervised(p) ELSE p \in faulted /\ Kept(p)
  BY <1>1 DEF Placed, StopWithCause, Unborn, InStart, Supervised, Finished, Refused, Kept, Unkept
<1>3. PICK at \in {"faulted", "recover", "signalled"} :
        stop' = [at |-> at, p |-> p] /\ (at = "faulted" <=> p \notin handles)
  BY DEF StopWithCause
<1>4. stop' \in Stops /\ stop'.at = at /\ stop'.p = p
  BY <1>3 DEF Stops
<1>5. handle' \in [Procs -> HandleRecords] /\ Stays(p) /\ Holds(p)
  <2>1. CASE p \in handles /\ ~ Waited(p)
    <3>1. handle' = [handle EXCEPT ![p] = FirstCause(handle[p], "killed")]
      BY <2>1 DEF StopWithCause
    <3>2. handle[p].waiter \in {"waiting", "observed"}
      BY <1>1, <1>2, <2>1 DEF Supervised, Waited, HandleRecords
    <3> DEFINE h == FirstCause(handle[p], "killed")
    <3>3. /\ h \in HandleRecords /\ h.waiter = handle[p].waiter /\ h.gate = handle[p].gate
          /\ h.registered = handle[p].registered /\ h.timed = handle[p].timed /\ h.result = handle[p].result
      BY <1>1, CauseNoted DEF Causes
    <3> HIDE DEF h
    <3>4. handle' = [handle EXCEPT ![p] = h]
      BY <3>1 DEF h
    <3> QED BY <3>2, <3>3, <3>4, HandleMoves DEF StopWithCause
  <2>2. CASE ~ (p \in handles /\ ~ Waited(p))
    <3>1. UNCHANGED <<start, os, handle, handles, faulted, own, finish, stopped, record>>
      BY <2>2 DEF StopWithCause
    <3>2. Stays(p)
      BY <3>1 DEF Stays
    <3>3. (Supervised(p) => Supervised(p)') /\ (Kept(p) => Kept(p)')
      BY <3>1 DEF Supervised, Kept, Starting, Unkept, At, Unregistered, Still
    <3>4. Supervised(p) => ~ Kept(p) /\ ~ Finished(p)
      BY DEF Supervised, Kept, Finished
    <3>5. Kept(p) /\ p \in faulted => ~ Supervised(p) /\ ~ Finished(p)
      BY DEF Supervised, Kept, Finished, Unkept
    <3> QED BY <1>1, <1>2, <3>1, <3>2, <3>3, <3>4, <3>5, TypesAre DEF Holds, Placed, Registered, LetGo
  <2> QED BY <2>1, <2>2
<1>6. Types'
  BY <1>1, <1>4, <1>5, TypesAre, TypesAreNext DEF StopWithCause
<1>7. Callers'
  BY <1>1, <1>4, SupervisorAssumption DEF Callers, StopWithCause, Closed
<1>8. Named(p)'
  <2>1. Kept(p) /\ p \notin handles => Kept(p)'
    BY <1>5 DEF Holds
  <2>2. p \in handles => Registered(p)'
    BY <1>2, <1>5 DEF Holds, Registered
  <2>3. Starting(p)' /\ At("recover")' => Starting(p) /\ At("recover")
    BY DEF StopWithCause, Starting, At
  <2> QED BY <1>1, <1>2, <1>3, <1>4, <1>5, <2>1, <2>2, <2>3 DEF Named, Holds, StopWithCause, Awaited, Closed
<1>9. \A q \in Procs \ {p} : Same(q) /\ Unnamed(q)
  BY <1>4, <1>5 DEF Stays, Same, Unnamed, Starting, StopWithCause, Awaited, Closed
<1>10. Counts(p)' => Counts(p)
  BY DEF Counts, StopWithCause, Starting
<1> QED
  BY <1>5, <1>6, <1>7, <1>8, <1>9, <1>10 DEF Step, Moves, Holds

LEMMA StopContainsSteps ==
  ASSUME SupervisorInv, NEW p \in Procs, NEW ok \in BOOLEAN, StopContains(p, ok)
  PROVE  Step(p)
<1>1. Types /\ Registered(p)
  BY DEF SupervisorInv, StopContains, Named
<1>2. /\ os' \in [Procs -> Groups] /\ \A q \in Procs \ {p} : os'[q] = os[q]
      /\ os'[p] = "dead" \/ os'[p] = os[p]
  BY <1>1, Contained DEF StopContains
<1>3. stop' \in Stops /\ ((stop'.at = "idle" /\ stop'.p = NoProc) \/ (stop'.at = "contained" /\ stop'.p = stop.p))
  <2>1. stop' = [stop EXCEPT !.at = "contained"] \/ stop' = [at |-> "idle", p |-> NoProc]
    BY DEF StopContains, StopIdle
  <2> QED BY <1>1, <2>1, TypesAre DEF Stops
<1>4. faults' \in 0 .. MaxFaults /\ recovery' \subseteq Procs
  BY <1>1, Spends, Reports, TypesAre DEF StopContains
<1>5. Types'
  BY <1>1, <1>2, <1>3, <1>4, TypesAre, TypesAreNext DEF StopContains
<1>6. Stays(p)
  BY <1>2 DEF Stays, StopContains
<1>7. CallersRest(p)
  BY <1>3 DEF CallersRest, StopContains, Awaited, Closed
<1>8. (Supervised(p) => Supervised(p)') /\ (Finished(p) => Finished(p)')
  BY <1>2 DEF StopContains, Supervised, Finished, Starting, Unkept, Alone, At
<1>9. Holds(p)
  BY <1>1, <1>8 DEF Holds, Placed, Registered, LetGo, Kept, Supervised, Finished, StopContains, Unkept
<1> QED
  BY <1>5, <1>6, <1>7, <1>9, EndMoves

LEMMA StopReturnsSteps ==
  ASSUME SupervisorInv, NEW p \in Procs, StopReturns(p)
  PROVE  Step(p)
<1>1. Types /\ Registered(p)
  BY DEF SupervisorInv, StopReturns, Named
<1>2. stop' = [at |-> "idle", p |-> NoProc] /\ stop' \in Stops
  BY DEF StopReturns, StopIdle, Stops
<1>3. stopped' \subseteq Procs /\ stopped' \subseteq stopped \cup {p} /\ (handle[p].result = "ok" \/ stopped' = stopped)
  BY <1>1, TypesAre DEF StopReturns
<1>4. Types'
  BY <1>1, <1>2, <1>3, TypesAre, TypesAreNext DEF StopReturns
<1>5. Stays(p) /\ CallersRest(p)
  BY <1>2, <1>3 DEF Stays, CallersRest, StopReturns, Awaited, Closed
<1>6. (Supervised(p) <=> Supervised(p)') /\ (Finished(p) <=> Finished(p)')
  BY DEF StopReturns, Supervised, Finished, Starting, Unkept, Alone, At
<1>7. handle[p].result = "ok" => Finished(p)
  BY <1>1 DEF Registered, Supervised
<1>8. Holds(p)
  BY <1>1, <1>3, <1>6, <1>7 DEF Holds, Placed, Registered, LetGo, Kept, Supervised, Finished, StopReturns, Unkept
<1> QED
  BY <1>4, <1>5, <1>8, EndMoves

-----------------------------------------------------------------------------
(* recoverFaulted *)

LEMMA RecoverFaultedSteps ==
  ASSUME SupervisorInv, NEW p \in Procs, NEW who \in {"stop", "shutdown"}, NEW ok \in BOOLEAN, NEW stuck \in BOOLEAN,
         RecoverFaulted(p, who, ok, stuck)
  PROVE  Step(p)
<1>1. Types /\ Kept(p) /\ own[p].by = Nobody /\ own[p] \in Owns /\ (who = "shutdown" => Closed)
  BY TypesAre DEF SupervisorInv, RecoverFaulted, Recovers, Named, Closed
<1>2. /\ handle' \in [Procs -> HandleRecords] /\ os' \in [Procs -> Groups]
      /\ faults' \in 0 .. MaxFaults /\ recovery' \subseteq Procs
      /\ \A q \in Procs \ {p} : handle'[q] = handle[q] /\ os'[q] = os[q]
      /\ Unregistered(p)'
      /\ os'[p] = "dead" \/ os'[p] = os[p]
      /\ ok => Still(p)'
  <2>1. CASE own[p].kind = "handle"
    <3>1. Cleanup(p, ok, stuck)
      BY <2>1 DEF RecoverFaulted
    <3> QED BY <1>1, <3>1, CleanedUp DEF Kept, Unregistered, Still
  <2>2. CASE own[p].kind # "handle"
    <3>1. UNCHANGED <<os, handle, recovery, faults>>
      BY <2>2 DEF RecoverFaulted
    <3>2. own[p].kind = "record"
      BY <1>1, <2>2 DEF Owns, Kept
    <3> QED BY <1>1, <3>1, <3>2, TypesAre DEF Kept, Unregistered, Still
  <2> QED BY <2>1, <2>2
<1>3. /\ own' \in [Procs -> Owns] /\ \A q \in Procs \ {p} : own'[q] = own[q]
      /\ own'[p].kind = own[p].kind
      /\ IF ok THEN own'[p].by = who ELSE own'[p].by = Nobody
  <2>1. CASE ok
    <3> DEFINE o == [own[p] EXCEPT !.by = who, !.tries = 0]
    <3>1. own' = [own EXCEPT ![p] = o]
      BY <2>1 DEF RecoverFaulted
    <3>2. o \in Owns /\ o.by = who /\ o.kind = own[p].kind
      <4>1. 0 \in 0 .. TerminalRetries - 1
        BY SupervisorAssumption
      <4>2. own[p] \in Owns /\ who \in {Nobody, "stop", "shutdown"}
        BY <1>1
      <4>3. o = [own[p] EXCEPT !.by = who, !.tries = 0]
        OBVIOUS
      <4> HIDE DEF o
      <4> QED BY <4>1, <4>2, <4>3 DEF Owns
    <3> HIDE DEF o
    <3> QED BY <1>1, <2>1, <3>1, <3>2, TypesAre
  <2>2. CASE ~ ok
    BY <1>1, <2>2, TypesAre DEF RecoverFaulted
  <2> QED BY <2>1, <2>2
<1>4. CallersRest(p) /\ start' = start /\ stop' \in Stops /\ shutdown' \in Shutdowns
  <2>1. CASE ok
    BY <1>1, <2>1, TypesAre DEF CallersRest, RecoverFaulted, Awaited, Closed
  <2>2. CASE ~ ok
    <3>1. GivesUp(who) /\ who \in Finishers /\ who # "start"
      BY <2>2 DEF RecoverFaulted, Finishers
    <3> QED BY <1>1, <3>1, GivenUp DEF RecoverFaulted, GivesUp
  <2> QED BY <2>1, <2>2
<1>5. Types'
  BY <1>1, <1>2, <1>3, <1>4, TypesAre, TypesAreNext DEF RecoverFaulted
<1>6. Stays(p)
  BY <1>2, <1>3 DEF Stays, RecoverFaulted
<1>7. Kept(p)'
  BY <1>1, <1>2, <1>3, <1>4 DEF RecoverFaulted, Kept, Starting, Still, Nobody
<1>8. Holds(p)
  BY <1>1, <1>3, <1>7 DEF Holds, Placed, Registered, LetGo, Kept, Supervised, Finished, RecoverFaulted, Unkept, Nobody
<1> QED
  BY <1>4, <1>5, <1>6, <1>8, EndMoves

LEMMA RecoverEndSteps ==
  ASSUME SupervisorInv, NEW p \in Procs, NEW ok \in BOOLEAN, RecoverEnd(p, ok)
  PROVE  Step(p)
<1> DEFINE who == own[p].by
           over == ok \/ own[p].tries + 1 = TerminalRetries
<1>1. Types /\ Placed(p) /\ Named(p) /\ own[p] \in Owns /\ who # Nobody /\ who \in {"stop", "shutdown"}
  BY TypesAre DEF SupervisorInv, RecoverEnd, Owns
<1>2. Kept(p) /\ Still(p)
  BY <1>1 DEF Placed, Unborn, InStart, Supervised, Finished, Refused, Kept, Alone, Unkept
<1>3. /\ record' \in [Procs -> Records] /\ faults' \in 0 .. MaxFaults
      /\ \A q \in Procs \ {p} : record'[q] = record[q]
      /\ record[p].saved => record'[p].saved
      /\ ok => record'[p].saved
      /\ \/ record'[p].state = "refused"
         \/ record'[p] = record[p]
  BY <1>1, EndMarked DEF RecoverEnd, Ends
<1>4. recovery' \subseteq Procs
  BY <1>1, Reports, TypesAre DEF RecoverEnd
<1>5. /\ own' \in [Procs -> Owns] /\ \A q \in Procs \ {p} : own'[q] = own[q]
      /\ own'[p].kind = own[p].kind /\ own'[p].by \in {Nobody, own[p].by}
  <2> DEFINE o == [own[p] EXCEPT !.by = IF over THEN Nobody ELSE own[p].by,
                                 !.tries = IF over THEN 0 ELSE own[p].tries + 1]
  <2>1. own' = [own EXCEPT ![p] = o]
    BY DEF RecoverEnd
  <2>2. o \in Owns /\ o.kind = own[p].kind /\ o.by \in {Nobody, own[p].by}
    <3>1. CASE over
      <4>1. 0 \in 0 .. TerminalRetries - 1
        BY SupervisorAssumption
      <4>2. o = [own[p] EXCEPT !.by = Nobody, !.tries = 0]
        BY <3>1
      <4> HIDE DEF o
      <4> QED BY <1>1, <4>1, <4>2 DEF Owns
    <3>2. CASE ~ over
      <4>1. own[p].tries + 1 \in 0 .. TerminalRetries - 1
        BY <1>1, <3>2, SupervisorAssumption DEF Owns
      <4>2. o = [own[p] EXCEPT !.by = own[p].by, !.tries = own[p].tries + 1]
        BY <3>2
      <4>3. own[p].by \in {Nobody, "stop", "shutdown"}
        BY <1>1
      <4>4. own[p] \in Owns
        BY <1>1
      <4> DEFINE tries == own[p].tries + 1
                 by == own[p].by
      <4>5. tries \in 0 .. TerminalRetries - 1 /\ by \in {Nobody, "stop", "shutdown"}
            /\ o = [own[p] EXCEPT !.by = by, !.tries = tries]
        BY <4>1, <4>2, <4>3
      <4> HIDE DEF o, tries, by
      <4>6. o \in Owns /\ o.by = by /\ o.kind = own[p].kind
        BY <4>4, <4>5 DEF Owns
      <4> QED BY <4>6 DEF by
    <3> QED BY <3>1, <3>2
  <2> HIDE DEF o
  <2> QED BY <1>1, <2>1, <2>2, TypesAre
<1>6. faulted' \subseteq faulted /\ \A q \in Procs \ {p} : (q \in faulted' <=> q \in faulted)
  BY DEF RecoverEnd
<1>7. (p \in faulted' <=> p \in faulted /\ ~ ok)
  BY DEF RecoverEnd
<1>8. stopped' \subseteq Procs /\ stopped' \subseteq stopped \cup {p} /\ (p \in stopped' => ok \/ p \in stopped)
  BY <1>1, TypesAre DEF RecoverEnd
<1>9. CallersRest(p) /\ start' = start /\ stop' \in Stops /\ shutdown' \in Shutdowns
  <2>1. CASE ok
    <3>1. start' = start /\ (stop' = stop \/ stop' = [at |-> "idle", p |-> NoProc])
      BY <2>1 DEF RecoverEnd
    <3>2. shutdown' = shutdown \/ shutdown' = [shutdown EXCEPT !.left = shutdown.left \ {p}]
      BY <2>1 DEF RecoverEnd
    <3>3. /\ shutdown' \in Shutdowns /\ shutdown'.at = shutdown.at /\ shutdown'.left \subseteq shutdown.left
          /\ shutdown'.tosignal = shutdown.tosignal /\ shutdown'.toawait = shutdown.toawait
          /\ shutdown'.contained = shutdown.contained
      BY <1>1, <3>2, TypesAre DEF Shutdowns
    <3> QED BY <1>1, <1>6, <1>8, <3>1, <3>3, TypesAre DEF CallersRest, RecoverEnd, Awaited, Closed, Stops
  <2>2. CASE ~ ok /\ over
    <3>1. GivesUp(who) /\ who \in Finishers /\ who # "start" /\ (who = "shutdown" => Closed)
      BY <1>1, <2>2 DEF RecoverEnd, Finishers, Named
    <3>2. UNCHANGED <<handles, faulted, stopped>>
      BY <2>2 DEF RecoverEnd
    <3> HIDE DEF who
    <3>3. start' = start
      BY <3>1 DEF GivesUp
    <3> QED BY <1>1, <3>1, <3>2, <3>3, GivenUp
  <2>3. CASE ~ over
    <3>1. UNCHANGED <<start, stop, shutdown, handles, faulted, stopped>>
      BY <2>3 DEF RecoverEnd
    <3> QED BY <1>1, <3>1, TypesAre DEF CallersRest, Awaited, Closed
  <2> QED BY <2>1, <2>2, <2>3
<1>10. Types'
  <2> HIDE DEF who, over
  <2> QED BY <1>1, <1>3, <1>4, <1>5, <1>6, <1>8, <1>9, TypesAre, TypesAreNext DEF RecoverEnd
<1>11. Stays(p)
  BY <1>3, <1>5, <1>6 DEF Stays, RecoverEnd
<1>12. Kept(p)'
  BY <1>1, <1>2, <1>3, <1>5, <1>7, <1>9 DEF RecoverEnd, Kept, Starting, Still, Unregistered
<1>13. Holds(p)
  <2>1. p \in stopped' => p \in stopped \/ LetGo(p)'
    BY <1>7, <1>8, <1>12 DEF LetGo
  <2>2. ~ Supervised(p) /\ ~ Finished(p)
    BY <1>2 DEF Kept, Supervised, Finished, Unkept
  <2> QED BY <1>1, <1>2, <1>5, <1>7, <1>12, <2>1, <2>2 DEF Holds, Placed, Registered, LetGo, Nobody
<1> QED
  BY <1>9, <1>10, <1>11, <1>13, EndMoves

-----------------------------------------------------------------------------
(* Shutdown *)

(* The processes stay where they are when only Shutdown goes on.            *)
LEMMA PlacesStay ==
  ASSUME NEW p \in Procs, UNCHANGED <<start, os, handle, handles, faulted, own, finish, record>>
  PROVE  /\ (Placed(p) <=> Placed(p)') /\ (Registered(p) <=> Registered(p)')
         /\ (Kept(p) <=> Kept(p)') /\ (LetGo(p) <=> LetGo(p)')
         /\ (Starting(p) <=> Starting(p)') /\ (At("recover") <=> At("recover")')
<1>1. (Unborn(p) <=> Unborn(p)') /\ (InStart(p) <=> InStart(p)')
  BY DEF Unborn, InStart, Starting, Unkept, Alone, Unregistered, Still, At
<1>2. (Supervised(p) <=> Supervised(p)') /\ (Finished(p) <=> Finished(p)')
  BY DEF Supervised, Finished, Starting, Unkept, Alone, At
<1>3. (Refused(p) <=> Refused(p)') /\ (Kept(p) <=> Kept(p)')
  BY DEF Refused, Kept, Starting, Unkept, Alone, Unregistered, Still
<1>4. (Starting(p) <=> Starting(p)') /\ (At("recover") <=> At("recover")')
  BY DEF Starting, At
<1> QED
  BY <1>1, <1>2, <1>3, <1>4 DEF Placed, Registered, LetGo

(* Shutdown names what it finds retained and what it finds registered.      *)
LEMMA ShutdownNames ==
  ASSUME SupervisorInv, shutdown' \in Shutdowns,
         UNCHANGED <<start, os, handle, handles, faulted, own, finish, stop, stopped, record, recovery, faults>>,
         shutdown'.left \subseteq shutdown.left \cup faulted, Awaited' \subseteq Awaited \cup handles,
         shutdown'.at # "idle", Closed \/ start.at = "idle",
         shutdown'.at = "complete" => handles = {} /\ faulted = {}
  PROVE  SupervisorInv'
<1>1. Types'
  BY TypesAre, TypesAreNext DEF SupervisorInv
<1>2. Callers' /\ Bounded'
  BY DEF SupervisorInv, Callers, Closed, Bounded, Counted, Owned, Starting
<1>3. ASSUME NEW p \in Procs PROVE Placed(p)' /\ Named(p)'
  <2>1. Placed(p) /\ Named(p)
    BY DEF SupervisorInv
  <2>2. p \in faulted => Kept(p)
    BY <2>1 DEF Placed, Unborn, InStart, Supervised, Finished, Refused, Unkept
  <2>3. p \in handles => Registered(p)
    BY <2>1 DEF Placed, Unborn, InStart, Finished, Refused, Kept, Registered
  <2> QED
    BY <2>1, <2>2, <2>3, PlacesStay DEF Named, Closed
<1> QED
  BY <1>1, <1>2, <1>3 DEF SupervisorInv

LEMMA FailedShutdown ==
  LET s == [IdleShutdown EXCEPT !.at = "failed"]
  IN  s \in Shutdowns /\ s.at = "failed" /\ s.left = {} /\ s.tosignal = {} /\ s.toawait = {} /\ s.contained = {}
BY DEF IdleShutdown, Shutdowns

LEMMA ShutdownBeginsSteps == SupervisorInv /\ ShutdownBegins => SupervisorInv'
<1> SUFFICES ASSUME SupervisorInv, ShutdownBegins PROVE SupervisorInv'
  OBVIOUS
<1>1. shutdown' = [at |-> "faulted", left |-> faulted, tosignal |-> handles, toawait |-> handles, contained |-> {}]
  BY DEF ShutdownBegins
<1>2. shutdown' \in Shutdowns
  BY <1>1, TypesAre DEF Shutdowns, SupervisorInv
<1> QED
  BY <1>1, <1>2, ShutdownNames DEF ShutdownBegins, Awaited, At

LEMMA ShutdownGoesOnSteps == SupervisorInv /\ ShutdownGoesOn => SupervisorInv'
<1> SUFFICES ASSUME SupervisorInv, ShutdownGoesOn PROVE SupervisorInv'
  OBVIOUS
<1>0. Types /\ Callers
  BY DEF SupervisorInv
<1>1. CASE \/ shutdown.at = "faulted" /\ shutdown' = [shutdown EXCEPT !.at = "signal"]
           \/ shutdown.at = "signal" /\ shutdown' = [shutdown EXCEPT !.at = "await"]
  <2>1. /\ shutdown' \in Shutdowns /\ shutdown'.at \in {"signal", "await"} /\ shutdown'.left = shutdown.left
        /\ shutdown'.tosignal = shutdown.tosignal /\ shutdown'.toawait = shutdown.toawait
        /\ shutdown'.contained = shutdown.contained /\ Closed
    BY <1>0, <1>1, TypesAre DEF Shutdowns, Closed
  <2> QED
    BY <2>1, ShutdownNames DEF ShutdownGoesOn, Awaited
<1>2. CASE /\ shutdown.at = "await"
           /\ shutdown' = [IdleShutdown EXCEPT !.at = IF handles = {} /\ faulted = {} THEN "complete" ELSE "failed"]
  <2>1. /\ shutdown' \in Shutdowns /\ shutdown'.left = {}
        /\ shutdown'.tosignal = {} /\ shutdown'.toawait = {} /\ shutdown'.contained = {} /\ Closed
        /\ shutdown'.at = IF handles = {} /\ faulted = {} THEN "complete" ELSE "failed"
    BY <1>2 DEF Shutdowns, Closed, IdleShutdown
  <2> QED
    BY <2>1, ShutdownNames DEF ShutdownGoesOn, Awaited
<1> QED
  BY <1>1, <1>2 DEF ShutdownGoesOn

LEMMA ShutdownSignalsSteps ==
  ASSUME SupervisorInv, NEW p \in Procs, ShutdownSignals(p)
  PROVE  Step(p)
<1>1. Types /\ Registered(p) /\ handle[p] \in HandleRecords /\ Placed(p) /\ Closed
  BY HandleAt DEF SupervisorInv, ShutdownSignals, Named, Awaited, Closed
<1>2. CallersRest(p) /\ shutdown' \in Shutdowns
  <2>1. \/ shutdown' = [shutdown EXCEPT !.tosignal = shutdown.tosignal \ {p}]
        \/ shutdown' = [IdleShutdown EXCEPT !.at = "failed"]
    BY DEF ShutdownSignals
  <2>2. CASE shutdown' = [shutdown EXCEPT !.tosignal = shutdown.tosignal \ {p}]
    <3>1. /\ shutdown' \in Shutdowns /\ shutdown'.at = shutdown.at /\ shutdown'.left = shutdown.left
          /\ shutdown'.tosignal = shutdown.tosignal \ {p} /\ shutdown'.toawait = shutdown.toawait
          /\ shutdown'.contained = shutdown.contained
      BY <1>1, <2>2, TypesAre DEF Shutdowns
    <3> QED BY <3>1 DEF CallersRest, ShutdownSignals, Awaited, Closed
  <2>3. CASE shutdown' = [IdleShutdown EXCEPT !.at = "failed"]
    BY <1>1, <2>3, FailedShutdown DEF CallersRest, ShutdownSignals, Awaited, Closed
  <2> QED BY <2>1, <2>2, <2>3
<1>3. Stays(p) /\ Holds(p) /\ handle' \in [Procs -> HandleRecords]
  <2>1. CASE Waited(p)
    <3>1. handle' = handle
      BY <2>1 DEF ShutdownSignals
    <3> QED BY <1>1, <3>1, PlacesStay, TypesAre DEF ShutdownSignals, Stays, Holds
  <2>2. CASE ~ Waited(p)
    <3> DEFINE h == FirstCause(handle[p], "interrupted")
    <3>1. /\ h \in HandleRecords /\ h.waiter = handle[p].waiter /\ h.gate = handle[p].gate
          /\ h.registered = handle[p].registered /\ h.timed = handle[p].timed /\ h.result = handle[p].result
      BY <1>1, CauseNoted DEF Causes
    <3>2. handle' = [handle EXCEPT ![p] = h]
      BY <2>2 DEF ShutdownSignals
    <3> HIDE DEF h
    <3>3. handle[p].waiter \in {"waiting", "observed"}
      BY <1>1, <2>2, FinishedHandle DEF Registered, Supervised, Finished, Waited, HandleRecords
    <3> QED BY <3>1, <3>2, <3>3, HandleMoves DEF ShutdownSignals
  <2> QED BY <2>1, <2>2
<1>4. Types'
  BY <1>1, <1>2, <1>3, TypesAre, TypesAreNext DEF ShutdownSignals
<1> QED
  BY <1>2, <1>3, <1>4, EndMoves

LEMMA ShutdownContainsSteps ==
  ASSUME SupervisorInv, NEW p \in Procs, NEW ok \in BOOLEAN, ShutdownContains(p, ok)
  PROVE  Step(p)
<1>1. Types /\ Registered(p) /\ Closed
  BY DEF SupervisorInv, ShutdownContains, Named, Awaited, Closed
<1>2. /\ os' \in [Procs -> Groups] /\ \A q \in Procs \ {p} : os'[q] = os[q]
      /\ os'[p] = "dead" \/ os'[p] = os[p]
  BY <1>1, Contained DEF ShutdownContains
<1>3. CallersRest(p) /\ shutdown' \in Shutdowns
  <2>1. \/ shutdown' = [shutdown EXCEPT !.contained = shutdown.contained \cup {p}]
        \/ shutdown' = [IdleShutdown EXCEPT !.at = "failed"]
    BY DEF ShutdownContains
  <2>2. CASE shutdown' = [shutdown EXCEPT !.contained = shutdown.contained \cup {p}]
    <3>1. /\ shutdown' \in Shutdowns /\ shutdown'.at = shutdown.at /\ shutdown'.left = shutdown.left
          /\ shutdown'.tosignal = shutdown.tosignal /\ shutdown'.toawait = shutdown.toawait
          /\ shutdown'.contained = shutdown.contained \cup {p}
      BY <1>1, <2>2, TypesAre DEF Shutdowns
    <3>2. p \in shutdown.toawait
      BY DEF ShutdownContains
    <3> QED BY <3>1, <3>2 DEF CallersRest, ShutdownContains, Awaited, Closed
  <2>3. CASE shutdown' = [IdleShutdown EXCEPT !.at = "failed"]
    BY <1>1, <2>3, FailedShutdown DEF CallersRest, ShutdownContains, Awaited, Closed
  <2> QED BY <2>1, <2>2, <2>3
<1>4. faults' \in 0 .. MaxFaults /\ recovery' \subseteq Procs
  BY <1>1, Spends, Reports, TypesAre DEF ShutdownContains
<1>5. Types'
  BY <1>1, <1>2, <1>3, <1>4, TypesAre, TypesAreNext DEF ShutdownContains
<1>6. Stays(p)
  BY <1>2 DEF Stays, ShutdownContains
<1>7. (Supervised(p) => Supervised(p)') /\ (Finished(p) => Finished(p)')
  BY <1>2 DEF ShutdownContains, Supervised, Finished, Starting, Unkept, Alone, At
<1>8. Holds(p)
  BY <1>1, <1>7 DEF Holds, Placed, Registered, LetGo, Kept, Supervised, Finished, ShutdownContains, Unkept
<1> QED
  BY <1>3, <1>5, <1>6, <1>8, EndMoves

LEMMA ShutdownAwaitsSteps ==
  ASSUME SupervisorInv, NEW p \in Procs, ShutdownAwaits(p)
  PROVE  SupervisorInv'
<1>1. Types /\ Closed
  BY DEF SupervisorInv, ShutdownAwaits, Closed
<1>2. CASE shutdown' = [shutdown EXCEPT !.toawait = shutdown.toawait \ {p}]
  <2>1. /\ shutdown' \in Shutdowns /\ shutdown'.at = "await" /\ shutdown'.left = shutdown.left
        /\ shutdown'.tosignal = shutdown.tosignal /\ shutdown'.toawait = shutdown.toawait \ {p}
        /\ shutdown'.contained = shutdown.contained
    BY <1>1, <1>2, TypesAre DEF Shutdowns, ShutdownAwaits
  <2> QED BY <1>1, <2>1, ShutdownNames DEF ShutdownAwaits, Awaited
<1>3. CASE shutdown' = [IdleShutdown EXCEPT !.at = "failed"]
  BY <1>1, <1>3, FailedShutdown, ShutdownNames DEF ShutdownAwaits, Awaited
<1> QED
  BY <1>2, <1>3 DEF ShutdownAwaits

-----------------------------------------------------------------------------
LEMMA SupervisorInvInit == Init => SupervisorInv
<1> SUFFICES ASSUME Init PROVE SupervisorInv
  OBVIOUS
<1> USE SupervisorAssumption
<1>1. Types
  <2>1. start \in Starts
    BY IdleStart DEF Init
  <2>2. NewHandle \in HandleRecords
    BY DEF NewHandle, HandleRecords
  <2>3. handle \in [Procs -> HandleRecords]
    BY <2>2 DEF Init
  <2>4. own \in [Procs -> Owns] /\ finish \in [Procs -> Finishes] /\ record \in [Procs -> Records] /\ os \in [Procs -> Groups]
    BY DEF Init, Owns, Finishes, NoFinish, Ends, Records, Groups
  <2>5. stop \in Stops /\ shutdown \in Shutdowns
    BY DEF Init, Stops, Shutdowns, IdleShutdown
  <2> QED BY <2>1, <2>3, <2>4, <2>5 DEF Init, Types
<1>2. ASSUME NEW p \in Procs PROVE Placed(p) /\ Named(p)
  <2>1. Unborn(p)
    BY DEF Init, Unborn, Starting, Idle, Unkept, Alone, NoFinish
  <2> QED BY <2>1 DEF Init, Placed, Named, Starting, Idle, IdleShutdown, Awaited, Nobody
<1>3. Callers
  BY DEF Init, Callers, Idle, IdleShutdown, Closed
<1>4. Bounded
  <2>1. Counted = {}
    BY DEF Init, Counted, Owned, Starting, Idle
  <2> QED BY <2>1, FS_EmptySet DEF Bounded
<1> QED
  BY <1>1, <1>2, <1>3, <1>4 DEF SupervisorInv

LEMMA StepKeeps ==
  ASSUME SupervisorInv, NEW p \in Procs, Step(p)
  PROVE  SupervisorInv'
BY MovesAll DEF Step, SupervisorInv

LEMMA SupervisorInvStep == SupervisorInv /\ [Next]_vars => SupervisorInv'
<1> SUFFICES ASSUME SupervisorInv, [Next]_vars PROVE SupervisorInv'
  OBVIOUS
<1>1. CASE UNCHANGED vars
  <2>1. ASSUME NEW p \in Procs PROVE Placed(p)' /\ Named(p)'
    BY <1>1, PlacesStay DEF SupervisorInv, Named, Awaited, Closed, vars
  <2>2. Types' /\ Callers' /\ Bounded'
    BY <1>1 DEF SupervisorInv, Types, Callers, Closed, Bounded, Counted, Owned, Starting, vars
  <2> QED BY <2>1, <2>2 DEF SupervisorInv
<1>2. CASE ShutdownBegins \/ ShutdownGoesOn
  BY <1>2, ShutdownBeginsSteps, ShutdownGoesOnSteps
<1>3. ASSUME NEW p \in Procs, NEW ok \in BOOLEAN, Admit(p, ok)
      PROVE  SupervisorInv'
  BY <1>3, AdmitSteps DEF SupervisorInv
<1>4. ASSUME NEW p \in Procs,
             \/ \E ok \in BOOLEAN : Lifetime(p, ok) \/ LogWriteFails(p, ok)
             \/ \E rest \in {"left", "dead"} : Exit(p, rest)
             \/ Acknowledge(p) \/ StopWithCause(p)
      PROVE  SupervisorInv'
  BY <1>4, LifetimeSteps, ExitSteps, AcknowledgeSteps, StopWithCauseSteps, StepKeeps
<1>5. ASSUME NEW p \in Procs, StartStep(p)
      PROVE  SupervisorInv'
  BY <1>5, LaunchSteps, LaunchFailsSteps, LaunchEscapesSteps, MarkRunningSteps, RefuseSteps, RegisterSteps,
     EarlyLogFailsSteps, RollbackSpawnSteps, StartReturnsSteps, StepKeeps DEF StartStep
<1>6. ASSUME NEW p \in Procs, EndStep(p)
      PROVE  SupervisorInv'
  BY <1>6, WaitReturnsSteps, WaiterLeavesSteps, FinalizeSteps, FinalizeFailsSteps, FinishSteps, StepKeeps DEF EndStep
<1>7. ASSUME NEW p \in Procs, StopStep(p)
      PROVE  SupervisorInv'
  BY <1>7, StopReturnsSteps, StopContainsSteps, RecoverEndSteps, RecoverFaultedSteps, StepKeeps DEF StopStep
<1>8. ASSUME NEW p \in Procs, ShutdownStep(p)
      PROVE  SupervisorInv'
  BY <1>8, ShutdownSignalsSteps, ShutdownAwaitsSteps, ShutdownContainsSteps, StepKeeps DEF ShutdownStep
<1> QED
  BY <1>1, <1>2, <1>3, <1>4, <1>5, <1>6, <1>7, <1>8 DEF Next

(* Every state the supervisor of process_supervisor.go reaches, whoever     *)
(* starts, ends, stops and shuts down: each process is in one of its        *)
(* places, the calls in progress name only processes that are where those   *)
(* calls can handle them, and the limit holds.                              *)
THEOREM SupervisorIsInPlace == Spec => []SupervisorInv
<1> QED
  BY SupervisorInvInit, SupervisorInvStep, PTL DEF Spec

(* The state of the supervisor has its types.                               *)
THEOREM SupervisorTypeCorrect == Spec => []TypeOK
<1>1. SupervisorInv => TypeOK
  <2> SUFFICES ASSUME SupervisorInv PROVE TypeOK
    OBVIOUS
  <2>1. 0 .. TerminalRetries - 1 \subseteq 0 .. TerminalRetries
    BY SupervisorAssumption
  <2>2. Types
    BY DEF SupervisorInv
  <2>3. /\ start \in [at : {"idle", "open", "mark", "register", "rollback", "refuse", "recover"},
                      p : Procs \cup {NoProc}, tries : 0 .. TerminalRetries]
    BY <2>1, <2>2 DEF Types, Starts
  <2>4. own \in [Procs -> [kind : {"none", "record", "handle"}, by : {Nobody, "stop", "shutdown"},
                           tries : 0 .. TerminalRetries]]
    BY <2>1, <2>2 DEF Types, Owns
  <2>5. finish \in [Procs -> [by : Finishers \cup {Nobody}, end : Ends, tries : 0 .. TerminalRetries]]
    BY <2>1, <2>2 DEF Types, Finishes
  <2> QED
    BY <2>2, <2>3, <2>4, <2>5 DEF TypeOK, Types, Groups, HandleRecords, Stops, Shutdowns, Records
<1> QED
  BY <1>1, SupervisorIsInPlace, PTL

LEMMA LiveAreCounted ==
  ASSUME SupervisorInv, NEW p \in Procs, Alive(p)
  PROVE  Counts(p) /\ (p = start.p \/ p \in handles \/ (p \in faulted /\ own[p].kind = "handle"))
<1>1. Placed(p) /\ Types /\ own[p] \in Owns
  BY TypesAre DEF SupervisorInv
<1>2. ~ Unborn(p) /\ ~ Finished(p) /\ ~ Refused(p)
  BY DEF Alive, Unborn, Finished, Refused, Still
<1>3. Supervised(p) => p \in handles
  BY DEF Supervised
<1>4. Kept(p) => p \in faulted /\ own[p].kind = "handle"
  BY <1>1 DEF Kept, Alive, Still, Owns
<1>5. InStart(p) => Starting(p) /\ start.at \in {"open", "mark", "register", "rollback"}
  BY DEF InStart, Alive, Still, At
<1> QED
  BY <1>1, <1>2, <1>3, <1>4, <1>5 DEF Placed, Counts, Starting

(* Whoever starts, ends, stops and shuts down at once, and whatever fails:  *)
(* what still runs has an owner that can end it and counts against the      *)
(* project's limit, a Stop or a Shutdown that returned success left nothing *)
(* running and every end saved, and no process gets two ends                *)
(* (process_supervisor.go, process_supervisor_finish.go).                   *)
THEOREM SupervisorAccountsForProcesses == Spec => []ProcessesAreAccountedFor
<1>1. SupervisorInv => ProcessesAreAccountedFor
  <2> SUFFICES ASSUME SupervisorInv PROVE ProcessesAreAccountedFor
    OBVIOUS
  <2>0. Types /\ Callers /\ Bounded /\ \A p \in Procs : Placed(p) /\ Named(p)
    BY DEF SupervisorInv
  <2>1. LiveProcessesAreOwned
    BY LiveAreCounted DEF LiveProcessesAreOwned
  <2>2. LimitHolds
    <3>1. {p \in Procs : Alive(p)} \subseteq Counted
      BY <2>0, LiveAreCounted, CountedAre
    <3>2. Counted \subseteq Procs
      BY <2>0, CountedAre
    <3>3. IsFiniteSet(Counted) /\ IsFiniteSet({p \in Procs : Alive(p)})
      BY <3>1, <3>2, SupervisorAssumption, FS_Subset
    <3>4. Cardinality({p \in Procs : Alive(p)}) <= Cardinality(Counted)
      BY <3>1, <3>3, FS_Subset
    <3> QED
      BY <2>0, <3>3, <3>4, FS_CardinalityType, SupervisorAssumption DEF LimitHolds, Bounded
  <2>3. StopTellsTheTruth
    <3> SUFFICES ASSUME NEW p \in stopped PROVE ~ Alive(p) /\ record[p].saved /\ p \notin handles \cup faulted
      BY DEF StopTellsTheTruth
    <3>1. p \in Procs /\ LetGo(p)
      BY <2>0 DEF Types, Named
    <3> QED BY <3>1 DEF LetGo, Finished, Kept, Alive, Still, Unkept
  <2>4. ShutdownLeavesNothing
    <3> SUFFICES ASSUME shutdown.at = "complete"
                 PROVE  start.at = "idle" /\ \A p \in Procs : ~ Alive(p) /\ (os[p] # "none" => record[p].saved)
      BY DEF ShutdownLeavesNothing
    <3>1. start.at = "idle" /\ handles = {} /\ faulted = {}
      BY <2>0 DEF Callers, Closed
    <3>2. ASSUME NEW p \in Procs PROVE ~ Alive(p) /\ (os[p] # "none" => record[p].saved)
      BY <2>0, <3>1 DEF Placed, Unborn, InStart, Starting, Supervised, Finished, Refused, Kept, Alive, Still
    <3> QED BY <3>1, <3>2
  <2>5. OneEndPerProcess
    <3> SUFFICES ASSUME NEW p \in Procs, record[p].state \in Ends
                 PROVE  /\ finish[p].by # Nobody => finish[p].end = record[p].state
                        /\ At("refuse") /\ start.p = p => record[p].state = "refused"
                        /\ own[p].by # Nobody => record[p].state = "refused"
      BY DEF OneEndPerProcess
    <3>1. finish[p].by # Nobody => Supervised(p)
      BY <2>0 DEF Placed, Unborn, InStart, Finished, Refused, Kept, Alone
    <3>2. At("refuse") /\ start.p = p => InStart(p)
      BY <2>0 DEF Placed, Unborn, Starting, Supervised, Finished, Refused, Kept, At
    <3>3. own[p].by # Nobody => Kept(p)
      BY <2>0 DEF Placed, Unborn, InStart, Supervised, Finished, Refused, Alone, Unkept
    <3> QED BY <3>1, <3>2, <3>3 DEF Supervised, InStart, Kept, Ends, At
  <2> QED
    BY <2>1, <2>2, <2>3, <2>4, <2>5 DEF ProcessesAreAccountedFor
<1> QED
  BY <1>1, SupervisorIsInPlace, PTL


=============================================================================
