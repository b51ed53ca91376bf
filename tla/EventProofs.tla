----------------------------- MODULE EventProofs -----------------------------
(***************************************************************************)
(* What is proved of the events of the runs and of those who follow them:  *)
(* the ledgers of runs and their streams (RunLedger), the hook that looks  *)
(* at the events of a project when nothing runs (IdleHook), the page a     *)
(* user watches an agent on (Page), and the log of session events that is  *)
(* an agent's conversation (Conversation), each for any number of runs,    *)
(* clients, events, workers, agents and messages.                          *)
(*                                                                         *)
(* What the invariants add to the properties.  A handler observes a ledger *)
(* only while it streams, it streams a ledger that exists, and what it     *)
(* still has to write follows what it has written.  A run that succeeded   *)
(* was executed, and what a worker serves is in the table as running or    *)
(* was taken out of it.  What the page shows is right, or something is     *)
(* under way that will put it right: an event of the stream, a probe of    *)
(* the active run, an answer, or a message that is being sent.             *)
(* The log of a conversation replays to numbers in order and to a summary  *)
(* that was made from all it covers; a checkpoint that is claimed is of the session   *)
(* as it is.                                                               *)
(***************************************************************************)
EXTENDS RunLedger, IdleHook, Page, Conversation, SequenceTheorems, FiniteSetTheorems,
        WellFoundedInduction, NaturalsInduction, TLAPS

-----------------------------------------------------------------------------
(* Numbers.                                                                 *)

LEMMA LeastNumber ==
  ASSUME NEW T, T \subseteq Nat, T # {}
  PROVE  \E n \in T : \A m \in T : n <= m
<1> DEFINE Less == {p \in Nat \X Nat : p[1] < p[2]}
<1>1. OpToRel(<, Nat) = Less
  BY Zenon DEF OpToRel
<1>2. IsWellFoundedOn(Less, Nat)
  BY <1>1, NatLessThanWellFounded, Zenon
<1>3. \A x, y \in Nat : <<x, y>> \in Less <=> x < y
  OBVIOUS
<1> HIDE DEF Less
<1>4. PICK x \in T : \A y \in T : ~ (<<y, x>> \in Less)
  BY <1>2, WFMin
<1>5. \A y \in T : x \in Nat /\ y \in Nat /\ ~(y < x)
  BY <1>3, <1>4
<1> QED BY <1>5

\* What Max is of numbers that have a bound.
LEMMA MaxIsLargest ==
  ASSUME NEW B \in Nat, NEW S \in SUBSET (0 .. B), S # {}
  PROVE  Max(S) \in S /\ \A n \in S : n <= Max(S)
<1> DEFINE T == {B - x : x \in S}
<1>0. \A x \in S : x \in Nat /\ x <= B /\ B - x \in Nat
  OBVIOUS
<1>1. T \subseteq Nat /\ T # {}
  BY <1>0
<1>2. PICK n \in T : \A m \in T : n <= m
  BY <1>1, LeastNumber
<1>3. PICK x \in S : n = B - x
  BY <1>2
<1>4. \A y \in S : x >= y
  <2> TAKE y \in S
  <2>1. B - y \in T
    OBVIOUS
  <2>2. B - x <= B - y
    BY <1>2, <1>3, <2>1
  <2>3. x \in Nat /\ y \in Nat
    BY <1>0
  <2> HIDE DEF T
  <2> QED BY <2>2, <2>3
<1>5. \A y \in S : Max(S) \in S /\ Max(S) >= y
  BY <1>4 DEF Max
<1> QED BY <1>5

-----------------------------------------------------------------------------
(* The ledgers of runs.                                                     *)

LedgerFields == {"next", "floor", "events", "terminal", "late"}
ConnFields == {"pc", "run", "ledger", "after", "at", "replay", "live", "subscribed", "closed"}

LedgersShaped ==
  /\ ledger = [l \in Ledgers |-> ledger[l]]
  /\ \A l \in Ledgers : DOMAIN ledger[l] = LedgerFields

RunsTyped ==
  /\ current \in [Runs -> 0..MaxStarts]
  /\ work \in [Runs -> [active : BOOLEAN, reporting : BOOLEAN, starts : 0..MaxStarts, opened : 0..MaxStarts]]

(* The state of a handler: its pc says which of its other fields mean       *)
(* something.                                                               *)
HandlerIn(k, terminal) ==
  /\ DOMAIN k = ConnFields
  /\ k.pc \in {"off", "asking", "found", "streaming"}
  /\ k.pc = "asking" => k.run \in Runs
  /\ k.pc \in {"found", "streaming"} => k.ledger \in Ledgers
  /\ k.subscribed \in BOOLEAN
  /\ k.pc # "streaming" => ~ k.subscribed
  /\ k.pc = "streaming" =>
       /\ k.closed = (IF k.subscribed THEN 0 ELSE 1)
       /\ terminal # {} => ~ k.subscribed

HandlersShaped ==
  /\ conn = [c \in Clients |-> conn[c]]
  /\ \A c \in Clients : HandlerIn(conn[c], ledger[conn[c].ledger].terminal)

ChannelInv == LedgersShaped /\ RunsTyped /\ HandlersShaped

-----------------------------------------------------------------------------
THEOREM ChannelInvInit == Init => ChannelInv
<1> SUFFICES ASSUME Init PROVE ChannelInv
  OBVIOUS
<1>1. LedgersShaped
  BY DEF Init, LedgersShaped, EmptyLedger, LedgerFields
<1>2. RunsTyped
  BY RunLedgerAssumption DEF Init, RunsTyped
<1>3. HandlersShaped
  BY DEF Init, HandlersShaped, HandlerIn, Off, ConnFields
<1> QED
  BY <1>1, <1>2, <1>3 DEF ChannelInv

-----------------------------------------------------------------------------
(* What trimming does not touch. *)
LEMMA TrimmedKeeps ==
  ASSUME NEW l, DOMAIN l = LedgerFields
  PROVE  DOMAIN Trimmed(l) = LedgerFields /\ Trimmed(l).terminal = l.terminal /\ Trimmed(l).late = l.late
<1> DEFINE n == Kept(l.events)
           Cut == [l EXCEPT !.events = SubSeq(@, Len(@) - n + 1, Len(@)), !.floor = l.next - n]
<1>1. Trimmed(l) = IF n = Len(l.events) THEN l ELSE Cut
  BY DEF Trimmed
<1>2. DOMAIN Cut = LedgerFields /\ Cut.terminal = l.terminal /\ Cut.late = l.late
  <2> HIDE DEF n
  <2> QED BY DEF LedgerFields
<1> HIDE DEF n, Cut
<1> QED BY <1>1, <1>2

(* The step that publishes: an observer of the ledger is detached with its  *)
(* channel closed, or stays and the ledger has no terminal event.           *)
LEMMA PublishKeepsHandlers ==
  ASSUME ChannelInv, NEW l \in Ledgers, NEW size, NEW terminal \in BOOLEAN,
         Publish(l, size, terminal)
  PROVE  LedgersShaped' /\ HandlersShaped'
<1> DEFINE seq == ledger[l].next + 1
           last == [ledger[l] EXCEPT !.next = seq, !.events = Append(@, size),
                                     !.terminal = IF terminal THEN @ \cup {seq} ELSE @]
<1>1. DOMAIN last = LedgerFields
      /\ last.terminal = IF terminal THEN ledger[l].terminal \cup {seq} ELSE ledger[l].terminal
  <2> DOMAIN ledger[l] = LedgerFields
    BY DEF ChannelInv, LedgersShaped
  <2> HIDE DEF seq
  <2> QED BY DEF LedgerFields
<1>2. ledger' = [ledger EXCEPT ![l] = Trimmed(last)]
      /\ conn' = [c \in Clients |-> IF conn[c].ledger = l /\ conn[c].subscribed
                                    THEN Delivered(conn[c], seq, last.terminal # {}) ELSE conn[c]]
  BY DEF Publish
<1> HIDE DEF last
<1>3. DOMAIN Trimmed(last) = LedgerFields /\ Trimmed(last).terminal = last.terminal
  BY <1>1, TrimmedKeeps
<1>4. LedgersShaped'
  BY <1>2, <1>3 DEF ChannelInv, LedgersShaped
<1>5. ASSUME NEW c \in Clients
      PROVE  HandlerIn(conn'[c], ledger'[conn'[c].ledger].terminal)
  <2> DEFINE k == conn[c]
             d == Delivered(k, seq, last.terminal # {})
  <2>1. HandlerIn(k, ledger[k.ledger].terminal)
    BY DEF ChannelInv, HandlersShaped
  <2>2. CASE k.ledger = l /\ k.subscribed
    <3>1. k.pc = "streaming" /\ k.closed = 0 /\ ledger[l].terminal = {}
      BY <2>1, <2>2 DEF HandlerIn
    <3>2. /\ DOMAIN d = ConnFields /\ d.pc = k.pc /\ d.ledger = k.ledger
          /\ d.subscribed = (Len(k.live) # Buffer /\ ~ (last.terminal # {}))
          /\ d.closed = IF Len(k.live) = Buffer \/ last.terminal # {} THEN k.closed + 1 ELSE k.closed
      <4> DOMAIN k = ConnFields
        BY <2>1 DEF HandlerIn
      <4> HIDE DEF k, seq
      <4> QED BY DEF Delivered, ConnFields
    <3>3. conn'[c] = d
      BY <1>2, <2>2
    <3>4. ledger'[l].terminal = last.terminal
      BY <1>2, <1>3 DEF ChannelInv, LedgersShaped
    <3> HIDE DEF d
    <3>5. d.subscribed \in BOOLEAN /\ (last.terminal # {} => ~ d.subscribed)
      BY <3>2
    <3>6. d.closed = IF d.subscribed THEN 0 ELSE 1
      <4>1. CASE Len(k.live) = Buffer \/ last.terminal # {}
        <5>1. ~ d.subscribed /\ d.closed = k.closed + 1
          BY <3>2, <4>1
        <5>2. d.closed = 1
          BY <3>1, <5>1
        <5> QED BY <5>1, <5>2
      <4>2. CASE ~ (Len(k.live) = Buffer \/ last.terminal # {})
        <5>1. d.subscribed /\ d.closed = k.closed
          BY <3>2, <4>2
        <5> QED BY <3>1, <5>1
      <4> QED BY <4>1, <4>2
    <3>7. d.pc = "streaming" /\ d.ledger \in Ledgers
      BY <2>2, <3>1, <3>2
    <3>8. HandlerIn(d, last.terminal)
      BY <3>2, <3>5, <3>6, <3>7 DEF HandlerIn
    <3> QED BY <2>2, <3>2, <3>3, <3>4, <3>8
  <2>3. CASE k.ledger = l /\ ~ k.subscribed
    <3>1. conn'[c] = k
      BY <1>2, <2>3
    <3> QED BY <2>1, <2>3, <3>1 DEF HandlerIn
  <2>4. CASE k.ledger # l
    <3>1. conn'[c] = k /\ ledger'[k.ledger] = ledger[k.ledger]
      BY <1>2, <2>4 DEF ChannelInv, LedgersShaped, HandlersShaped
    <3> QED BY <2>1, <3>1
  <2> QED BY <2>2, <2>3, <2>4
<1>6. conn' = [c \in Clients |-> conn'[c]]
  BY <1>2
<1> QED BY <1>4, <1>5, <1>6 DEF HandlersShaped

-----------------------------------------------------------------------------
(* A step of one handler: the others stay as they are. *)
LEMMA OneHandler ==
  ASSUME ChannelInv, NEW c \in Clients, NEW k, Set(c, k),
         HandlerIn(k, ledger[k.ledger].terminal)
  PROVE  ChannelInv'
<1>1. conn = [d \in Clients |-> conn[d]]
  BY DEF ChannelInv, HandlersShaped
<1>2. conn' = [d \in Clients |-> IF d = c THEN k ELSE conn[d]]
  BY <1>1 DEF Set
<1>3. LedgersShaped' /\ RunsTyped' /\ UNCHANGED ledger
  BY DEF Set, publishers, ChannelInv, LedgersShaped, RunsTyped
<1>4. ASSUME NEW d \in Clients
      PROVE  HandlerIn(conn'[d], ledger[conn'[d].ledger].terminal)
  <2>1. CASE d = c
    BY <1>2, <2>1
  <2>2. CASE d # c
    <3>1. conn'[d] = conn[d]
      BY <1>2, <2>2
    <3>2. HandlerIn(conn[d], ledger[conn[d].ledger].terminal)
      BY DEF ChannelInv, HandlersShaped
    <3> QED BY <3>1, <3>2
  <2> QED BY <2>1, <2>2
<1> QED BY <1>2, <1>3, <1>4 DEF HandlersShaped, ChannelInv

LEMMA OffFits == \A terminal : HandlerIn(Off, terminal)
BY DEF HandlerIn, Off, ConnFields

(* An event that is written moves the client's place and nothing else.      *)
LEMMA WrittenFits ==
  ASSUME NEW k, NEW seq, NEW terminal, HandlerIn(k, terminal)
  PROVE  HandlerIn(Written(k, seq), terminal) /\ Written(k, seq).ledger = k.ledger
<1> DOMAIN k = ConnFields
  BY DEF HandlerIn
<1>1. CASE seq > k.after
  <2> DEFINE w == [k EXCEPT !.at = seq]
  <2>1. /\ DOMAIN w = ConnFields /\ w.pc = k.pc /\ w.run = k.run /\ w.ledger = k.ledger
        /\ w.subscribed = k.subscribed /\ w.closed = k.closed
    BY DEF ConnFields
  <2>2. Written(k, seq) = w
    BY <1>1 DEF Written
  <2> HIDE DEF w
  <2> QED BY <2>1, <2>2 DEF HandlerIn
<1>2. CASE ~ (seq > k.after)
  BY <1>2 DEF Written
<1> QED BY <1>1, <1>2

-----------------------------------------------------------------------------
(* What a run's ledger is when it is opened, and what the others are then:  *)
(* as they were, or gone.                                                   *)
LEMMA OpenedLedgers ==
  ASSUME ChannelInv, NEW r \in Runs, OpenLedger(r)
  PROVE  /\ ledger' = [l \in Ledgers |-> ledger'[l]]
         /\ \A l \in Ledgers :
              /\ DOMAIN ledger'[l] = LedgerFields
              /\ \/ ledger'[l] = EmptyLedger /\ current'[l[1]] # l[2] /\ \A c \in Clients : conn[c].ledger # l
                 \/ /\ ledger'[l].next = ledger[l].next /\ ledger'[l].floor = ledger[l].floor
                    /\ ledger'[l].events = ledger[l].events /\ ledger'[l].terminal = ledger[l].terminal
                    /\ l # <<r, work[r].starts>> => ledger'[l].late = ledger[l].late
              /\ l = <<r, work[r].starts>> => ledger'[l].late = (~ work[r].active /\ ~ work[r].reporting)
<1> DEFINE new == <<r, work[r].starts>>
           over == ~ work[r].active /\ ~ work[r].reporting
<1>1. /\ ledger' = [l \in Ledgers |->
                      IF l = new THEN [ledger[l] EXCEPT !.late = over]
                      ELSE IF current'[l[1]] = l[2] \/ (\E c \in Clients : conn[c].ledger = l)
                      THEN ledger[l] ELSE EmptyLedger]
      /\ current' = [q \in Runs |-> IF q = r THEN work[r].starts
                                    ELSE IF <<q, current[q]>> \in Evicted THEN 0 ELSE current[q]]
  BY DEF OpenLedger
<1> HIDE DEF new, over
<1>2. \A l \in Ledgers : DOMAIN ledger[l] = LedgerFields
  BY DEF ChannelInv, LedgersShaped
<1>3. DOMAIN EmptyLedger = LedgerFields
  BY DEF EmptyLedger, LedgerFields
<1>4. SUFFICES ASSUME NEW l \in Ledgers
               PROVE  /\ DOMAIN ledger'[l] = LedgerFields
                      /\ \/ ledger'[l] = EmptyLedger /\ current'[l[1]] # l[2] /\ \A c \in Clients : conn[c].ledger # l
                         \/ /\ ledger'[l].next = ledger[l].next /\ ledger'[l].floor = ledger[l].floor
                            /\ ledger'[l].events = ledger[l].events /\ ledger'[l].terminal = ledger[l].terminal
                            /\ l # new => ledger'[l].late = ledger[l].late
                      /\ l = new => ledger'[l].late = over
  BY <1>1 DEF new, over
<1>5. CASE l = new
  <2> DEFINE d == [ledger[l] EXCEPT !.late = over]
  <2>1. /\ DOMAIN d = LedgerFields /\ d.next = ledger[l].next /\ d.floor = ledger[l].floor
        /\ d.events = ledger[l].events /\ d.terminal = ledger[l].terminal /\ d.late = over
    BY <1>2 DEF LedgerFields
  <2>2. ledger'[l] = d
    BY <1>1, <1>5
  <2> HIDE DEF d
  <2> QED BY <1>5, <2>1, <2>2
<1>6. CASE l # new
  BY <1>1, <1>2, <1>3, <1>6
<1> QED BY <1>5, <1>6

THEOREM ChannelInvNext == ChannelInv /\ [Next]_vars => ChannelInv'
<1> SUFFICES ASSUME ChannelInv, [Next]_vars PROVE ChannelInv'
  OBVIOUS
<1> USE RunLedgerAssumption
<1>1. ASSUME NEW r \in Runs, StartRun(r) PROVE ChannelInv'
  <2>1. work[r].starts + 1 \in 0..MaxStarts
    BY <1>1 DEF StartRun, ChannelInv, RunsTyped
  <2>2. RunsTyped'
    BY <1>1, <2>1 DEF StartRun, ChannelInv, RunsTyped
  <2>3. UNCHANGED <<ledger, conn>>
    BY <1>1 DEF StartRun
  <2> QED
    BY <2>2, <2>3 DEF ChannelInv, LedgersShaped, HandlersShaped
<1>2. ASSUME NEW r \in Runs, OpenLedger(r) PROVE ChannelInv'
  <2>1. UNCHANGED conn
    BY <1>2 DEF OpenLedger
  <2>2. RunsTyped'
    <3>1. work[r].starts \in 0..MaxStarts
      BY DEF ChannelInv, RunsTyped
    <3>2. current' \in [Runs -> 0..MaxStarts]
      BY <1>2, <3>1 DEF OpenLedger, ChannelInv, RunsTyped
    <3>3. work' \in [Runs -> [active : BOOLEAN, reporting : BOOLEAN, starts : 0..MaxStarts, opened : 0..MaxStarts]]
      BY <1>2, <3>1 DEF OpenLedger, ChannelInv, RunsTyped
    <3> QED BY <3>2, <3>3 DEF RunsTyped
  <2>3. /\ ledger' = [l \in Ledgers |-> ledger'[l]]
        /\ \A l \in Ledgers : DOMAIN ledger'[l] = LedgerFields
        /\ \A l \in Ledgers : (\E c \in Clients : conn[c].ledger = l) => ledger'[l].terminal = ledger[l].terminal
    BY <1>2, OpenedLedgers
  <2>4. LedgersShaped'
    BY <2>3 DEF LedgersShaped
  <2>5. HandlersShaped'
    <3>1. ASSUME NEW c \in Clients
          PROVE  HandlerIn(conn[c], ledger'[conn[c].ledger].terminal)
      <4>1. HandlerIn(conn[c], ledger[conn[c].ledger].terminal)
        BY DEF ChannelInv, HandlersShaped
      <4>2. CASE conn[c].ledger \in Ledgers
        <5>1. ledger'[conn[c].ledger].terminal = ledger[conn[c].ledger].terminal
          BY <2>3, <4>2
        <5> QED BY <4>1, <5>1
      <4>3. CASE conn[c].ledger \notin Ledgers
        BY <4>1, <4>3 DEF HandlerIn
      <4> QED BY <4>2, <4>3
    <3> QED BY <2>1, <3>1 DEF ChannelInv, HandlersShaped
  <2> QED
    BY <2>2, <2>4, <2>5 DEF ChannelInv
<1>3. ASSUME NEW r \in Runs, PublishEvent(r) PROVE ChannelInv'
  <2>1. <<r, current[r]>> \in Ledgers
    BY <1>3 DEF PublishEvent, ChannelInv, RunsTyped, Ledgers
  <2>2. PICK size \in Sizes : Publish(<<r, current[r]>>, size, FALSE)
    BY <1>3 DEF PublishEvent
  <2>3. UNCHANGED <<current, work>>
    BY <1>3 DEF PublishEvent
  <2>4. LedgersShaped' /\ HandlersShaped'
    BY <2>1, <2>2, PublishKeepsHandlers
  <2> QED
    BY <2>3, <2>4 DEF ChannelInv, RunsTyped
<1>4. ASSUME NEW r \in Runs, EndRun(r) PROVE ChannelInv'
  <2>1. RunsTyped'
    BY <1>4 DEF EndRun, ChannelInv, RunsTyped
  <2>2. UNCHANGED <<ledger, conn>>
    BY <1>4 DEF EndRun
  <2> QED
    BY <2>1, <2>2 DEF ChannelInv, LedgersShaped, HandlersShaped
<1>5. ASSUME NEW r \in Runs, PublishTerminal(r) PROVE ChannelInv'
  <2>1. RunsTyped'
    BY <1>5 DEF PublishTerminal, ChannelInv, RunsTyped
  <2>2. CASE current[r] = 0
    <3>1. UNCHANGED <<ledger, conn>>
      BY <1>5, <2>2 DEF PublishTerminal
    <3> QED
      BY <2>1, <3>1 DEF ChannelInv, LedgersShaped, HandlersShaped
  <2>3. CASE current[r] # 0
    <3>1. <<r, current[r]>> \in Ledgers
      BY <2>3 DEF ChannelInv, RunsTyped, Ledgers
    <3>2. Publish(<<r, current[r]>>, 1, TRUE)
      BY <1>5, <2>3 DEF PublishTerminal
    <3> QED
      BY <2>1, <3>1, <3>2, PublishKeepsHandlers DEF ChannelInv
  <2> QED BY <2>2, <2>3
<1>6. ASSUME NEW c \in Clients, NEW r \in Runs, NEW after \in 0..MaxEvents, Connect(c, r, after)
      PROVE  ChannelInv'
  <2> DEFINE k == [Off EXCEPT !.pc = "asking", !.run = r, !.after = after, !.at = after]
  <2>1. HandlerIn(k, ledger[k.ledger].terminal)
    BY DEF HandlerIn, Off, ConnFields
  <2>2. Set(c, k)
    BY <1>6 DEF Connect
  <2> HIDE DEF k
  <2> QED BY <2>1, <2>2, OneHandler
<1>7. ASSUME NEW c \in Clients, Lookup(c) PROVE ChannelInv'
  <2> DEFINE r == conn[c].run
             k == IF current[r] = 0 THEN Off
                  ELSE [conn[c] EXCEPT !.pc = "found", !.ledger = <<r, current[r]>>]
  <2>1. Set(c, k) /\ conn[c].pc = "asking"
    BY <1>7 DEF Lookup
  <2>2. HandlerIn(conn[c], ledger[conn[c].ledger].terminal)
    BY DEF ChannelInv, HandlersShaped
  <2>3. HandlerIn(k, ledger[k.ledger].terminal)
    <3>1. CASE current[r] = 0
      BY <3>1, OffFits
    <3>2. CASE current[r] # 0
      <4>1. <<r, current[r]>> \in Ledgers
        BY <2>1, <2>2, <3>2 DEF HandlerIn, ChannelInv, RunsTyped, Ledgers
      <4> QED BY <2>1, <2>2, <3>2, <4>1 DEF HandlerIn, ConnFields
    <3> QED BY <3>1, <3>2
  <2> HIDE DEF k
  <2> QED BY <2>1, <2>3, OneHandler
<1>8. ASSUME NEW c \in Clients, Subscribe(c) PROVE ChannelInv'
  <2> DEFINE l == ledger[conn[c].ledger]
             k == [conn[c] EXCEPT !.pc = "streaming",
                                  !.at = IF conn[c].after < l.floor THEN l.floor ELSE @,
                                  !.replay = [i \in 1..Len(l.events) |-> l.floor + i],
                                  !.subscribed = l.terminal = {},
                                  !.closed = IF l.terminal = {} THEN 0 ELSE 1]
  <2>1. Set(c, k) /\ conn[c].pc = "found"
    BY <1>8 DEF Subscribe
  <2>2. HandlerIn(conn[c], l.terminal)
    BY DEF ChannelInv, HandlersShaped
  <2>3. k.ledger = conn[c].ledger
    BY <2>2 DEF HandlerIn, ConnFields
  <2>4. HandlerIn(k, l.terminal)
    <3> HIDE DEF l
    <3> QED BY <2>1, <2>2 DEF HandlerIn, ConnFields
  <2> HIDE DEF k
  <2> QED BY <2>1, <2>3, <2>4, OneHandler
<1>9. ASSUME NEW c \in Clients, Replay(c) \/ Stream(c) PROVE ChannelInv'
  <2>1. HandlerIn(conn[c], ledger[conn[c].ledger].terminal)
    BY DEF ChannelInv, HandlersShaped
  <2>2. CASE Replay(c)
    <3> DEFINE k == [conn[c] EXCEPT !.replay = Tail(@)]
               w == Written(k, Head(conn[c].replay))
    <3>1. HandlerIn(k, ledger[k.ledger].terminal)
      BY <2>1 DEF HandlerIn, ConnFields
    <3>2. Set(c, w)
      BY <2>2 DEF Replay
    <3> HIDE DEF k
    <3>3. HandlerIn(w, ledger[w.ledger].terminal)
      BY <3>1, WrittenFits
    <3> HIDE DEF w
    <3> QED BY <3>2, <3>3, OneHandler
  <2>3. CASE Stream(c)
    <3> DEFINE k == [conn[c] EXCEPT !.live = Tail(@)]
               w == Written(k, Head(conn[c].live))
    <3>1. HandlerIn(k, ledger[k.ledger].terminal)
      BY <2>1 DEF HandlerIn, ConnFields
    <3>2. Set(c, w)
      BY <2>3 DEF Stream
    <3> HIDE DEF k
    <3>3. HandlerIn(w, ledger[w.ledger].terminal)
      BY <3>1, WrittenFits
    <3> HIDE DEF w
    <3> QED BY <3>2, <3>3, OneHandler
  <2> QED BY <1>9, <2>2, <2>3
<1>10. ASSUME NEW c \in Clients, StreamEnds(c) \/ Disconnect(c) PROVE ChannelInv'
  <2>1. Set(c, Off)
    BY <1>10 DEF StreamEnds, Disconnect
  <2> QED BY <2>1, OffFits, OneHandler
<1>11. ASSUME UNCHANGED vars PROVE ChannelInv'
  BY <1>11 DEF vars, ChannelInv, LedgersShaped, RunsTyped, HandlersShaped
<1> QED
  BY <1>1, <1>2, <1>3, <1>4, <1>5, <1>6, <1>7, <1>8, <1>9, <1>10, <1>11 DEF Next, RunStep, HandlerStep

-----------------------------------------------------------------------------
(* What observers are told.  A ledger retains the events after its floor;   *)
(* a handler has written all that comes before a place, and still has to    *)
(* write what follows it, in order.                                         *)

LedgerOK(d) ==
  /\ d.next \in Nat /\ d.floor \in Nat /\ d.events \in Seq(Sizes)
  /\ d.floor + Len(d.events) = d.next
  /\ d.floor > 0 => d.events # <<>>

StreamFrom(k, next, place) ==
  /\ \A i \in DOMAIN k.replay : k.replay[i] = place + i
  /\ \A i \in DOMAIN k.live : k.live[i] = place + Len(k.replay) + i
  /\ k.at = (IF k.after < place THEN place ELSE k.after)
  /\ k.subscribed => place + Len(k.replay) + Len(k.live) = next

HandlerAt(k, next) ==
  /\ k.after \in Nat /\ k.replay \in Seq(Nat) /\ k.live \in Seq(Nat)
  /\ k.pc \in {"asking", "found"} => k.at = k.after /\ k.live = <<>>
  /\ k.pc = "streaming" => \E place \in Nat : StreamFrom(k, next, place)

LedgersOK == \A l \in Ledgers : LedgerOK(ledger[l])
HandlersAt == \A c \in Clients : HandlerAt(conn[c], ledger[conn[c].ledger].next)

(* A ledger that has ended is the one its run has now, and is there once.   *)
EndedOK ==
  /\ ended \in Seq(Ledgers)
  /\ \A i, j \in DOMAIN ended : ended[i] = ended[j] => i = j
  /\ \A i \in DOMAIN ended : ledger[ended[i]].terminal # {} /\ current[ended[i][1]] = ended[i][2]
  /\ \A r \in Runs : current[r] <= work[r].opened /\ work[r].opened <= work[r].starts

RetentionInv == ChannelInv /\ LedgersOK /\ HandlersAt /\ EndedOK

LEMMA KeptIsSome ==
  ASSUME NEW s \in Seq(Sizes), s # <<>>
  PROVE  Kept(s) \in 1 .. Len(s)
<1> DEFINE S == {n \in 1 .. Len(s) : Keeps(s, n)} \cup {1}
<1>1. Len(s) \in Nat /\ Len(s) >= 1
  OBVIOUS
<1>2. S \in SUBSET (0 .. Len(s)) /\ S # {} /\ S \subseteq 1 .. Len(s)
  BY <1>1
<1>3. Kept(s) = Max(S)
  BY DEF Kept
<1> HIDE DEF S
<1>4. Max(S) \in S
  BY <1>1, <1>2, MaxIsLargest
<1> QED BY <1>2, <1>3, <1>4

\* Dropping the oldest events moves the floor to the last of them.
LEMMA TrimmedIsOK ==
  ASSUME NEW d, DOMAIN d = LedgerFields, LedgerOK(d), d.events # <<>>
  PROVE  LedgerOK(Trimmed(d)) /\ Trimmed(d).next = d.next
<1> DEFINE n == Kept(d.events)
           s == d.events
           Cut == [d EXCEPT !.events = SubSeq(@, Len(@) - n + 1, Len(@)), !.floor = d.next - n]
<1>1. n \in 1 .. Len(s) /\ s \in Seq(Sizes) /\ Len(s) \in Nat
  BY KeptIsSome DEF LedgerOK
<1>2. Trimmed(d) = IF n = Len(s) THEN d ELSE Cut
  BY DEF Trimmed
<1> HIDE DEF n
<1>3. Cut.next = d.next /\ Cut.floor = d.next - n /\ Cut.events = SubSeq(s, Len(s) - n + 1, Len(s))
  BY DEF LedgerFields
<1>4. /\ SubSeq(s, Len(s) - n + 1, Len(s)) \in Seq(Sizes)
      /\ Len(SubSeq(s, Len(s) - n + 1, Len(s))) = n
  BY <1>1
<1> HIDE DEF Cut
<1>5. LedgerOK(Cut)
  <2>1. d.next \in Nat /\ d.floor \in Nat /\ d.floor + Len(s) = d.next
    BY DEF LedgerOK
  <2>2. d.next - n \in Nat /\ (d.next - n) + n = d.next /\ n # 0
    BY <1>1, <2>1
  <2>3. Cut.events # <<>>
    <3> DEFINE c == SubSeq(s, Len(s) - n + 1, Len(s))
    <3>1. Len(c) = n /\ Len(<<>>) = 0
      BY <1>4
    <3> HIDE DEF c
    <3>2. c # <<>>
      BY <2>2, <3>1
    <3> QED BY <1>3, <3>2 DEF c
  <2> QED BY <1>3, <1>4, <2>1, <2>2, <2>3 DEF LedgerOK
<1> QED BY <1>2, <1>3, <1>5

-----------------------------------------------------------------------------
(* The order in which ledgers ended.                                        *)

Distinct(s) == \A i, j \in DOMAIN s : s[i] = s[j] => i = j

LEMMA HowManyFollow ==
  ASSUME NEW a \in Nat, NEW b \in Nat, a <= b
  PROVE  (IF a + 1 <= b THEN b - (a + 1) + 1 ELSE 0) = b - a
<1>1. CASE a + 1 <= b
  <2>1. b - (a + 1) + 1 = b - a
    OBVIOUS
  <2> QED BY <1>1, <2>1
<1>2. CASE ~ (a + 1 <= b)
  <2>1. b - a = 0
    BY <1>2
  <2> QED BY <1>2, <2>1
<1> QED BY <1>1, <1>2

LEMMA WithoutOne ==
  ASSUME NEW S, NEW s \in Seq(S), Distinct(s), NEW e
  PROVE  /\ RemoveFirst(s, e) \in Seq(S) /\ Distinct(RemoveFirst(s, e))
         /\ \A i \in DOMAIN RemoveFirst(s, e) :
              RemoveFirst(s, e)[i] # e /\ \E j \in DOMAIN s : s[j] = RemoveFirst(s, e)[i]
<1>0. Len(s) \in Nat /\ DOMAIN s = 1 .. Len(s)
  OBVIOUS
<1>1. CASE \E i \in 1 .. Len(s) : s[i] = e
  <2> DEFINE I == {i \in 1 .. Len(s) : s[i] = e}
             k == SelectInSeq(s, LAMBDA v : v = e)
             t == RemoveAt(s, k)
  <2>1. k = IF I # {} THEN Min(I) ELSE 0
    BY DEF SelectInSeq
  <2>2. RemoveFirst(s, e) = t
    BY <1>1 DEF RemoveFirst
  <2> HIDE DEF k
  <2>3. \E m \in I : \A n \in I : m <= n
    <3>1. I \subseteq Nat /\ I # {}
      BY <1>1
    <3> HIDE DEF I
    <3> QED BY <3>1, LeastNumber
  <2>4. Min(I) \in I
    BY <2>3 DEF Min
  <2>5. k \in 1 .. Len(s) /\ s[k] = e
    BY <2>1, <2>4
  <2> HIDE DEF I
  <2>6. /\ t \in Seq(S) /\ Len(t) = Len(s) - 1
        /\ \A i \in 1 .. Len(s) - 1 : t[i] = IF i < k THEN s[i] ELSE s[i + 1]
    <3> DEFINE u == SubSeq(s, 1, k - 1)
               v == SubSeq(s, k + 1, Len(s))
    <3>1. /\ u \in Seq(S) /\ Len(u) = k - 1
          /\ \A i \in 1 .. k - 1 : u[i] = s[i]
      BY <1>0, <2>5
    <3>2. /\ v \in Seq(S) /\ Len(v) = Len(s) - k
          /\ \A i \in 1 .. Len(s) - k : v[i] = s[k + i]
      <4>1. k + 1 \in Int /\ Len(s) \in Int /\ \A i \in k + 1 .. Len(s) : s[i] \in S
        BY <1>0, <2>5
      <4>2. /\ v \in Seq(S) /\ Len(v) = IF k + 1 <= Len(s) THEN Len(s) - (k + 1) + 1 ELSE 0
            /\ \A i \in 1 .. Len(s) - (k + 1) + 1 : v[i] = s[k + 1 + i - 1]
        BY <4>1, SubSeqProperties
      <4> HIDE DEF v
      <4>3. Len(s) - (k + 1) + 1 = Len(s) - k /\ \A i \in 1 .. Len(s) - k : k + 1 + i - 1 = k + i
        BY <1>0, <2>5
      <4>4. (IF k + 1 <= Len(s) THEN Len(s) - (k + 1) + 1 ELSE 0) = Len(s) - k
        <5>1. k \in Nat /\ Len(s) \in Nat /\ k <= Len(s)
          BY <1>0, <2>5
        <5> QED BY <5>1, HowManyFollow
      <4> QED BY <4>2, <4>3, <4>4
    <3>3. t = u \o v
      BY DEF RemoveAt
    <3> HIDE DEF u, v, t
    <3>4. t \in Seq(S) /\ Len(t) = Len(s) - 1
          /\ \A i \in 1 .. Len(s) - 1 : t[i] = IF i <= k - 1 THEN u[i] ELSE v[i - (k - 1)]
      <4>1. /\ t \in Seq(S) /\ Len(t) = Len(u) + Len(v)
            /\ \A i \in 1 .. Len(u) + Len(v) : t[i] = IF i <= Len(u) THEN u[i] ELSE v[i - Len(u)]
        BY <3>1, <3>2, <3>3, ConcatProperties
      <4>2. Len(u) + Len(v) = Len(s) - 1
        BY <1>0, <2>5, <3>1, <3>2
      <4> QED BY <3>1, <4>1, <4>2
    <3>5. ASSUME NEW i \in 1 .. Len(s) - 1
          PROVE  t[i] = IF i < k THEN s[i] ELSE s[i + 1]
      <4>1. CASE i < k
        <5>1. i <= k - 1 /\ i \in 1 .. k - 1
          BY <1>0, <2>5, <4>1
        <5> QED BY <3>1, <3>4, <4>1, <5>1
      <4>2. CASE ~ (i < k)
        <5>1. i - (k - 1) \in 1 .. Len(s) - k /\ k + (i - (k - 1)) = i + 1 /\ ~ (i <= k - 1)
          BY <1>0, <2>5, <4>2
        <5>2. v[i - (k - 1)] = s[i + 1]
          BY <3>2, <5>1
        <5> QED BY <3>4, <4>2, <5>1, <5>2
      <4> QED BY <4>1, <4>2
    <3> QED BY <3>4, <3>5
  <2> HIDE DEF t
  <2>7. DOMAIN t = 1 .. Len(s) - 1
    BY <2>6
  <2>8. ASSUME NEW i \in DOMAIN t
        PROVE  \E j \in DOMAIN s : j # k /\ s[j] = t[i] /\ j = IF i < k THEN i ELSE i + 1
    BY <1>0, <2>5, <2>6, <2>7
  <2>9. \A i \in DOMAIN t : t[i] # e
    BY <1>0, <2>5, <2>8 DEF Distinct
  <2>10. ASSUME NEW i \in DOMAIN t, NEW j \in DOMAIN t, t[i] = t[j] PROVE i = j
    <3>1. (IF i < k THEN i ELSE i + 1) = (IF j < k THEN j ELSE j + 1)
      BY <2>8, <2>10 DEF Distinct
    <3> QED BY <1>0, <2>5, <2>7, <3>1
  <2> QED BY <2>2, <2>6, <2>8, <2>9, <2>10 DEF Distinct
<1>2. CASE ~ \E i \in 1 .. Len(s) : s[i] = e
  BY <1>0, <1>2 DEF RemoveFirst
<1> QED BY <1>1, <1>2

LEMMA WhatStays ==
  ASSUME ended \in Seq(Ledgers), Distinct(ended)
  PROVE  /\ NotEvicted \in Seq(Ledgers) /\ Distinct(NotEvicted)
         /\ \A i \in DOMAIN NotEvicted :
              NotEvicted[i] \notin Evicted /\ \E j \in DOMAIN ended : ended[j] = NotEvicted[i]
<1> DEFINE n == Len(ended)
           m == Max({0, n - TerminalLimit + 1})
           s == SubSeq(ended, m + 1, n)
<1>1. n \in Nat /\ DOMAIN ended = 1 .. n /\ TerminalLimit \in Nat \ {0}
  BY RunLedgerAssumption
<1>2. m \in 0 .. n /\ m >= n - TerminalLimit + 1 /\ (m = 0 \/ m = n - TerminalLimit + 1)
  <2> DEFINE S == {0, n - TerminalLimit + 1}
  <2>1. \E x \in S : \A y \in S : x >= y
    BY <1>1
  <2>2. Max(S) \in S /\ \A y \in S : Max(S) >= y
    <3> HIDE DEF S
    <3> QED BY <2>1 DEF Max
  <2> QED BY <1>1, <2>2
<1>3. NotEvicted = s
  BY DEF NotEvicted
<1> HIDE DEF m
<1>4. /\ s \in Seq(Ledgers) /\ Len(s) = n - m /\ DOMAIN s = 1 .. n - m
      /\ \A i \in 1 .. n - m : s[i] = ended[m + i]
  <2>1. \A i \in m + 1 .. n : ended[i] \in Ledgers
    BY <1>1, <1>2
  <2>2. m + 1 \in Int /\ n \in Int
    BY <1>1, <1>2
  <2>3. /\ s \in Seq(Ledgers) /\ Len(s) = IF m + 1 <= n THEN n - (m + 1) + 1 ELSE 0
        /\ \A i \in 1 .. n - (m + 1) + 1 : s[i] = ended[(m + 1) + i - 1]
    BY <2>1, <2>2, SubSeqProperties
  <2> HIDE DEF s
  <2>4. n - (m + 1) + 1 = n - m /\ \A i \in 1 .. n - m : (m + 1) + i - 1 = m + i
    BY <1>1, <1>2
  <2>5. (IF m + 1 <= n THEN n - (m + 1) + 1 ELSE 0) = n - m
    <3>1. m \in Nat /\ n \in Nat /\ m <= n
      BY <1>1, <1>2
    <3> QED BY <3>1, HowManyFollow
  <2> QED BY <2>3, <2>4, <2>5
<1> HIDE DEF s
<1>5. ASSUME NEW i \in DOMAIN s
      PROVE  s[i] \notin Evicted /\ \E j \in DOMAIN ended : ended[j] = s[i]
  <2>1. m + i \in DOMAIN ended /\ s[i] = ended[m + i]
    BY <1>1, <1>2, <1>4, SMTT(40)
  <2>2. ASSUME NEW j \in 1 .. (n - TerminalLimit + 1) PROVE ended[j] # s[i]
    <3>1. j \in DOMAIN ended /\ j # m + i
      BY <1>1, <1>2, <1>4
    <3> QED BY <2>1, <3>1 DEF Distinct
  <2> QED BY <2>1, <2>2 DEF Evicted
<1>6. Distinct(s)
  <2> SUFFICES ASSUME NEW i \in DOMAIN s, NEW j \in DOMAIN s, s[i] = s[j] PROVE i = j
    BY DEF Distinct
  <2>1. m + i \in DOMAIN ended /\ m + j \in DOMAIN ended /\ ended[m + i] = ended[m + j]
    <3>1. i \in 1 .. n - m /\ j \in 1 .. n - m
      BY <1>4
    <3>2. s[i] = ended[m + i] /\ s[j] = ended[m + j]
      BY <1>4, <3>1
    <3>3. m + i \in DOMAIN ended /\ m + j \in DOMAIN ended
      BY <1>1, <1>2, <3>1
    <3> QED BY <3>2, <3>3
  <2>2. m + i = m + j
    BY <2>1 DEF Distinct
  <2> QED BY <1>1, <1>2, <1>4, <2>2
<1> QED BY <1>3, <1>4, <1>5, <1>6

-----------------------------------------------------------------------------
LEMMA RetentionBegins == Init => RetentionInv
<1> SUFFICES ASSUME Init PROVE RetentionInv
  OBVIOUS
<1>1. LedgersOK
  <2>1. LedgerOK(EmptyLedger)
    BY DEF LedgerOK, EmptyLedger
  <2> QED BY <2>1 DEF Init, LedgersOK
<1>2. HandlersAt
  <2>1. \A next : HandlerAt(Off, next)
    BY DEF HandlerAt, Off
  <2> QED BY <2>1 DEF Init, HandlersAt
<1>3. EndedOK
  BY DEF Init, EndedOK
<1> QED BY <1>1, <1>2, <1>3, ChannelInvInit DEF RetentionInv

LEMMA SetIsOK ==
  ASSUME RetentionInv, NEW c \in Clients, NEW k, Set(c, k), HandlerAt(k, ledger[k.ledger].next)
  PROVE  LedgersOK' /\ HandlersAt' /\ EndedOK'
<1>1. conn' = [conn EXCEPT ![c] = k] /\ UNCHANGED <<ledger, current, ended, work>>
  BY DEF Set, publishers
<1>2. conn = [d \in Clients |-> conn[d]]
  BY DEF RetentionInv, ChannelInv, HandlersShaped
<1>3. HandlersAt'
  <2> SUFFICES ASSUME NEW d \in Clients PROVE HandlerAt(conn'[d], ledger[conn'[d].ledger].next)
    BY <1>1 DEF HandlersAt
  <2>1. CASE d = c
    <3>1. conn'[d] = k
      BY <1>1, <1>2, <2>1
    <3> QED BY <3>1
  <2>2. CASE d # c
    <3>1. conn'[d] = conn[d]
      BY <1>1, <1>2, <2>2
    <3> QED BY <3>1 DEF RetentionInv, HandlersAt
  <2> QED BY <2>1, <2>2
<1> QED BY <1>1, <1>3 DEF RetentionInv, LedgersOK, EndedOK

LEMMA OneFurther ==
  ASSUME NEW a \in Nat, NEW b \in Nat, NEW c \in Nat
  PROVE  a + b + (c + 1) = (a + b + c) + 1
OBVIOUS

\* An observer that is not detached gets the next event, and no other.
LEMMA DeliveredIsOK ==
  ASSUME NEW k, NEW next \in Nat,
         DOMAIN k = ConnFields, k.pc = "streaming", k.subscribed = TRUE, HandlerAt(k, next)
  PROVE  \A terminal \in BOOLEAN :
           /\ HandlerAt(Delivered(k, next + 1, terminal), next + 1)
           /\ Delivered(k, next + 1, terminal).ledger = k.ledger
           /\ Delivered(k, next + 1, terminal).at = k.at
<1> TAKE terminal \in BOOLEAN
<1> DEFINE full == Len(k.live) = Buffer
           d == Delivered(k, next + 1, terminal)
<1>1. /\ d.pc = k.pc /\ d.after = k.after /\ d.at = k.at /\ d.replay = k.replay /\ d.ledger = k.ledger
      /\ d.live = (IF full THEN k.live ELSE Append(k.live, next + 1))
      /\ d.subscribed = (~ full /\ ~ terminal)
  BY DEF Delivered, ConnFields
<1> HIDE DEF d
<1>2. PICK place \in Nat : StreamFrom(k, next, place)
  BY DEF HandlerAt
<1>3. k.live \in Seq(Nat) /\ k.replay \in Seq(Nat) /\ k.after \in Nat /\ Len(k.live) \in Nat /\ Len(k.replay) \in Nat
  BY DEF HandlerAt
<1>4. d.live \in Seq(Nat)
  BY <1>1, <1>3
<1>5. StreamFrom(d, next + 1, place)
  <2>1. place + Len(k.replay) + Len(k.live) = next
    BY <1>2 DEF StreamFrom
  <2>2. CASE full
    <3>1. d.live = k.live /\ ~ d.subscribed
      BY <1>1, <2>2
    <3> QED BY <1>1, <1>2, <3>1 DEF StreamFrom
  <2>3. CASE ~ full
    <3>1. d.live = Append(k.live, next + 1)
      BY <1>1, <2>3
    <3>2. Len(d.live) = Len(k.live) + 1 /\ DOMAIN d.live = 1 .. Len(k.live) + 1
      BY <1>3, <3>1
    <3>3. ASSUME NEW i \in DOMAIN d.live PROVE d.live[i] = place + Len(k.replay) + i
      <4>1. CASE i \in DOMAIN k.live
        <5>1. d.live[i] = k.live[i]
          BY <1>3, <3>1, <4>1
        <5> QED BY <1>2, <4>1, <5>1 DEF StreamFrom
      <4>2. CASE i = Len(k.live) + 1
        <5>1. d.live[i] = next + 1
          BY <1>3, <3>1, <4>2
        <5>2. place + Len(k.replay) + i = next + 1
          <6>1. i = Len(k.live) + 1 /\ Len(k.live) \in Nat /\ Len(k.replay) \in Nat
            BY <1>3, <4>2
          <6> QED BY <1>2, <2>1, <6>1, OneFurther
        <5> QED BY <5>1, <5>2
      <4> QED BY <1>3, <3>2, <4>1, <4>2
    <3>4. place + Len(d.replay) + Len(d.live) = next + 1
      <4>1. Len(d.replay) = Len(k.replay) /\ Len(k.live) \in Nat /\ Len(k.replay) \in Nat
        BY <1>1, <1>3
      <4>2. place + Len(k.replay) + (Len(k.live) + 1) = next + 1
        BY <1>2, <2>1, <4>1, OneFurther
      <4> QED BY <3>2, <4>1, <4>2
    <3> QED BY <1>1, <1>2, <3>3, <3>4 DEF StreamFrom
  <2> QED BY <2>2, <2>3
<1>6. HandlerAt(d, next + 1)
  BY <1>1, <1>3, <1>4, <1>5 DEF HandlerAt
<1> QED BY <1>1, <1>6 DEF d

LEMMA PublishIsOK ==
  ASSUME RetentionInv, NEW r \in Runs, current[r] # 0, NEW size \in Sizes, NEW terminal \in BOOLEAN,
         Publish(<<r, current[r]>>, size, terminal), current' = current,
         work' = work \/ work' = [work EXCEPT ![r].reporting = FALSE]
  PROVE  /\ LedgersOK' /\ HandlersAt' /\ EndedOK'
         /\ \A c \in Clients : conn'[c].at = conn[c].at
<1> DEFINE l == <<r, current[r]>>
           d == ledger[l]
           seq == d.next + 1
           last == [d EXCEPT !.next = seq, !.events = Append(@, size),
                             !.terminal = IF terminal THEN @ \cup {seq} ELSE @]
<1>1. l \in Ledgers
  BY DEF RetentionInv, ChannelInv, RunsTyped, Ledgers
<1>2. /\ ledger' = [ledger EXCEPT ![l] = Trimmed(last)]
      /\ ended' = (IF terminal THEN Append(RemoveFirst(ended, l), l) ELSE ended)
      /\ conn' = [c \in Clients |-> IF conn[c].ledger = l /\ conn[c].subscribed
                                    THEN Delivered(conn[c], seq, last.terminal # {}) ELSE conn[c]]
  BY DEF Publish
<1>3. /\ ledger = [x \in Ledgers |-> ledger[x]] /\ DOMAIN d = LedgerFields /\ LedgerOK(d)
  BY <1>1 DEF RetentionInv, ChannelInv, LedgersShaped, LedgersOK
<1> HIDE DEF l, d
<1>4. /\ DOMAIN last = LedgerFields /\ last.next = seq /\ last.floor = d.floor
      /\ last.events = Append(d.events, size)
      /\ last.terminal = IF terminal THEN d.terminal \cup {seq} ELSE d.terminal
  BY <1>3 DEF LedgerFields
<1> HIDE DEF last
<1>5. d.next \in Nat /\ d.floor \in Nat /\ d.events \in Seq(Sizes) /\ d.floor + Len(d.events) = d.next
  BY <1>3 DEF LedgerOK
<1>6. LedgerOK(last) /\ last.events # <<>>
  <2>1. Append(d.events, size) \in Seq(Sizes) /\ Len(Append(d.events, size)) = Len(d.events) + 1
    BY <1>5
  <2>2. Append(d.events, size) # <<>>
    BY <1>5
  <2>3. d.floor + (Len(d.events) + 1) = seq /\ seq \in Nat
    BY <1>5
  <2> QED BY <1>4, <1>5, <2>1, <2>2, <2>3 DEF LedgerOK
<1>7. LedgerOK(Trimmed(last)) /\ Trimmed(last).next = seq /\ Trimmed(last).terminal = last.terminal
  BY <1>4, <1>6, TrimmedIsOK, TrimmedKeeps
<1>8. ledger'[l] = Trimmed(last) /\ \A x \in Ledgers : x # l => ledger'[x] = ledger[x]
  BY <1>1, <1>2, <1>3
<1>9. LedgersOK'
  BY <1>7, <1>8 DEF RetentionInv, LedgersOK
<1>10. ASSUME NEW c \in Clients
       PROVE  HandlerAt(conn'[c], ledger'[conn'[c].ledger].next) /\ conn'[c].at = conn[c].at
  <2> DEFINE k == conn[c]
  <2>1. HandlerIn(k, ledger[k.ledger].terminal) /\ HandlerAt(k, ledger[k.ledger].next)
    BY DEF RetentionInv, ChannelInv, HandlersShaped, HandlersAt
  <2> HIDE DEF k
  <2>2. CASE k.ledger = l /\ k.subscribed
    <3>1. conn'[c] = Delivered(k, d.next + 1, last.terminal # {})
      BY <1>2, <2>2 DEF k
    <3>2. DOMAIN k = ConnFields /\ k.pc = "streaming" /\ k.subscribed = TRUE /\ HandlerAt(k, d.next)
      BY <2>1, <2>2 DEF HandlerIn, d
    <3>3. \A over \in BOOLEAN : /\ HandlerAt(Delivered(k, d.next + 1, over), d.next + 1)
                                /\ Delivered(k, d.next + 1, over).ledger = k.ledger
                                /\ Delivered(k, d.next + 1, over).at = k.at
      BY <1>5, <3>2, DeliveredIsOK
    <3>4. /\ HandlerAt(conn'[c], d.next + 1) /\ conn'[c].ledger = k.ledger /\ conn'[c].at = k.at
      <4> DEFINE over == last.terminal # {}
      <4>1. over \in BOOLEAN
        OBVIOUS
      <4>2. conn'[c] = Delivered(k, d.next + 1, over)
        BY <3>1
      <4> HIDE DEF over
      <4> QED BY <3>3, <4>1, <4>2, Zenon
    <3> QED BY <1>7, <1>8, <2>2, <3>4 DEF k
  <2>3. CASE ~ (k.ledger = l /\ k.subscribed)
    <3>1. conn'[c] = k
      BY <1>2, <2>3 DEF k
    <3>2. HandlerAt(k, ledger'[k.ledger].next)
      <4>1. CASE k.subscribed
        <5>1. k.ledger \in Ledgers /\ k.ledger # l
          BY <2>1, <2>3, <4>1 DEF HandlerIn
        <5> QED BY <1>8, <2>1, <5>1
      <4>2. CASE ~ k.subscribed
        BY <2>1, <4>2 DEF HandlerAt, StreamFrom
      <4> QED BY <4>1, <4>2
    <3> QED BY <3>1, <3>2 DEF k
  <2> QED BY <2>2, <2>3
<1>11. EndedOK'
  <2>1. /\ ended \in Seq(Ledgers) /\ Distinct(ended)
        /\ \A i \in DOMAIN ended : ledger[ended[i]].terminal # {} /\ current[ended[i][1]] = ended[i][2]
    BY DEF RetentionInv, EndedOK, Distinct
  <2>2. \A q \in Runs : current[q] <= work'[q].opened /\ work'[q].opened <= work'[q].starts
    BY ZenonT(60) DEF RetentionInv, EndedOK, ChannelInv, RunsTyped
  <2>3. \A x \in Ledgers : ledger[x].terminal # {} => ledger'[x].terminal # {}
    BY <1>4, <1>7, <1>8 DEF d
  <2>4. current[l[1]] = l[2]
    BY DEF l
  <2>5. CASE ~ terminal
    <3>1. ended' = ended
      BY <1>2, <2>5
    <3>2. \A i \in DOMAIN ended : ended[i] \in Ledgers
      BY <2>1
    <3> QED BY <2>1, <2>2, <2>3, <3>1, <3>2 DEF EndedOK, Distinct
  <2>6. CASE terminal
    <3> DEFINE s == RemoveFirst(ended, l)
    <3>1. /\ s \in Seq(Ledgers) /\ Distinct(s)
          /\ \A i \in DOMAIN s : s[i] # l /\ \E j \in DOMAIN ended : ended[j] = s[i]
      BY <2>1, WithoutOne
    <3>2. ended' = Append(s, l) /\ ledger'[l].terminal # {}
      BY <1>2, <1>4, <1>7, <1>8, <2>6
    <3> HIDE DEF s
    <3>3. /\ Append(s, l) \in Seq(Ledgers) /\ Len(s) \in Nat /\ DOMAIN s = 1 .. Len(s)
          /\ DOMAIN Append(s, l) = 1 .. Len(s) + 1
          /\ Append(s, l)[Len(s) + 1] = l /\ \A i \in DOMAIN s : Append(s, l)[i] = s[i]
      BY <1>1, <3>1
    <3>4. \A i \in DOMAIN s : /\ s[i] \in Ledgers /\ ledger'[s[i]].terminal # {} /\ current[s[i][1]] = s[i][2]
      BY <2>1, <2>3, <3>1, <3>3
    <3>5. \A i \in DOMAIN ended' : i \in DOMAIN s \/ i = Len(s) + 1
      BY <3>2, <3>3
    <3>6. \A i, j \in DOMAIN ended' : ended'[i] = ended'[j] => i = j
      BY <3>1, <3>2, <3>3, <3>5 DEF Distinct
    <3>7. \A i \in DOMAIN ended' : ledger'[ended'[i]].terminal # {} /\ current[ended'[i][1]] = ended'[i][2]
      BY <2>4, <3>2, <3>3, <3>4, <3>5
    <3> QED BY <2>2, <3>2, <3>3, <3>6, <3>7 DEF EndedOK
  <2> QED BY <2>5, <2>6
<1> QED BY <1>9, <1>10, <1>11 DEF HandlersAt

\* The ledgers that make room are the ones that ended first.
LEMMA OpenLedgerIsOK ==
  ASSUME RetentionInv, NEW r \in Runs, OpenLedger(r)
  PROVE  /\ LedgersOK' /\ HandlersAt' /\ EndedOK'
         /\ \A q \in Runs : current[q] # 0 /\ current'[q] = 0 =>
              LET evicted == <<q, current[q]>>
              IN  /\ ledger[evicted].terminal # {}
                  /\ \A i, j \in DOMAIN ended :
                       ended[j] = evicted /\ i < j => current'[ended[i][1]] # ended[i][2]
<1>1. /\ work[r].opened < work[r].starts
      /\ work' = [work EXCEPT ![r].opened = work[r].starts]
      /\ current' = [q \in Runs |-> IF q = r THEN work[r].starts
                                    ELSE IF <<q, current[q]>> \in Evicted THEN 0 ELSE current[q]]
      /\ ended' = RemoveFirst(NotEvicted, <<r, current[r]>>)
      /\ conn' = conn
  BY DEF OpenLedger
<1>0. \A l \in Ledgers :
        \/ ledger'[l] = EmptyLedger /\ current'[l[1]] # l[2] /\ \A c \in Clients : conn[c].ledger # l
        \/ /\ ledger'[l].next = ledger[l].next /\ ledger'[l].floor = ledger[l].floor
           /\ ledger'[l].events = ledger[l].events /\ ledger'[l].terminal = ledger[l].terminal
  BY OpenedLedgers DEF RetentionInv
<1>2. /\ \A q \in Runs : /\ current[q] \in Nat /\ work[q].opened \in Nat /\ work[q].starts \in Nat
                         /\ current[q] <= work[q].opened /\ work[q].opened <= work[q].starts
      /\ work \in [Runs -> [active : BOOLEAN, reporting : BOOLEAN, starts : 0..MaxStarts, opened : 0..MaxStarts]]
      /\ ended \in Seq(Ledgers) /\ Distinct(ended)
      /\ \A i \in DOMAIN ended : ledger[ended[i]].terminal # {} /\ current[ended[i][1]] = ended[i][2]
  <2>1. /\ current \in [Runs -> 0..MaxStarts] /\ MaxStarts \in Nat
        /\ work \in [Runs -> [active : BOOLEAN, reporting : BOOLEAN, starts : 0..MaxStarts, opened : 0..MaxStarts]]
    BY RunLedgerAssumption DEF RetentionInv, ChannelInv, RunsTyped
  <2>2. \A q \in Runs : current[q] \in Nat /\ work[q].opened \in Nat /\ work[q].starts \in Nat
    BY <2>1
  <2> QED BY <2>1, <2>2 DEF RetentionInv, EndedOK, Distinct
<1>3. \A l \in Ledgers : l[1] \in Runs /\ l[2] \in Nat /\ l[2] # 0 /\ l = <<l[1], l[2]>>
  BY DEF Ledgers
<1>4. current[r] < work[r].starts
  BY <1>1, <1>2
<1>5. LedgersOK'
  <2>1. LedgerOK(EmptyLedger)
    BY DEF LedgerOK, EmptyLedger
  <2> SUFFICES ASSUME NEW l \in Ledgers PROVE LedgerOK(ledger'[l])
    BY DEF LedgersOK
  <2>2. LedgerOK(ledger[l])
    BY DEF RetentionInv, LedgersOK
  <2>3. CASE ledger'[l] = EmptyLedger
    BY <2>1, <2>3
  <2>4. CASE ledger'[l] # EmptyLedger
    <3>1. /\ ledger'[l].next = ledger[l].next /\ ledger'[l].floor = ledger[l].floor
          /\ ledger'[l].events = ledger[l].events
      BY <1>0, <2>4
    <3> QED BY <2>2, <3>1 DEF LedgerOK
  <2> QED BY <2>3, <2>4
<1>6. HandlersAt'
  <2> SUFFICES ASSUME NEW c \in Clients PROVE HandlerAt(conn[c], ledger'[conn[c].ledger].next)
    BY <1>1 DEF HandlersAt
  <2>1. HandlerIn(conn[c], ledger[conn[c].ledger].terminal) /\ HandlerAt(conn[c], ledger[conn[c].ledger].next)
    BY DEF RetentionInv, ChannelInv, HandlersShaped, HandlersAt
  <2>2. CASE conn[c].ledger \in Ledgers
    <3>1. ledger'[conn[c].ledger].next = ledger[conn[c].ledger].next
      BY <1>0, <2>2
    <3> QED BY <2>1, <3>1
  <2>3. CASE conn[c].ledger \notin Ledgers
    BY <2>1, <2>3 DEF HandlerIn, HandlerAt
  <2> QED BY <2>2, <2>3
<1>7. EndedOK'
  <2> DEFINE x == <<r, current[r]>>
             s == RemoveFirst(NotEvicted, x)
  <2>1. /\ NotEvicted \in Seq(Ledgers) /\ Distinct(NotEvicted)
        /\ \A i \in DOMAIN NotEvicted :
             NotEvicted[i] \notin Evicted /\ \E j \in DOMAIN ended : ended[j] = NotEvicted[i]
    BY <1>2, WhatStays
  <2>2. /\ s \in Seq(Ledgers) /\ Distinct(s)
        /\ \A i \in DOMAIN s : s[i] # x /\ \E j \in DOMAIN NotEvicted : NotEvicted[j] = s[i]
    <3> HIDE DEF x
    <3> QED BY <2>1, WithoutOne
  <2> HIDE DEF s
  <2>3. ASSUME NEW i \in DOMAIN s
        PROVE  ledger'[s[i]].terminal # {} /\ current'[s[i][1]] = s[i][2]
    <3> DEFINE e == s[i]
    <3>1. e \in Ledgers /\ e \notin Evicted /\ e # <<r, current[r]>>
      BY <2>1, <2>2
    <3>2. ledger[e].terminal # {} /\ current[e[1]] = e[2]
      <4>1. PICK j \in DOMAIN NotEvicted : NotEvicted[j] = e
        BY <2>2
      <4>2. PICK m \in DOMAIN ended : ended[m] = e
        BY <2>1, <4>1
      <4> QED BY <1>2, <4>2
    <3> HIDE DEF e
    <3>3. e[1] # r /\ e = <<e[1], current[e[1]]>> /\ e[1] \in Runs
      BY <1>3, <3>1, <3>2
    <3>4. current'[e[1]] = e[2]
      BY <1>1, <3>1, <3>2, <3>3
    <3>5. ledger'[e].terminal = ledger[e].terminal
      BY <1>0, <3>1, <3>4
    <3> QED BY <3>2, <3>4, <3>5 DEF e
  <2>4. ASSUME NEW q \in Runs
        PROVE  current'[q] <= work'[q].opened /\ work'[q].opened <= work'[q].starts
    <3>1. CASE q = r
      <4>1. current'[q] = work[r].starts /\ work'[q].opened = work[r].starts /\ work'[q].starts = work[r].starts
        BY <1>1, <1>2, <3>1
      <4> QED BY <1>2, <4>1
    <3>2. CASE q # r
      <4>1. (current'[q] = 0 \/ current'[q] = current[q]) /\ work'[q] = work[q]
        BY <1>1, <1>2, <3>2
      <4> QED BY <1>2, <4>1
    <3> QED BY <3>1, <3>2
  <2> QED BY <1>1, <2>2, <2>3, <2>4 DEF s, EndedOK, Distinct
<1>8. ASSUME NEW q \in Runs, current[q] # 0, current'[q] = 0, NEW i \in DOMAIN ended, NEW j \in DOMAIN ended,
             ended[j] = <<q, current[q]>>, i < j
      PROVE  current'[ended[i][1]] # ended[i][2]
  <2> DEFINE e == ended[i]
  <2>1. q # r /\ <<q, current[q]>> \in Evicted
    BY <1>1, <1>2, <1>4, <1>8
  <2>2. PICK k \in 1 .. (Len(ended) - TerminalLimit + 1) : ended[k] = <<q, current[q]>>
    BY <2>1 DEF Evicted
  <2>3. /\ Len(ended) \in Nat /\ DOMAIN ended = 1 .. Len(ended) /\ TerminalLimit \in Nat \ {0}
    BY <1>2, RunLedgerAssumption
  <2>4. k \in DOMAIN ended
    BY <2>2, <2>3
  <2>5. j = k
    BY <1>2, <1>8, <2>2, <2>4 DEF Distinct
  <2>6. i \in 1 .. (Len(ended) - TerminalLimit + 1)
    BY <1>8, <2>2, <2>3, <2>5
  <2>7. e \in Evicted /\ e \in Ledgers /\ current[e[1]] = e[2]
    BY <1>2, <2>3, <2>6 DEF Evicted
  <2> HIDE DEF e
  <2>8. e[1] \in Runs /\ e[2] \in Nat /\ e[2] # 0 /\ e = <<e[1], current[e[1]]>>
    BY <1>3, <2>7
  <2>9. CASE e[1] = r
    <3>1. current'[e[1]] = work[r].starts /\ e[2] = current[r]
      BY <1>1, <2>7, <2>8, <2>9
    <3> QED BY <1>2, <1>4, <3>1 DEF e
  <2>10. CASE e[1] # r
    <3>1. current'[e[1]] = 0
      BY <1>1, <2>7, <2>8, <2>10
    <3> QED BY <2>8, <3>1 DEF e
  <2> QED BY <2>9, <2>10
<1>9. ASSUME NEW q \in Runs, current[q] # 0, current'[q] = 0 PROVE ledger[<<q, current[q]>>].terminal # {}
  <2>1. <<q, current[q]>> \in Evicted
    BY <1>1, <1>2, <1>4, <1>9
  <2>2. PICK k \in 1 .. (Len(ended) - TerminalLimit + 1) : ended[k] = <<q, current[q]>>
    BY <2>1 DEF Evicted
  <2>3. k \in DOMAIN ended
    <3>1. /\ Len(ended) \in Nat /\ DOMAIN ended = 1 .. Len(ended) /\ TerminalLimit \in Nat \ {0}
      BY <1>2, RunLedgerAssumption
    <3> QED BY <2>2, <3>1
  <2> QED BY <1>2, <2>2, <2>3
<1> QED BY <1>5, <1>6, <1>7, <1>8, <1>9

\* What a client is given next follows what it has, for a step of one handler.
GivesTheNext(c, k) ==
  LET before == conn[c].at IN
  conn[c].pc \in {"found", "streaming"} /\ k.pc = "streaming" /\ k.at # before =>
    IF conn[c].pc = "found"
    THEN k.at > before /\ ledger[conn[c].ledger].events # <<>> /\ k.replay[1] = k.at + 1
    ELSE k.at = before + 1

LEMMA Shifted ==
  ASSUME NEW a \in Nat, NEW b \in Nat, NEW c \in Nat
  PROVE  a + (b + 1) + c = a + 1 + b + c /\ b + c + 1 = (b + 1) + c
OBVIOUS

LEMMA Regrouped ==
  ASSUME NEW a \in Nat, NEW b \in Nat, NEW c \in Nat
  PROVE  a + b + c = a + (b + c) /\ a + 1 + b + c = a + (b + c + 1)
OBVIOUS

\* An event goes from the replay or from the channel to the client.
LEMMA WrittenIsNext ==
  ASSUME NEW k, NEW t, NEW next, NEW place \in Nat, DOMAIN k = ConnFields, DOMAIN t = ConnFields,
         k.pc = "streaming", HandlerAt(k, next), t.pc = k.pc, t.after = k.after, t.at = k.at,
         t.replay \in Seq(Nat), t.live \in Seq(Nat),
         StreamFrom(k, next, place), t.subscribed = k.subscribed,
         Len(t.replay) + Len(t.live) + 1 = Len(k.replay) + Len(k.live),
         \A i \in DOMAIN t.replay : t.replay[i] = place + 1 + i,
         \A i \in DOMAIN t.live : t.live[i] = place + 1 + Len(t.replay) + i
  PROVE  /\ HandlerAt(Written(t, place + 1), next)
         /\ Written(t, place + 1).at # k.at => Written(t, place + 1).at = k.at + 1
<1> DEFINE w == Written(t, place + 1)
<1>1. k.after \in Nat /\ k.at = IF k.after < place THEN place ELSE k.after
  BY DEF HandlerAt, StreamFrom
<1>2. /\ w.pc = t.pc /\ w.after = t.after /\ w.replay = t.replay /\ w.live = t.live /\ w.subscribed = t.subscribed
      /\ w.at = IF place + 1 > t.after THEN place + 1 ELSE t.at
  <2>1. CASE place + 1 > t.after
    <3> DEFINE v == [t EXCEPT !.at = place + 1]
    <3>1. /\ v.pc = t.pc /\ v.after = t.after /\ v.replay = t.replay /\ v.live = t.live
          /\ v.subscribed = t.subscribed /\ v.at = place + 1
      BY DEF ConnFields
    <3>2. w = v
      BY <2>1 DEF Written
    <3> QED BY <2>1, <3>1, <3>2
  <2>2. CASE ~ (place + 1 > t.after)
    BY <2>2 DEF Written
  <2> QED BY <2>1, <2>2
<1> HIDE DEF w
<1>3. w.at = IF w.after < place + 1 THEN place + 1 ELSE w.after
  <2>1. CASE k.after < place + 1
    <3>1. place + 1 > t.after
      BY <1>1, <2>1
    <3> QED BY <1>2, <2>1, <3>1
  <2>2. CASE ~ (k.after < place + 1)
    <3>1. ~ (place + 1 > t.after) /\ ~ (k.after < place)
      BY <1>1, <2>2
    <3> QED BY <1>1, <1>2, <2>2, <3>1
  <2> QED BY <2>1, <2>2
<1>4. w.subscribed => place + 1 + Len(w.replay) + Len(w.live) = next
  <2>1. Len(t.replay) \in Nat /\ Len(t.live) \in Nat /\ Len(k.replay) \in Nat /\ Len(k.live) \in Nat
    BY DEF HandlerAt
  <2>2. w.subscribed => place + (Len(k.replay) + Len(k.live)) = next
    <3>1. place + Len(k.replay) + Len(k.live) = place + (Len(k.replay) + Len(k.live))
      BY <2>1, Regrouped, ZenonT(60)
    <3> QED BY <1>2, <3>1 DEF StreamFrom
  <2>3. place + 1 + Len(t.replay) + Len(t.live) = place + (Len(t.replay) + Len(t.live) + 1)
    BY <2>1, Regrouped, ZenonT(60)
  <2> QED BY <1>2, <2>2, <2>3
<1>5. StreamFrom(w, next, place + 1) /\ place + 1 \in Nat
  <2>1. \A i \in DOMAIN w.replay : w.replay[i] = place + 1 + i
    BY <1>2
  <2>2. \A i \in DOMAIN w.live : w.live[i] = place + 1 + Len(w.replay) + i
    BY <1>2
  <2>3. StreamFrom(w, next, place + 1)
    BY <1>3, <1>4, <2>1, <2>2, Zenon DEF StreamFrom
  <2> QED BY <2>3
<1>6. HandlerAt(w, next)
  BY <1>1, <1>2, <1>5 DEF HandlerAt
<1>7. w.at # k.at => w.at = k.at + 1
  <2>1. CASE k.after < place + 1
    <3>1. k.at = place
      BY <1>1, <2>1
    <3> QED BY <1>2, <1>3, <2>1, <3>1
  <2>2. CASE ~ (k.after < place + 1)
    <3>1. k.at = k.after
      BY <1>1, <2>2
    <3> QED BY <1>2, <1>3, <2>2, <3>1
  <2> QED BY <2>1, <2>2
<1> QED BY <1>6, <1>7 DEF w

LEMMA TheLedgerStays ==
  ASSUME NEW k, NEW seq, DOMAIN k = ConnFields
  PROVE  Written(k, seq).ledger = k.ledger
<1>1. [k EXCEPT !.at = seq].ledger = k.ledger
  BY DEF ConnFields
<1> QED BY <1>1 DEF Written

LEMMA TheTailFollows ==
  ASSUME NEW s \in Seq(Nat), s # <<>>, NEW place \in Nat, \A i \in DOMAIN s : s[i] = place + i
  PROVE  /\ Head(s) = place + 1 /\ Tail(s) \in Seq(Nat) /\ Len(s) = Len(Tail(s)) + 1
         /\ \A i \in DOMAIN Tail(s) : Tail(s)[i] = place + 1 + i
<1>1. /\ Len(s) \in Nat /\ Len(s) >= 1 /\ DOMAIN s = 1 .. Len(s) /\ Head(s) = s[1]
      /\ Tail(s) \in Seq(Nat) /\ Len(Tail(s)) = Len(s) - 1
      /\ \A i \in 1 .. Len(s) - 1 : Tail(s)[i] = s[i + 1]
  OBVIOUS
<1>2. DOMAIN Tail(s) = 1 .. Len(s) - 1
  BY <1>1
<1>3. ASSUME NEW i \in DOMAIN Tail(s) PROVE Tail(s)[i] = place + 1 + i
  <2>1. i + 1 \in DOMAIN s /\ Tail(s)[i] = s[i + 1] /\ i \in Nat
    BY <1>1, <1>2
  <2>2. s[i + 1] = place + (i + 1)
    BY <2>1
  <2>3. place + (i + 1) = place + 1 + i
    BY <2>1
  <2> QED BY <2>1, <2>2, <2>3
<1> QED BY <1>1, <1>3

LEMMA HandlerGoesOn ==
  ASSUME RetentionInv, NEW c \in Clients, HandlerStep(c) \/ Disconnect(c)
  PROVE  \E k : Set(c, k) /\ HandlerAt(k, ledger[k.ledger].next) /\ GivesTheNext(c, k)
<1> DEFINE h == conn[c]
<1>1. HandlerIn(h, ledger[h.ledger].terminal) /\ HandlerAt(h, ledger[h.ledger].next)
  BY DEF RetentionInv, ChannelInv, HandlersShaped, HandlersAt
<1>2. DOMAIN h = ConnFields /\ h.after \in Nat /\ h.replay \in Seq(Nat) /\ h.live \in Seq(Nat)
  BY <1>1 DEF HandlerIn, HandlerAt
<1>3. HandlerAt(Off, ledger[Off.ledger].next) /\ GivesTheNext(c, Off)
  BY DEF HandlerAt, Off, GivesTheNext
<1>4. CASE Lookup(c)
  <2> DEFINE r == h.run
             l == <<r, current[r]>>
             k == [h EXCEPT !.pc = "found", !.ledger = l]
  <2>1. h.pc = "asking" /\ Set(c, IF current[r] = 0 THEN Off ELSE k)
    BY <1>4 DEF Lookup
  <2>2. h.at = h.after /\ h.live = <<>>
    BY <1>1, <2>1 DEF HandlerAt
  <2> HIDE DEF h, l
  <2>3. k.pc = "found" /\ k.at = h.at /\ k.after = h.after /\ k.replay = h.replay /\ k.live = h.live
    BY <1>2 DEF ConnFields
  <2> HIDE DEF k
  <2>4. HandlerAt(k, ledger[k.ledger].next) /\ GivesTheNext(c, k)
    BY <1>2, <2>2, <2>3 DEF HandlerAt, GivesTheNext
  <2> QED BY <1>3, <2>1, <2>4
<1>5. CASE Subscribe(c)
  <2> DEFINE l == ledger[h.ledger]
             k == [h EXCEPT !.pc = "streaming",
                            !.at = IF h.after < l.floor THEN l.floor ELSE @,
                            !.replay = [i \in 1..Len(l.events) |-> l.floor + i],
                            !.subscribed = l.terminal = {},
                            !.closed = IF l.terminal = {} THEN 0 ELSE 1]
  <2>1. h.pc = "found" /\ Set(c, k)
    BY <1>5 DEF Subscribe
  <2>2. h.at = h.after /\ h.live = <<>> /\ LedgerOK(l)
    BY <1>1, <2>1 DEF HandlerAt, HandlerIn, RetentionInv, LedgersOK
  <2>3. /\ l.next \in Nat /\ l.floor \in Nat /\ l.events \in Seq(Sizes) /\ Len(l.events) \in Nat
        /\ l.floor + Len(l.events) = l.next /\ (l.floor > 0 => l.events # <<>>)
    BY <2>2 DEF LedgerOK
  <2> HIDE DEF l
  <2>4. /\ k.pc = "streaming" /\ k.after = h.after /\ k.live = h.live /\ k.ledger = h.ledger
        /\ k.at = (IF h.after < l.floor THEN l.floor ELSE h.at)
        /\ k.replay = [i \in 1..Len(l.events) |-> l.floor + i]
    BY <1>2 DEF ConnFields
  <2> HIDE DEF k, h
  <2>5. /\ k.replay \in Seq(Nat) /\ DOMAIN k.replay = 1 .. Len(l.events) /\ Len(k.replay) = Len(l.events)
        /\ \A i \in DOMAIN k.replay : k.replay[i] = l.floor + i
    <3>1. \A i \in 1 .. Len(l.events) : l.floor + i \in Nat
      BY <2>3
    <3> QED BY <2>3, <2>4, <3>1
  <2>6. k.live = <<>> /\ DOMAIN k.live = {} /\ Len(k.live) = 0
    BY <2>2, <2>4
  <2>7. StreamFrom(k, l.next, l.floor)
    <3>1. l.floor + Len(k.replay) + Len(k.live) = l.next
      BY <2>3, <2>5, <2>6
    <3>2. k.at = (IF k.after < l.floor THEN l.floor ELSE k.after)
      BY <2>2, <2>4
    <3> QED BY <2>5, <2>6, <3>1, <3>2 DEF StreamFrom
  <2>8. HandlerAt(k, l.next)
    BY <1>2, <2>2, <2>3, <2>4, <2>5, <2>6, <2>7 DEF HandlerAt
  <2>9. GivesTheNext(c, k)
    <3> SUFFICES ASSUME k.at # h.at
                 PROVE  k.at > h.at /\ l.events # <<>> /\ k.replay[1] = k.at + 1
      BY <2>1 DEF GivesTheNext, h, l
    <3>1. h.after < l.floor /\ k.at = l.floor
      BY <2>4
    <3>2. l.floor > 0 /\ l.events # <<>> /\ Len(l.events) >= 1
      BY <1>2, <2>3, <3>1
    <3>3. 1 \in DOMAIN k.replay
      BY <2>3, <2>5, <3>2
    <3> QED BY <1>2, <2>2, <2>3, <2>5, <3>1, <3>2, <3>3
  <2>10. HandlerAt(k, ledger[k.ledger].next)
    BY <2>4, <2>8 DEF l
  <2> QED BY <2>1, <2>9, <2>10
<1>6. CASE Replay(c)
  <2> DEFINE t == [h EXCEPT !.replay = Tail(@)]
             w == Written(t, Head(h.replay))
  <2>1. h.pc = "streaming" /\ h.replay # <<>> /\ Set(c, w)
    BY <1>6 DEF Replay
  <2>2. PICK place \in Nat : StreamFrom(h, ledger[h.ledger].next, place)
    BY <1>1, <2>1 DEF HandlerAt
  <2> HIDE DEF h
  <2>3. /\ DOMAIN t = ConnFields /\ t.pc = h.pc /\ t.after = h.after /\ t.at = h.at /\ t.ledger = h.ledger
        /\ t.subscribed = h.subscribed /\ t.replay = Tail(h.replay) /\ t.live = h.live
    BY <1>2 DEF ConnFields
  <2> HIDE DEF t
  <2>4. /\ Head(h.replay) = place + 1 /\ t.replay \in Seq(Nat) /\ Len(h.replay) = Len(t.replay) + 1
        /\ \A i \in DOMAIN t.replay : t.replay[i] = place + 1 + i
    <3>1. \A i \in DOMAIN h.replay : h.replay[i] = place + i
      BY <2>2 DEF StreamFrom
    <3>2. /\ Head(h.replay) = place + 1 /\ Tail(h.replay) \in Seq(Nat) /\ Len(h.replay) = Len(Tail(h.replay)) + 1
          /\ \A i \in DOMAIN Tail(h.replay) : Tail(h.replay)[i] = place + 1 + i
      <4>1. h.replay \in Seq(Nat) /\ h.replay # <<>> /\ place \in Nat
        BY <1>2, <2>1, <2>2
      <4> QED BY <3>1, <4>1, TheTailFollows
    <3> QED BY <2>3, <3>2
  <2>5. /\ Len(t.replay) + Len(t.live) + 1 = Len(h.replay) + Len(h.live)
        /\ \A i \in DOMAIN t.live : t.live[i] = place + 1 + Len(t.replay) + i
    <3>1. Len(t.replay) \in Nat /\ Len(h.live) \in Nat /\ Len(t.live) = Len(h.live) /\ DOMAIN h.live = 1 .. Len(h.live)
      BY <1>2, <2>3, <2>4
    <3>2. ASSUME NEW i \in DOMAIN t.live PROVE t.live[i] = place + 1 + Len(t.replay) + i
      <4>1. i \in DOMAIN h.live /\ t.live[i] = h.live[i] /\ i \in Nat
        BY <2>3, <3>1
      <4>2. h.live[i] = place + Len(h.replay) + i
        BY <2>2, <4>1 DEF StreamFrom
      <4>3. place + (Len(t.replay) + 1) + i = place + 1 + Len(t.replay) + i
        BY <2>2, <3>1, <4>1, Shifted
      <4> QED BY <2>4, <4>1, <4>2, <4>3
    <3>3. Len(t.replay) + Len(h.live) + 1 = (Len(t.replay) + 1) + Len(h.live)
      BY <3>1, Shifted
    <3> QED BY <2>4, <3>1, <3>2, <3>3
  <2>6. HandlerAt(w, ledger[h.ledger].next) /\ (w.at # h.at => w.at = h.at + 1)
    <3> HIDE DEF w
    <3>1. w = Written(t, place + 1)
      BY <2>4 DEF w
    <3> QED BY <1>1, <1>2, <2>1, <2>2, <2>3, <2>4, <2>5, <3>1, WrittenIsNext DEF h
  <2>7. w.ledger = h.ledger
    BY <2>3, TheLedgerStays
  <2> HIDE DEF w
  <2>8. GivesTheNext(c, w)
    BY <2>1, <2>6 DEF GivesTheNext, h
  <2> QED BY <2>1, <2>6, <2>7, <2>8
<1>7. CASE Stream(c)
  <2> DEFINE t == [h EXCEPT !.live = Tail(@)]
             w == Written(t, Head(h.live))
  <2>1. h.pc = "streaming" /\ h.replay = <<>> /\ h.live # <<>> /\ Set(c, w)
    BY <1>7 DEF Stream
  <2>2. PICK place \in Nat : StreamFrom(h, ledger[h.ledger].next, place)
    BY <1>1, <2>1 DEF HandlerAt
  <2> HIDE DEF h
  <2>3. /\ DOMAIN t = ConnFields /\ t.pc = h.pc /\ t.after = h.after /\ t.at = h.at /\ t.ledger = h.ledger
        /\ t.subscribed = h.subscribed /\ t.replay = h.replay /\ t.live = Tail(h.live)
    BY <1>2 DEF ConnFields
  <2> HIDE DEF t
  <2>4. Len(h.replay) = 0 /\ Len(t.replay) = 0 /\ DOMAIN t.replay = {} /\ t.replay \in Seq(Nat)
    BY <1>2, <2>1, <2>3
  <2>5. /\ Head(h.live) = place + 1 /\ t.live \in Seq(Nat) /\ Len(h.live) = Len(t.live) + 1
        /\ \A i \in DOMAIN t.live : t.live[i] = place + 1 + i
    <3>1. h.live \in Seq(Nat) /\ h.live # <<>> /\ place \in Nat /\ DOMAIN h.live = 1 .. Len(h.live)
      BY <1>2, <2>1, <2>2
    <3>2. \A i \in DOMAIN h.live : h.live[i] = place + i
      <4> SUFFICES ASSUME NEW i \in DOMAIN h.live PROVE h.live[i] = place + i
        OBVIOUS
      <4>1. h.live[i] = place + Len(h.replay) + i
        BY <2>2 DEF StreamFrom
      <4> QED BY <2>4, <3>1, <4>1
    <3>3. /\ Head(h.live) = place + 1 /\ Tail(h.live) \in Seq(Nat) /\ Len(h.live) = Len(Tail(h.live)) + 1
          /\ \A i \in DOMAIN Tail(h.live) : Tail(h.live)[i] = place + 1 + i
      BY <3>1, <3>2, TheTailFollows
    <3> QED BY <2>3, <3>3
  <2>6. /\ Len(t.replay) + Len(t.live) + 1 = Len(h.replay) + Len(h.live)
        /\ \A i \in DOMAIN t.live : t.live[i] = place + 1 + Len(t.replay) + i
    <3>1. Len(t.live) \in Nat /\ place \in Nat
      BY <2>2, <2>5
    <3>2. place + 1 + 0 = place + 1 /\ 0 + Len(t.live) + 1 = 0 + (Len(t.live) + 1)
      BY <3>1
    <3> QED BY <2>4, <2>5, <3>2
  <2>7. HandlerAt(w, ledger[h.ledger].next) /\ (w.at # h.at => w.at = h.at + 1)
    <3> HIDE DEF w
    <3>1. w = Written(t, place + 1)
      BY <2>5 DEF w
    <3>2. \A i \in DOMAIN t.replay : t.replay[i] = place + 1 + i
      BY <2>4
    <3> QED BY <1>1, <1>2, <2>1, <2>2, <2>3, <2>4, <2>5, <2>6, <3>1, <3>2, WrittenIsNext DEF h
  <2>8. w.ledger = h.ledger
    BY <2>3, TheLedgerStays
  <2> HIDE DEF w
  <2>9. GivesTheNext(c, w)
    BY <2>1, <2>7 DEF GivesTheNext, h
  <2> QED BY <2>1, <2>7, <2>8, <2>9
<1>8. CASE StreamEnds(c) \/ Disconnect(c)
  <2>1. Set(c, Off)
    BY <1>8 DEF StreamEnds, Disconnect
  <2> QED BY <1>3, <2>1
<1> QED BY <1>4, <1>5, <1>6, <1>7, <1>8 DEF HandlerStep

LEMMA ConnectIsOK ==
  ASSUME RetentionInv, NEW c \in Clients, NEW r \in Runs, NEW after \in 0 .. MaxEvents, Connect(c, r, after)
  PROVE  \E k : Set(c, k) /\ HandlerAt(k, ledger[k.ledger].next) /\ GivesTheNext(c, k)
<1> DEFINE k == [Off EXCEPT !.pc = "asking", !.run = r, !.after = after, !.at = after]
<1>1. Set(c, k)
  BY DEF Connect
<1>2. /\ k.pc = "asking" /\ k.at = after /\ k.after = after /\ k.replay = <<>> /\ k.live = <<>>
      /\ after \in Nat
  BY DEF Off
<1> HIDE DEF k
<1>3. HandlerAt(k, ledger[k.ledger].next) /\ GivesTheNext(c, k)
  BY <1>2 DEF HandlerAt, GivesTheNext
<1> QED BY <1>1, <1>3

\* What a step does to who observes and to what is retained.
Retains ==
  /\ \A c \in Clients : GivesTheNext(c, conn'[c])
  /\ \A r \in Runs :
       current[r] # 0 /\ current'[r] = 0 =>
         LET evicted == <<r, current[r]>>
         IN  /\ ledger[evicted].terminal # {}
             /\ \A i, j \in DOMAIN ended :
                  ended[j] = evicted /\ i < j => current'[ended[i][1]] # ended[i][2]

LEMMA WhoStaysIsGivenNothing ==
  ASSUME RetentionInv, \A c \in Clients : conn'[c].at = conn[c].at, \A c \in Clients : conn'[c].pc = conn[c].pc
  PROVE  \A c \in Clients : GivesTheNext(c, conn'[c])
BY DEF GivesTheNext

THEOREM RetentionGoesOn == RetentionInv /\ [Next]_vars => RetentionInv' /\ Retains
<1> SUFFICES ASSUME RetentionInv, [Next]_vars PROVE RetentionInv' /\ Retains
  OBVIOUS
<1>1. ChannelInv'
  BY ChannelInvNext DEF RetentionInv
<1> SUFFICES LedgersOK' /\ HandlersAt' /\ EndedOK' /\ Retains
  BY <1>1 DEF RetentionInv
<1>2. ASSUME NEW c \in Clients, NEW k, Set(c, k), HandlerAt(k, ledger[k.ledger].next), GivesTheNext(c, k)
      PROVE  LedgersOK' /\ HandlersAt' /\ EndedOK' /\ Retains
  <2>1. LedgersOK' /\ HandlersAt' /\ EndedOK'
    BY <1>2, SetIsOK
  <2>2. conn' = [conn EXCEPT ![c] = k] /\ current' = current
    BY <1>2 DEF Set, publishers
  <2>3. ASSUME NEW d \in Clients PROVE GivesTheNext(d, conn'[d])
    <3>1. conn = [x \in Clients |-> conn[x]]
      BY DEF RetentionInv, ChannelInv, HandlersShaped
    <3>2. CASE d = c
      <4>1. conn'[d] = k
        BY <2>2, <3>1, <3>2
      <4> QED BY <1>2, <3>2, <4>1
    <3>3. CASE d # c
      <4>1. conn'[d] = conn[d]
        BY <2>2, <3>1, <3>3
      <4> QED BY <4>1 DEF GivesTheNext, RetentionInv, ChannelInv, HandlersShaped, HandlerIn
    <3> QED BY <3>2, <3>3
  <2> QED BY <2>1, <2>2, <2>3 DEF Retains
<1>3. ASSUME UNCHANGED <<ledger, current, ended, conn>>,
             \A r \in Runs : work'[r].opened = work[r].opened /\ work[r].starts <= work'[r].starts /\ work'[r].starts \in Nat
      PROVE  LedgersOK' /\ HandlersAt' /\ EndedOK' /\ Retains
  <2>1. LedgersOK' /\ HandlersAt'
    BY <1>3 DEF RetentionInv, LedgersOK, HandlersAt
  <2>2. ASSUME NEW r \in Runs PROVE current'[r] <= work'[r].opened /\ work'[r].opened <= work'[r].starts
    <3>1. work[r].opened \in Nat /\ work[r].starts \in Nat /\ current[r] <= work[r].opened /\ work[r].opened <= work[r].starts
      BY DEF RetentionInv, ChannelInv, RunsTyped, EndedOK
    <3> QED BY <1>3, <3>1
  <2>3. EndedOK'
    BY <1>3, <2>2 DEF RetentionInv, EndedOK
  <2>4. \A c \in Clients : GivesTheNext(c, conn'[c])
    BY <1>3, WhoStaysIsGivenNothing
  <2>5. \A r \in Runs : current'[r] = current[r]
    BY <1>3
  <2> QED BY <2>1, <2>3, <2>4, <2>5 DEF Retains
<1>4. work \in [Runs -> [active : BOOLEAN, reporting : BOOLEAN, starts : 0..MaxStarts, opened : 0..MaxStarts]]
  BY DEF RetentionInv, ChannelInv, RunsTyped
<1>5. ASSUME NEW r \in Runs, StartRun(r) \/ EndRun(r)
      PROVE  LedgersOK' /\ HandlersAt' /\ EndedOK' /\ Retains
  <2>1. UNCHANGED <<ledger, current, ended, conn>>
    BY <1>5 DEF StartRun, EndRun
  <2>2. \A q \in Runs : /\ work'[q].opened = work[q].opened /\ work[q].starts <= work'[q].starts
                        /\ work'[q].starts \in Nat
    <3>1. \A q \in Runs : work[q].starts \in Nat
      BY <1>4, RunLedgerAssumption
    <3> QED BY <1>4, <1>5, <3>1 DEF StartRun, EndRun
  <2> QED BY <1>3, <2>1, <2>2
<1>6. ASSUME NEW r \in Runs, OpenLedger(r)
      PROVE  LedgersOK' /\ HandlersAt' /\ EndedOK' /\ Retains
  <2>1. conn' = conn
    BY <1>6 DEF OpenLedger
  <2>2. \A c \in Clients : GivesTheNext(c, conn'[c])
    BY <2>1, WhoStaysIsGivenNothing
  <2> QED BY <1>6, <2>2, OpenLedgerIsOK DEF Retains
<1>7. ASSUME NEW r \in Runs, PublishEvent(r) \/ (PublishTerminal(r) /\ current[r] # 0)
      PROVE  LedgersOK' /\ HandlersAt' /\ EndedOK' /\ Retains
  <2>1. /\ current[r] # 0 /\ current' = current
        /\ \E size \in Sizes, terminal \in BOOLEAN : Publish(<<r, current[r]>>, size, terminal)
        /\ work' = work \/ work' = [work EXCEPT ![r].reporting = FALSE]
    <3>1. CASE PublishEvent(r)
      <4>1. work[r].starts > 0 /\ current[r] = work[r].starts /\ current' = current /\ work' = work
        BY <3>1 DEF PublishEvent
      <4>2. \E size \in Sizes : Publish(<<r, current[r]>>, size, FALSE)
        BY <3>1 DEF PublishEvent
      <4>3. current[r] # 0
        BY <4>1
      <4> QED BY <4>1, <4>2, <4>3
    <3>2. CASE PublishTerminal(r) /\ current[r] # 0
      <4>1. 1 \in Sizes
        BY RunLedgerAssumption DEF Sizes
      <4> QED BY <3>2, <4>1 DEF PublishTerminal
    <3> QED BY <1>7, <3>1, <3>2
  <2>2. PICK size \in Sizes, terminal \in BOOLEAN : Publish(<<r, current[r]>>, size, terminal)
    BY <2>1
  <2>3. LedgersOK' /\ HandlersAt' /\ EndedOK' /\ \A c \in Clients : conn'[c].at = conn[c].at
    BY <2>1, <2>2, PublishIsOK
  <2>4. \A c \in Clients : GivesTheNext(c, conn'[c])
    <3> SUFFICES ASSUME NEW c \in Clients, conn[c].pc \in {"found", "streaming"}, conn'[c].pc = "streaming",
                        conn'[c].at # conn[c].at
                 PROVE  FALSE
      BY DEF GivesTheNext
    <3> QED BY <2>3
  <2>5. \A q \in Runs : current'[q] = current[q]
    BY <2>1
  <2> QED BY <2>3, <2>4, <2>5 DEF Retains
<1>8. ASSUME NEW r \in Runs, PublishTerminal(r), current[r] = 0
      PROVE  LedgersOK' /\ HandlersAt' /\ EndedOK' /\ Retains
  <2>1. UNCHANGED <<ledger, current, ended, conn>>
    BY <1>8 DEF PublishTerminal
  <2>2. \A q \in Runs : /\ work'[q].opened = work[q].opened /\ work[q].starts <= work'[q].starts
                        /\ work'[q].starts \in Nat
    <3>1. \A q \in Runs : work[q].starts \in Nat
      BY <1>4, RunLedgerAssumption
    <3> QED BY <1>4, <1>8, <3>1 DEF PublishTerminal
  <2> QED BY <1>3, <2>1, <2>2
<1>9. ASSUME NEW c \in Clients,
             (\E r \in Runs, after \in 0 .. MaxEvents : Connect(c, r, after)) \/ HandlerStep(c) \/ Disconnect(c)
      PROVE  LedgersOK' /\ HandlersAt' /\ EndedOK' /\ Retains
  <2>1. \E k : Set(c, k) /\ HandlerAt(k, ledger[k.ledger].next) /\ GivesTheNext(c, k)
    BY <1>9, ConnectIsOK, HandlerGoesOn
  <2> QED BY <1>2, <2>1
<1>10. CASE UNCHANGED vars
  <2>1. \A q \in Runs : work[q].starts \in Nat
    BY <1>4, RunLedgerAssumption
  <2> QED BY <1>3, <1>10, <2>1 DEF vars
<1> QED BY <1>5, <1>6, <1>7, <1>8, <1>9, <1>10 DEF Next, RunStep

\* agentRunLedger.publish and subscribe pass over no event without a reset, and
\* createRunLedger makes room with runs that are over, the first that ended
\* first.
THEOREM NothingIsEverLostSilently == Spec => NothingIsLostSilently
<1> DEFINE Kind(c) ==
             LET before == conn[c].at  after == conn'[c].at IN
             conn[c].pc \in {"found", "streaming"} /\ conn'[c].pc = "streaming" /\ after # before =>
               IF conn[c].pc = "found"
               THEN after > before /\ ledger[conn[c].ledger].events # <<>> /\ conn'[c].replay[1] = after + 1
               ELSE after = before + 1
           Gap == \A c \in Clients : Kind(c)
           Room == \A r \in Runs :
             current[r] # 0 /\ current'[r] = 0 =>
               LET evicted == <<r, current[r]>>
               IN  /\ ledger[evicted].terminal # {}
                   /\ \A i, j \in DOMAIN ended :
                        ended[j] = evicted /\ i < j => current'[ended[i][1]] # ended[i][2]
<1>1. RetentionInv /\ [Next]_vars => [Gap]_vars /\ [Room]_vars
  BY RetentionGoesOn DEF Retains, GivesTheNext
<1>2. RetentionInv /\ [Next]_vars => RetentionInv'
  BY RetentionGoesOn
<1> QED BY <1>1, <1>2, RetentionBegins, PTL DEF Spec, NothingIsLostSilently, NoSilentGap, ActiveLedgersStay

-----------------------------------------------------------------------------
(* Whom handlers wait for.  A ledger that is in the map, or that a handler  *)
(* has found, has had its end, or its end is still to come, or it was       *)
(* opened late.                                                             *)

Held(l) == current[l[1]] = l[2] \/ \E c \in Clients : conn[c].pc \in {"found", "streaming"} /\ conn[c].ledger = l
EndIsKnown(l) == ledger[l].terminal # {} \/ ledger[l].late = TRUE \/ EndIsComing(l)
EndsAreKnown == \A l \in Ledgers : Held(l) => EndIsKnown(l)

\* What is published to a ledger leaves the others, and who holds them, alone.
LEMMA PublishTells ==
  ASSUME ChannelInv, NEW l \in Ledgers, NEW size, NEW terminal \in BOOLEAN, Publish(l, size, terminal)
  PROVE  /\ \A x \in Ledgers : /\ ledger'[x].late = ledger[x].late
                               /\ ledger[x].terminal # {} => ledger'[x].terminal # {}
         /\ terminal => ledger'[l].terminal # {}
         /\ \A c \in Clients : conn'[c].pc = conn[c].pc /\ conn'[c].ledger = conn[c].ledger
<1> DEFINE seq == ledger[l].next + 1
           last == [ledger[l] EXCEPT !.next = seq, !.events = Append(@, size),
                                     !.terminal = IF terminal THEN @ \cup {seq} ELSE @]
<1>1. /\ ledger = [x \in Ledgers |-> ledger[x]] /\ DOMAIN ledger[l] = LedgerFields
      /\ \A c \in Clients : DOMAIN conn[c] = ConnFields
  BY DEF ChannelInv, LedgersShaped, HandlersShaped, HandlerIn
<1>2. /\ ledger' = [ledger EXCEPT ![l] = Trimmed(last)]
      /\ conn' = [c \in Clients |-> IF conn[c].ledger = l /\ conn[c].subscribed
                                    THEN Delivered(conn[c], seq, last.terminal # {}) ELSE conn[c]]
  BY DEF Publish
<1> HIDE DEF seq
<1>3. /\ DOMAIN last = LedgerFields /\ last.late = ledger[l].late
      /\ last.terminal = IF terminal THEN ledger[l].terminal \cup {seq} ELSE ledger[l].terminal
  BY <1>1 DEF LedgerFields
<1> HIDE DEF last
<1>4. Trimmed(last).terminal = last.terminal /\ Trimmed(last).late = last.late
  BY <1>3, TrimmedKeeps
<1>5. ledger'[l] = Trimmed(last) /\ \A x \in Ledgers : x # l => ledger'[x] = ledger[x]
  BY <1>1, <1>2
<1>6. ASSUME NEW c \in Clients PROVE conn'[c].pc = conn[c].pc /\ conn'[c].ledger = conn[c].ledger
  <2> DEFINE k == conn[c]
             over == last.terminal # {}
  <2>1. DOMAIN k = ConnFields
    BY <1>1
  <2>2. conn'[c] = IF k.ledger = l /\ k.subscribed THEN Delivered(k, seq, over) ELSE k
    BY <1>2
  <2> HIDE DEF k, over
  <2>3. Delivered(k, seq, over).pc = k.pc /\ Delivered(k, seq, over).ledger = k.ledger
    BY <2>1 DEF Delivered, ConnFields
  <2> QED BY <2>2, <2>3 DEF k
<1> QED BY <1>3, <1>4, <1>5, <1>6

\* A step of a handler holds no ledger that was not held.
LEMMA HandlersHoldWhatIsThere ==
  ASSUME ChannelInv, EndsAreKnown, NEW c \in Clients, NEW k, Set(c, k),
         k.pc \in {"found", "streaming"} => k.ledger \in Ledgers /\ Held(k.ledger)
  PROVE  EndsAreKnown'
<1>1. conn = [d \in Clients |-> conn[d]]
  BY DEF ChannelInv, HandlersShaped
<1>2. conn' = [conn EXCEPT ![c] = k] /\ UNCHANGED <<ledger, current, ended, work>>
  BY DEF Set, publishers
<1>3. conn'[c] = k /\ \A d \in Clients : d # c => conn'[d] = conn[d]
  BY <1>1, <1>2
<1> SUFFICES ASSUME NEW l \in Ledgers, Held(l)' PROVE EndIsKnown(l)'
  BY DEF EndsAreKnown
<1>4. Held(l)
  <2>1. CASE current'[l[1]] = l[2]
    BY <1>2, <2>1 DEF Held
  <2>2. CASE ~ (current'[l[1]] = l[2])
    <3>1. PICK d \in Clients : conn'[d].pc \in {"found", "streaming"} /\ conn'[d].ledger = l
      BY <2>2 DEF Held
    <3>2. CASE d = c
      BY <1>3, <3>1, <3>2
    <3>3. CASE d # c
      BY <1>3, <3>1, <3>3 DEF Held
    <3> QED BY <3>2, <3>3
  <2> QED BY <2>1, <2>2
<1>5. EndIsKnown(l)
  BY <1>4 DEF EndsAreKnown
<1> QED BY <1>2, <1>5 DEF EndIsKnown, EndIsComing

LEMMA EndsAreKnownNext ==
  ASSUME RetentionInv, EndsAreKnown, [Next]_vars
  PROVE  EndsAreKnown'
<1> USE RunLedgerAssumption
<1>0. /\ ChannelInv
      /\ current \in [Runs -> 0..MaxStarts] /\ MaxStarts \in Nat
      /\ work \in [Runs -> [active : BOOLEAN, reporting : BOOLEAN, starts : 0..MaxStarts, opened : 0..MaxStarts]]
      /\ \A l \in Ledgers : l[1] \in Runs /\ l[2] \in Nat /\ l[2] # 0 /\ l = <<l[1], l[2]>>
  BY DEF RetentionInv, ChannelInv, RunsTyped, Ledgers
<1>1. ASSUME NEW r \in Runs, StartRun(r) PROVE EndsAreKnown'
  <2>1. /\ work' = [work EXCEPT ![r].active = TRUE, ![r].starts = @ + 1]
        /\ ~ work[r].active /\ ~ work[r].reporting /\ UNCHANGED <<ledger, current, ended, conn>>
    BY <1>1 DEF StartRun
  <2> SUFFICES ASSUME NEW l \in Ledgers, Held(l)' PROVE EndIsKnown(l)'
    BY DEF EndsAreKnown
  <2>2. EndIsKnown(l)
    BY <2>1 DEF EndsAreKnown, Held
  <2>3. CASE l[1] = r
    BY <2>1, <2>2, <2>3 DEF EndIsKnown, EndIsComing
  <2>4. CASE l[1] # r
    <3>1. work'[l[1]] = work[l[1]]
      BY <1>0, <2>1, <2>4
    <3> QED BY <2>1, <2>2, <3>1 DEF EndIsKnown, EndIsComing
  <2> QED BY <2>3, <2>4
<1>2. ASSUME NEW r \in Runs, OpenLedger(r) PROVE EndsAreKnown'
  <2> DEFINE new == <<r, work[r].starts>>
  <2>1. /\ work[r].opened < work[r].starts /\ conn' = conn
        /\ work' = [work EXCEPT ![r].opened = work[r].starts]
        /\ current' = [q \in Runs |-> IF q = r THEN work[r].starts
                                      ELSE IF <<q, current[q]>> \in Evicted THEN 0 ELSE current[q]]
    BY <1>2 DEF OpenLedger
  <2>2. \A l \in Ledgers :
          /\ \/ ledger'[l] = EmptyLedger /\ current'[l[1]] # l[2] /\ \A c \in Clients : conn[c].ledger # l
             \/ /\ ledger'[l].terminal = ledger[l].terminal
                /\ l # new => ledger'[l].late = ledger[l].late
          /\ l = new => ledger'[l].late = (~ work[r].active /\ ~ work[r].reporting)
    BY <1>0, <1>2, OpenedLedgers
  <2>3. /\ \A q \in Runs : /\ work'[q].active = work[q].active /\ work'[q].reporting = work[q].reporting
                           /\ work'[q].starts = work[q].starts
        /\ work[r].active \in BOOLEAN /\ work[r].reporting \in BOOLEAN
    BY <1>0, <2>1
  <2> SUFFICES ASSUME NEW l \in Ledgers, Held(l)' PROVE EndIsKnown(l)'
    BY DEF EndsAreKnown
  <2>4. CASE l = new
    <3>1. l[1] = r /\ l[2] = work[r].starts /\ current'[r] = work[r].starts
      BY <2>1, <2>4
    <3>2. CASE work[r].active \/ work[r].reporting
      BY <2>3, <3>1, <3>2 DEF EndIsKnown, EndIsComing
    <3>3. CASE ~ (work[r].active \/ work[r].reporting)
      BY <2>2, <2>4, <3>3 DEF EndIsKnown
    <3> QED BY <3>2, <3>3
  <2>5. CASE l # new
    <3>1. ledger'[l].terminal = ledger[l].terminal /\ ledger'[l].late = ledger[l].late
      BY <2>1, <2>2, <2>5 DEF Held
    <3>2. l[1] # r \/ l[2] # work[r].starts
      BY <1>0, <2>5
    <3>3. Held(l)
      <4>1. CASE current'[l[1]] = l[2]
        <5>1. l[1] # r
          BY <2>1, <3>2, <4>1
        <5>2. current[l[1]] = l[2]
          BY <1>0, <2>1, <4>1, <5>1
        <5> QED BY <5>2 DEF Held
      <4>2. CASE ~ (current'[l[1]] = l[2])
        BY <2>1, <4>2 DEF Held
      <4> QED BY <4>1, <4>2
    <3>4. EndIsKnown(l)
      BY <3>3 DEF EndsAreKnown
    <3>5. CASE EndIsComing(l)
      <4>1. current[l[1]] = l[2] /\ l[1] # r
        BY <3>2, <3>5 DEF EndIsComing
      <4>2. CASE <<l[1], current[l[1]]>> \in Evicted
        <5>1. current'[l[1]] = 0
          BY <1>0, <2>1, <4>1, <4>2
        <5>2. ledger[l].terminal # {}
          <6>1. current[l[1]] # 0 /\ l = <<l[1], current[l[1]]>>
            BY <1>0, <4>1
          <6>2. ledger[<<l[1], current[l[1]]>>].terminal # {}
            BY <1>0, <1>2, <5>1, <6>1, OpenLedgerIsOK
          <6> QED BY <6>1, <6>2
        <5> QED BY <3>1, <5>2 DEF EndIsKnown
      <4>3. CASE <<l[1], current[l[1]]>> \notin Evicted
        <5>1. current'[l[1]] = current[l[1]]
          BY <1>0, <2>1, <4>1, <4>3
        <5> QED BY <1>0, <2>3, <3>5, <5>1 DEF EndIsComing, EndIsKnown
      <4> QED BY <4>2, <4>3
    <3> QED BY <3>1, <3>4, <3>5 DEF EndIsKnown
  <2> QED BY <2>4, <2>5
<1>3. ASSUME NEW r \in Runs, PublishEvent(r) PROVE EndsAreKnown'
  <2>1. <<r, current[r]>> \in Ledgers
    BY <1>0, <1>3 DEF PublishEvent, Ledgers
  <2>2. PICK size \in Sizes : Publish(<<r, current[r]>>, size, FALSE)
    BY <1>3 DEF PublishEvent
  <2>3. UNCHANGED <<current, work>>
    BY <1>3 DEF PublishEvent
  <2>4. /\ \A x \in Ledgers : /\ ledger'[x].late = ledger[x].late
                              /\ ledger[x].terminal # {} => ledger'[x].terminal # {}
        /\ \A c \in Clients : conn'[c].pc = conn[c].pc /\ conn'[c].ledger = conn[c].ledger
    BY <1>0, <2>1, <2>2, PublishTells
  <2> SUFFICES ASSUME NEW l \in Ledgers, Held(l)' PROVE EndIsKnown(l)'
    BY DEF EndsAreKnown
  <2>5. EndIsKnown(l)
    BY <2>3, <2>4 DEF EndsAreKnown, Held
  <2> QED BY <2>3, <2>4, <2>5 DEF EndIsKnown, EndIsComing
<1>4. ASSUME NEW r \in Runs, EndRun(r) PROVE EndsAreKnown'
  <2>1. /\ work' = [work EXCEPT ![r].active = FALSE, ![r].reporting = TRUE]
        /\ UNCHANGED <<ledger, current, ended, conn>>
    BY <1>4 DEF EndRun
  <2>2. \A q \in Runs : /\ work'[q].starts = work[q].starts
                        /\ work[q].active \/ work[q].reporting => work'[q].active \/ work'[q].reporting
    BY <1>0, <2>1
  <2> SUFFICES ASSUME NEW l \in Ledgers, Held(l)' PROVE EndIsKnown(l)'
    BY DEF EndsAreKnown
  <2>3. EndIsKnown(l)
    BY <2>1 DEF EndsAreKnown, Held
  <2> QED BY <1>0, <2>1, <2>2, <2>3 DEF EndIsKnown, EndIsComing
<1>5. ASSUME NEW r \in Runs, PublishTerminal(r) PROVE EndsAreKnown'
  <2>1. work' = [work EXCEPT ![r].reporting = FALSE] /\ current' = current
    BY <1>5 DEF PublishTerminal
  <2> SUFFICES ASSUME NEW l \in Ledgers, Held(l)' PROVE EndIsKnown(l)'
    BY DEF EndsAreKnown
  <2>2. l[1] # r => work'[l[1]] = work[l[1]]
    BY <1>0, <2>1
  <2>3. CASE current[r] = 0
    <3>1. UNCHANGED <<ledger, conn>>
      BY <1>5, <2>3 DEF PublishTerminal
    <3>2. EndIsKnown(l)
      BY <2>1, <3>1 DEF EndsAreKnown, Held
    <3>3. EndIsComing(l) => l[1] # r
      BY <1>0, <2>3 DEF EndIsComing
    <3> QED BY <2>1, <2>2, <3>1, <3>2, <3>3 DEF EndIsKnown, EndIsComing
  <2>4. CASE current[r] # 0
    <3> DEFINE told == <<r, current[r]>>
    <3>1. told \in Ledgers
      BY <1>0, <2>4 DEF Ledgers
    <3>2. Publish(told, 1, TRUE)
      BY <1>5, <2>4 DEF PublishTerminal
    <3>3. /\ \A x \in Ledgers : /\ ledger'[x].late = ledger[x].late
                                /\ ledger[x].terminal # {} => ledger'[x].terminal # {}
          /\ ledger'[told].terminal # {}
          /\ \A c \in Clients : conn'[c].pc = conn[c].pc /\ conn'[c].ledger = conn[c].ledger
      BY <1>0, <3>1, <3>2, PublishTells
    <3>4. EndIsKnown(l)
      BY <2>1, <3>3 DEF EndsAreKnown, Held
    <3>5. CASE EndIsComing(l)
      <4>1. CASE l[1] = r
        <5>1. l = told
          BY <1>0, <3>5, <4>1 DEF EndIsComing
        <5> QED BY <3>3, <5>1 DEF EndIsKnown
      <4>2. CASE l[1] # r
        BY <2>1, <2>2, <3>5, <4>2 DEF EndIsKnown, EndIsComing
      <4> QED BY <4>1, <4>2
    <3> QED BY <3>3, <3>4, <3>5 DEF EndIsKnown
  <2> QED BY <2>3, <2>4
<1>6. ASSUME NEW c \in Clients, NEW k, Set(c, k),
             k.pc \in {"found", "streaming"} => k.ledger \in Ledgers /\ Held(k.ledger)
      PROVE  EndsAreKnown'
  BY <1>0, <1>6, HandlersHoldWhatIsThere
<1>7. \A c \in Clients : HandlerIn(conn[c], ledger[conn[c].ledger].terminal) /\ DOMAIN conn[c] = ConnFields
  BY <1>0 DEF ChannelInv, HandlersShaped, HandlerIn
<1>8. ASSUME NEW c \in Clients, NEW r \in Runs, NEW after \in 0..MaxEvents, Connect(c, r, after)
      PROVE  EndsAreKnown'
  <2> DEFINE k == [Off EXCEPT !.pc = "asking", !.run = r, !.after = after, !.at = after]
  <2>1. Set(c, k) /\ k.pc = "asking"
    BY <1>8 DEF Connect, Off
  <2> HIDE DEF k
  <2> QED BY <1>6, <2>1
<1>9. ASSUME NEW c \in Clients, Lookup(c) PROVE EndsAreKnown'
  <2> DEFINE r == conn[c].run
             found == [conn[c] EXCEPT !.pc = "found", !.ledger = <<r, current[r]>>]
             k == IF current[r] = 0 THEN Off ELSE found
  <2>1. Set(c, k) /\ conn[c].pc = "asking"
    BY <1>9 DEF Lookup
  <2>2. k.pc \in {"found", "streaming"} => k.ledger \in Ledgers /\ Held(k.ledger)
    <3>1. CASE current[r] = 0
      BY <3>1 DEF Off
    <3>2. CASE current[r] # 0
      <4>1. r \in Runs
        BY <1>7, <2>1 DEF HandlerIn
      <4>2. found.ledger = <<r, current[r]>>
        BY <1>7 DEF ConnFields
      <4>3. <<r, current[r]>> \in Ledgers /\ Held(<<r, current[r]>>)
        BY <1>0, <3>2, <4>1 DEF Held, Ledgers
      <4> QED BY <3>2, <4>2, <4>3
    <3> QED BY <3>1, <3>2
  <2> HIDE DEF k
  <2> QED BY <1>6, <2>1, <2>2
<1>10. ASSUME NEW c \in Clients, NEW k, Set(c, k), k.ledger = conn[c].ledger, conn[c].pc \in {"found", "streaming"}
       PROVE  EndsAreKnown'
  <2>1. conn[c].ledger \in Ledgers /\ Held(conn[c].ledger)
    BY <1>7, <1>10 DEF HandlerIn, Held
  <2> QED BY <1>6, <1>10, <2>1
<1>11. ASSUME NEW c \in Clients, Subscribe(c) PROVE EndsAreKnown'
  <2> DEFINE l == ledger[conn[c].ledger]
             k == [conn[c] EXCEPT !.pc = "streaming",
                                  !.at = IF conn[c].after < l.floor THEN l.floor ELSE @,
                                  !.replay = [i \in 1..Len(l.events) |-> l.floor + i],
                                  !.subscribed = l.terminal = {},
                                  !.closed = IF l.terminal = {} THEN 0 ELSE 1]
  <2>1. Set(c, k) /\ conn[c].pc = "found"
    BY <1>11 DEF Subscribe
  <2>2. k.ledger = conn[c].ledger
    <3> HIDE DEF l
    <3> QED BY <1>7 DEF ConnFields
  <2> HIDE DEF k
  <2> QED BY <1>10, <2>1, <2>2
<1>12. ASSUME NEW c \in Clients, Replay(c) \/ Stream(c) PROVE EndsAreKnown'
  <2>1. \A k, seq : DOMAIN k = ConnFields => Written(k, seq).ledger = k.ledger
    BY DEF Written, ConnFields
  <2>2. CASE Replay(c)
    <3> DEFINE k == [conn[c] EXCEPT !.replay = Tail(@)]
               w == Written(k, Head(conn[c].replay))
    <3>1. DOMAIN k = ConnFields /\ k.ledger = conn[c].ledger
      BY <1>7 DEF ConnFields
    <3>2. Set(c, w) /\ conn[c].pc = "streaming"
      BY <2>2 DEF Replay
    <3> HIDE DEF k
    <3>3. w.ledger = conn[c].ledger
      BY <2>1, <3>1
    <3> HIDE DEF w
    <3> QED BY <1>10, <3>2, <3>3
  <2>3. CASE Stream(c)
    <3> DEFINE k == [conn[c] EXCEPT !.live = Tail(@)]
               w == Written(k, Head(conn[c].live))
    <3>1. DOMAIN k = ConnFields /\ k.ledger = conn[c].ledger
      BY <1>7 DEF ConnFields
    <3>2. Set(c, w) /\ conn[c].pc = "streaming"
      BY <2>3 DEF Stream
    <3> HIDE DEF k
    <3>3. w.ledger = conn[c].ledger
      BY <2>1, <3>1
    <3> HIDE DEF w
    <3> QED BY <1>10, <3>2, <3>3
  <2> QED BY <1>12, <2>2, <2>3
<1>13. ASSUME NEW c \in Clients, StreamEnds(c) \/ Disconnect(c) PROVE EndsAreKnown'
  <2>1. Set(c, Off)
    BY <1>13 DEF StreamEnds, Disconnect
  <2>2. Off.pc = "off"
    BY DEF Off
  <2> QED BY <1>6, <2>1, <2>2
<1>14. ASSUME UNCHANGED vars PROVE EndsAreKnown'
  BY <1>14 DEF vars, EndsAreKnown, Held, EndIsKnown, EndIsComing
<1> QED
  BY <1>1, <1>2, <1>3, <1>4, <1>5, <1>8, <1>9, <1>11, <1>12, <1>13, <1>14 DEF Next, RunStep, HandlerStep

(* No handler waits in vain: it waits only on a ledger that the end of the  *)
(* run is still to be published to, or that was opened when that end had    *)
(* been told (createRunLedger after finishAgentRunWithLedger); a handler    *)
(* that is told no more finds its channel closed, and closed once           *)
(* (agentRunLedger.publish, subscribe).                                     *)
THEOREM ChannelsTellTheEndHolds == Spec => []ChannelsTellTheEnd
<1>1. Init => EndsAreKnown
  <2> SUFFICES ASSUME Init, NEW l \in Ledgers PROVE ~ Held(l)
    BY DEF EndsAreKnown
  <2>1. l[1] \in Runs /\ l[2] # 0
    BY RunLedgerAssumption DEF Ledgers
  <2>2. current[l[1]] # l[2]
    BY <2>1 DEF Init
  <2>3. \A c \in Clients : conn[c].pc = "off"
    BY DEF Init, Off
  <2> QED BY <2>2, <2>3 DEF Held
<1>2. RetentionInv /\ EndsAreKnown => ChannelsTellTheEnd
  <2> SUFFICES ASSUME RetentionInv, EndsAreKnown, NEW c \in Clients, conn[c].pc = "streaming"
               PROVE  LET l == conn[c].ledger IN
                      /\ conn[c].closed = (IF conn[c].subscribed THEN 0 ELSE 1)
                      /\ conn[c].subscribed => ledger[l].terminal = {} /\ (EndIsComing(l) \/ ledger[l].late)
    BY DEF ChannelsTellTheEnd
  <2>1. HandlerIn(conn[c], ledger[conn[c].ledger].terminal)
    BY DEF RetentionInv, ChannelInv, HandlersShaped
  <2>2. EndIsKnown(conn[c].ledger)
    BY <2>1 DEF HandlerIn, EndsAreKnown, Held
  <2> QED BY <2>1, <2>2 DEF HandlerIn, EndIsKnown
<1>3. (RetentionInv /\ EndsAreKnown) /\ [Next]_vars => (RetentionInv /\ EndsAreKnown)'
  BY RetentionGoesOn, EndsAreKnownNext
<1>4. Init => RetentionInv
  BY RetentionBegins
<1> QED
  BY <1>1, <1>2, <1>3, <1>4, PTL DEF Spec

-----------------------------------------------------------------------------
(* The idle hook.                                                           *)

(* A run that was never scheduled owes no hook and has given none back.     *)
UnusedIsFresh == \A j \in Reconciles : job[j].status = "unused" => j \notin discharged

(* Only a run that may be tried once more is waiting or tried.              *)
TriesAreLeft ==
  \A j \in Reconciles : job[j].status \in {"unused", "queued", "running"} => job[j].attempt < MaxAttempts

(* What the worker serves; a success is the executor's.                     *)
ServedShape ==
  /\ queueWorker.at # "idle" => queueWorker.job \in Reconciles /\ job[queueWorker.job].status \in {"running", "gone"}
  /\ queueWorker.at \in {"finishing", "completing"} /\ queueWorker.result = "succeeded" => queueWorker.job \in discharged

SavingShape == \A t \in Triggers : trigger[t].at = "saving" => trigger[t].job \in Reconciles

HookShape == TypeOfHook /\ UnusedIsFresh /\ TriesAreLeft /\ ServedShape /\ SavingShape

HookInv == HookShape /\ HookHasAHolder

USE DEF Live, Abandoned, GiveBack

-----------------------------------------------------------------------------
(* Every step leaves a hook that is taken with somebody who answers for it. *)
LEMMA HolderStep ==
  ASSUME HookShape, HookHasAHolder, HookNext
  PROVE  HookHasAHolder'
<1> USE DEF HookShape, HookHasAHolder, UnusedIsFresh, ServedShape, SavingShape
<1> USE HookAssumption
<1> USE DEF TriggerGoes, WorkerGoes, Returns, Serving, scheduler, project
<1>1. CASE \E t \in Triggers : TriggerStep(t)
  <2>1. PICK t \in Triggers : TriggerStep(t)
    BY <1>1
  <2>2. CASE LookAtRest(t) \/ LookAtBacklog(t)
    BY <2>2 DEF LookAtRest, LookAtBacklog, TypeOfHook
  <2>3. CASE TryBegin(t)
    BY <2>3 DEF TryBegin, TypeOfHook
  <2>4. CASE ScheduleReconcile(t)
    <3>1. CASE key
      BY <2>4, <3>1 DEF ScheduleReconcile, TypeOfHook, TriggerRecord
    <3>2. CASE ~ key
      <4>1. PICK j \in Reconciles : /\ job[j].status = "unused"
                                    /\ job' = [job EXCEPT ![j].status = "queued"]
        BY <2>4, <3>2 DEF ScheduleReconcile
      <4>2. job'[j].status = "queued" /\ j \notin discharged /\ discharged' = discharged
        BY <2>4, <4>1 DEF ScheduleReconcile, TypeOfHook
      <4> QED BY <4>2
    <3> QED BY <3>1, <3>2
  <2>5. CASE ReconcileSaved(t)
    BY <2>5 DEF ReconcileSaved, TypeOfHook
  <2>6. CASE SaveReconcileFails(t)
    <3>1. trigger'[t].at = "refused"
      BY <2>6 DEF SaveReconcileFails, TypeOfHook
    <3> QED BY <3>1
  <2>7. CASE EndHook(t)
    BY <2>7 DEF EndHook
  <2> QED BY <2>1, <2>2, <2>3, <2>4, <2>5, <2>6, <2>7 DEF TriggerStep
<1>2. CASE WorkerStep
  <2>1. CASE \E j \in Reconciles : ClaimReconcile(j)
    BY <2>1 DEF ClaimReconcile, TypeOfHook
  <2>2. CASE \/ BeginReconcile \/ StartDeadline \/ EndedUnbound \/ ExecuteReconcile
             \/ LookAgainAtRest \/ LookAgainAtBacklog
             \/ CommitReconcile \/ \E result \in {"failed", "cancelled"} : ReconcileBreaks(result)
             \/ FinishReconcile
    BY <2>2 DEF BeginReconcile, StartDeadline, EndedUnbound, ExecuteReconcile, LookAgainAtRest,
                LookAgainAtBacklog, CommitReconcile, ReconcileBreaks, FinishReconcile
  <2>3. CASE \E ok \in BOOLEAN : MarkReconcile(ok)
    BY <2>3 DEF MarkReconcile, TypeOfHook
  <2>4. CASE ExecutorReturns
    BY <2>4 DEF ExecutorReturns
  <2>5. CASE CompleteReconcile
    <3>1. /\ queueWorker.at = "completing" /\ queueWorker.job \in Reconciles
          /\ UNCHANGED <<hook, trigger, discharged>>
      BY <2>5 DEF CompleteReconcile
    <3>2. CASE job[queueWorker.job].status = "gone"
      BY <2>5, <3>1, <3>2 DEF CompleteReconcile, TypeOfHook
    <3>3. CASE job[queueWorker.job].status # "gone"
      <4>1. \A k \in Reconciles : k # queueWorker.job => job'[k] = job[k]
        BY <2>5, <3>1, <3>3 DEF CompleteReconcile, TypeOfHook
      <4>2. queueWorker.result # "succeeded" => job'[queueWorker.job].status \in {"cancelled", "queued", "failed"}
        <5>1. queueWorker.job \in DOMAIN job /\ job[queueWorker.job] \in RunRecord
          BY <3>1 DEF TypeOfHook
        <5>2. queueWorker.result # "succeeded" =>
                \/ job'[queueWorker.job] = [job[queueWorker.job] EXCEPT !.status = "cancelled"]
                \/ \E s \in {"queued", "failed"} :
                     job'[queueWorker.job] = [job[queueWorker.job] EXCEPT !.status = s, !.attempt = job[queueWorker.job].attempt + 1]
          BY <2>5, <3>3, <5>1 DEF CompleteReconcile
        <5> QED BY <5>1, <5>2 DEF RunRecord
      <4> QED BY <3>1, <4>1, <4>2
    <3> QED BY <3>2, <3>3
  <2> QED BY <1>2, <2>1, <2>2, <2>3, <2>4, <2>5 DEF WorkerStep
<1>3. CASE AnotherRun \/ ProjectStep
  BY <1>3 DEF AnotherRun, ProjectStep, OthersComeAndGo, WorkIsLeft, WorkIsDone
<1>4. CASE RestartHook
  BY <1>4 DEF RestartHook
<1> QED BY <1>1, <1>2, <1>3, <1>4 DEF HookNext

-----------------------------------------------------------------------------
(* What the argument rests on is kept as well: first the types, then the    *)
(* rest.                                                                    *)
LEMMA RunTypes ==
  ASSUME HookShape, NEW j \in Reconciles
  PROVE  /\ job[j] \in RunRecord /\ job[j].attempt \in Nat
         /\ \A s \in {"queued", "running", "failed", "cancelled", "gone"} : [job[j] EXCEPT !.status = s] \in RunRecord
         /\ [job[j] EXCEPT !.effects = TRUE] \in RunRecord
         /\ job[j].status = "running" =>
              \A s \in {"queued", "failed"} :
                [job[j] EXCEPT !.status = s, !.attempt = job[j].attempt + 1] \in RunRecord
<1>1. job[j] \in RunRecord /\ job[j].attempt \in 0..MaxAttempts
  BY DEF HookShape, TypeOfHook, RunRecord
<1>2. job[j].status = "running" => job[j].attempt + 1 \in 0..MaxAttempts
  BY <1>1, HookAssumption DEF HookShape, TriesAreLeft
<1>3. \A s \in {"queued", "running", "failed", "cancelled", "gone"} : [job[j] EXCEPT !.status = s] \in RunRecord
  BY <1>1 DEF RunRecord
<1>4. [job[j] EXCEPT !.effects = TRUE] \in RunRecord
  BY <1>1 DEF RunRecord
<1>5. ASSUME NEW s \in {"queued", "failed"}, job[j].status = "running"
      PROVE  [job[j] EXCEPT !.status = s, !.attempt = job[j].attempt + 1] \in RunRecord
  BY <1>1, <1>2, <1>5 DEF RunRecord
<1> QED BY <1>1, <1>3, <1>4, <1>5, HookAssumption

LEMMA TableTypes ==
  ASSUME HookShape, NEW j \in Reconciles, NEW r \in RunRecord
  PROVE  /\ [job EXCEPT ![j] = r] \in [Reconciles -> RunRecord]
         /\ \A s : [job EXCEPT ![j].status = s] = [job EXCEPT ![j] = [job[j] EXCEPT !.status = s]]
         /\ [job EXCEPT ![j].effects = TRUE] = [job EXCEPT ![j] = [job[j] EXCEPT !.effects = TRUE]]
BY DEF HookShape, TypeOfHook

LEMMA TriggerTypeStep ==
  ASSUME HookShape, NEW t \in Triggers, TriggerStep(t)
  PROVE  TypeOfHook'
<1> USE HookAssumption DEF HookShape
<1> USE DEF TriggerGoes, scheduler, project, TriggerRecord
<1>1. CASE LookAtRest(t)
  BY <1>1 DEF LookAtRest, TypeOfHook
<1>2. CASE LookAtBacklog(t)
  BY <1>2 DEF LookAtBacklog, TypeOfHook
<1>3. CASE TryBegin(t)
  BY <1>3 DEF TryBegin, TypeOfHook
<1>4. CASE ScheduleReconcile(t)
  <2>1. CASE key
    BY <1>4, <2>1 DEF ScheduleReconcile, TypeOfHook
  <2>2. CASE ~ key
    <3>1. PICK j \in Reconciles : /\ key' = TRUE
                                  /\ job' = [job EXCEPT ![j].status = "queued"]
                                  /\ trigger' = [trigger EXCEPT ![t] = [at |-> "saving", job |-> j]]
      BY <1>4, <2>2 DEF ScheduleReconcile
    <3>2. job' \in [Reconciles -> RunRecord]
      BY <3>1 DEF TypeOfHook, RunRecord
    <3>3. trigger' \in [Triggers -> TriggerRecord]
      BY <3>1 DEF TypeOfHook
    <3> QED BY <1>4, <3>1, <3>2, <3>3 DEF ScheduleReconcile, TypeOfHook
  <2> QED BY <2>1, <2>2
<1>5. CASE ReconcileSaved(t)
  BY <1>5 DEF ReconcileSaved, TypeOfHook, Away
<1>6. CASE SaveReconcileFails(t)
  <2>1. spent' \in [faults : 0..HookFaults, crashes : 0..HookCrashes]
    BY <1>6 DEF SaveReconcileFails, TypeOfHook
  <2>2. trigger' \in [Triggers -> TriggerRecord]
    BY <1>6 DEF SaveReconcileFails, TypeOfHook
  <2> DEFINE j == trigger[t].job
  <2>3. j \in Reconciles
    BY <1>6 DEF SaveReconcileFails, SavingShape
  <2>4. job' = job \/ job' = [job EXCEPT ![j].status = "gone"]
    BY <1>6 DEF SaveReconcileFails
  <2>5. key' \in BOOLEAN
    BY <1>6 DEF SaveReconcileFails, TypeOfHook
  <2> HIDE DEF j
  <2>6. [job[j] EXCEPT !.status = "gone"] \in RunRecord
    BY <2>3, RunTypes
  <2>7. job' \in [Reconciles -> RunRecord]
    BY <2>3, <2>4, <2>6, TableTypes DEF TypeOfHook
  <2> QED BY <1>6, <2>1, <2>2, <2>7, <2>5 DEF SaveReconcileFails, TypeOfHook
<1>7. CASE EndHook(t)
  BY <1>7, ZenonT(60) DEF EndHook, TypeOfHook
<1> QED BY <1>1, <1>2, <1>3, <1>4, <1>5, <1>6, <1>7 DEF TriggerStep

LEMMA TriggerShapeStep ==
  ASSUME HookShape, NEW t \in Triggers, TriggerStep(t)
  PROVE  HookShape'
<1>0. TypeOfHook'
  BY TriggerTypeStep
<1> USE HookAssumption DEF HookShape, UnusedIsFresh, ServedShape, SavingShape, TriesAreLeft
<1> USE DEF TriggerGoes, scheduler, project
<1>1. CASE LookAtRest(t) \/ LookAtBacklog(t) \/ TryBegin(t) \/ ReconcileSaved(t)
  <2>1. UNCHANGED <<job, queueWorker, discharged>>
    BY <1>1 DEF LookAtRest, LookAtBacklog, TryBegin, ReconcileSaved
  <2>2. SavingShape'
    BY <1>1 DEF LookAtRest, LookAtBacklog, TryBegin, ReconcileSaved, TypeOfHook, TriggerRecord, Away
  <2> QED BY <1>0, <2>1, <2>2
<1>2. CASE ScheduleReconcile(t)
  <2>1. CASE key
    BY <1>0, <1>2, <2>1, SMTT(40) DEF ScheduleReconcile, TypeOfHook, TriggerRecord
  <2>2. CASE ~ key
    <3>1. PICK j \in Reconciles : /\ job[j].status = "unused"
                                  /\ job' = [job EXCEPT ![j].status = "queued"]
                                  /\ trigger' = [trigger EXCEPT ![t] = [at |-> "saving", job |-> j]]
      BY <1>2, <2>2 DEF ScheduleReconcile
    <3>2. queueWorker' = queueWorker /\ discharged' = discharged
      BY <1>2 DEF ScheduleReconcile
    <3> QED BY <1>0, <3>1, <3>2 DEF TypeOfHook
  <2> QED BY <2>1, <2>2
<1>3. CASE SaveReconcileFails(t)
  <2>1. \A k \in Reconciles : job'[k] = job[k] \/ job'[k].status = "gone"
    <3>1. job' = job \/ job' = [job EXCEPT ![trigger[t].job].status = "gone"]
      BY <1>3 DEF SaveReconcileFails
    <3> QED BY <3>1 DEF TypeOfHook, RunRecord
  <2>2. queueWorker' = queueWorker /\ discharged' = discharged
    BY <1>3 DEF SaveReconcileFails
  <2>3. trigger' = [trigger EXCEPT ![t] = [at |-> "refused", job |-> Nothing]]
    BY <1>3 DEF SaveReconcileFails
  <2>4. SavingShape'
    BY <2>3 DEF TypeOfHook
  <2> QED BY <1>0, <2>1, <2>2, <2>4
<1>4. CASE EndHook(t)
  BY <1>0, <1>4 DEF EndHook, TypeOfHook
<1> QED BY <1>1, <1>2, <1>3, <1>4 DEF TriggerStep

LEMMA WorkerTypeStep ==
  ASSUME HookShape, WorkerStep
  PROVE  TypeOfHook'
<1> USE HookAssumption DEF HookShape
<1> USE DEF WorkerGoes, Returns, Serving, WorkerRecord
<1>1. CASE \E j \in Reconciles : ClaimReconcile(j)
  <2>1. PICK j \in Reconciles : ClaimReconcile(j)
    BY <1>1
  <2>2. job' \in [Reconciles -> RunRecord]
    BY <2>1 DEF ClaimReconcile, TypeOfHook, RunRecord
  <2> QED BY <2>1, <2>2 DEF ClaimReconcile, TypeOfHook, project
<1>2. CASE BeginReconcile
  BY <1>2 DEF BeginReconcile, TypeOfHook, project
<1>3. CASE StartDeadline \/ EndedUnbound \/ ExecuteReconcile
  BY <1>3 DEF StartDeadline, EndedUnbound, ExecuteReconcile, TypeOfHook, project
<1>4. CASE LookAgainAtRest \/ LookAgainAtBacklog \/ CommitReconcile
  BY <1>4, ZenonT(60) DEF LookAgainAtRest, LookAgainAtBacklog, CommitReconcile, TypeOfHook, project
<1>5. CASE \E result \in {"failed", "cancelled"} : ReconcileBreaks(result)
  BY <1>5 DEF ReconcileBreaks, TypeOfHook, project
<1>6. CASE \E ok \in BOOLEAN : MarkReconcile(ok)
  <2>1. PICK ok \in BOOLEAN : MarkReconcile(ok)
    BY <1>6
  <2>2. spent' \in [faults : 0..HookFaults, crashes : 0..HookCrashes]
    BY <2>1 DEF MarkReconcile, TypeOfHook
  <2>3. job' \in [Reconciles -> RunRecord]
    <3>1. queueWorker.job \in Reconciles
      BY <2>1 DEF MarkReconcile, ServedShape
    <3>2. job' = job \/ job' = [job EXCEPT ![queueWorker.job].effects = TRUE]
      BY <2>1 DEF MarkReconcile
    <3>3. [job[queueWorker.job] EXCEPT !.effects = TRUE] \in RunRecord
      BY <3>1, RunTypes
    <3> QED BY <3>1, <3>2, <3>3, TableTypes DEF TypeOfHook
  <2>4. queueWorker' \in WorkerRecord
    BY <2>1 DEF MarkReconcile, TypeOfHook
  <2> QED BY <2>1, <2>2, <2>3, <2>4 DEF MarkReconcile, TypeOfHook, project
<1>7. CASE ExecutorReturns
  BY <1>7 DEF ExecutorReturns, TypeOfHook, project, ServedShape
<1>8. CASE FinishReconcile
  BY <1>8 DEF FinishReconcile, TypeOfHook, project
<1>9. CASE CompleteReconcile
  <2> DEFINE j == queueWorker.job
  <2>1. queueWorker' = Resting /\ Resting \in WorkerRecord
    BY <1>9 DEF CompleteReconcile, Resting
  <2>2. j \in Reconciles /\ (job[j].status # "gone" => job[j].status = "running")
    BY <1>9 DEF CompleteReconcile, ServedShape
  <2>3. job[j].status = "running" => job[j].attempt + 1 \in 0..MaxAttempts
    BY <2>2 DEF TypeOfHook, RunRecord, TriesAreLeft
  <2>4. \/ UNCHANGED <<job, key>>
        \/ /\ job[j].status = "running" /\ key' \in BOOLEAN
           /\ \/ job' = [job EXCEPT ![j] = [job[j] EXCEPT !.status = "gone"]]
              \/ job' = [job EXCEPT ![j] = [job[j] EXCEPT !.status = "cancelled"]]
              \/ \E s \in {"queued", "failed"} :
                   job' = [job EXCEPT ![j] = [job[j] EXCEPT !.status = s, !.attempt = job[j].attempt + 1]]
    BY <1>9, <2>2 DEF CompleteReconcile, TypeOfHook
  <2>6. job' \in [Reconciles -> RunRecord]
    <3>1. job \in [Reconciles -> RunRecord] /\ job[j] \in RunRecord
      BY <2>2 DEF TypeOfHook
    <3>2. CASE \E s \in {"gone", "cancelled"} : job' = [job EXCEPT ![j] = [job[j] EXCEPT !.status = s]]
      BY ONLY <2>2, <3>1, <3>2 DEF RunRecord
    <3>3. ASSUME NEW s \in {"queued", "failed"}, job[j].status = "running",
                 job' = [job EXCEPT ![j] = [job[j] EXCEPT !.status = s, !.attempt = job[j].attempt + 1]]
          PROVE  job' \in [Reconciles -> RunRecord]
      <4>1. job[j].attempt + 1 \in 0..MaxAttempts
        BY <2>3, <3>3
      <4>2. [job[j] EXCEPT !.status = s, !.attempt = job[j].attempt + 1] \in RunRecord
        BY ONLY <3>1, <4>1, s \in {"queued", "failed"} DEF RunRecord
      <4> QED BY ONLY <2>2, <3>1, <3>3, <4>2
    <3> QED BY <2>4, <3>1, <3>2, <3>3
  <2> QED BY <1>9, <2>1, <2>4, <2>6 DEF CompleteReconcile, TypeOfHook, project
<1> QED BY <1>1, <1>2, <1>3, <1>4, <1>5, <1>6, <1>7, <1>8, <1>9 DEF WorkerStep

LEMMA WorkerShapeStep ==
  ASSUME HookShape, WorkerStep
  PROVE  HookShape'
<1>0. TypeOfHook'
  BY WorkerTypeStep
<1> USE HookAssumption DEF HookShape, UnusedIsFresh, ServedShape, SavingShape, TriesAreLeft
<1> USE DEF WorkerGoes, Returns, Serving, project
<1>1. CASE \E j \in Reconciles : ClaimReconcile(j)
  <2>1. PICK j \in Reconciles : ClaimReconcile(j)
    BY <1>1
  <2>2. /\ job[j].status = "queued" /\ job' = [job EXCEPT ![j].status = "running"]
        /\ queueWorker' = [at |-> "claimed", job |-> j, result |-> "none"]
        /\ UNCHANGED <<trigger, discharged>>
    BY <2>1 DEF ClaimReconcile
  <2> QED BY <1>0, <2>2 DEF TypeOfHook, RunRecord
<1>2. CASE BeginReconcile \/ StartDeadline \/ EndedUnbound \/ ExecuteReconcile
  BY <1>0, <1>2, ZenonT(60) DEF BeginReconcile, StartDeadline, EndedUnbound, ExecuteReconcile, TypeOfHook, WorkerRecord
<1>3. CASE LookAgainAtRest \/ LookAgainAtBacklog \/ CommitReconcile
  BY <1>0, <1>3, ZenonT(60) DEF LookAgainAtRest, LookAgainAtBacklog, CommitReconcile, TypeOfHook, WorkerRecord
<1>4. CASE \E result \in {"failed", "cancelled"} : ReconcileBreaks(result)
  BY <1>0, <1>4 DEF ReconcileBreaks, TypeOfHook, WorkerRecord
<1>5. CASE \E ok \in BOOLEAN : MarkReconcile(ok)
  <2>1. PICK ok \in BOOLEAN : MarkReconcile(ok)
    BY <1>5
  <2>2. queueWorker'.job = queueWorker.job /\ queueWorker'.at \in {"turn", "returning"} /\ queueWorker.at = "ready"
    BY <2>1 DEF MarkReconcile, TypeOfHook, WorkerRecord
  <2>3. \A k \in Reconciles : job'[k].status = job[k].status /\ job'[k].attempt = job[k].attempt
    <3>1. job' = job \/ job' = [job EXCEPT ![queueWorker.job].effects = TRUE]
      BY <2>1 DEF MarkReconcile
    <3> QED BY <3>1 DEF TypeOfHook, RunRecord
  <2>4. UNCHANGED <<trigger, discharged>>
    BY <2>1 DEF MarkReconcile
  <2> QED BY <1>0, <2>2, <2>3, <2>4
<1>6. CASE ExecutorReturns
  BY <1>0, <1>6 DEF ExecutorReturns, TypeOfHook, WorkerRecord, RunRecord
<1>7. CASE FinishReconcile
  BY <1>0, <1>7 DEF FinishReconcile, TypeOfHook, WorkerRecord
<1>8. CASE CompleteReconcile
  <2> DEFINE j == queueWorker.job
  <2>1. j \in Reconciles /\ queueWorker' = Resting /\ UNCHANGED <<trigger, discharged>>
    BY <1>8 DEF CompleteReconcile
  <2>2. CASE job[j].status = "gone"
    BY <1>0, <1>8, <2>1, <2>2 DEF CompleteReconcile, Resting
  <2>3. CASE job[j].status # "gone"
    <3>1. \A k \in Reconciles : k # j => job'[k] = job[k]
      BY <1>8, <2>1, <2>3 DEF CompleteReconcile, TypeOfHook
    <3>2. /\ job'[j].status \in {"queued", "failed", "cancelled", "gone"}
          /\ job'[j].status = "queued" => job'[j].attempt < MaxAttempts
      <4>1. j \in DOMAIN job /\ job[j] \in RunRecord
        BY <2>1 DEF TypeOfHook
      <4>2. \/ job'[j] = [job[j] EXCEPT !.status = "gone"]
            \/ job'[j] = [job[j] EXCEPT !.status = "cancelled"]
            \/ job'[j] = [job[j] EXCEPT !.status = "failed", !.attempt = job[j].attempt + 1]
            \/ /\ job'[j] = [job[j] EXCEPT !.status = "queued", !.attempt = job[j].attempt + 1]
               /\ job[j].attempt + 1 < MaxAttempts
        BY <1>8, <2>3, <4>1 DEF CompleteReconcile
      <4> QED BY <4>1, <4>2 DEF RunRecord
    <3> QED BY <1>0, <2>1, <3>1, <3>2 DEF Resting
  <2> QED BY <2>2, <2>3
<1> QED BY <1>1, <1>2, <1>3, <1>4, <1>5, <1>6, <1>7, <1>8 DEF WorkerStep

LEMMA RestartShapeStep ==
  ASSUME HookShape, RestartHook
  PROVE  HookShape'
<1> USE HookAssumption DEF HookShape, UnusedIsFresh, ServedShape, SavingShape, TriesAreLeft
<1>1. PICK after \in [Reconciles -> UNION {Recovered(j) : j \in Reconciles}] :
        (\A j \in Reconciles : after[j] \in Recovered(j)) /\ job' = after
  BY DEF RestartHook
<1>2. /\ hook' = FALSE /\ trigger' = [t \in Triggers |-> Away] /\ queueWorker' = Resting
      /\ slot' = Nothing /\ busy' \in BOOLEAN /\ backlog' = backlog /\ key' \in BOOLEAN
      /\ discharged' = {j \in Reconciles : job[j].status # "unused"}
  BY DEF RestartHook
<1>3. spent' \in [faults : 0..HookFaults, crashes : 0..HookCrashes]
  <2>1. spent.crashes < HookCrashes /\ spent' = [spent EXCEPT !.crashes = @ + 1]
    BY DEF RestartHook
  <2> QED BY <2>1 DEF TypeOfHook
<1>4. ASSUME NEW j \in Reconciles
      PROVE  /\ job'[j] \in RunRecord
             /\ job'[j].status = "unused" => job[j].status = "unused"
             /\ job'[j].status \in {"unused", "queued", "running"} => job'[j].attempt < MaxAttempts
  <2>1. job'[j] \in Recovered(j)
    BY <1>1
  <2>2. job[j] \in RunRecord /\ job[j].attempt \in Nat
    BY DEF TypeOfHook, RunRecord
  <2>3. job[j].status = "running" => job[j].attempt + 1 \in 0..MaxAttempts
    BY <2>2 DEF RunRecord
  <2>4. \/ job'[j] = job[j] /\ job[j].status # "running"
        \/ job'[j] = [job[j] EXCEPT !.status = "gone"]
        \/ /\ job[j].status = "running"
           /\ job'[j] = [job[j] EXCEPT !.status = "failed", !.attempt = job[j].attempt + 1]
        \/ /\ job[j].status = "running" /\ job[j].attempt + 1 < MaxAttempts
           /\ job'[j] = [job[j] EXCEPT !.status = "queued", !.attempt = job[j].attempt + 1]
    BY <2>1 DEF Recovered
  <2> QED BY <2>2, <2>3, <2>4, ZenonT(60) DEF RunRecord
<1>5. TypeOfHook'
  <2>1. trigger' \in [Triggers -> TriggerRecord]
    BY <1>2 DEF Away, TriggerRecord
  <2>2. queueWorker' \in WorkerRecord
    BY <1>2 DEF Resting, WorkerRecord
  <2>3. job' \in [Reconciles -> RunRecord]
    BY <1>1, <1>4
  <2> QED BY <1>2, <1>3, <2>1, <2>2, <2>3 DEF TypeOfHook
<1>6. UnusedIsFresh' /\ TriesAreLeft'
  BY <1>2, <1>4
<1>7. ServedShape' /\ SavingShape'
  BY <1>2 DEF Resting, Away
<1> QED BY <1>5, <1>6, <1>7

LEMMA ProjectShapeStep ==
  ASSUME HookShape, AnotherRun \/ ProjectStep
  PROVE  HookShape'
<1>1. UNCHANGED <<hook, trigger, job, key, queueWorker, discharged, spent>>
  BY DEF AnotherRun, ProjectStep, OthersComeAndGo, WorkIsLeft, WorkIsDone, scheduler
<1>2. slot' \in Reconciles \cup {Nothing, Another} /\ busy' \in BOOLEAN /\ backlog' \in BOOLEAN
  BY DEF AnotherRun, ProjectStep, OthersComeAndGo, WorkIsLeft, WorkIsDone, scheduler, project, HookShape, TypeOfHook
<1>3. TypeOfHook'
  BY <1>1, <1>2 DEF HookShape, TypeOfHook
<1> QED BY <1>1, <1>3 DEF HookShape, UnusedIsFresh, TriesAreLeft, ServedShape, SavingShape

LEMMA HookInvHolds == HookSpec => []HookInv
<1>1. HookInit => HookInv
  <2> SUFFICES ASSUME HookInit PROVE HookInv
    OBVIOUS
  <2> USE HookAssumption DEF HookInit
  <2>1. trigger \in [Triggers -> TriggerRecord]
    BY DEF Away, TriggerRecord
  <2>2. job \in [Reconciles -> RunRecord]
    BY DEF RunRecord
  <2>3. queueWorker \in WorkerRecord
    BY DEF Resting, WorkerRecord
  <2>4. spent \in [faults : 0..HookFaults, crashes : 0..HookCrashes]
    OBVIOUS
  <2>5. TypeOfHook
    BY <2>1, <2>2, <2>3, <2>4 DEF TypeOfHook
  <2>6. UnusedIsFresh /\ TriesAreLeft
    BY DEF UnusedIsFresh, TriesAreLeft
  <2>7. ServedShape /\ SavingShape
    BY DEF ServedShape, SavingShape, Away, Resting
  <2> QED BY <2>5, <2>6, <2>7 DEF HookInv, HookShape, HookHasAHolder
<1>2. HookInv /\ [HookNext]_hookVars => HookInv'
  <2> SUFFICES ASSUME HookInv, [HookNext]_hookVars PROVE HookInv'
    OBVIOUS
  <2>1. CASE HookNext
    <3>1. HookShape'
      BY <2>1, TriggerShapeStep, WorkerShapeStep, RestartShapeStep, ProjectShapeStep DEF HookNext, HookInv
    <3> QED BY <2>1, <3>1, HolderStep DEF HookInv
  <2>2. CASE UNCHANGED hookVars
    BY <2>2 DEF hookVars, HookInv, HookShape, HookHasAHolder, TypeOfHook, UnusedIsFresh, TriesAreLeft,
       ServedShape, SavingShape
  <2> QED BY <2>1, <2>2
<1> QED BY <1>1, <1>2, PTL DEF HookSpec

(* Whenever the hook is taken, an event handler that holds it or was refused *)
(* gives it back, or a run that is scheduled and not yet executed does,      *)
(* unless a run ended without ever being executed: endRuntimeHook is called  *)
(* on every other way out of maybeTriggerKarozIdleReconcile and of           *)
(* executeIdleReconcileScheduledRun.                                         *)
THEOREM HookAlwaysHasAHolder == HookSpec => []HookHasAHolder
BY HookInvHolds, PTL DEF HookInv

-----------------------------------------------------------------------------
(* The page.  What it shows comes from the server by roundabout ways, and   *)
(* as long as one of them is open it need not be right.                     *)

RunOrNobody == RunIDs \cup {Nobody}
Servers == [active : [PageAgents -> RunOrNobody], begun : SUBSET RunIDs, said : [PageAgents -> Nat]]
Runtimes == [pc : {"connecting", "open", "broken"}, channel : Nat]
Views == [agent : PageAgents, shown : [PageAgents -> Nat], working : SUBSET PageAgents,
          listed : SUBSET PageAgents, stopping : SUBSET PageAgents, streaming : BOOLEAN]
Followed == [id : RunOrNobody, agent : PageAgents \cup {Nobody}, source : RunOrNobody,
             key : RunOrNobody, timers : SUBSET RunIDs]
Probes == [pc : {"idle", "asked"}, agent : PageAgents \cup {Nobody}, run : RunOrNobody, again : BOOLEAN]
Fetches == [kind : {"load", "refresh", "post"}, agent : PageAgents, n : Nat]
Posts == [pc : {"none", "sent", "open", "closed", "done"}, agent : PageAgents \cup {Nobody},
          direct : BOOLEAN, run : RunOrNobody]
PageTypes ==
  /\ server \in Servers /\ runtime \in Runtimes /\ view \in Views /\ run \in Followed
  /\ sync \in Probes /\ (sync.pc = "asked" => sync.agent \in PageAgents)
  /\ fetches \subseteq Fetches /\ lists \subseteq SUBSET PageAgents
  /\ refresh \in BOOLEAN /\ history \in BOOLEAN /\ overtaken \in BOOLEAN
  /\ posts \in [1..MaxPosts -> Posts]
  /\ \A p \in 1..MaxPosts : posts[p].pc \in {"sent", "open", "closed"} => posts[p].agent \in PageAgents
  /\ stops \subseteq PageAgents /\ used \in Nat

(* Runs are of the agents they are said to be of, and the page follows the  *)
(* agent it shows.                                                          *)
RunsAreTheirAgents ==
  /\ \A a \in PageAgents : server.active[a] # Nobody => Serves[server.active[a]] = a
  /\ sync.pc = "asked" /\ sync.run # Nobody => Serves[sync.run] = sync.agent

(* The stream of runtime events will say how things are.                    *)
WillBeTold == runtime.pc # "open" \/ runtime.channel > 0
Sending == \E p \in 1..MaxPosts : posts[p].pc \in {"sent", "open", "closed"}
AsksForAgents == lists # {} \/ \E f \in fetches : f.kind = "post"
Loads(agent) == \E f \in fetches : f.kind = "load" /\ f.agent = agent

(* The probe of the active run is to be repeated, or its answer is right.   *)
ProbeIsRight == sync.run = server.active[sync.agent]
WillBeProbed == sync.pc = "asked" /\ (sync.again \/ (sync.agent = view.agent /\ ProbeIsRight))
OldProbesAreRepeated == sync.pc = "asked" => ProbeIsRight \/ sync.again \/ WillBeTold

ShowsWhoWorks ==
  \/ WillBeTold \/ Sending \/ AsksForAgents \/ Loads(view.agent) \/ WillBeProbed
  \/ AgentWorks(view, view.agent) <=> view.agent \in Working
StreamingIsSending ==
  view.streaming => \E p \in 1..MaxPosts : posts[p].pc \in {"sent", "open", "closed"} /\ posts[p].direct
StoppingWorks == view.agent \in view.stopping => AgentWorks(view, view.agent) \/ AsksForAgents

(* Histories grow; what the page shows is the last, or it will be asked for.*)
HistoriesGrow ==
  /\ \A a \in PageAgents : view.shown[a] <= server.said[a]
  /\ \A f \in fetches : f.n <= server.said[f.agent]
ShowsOneHistory == Loads(view.agent) \/ \A a \in PageAgents \ {view.agent} : view.shown[a] = 0
ShowsTheLast ==
  \/ overtaken \/ WillBeTold \/ Sending \/ refresh
  \/ \E f \in fetches : f.agent = view.agent /\ f.n = server.said[view.agent]
  \/ view.shown[view.agent] = server.said[view.agent]

PageInv ==
  /\ PageTypes /\ RunsAreTheirAgents /\ PageFollowsItsAgent /\ OldProbesAreRepeated /\ ShowsWhoWorks
  /\ StreamingIsSending /\ StoppingWorks /\ HistoriesGrow /\ ShowsOneHistory /\ ShowsTheLast

USE PageAssumption

-----------------------------------------------------------------------------
(* What the shared pieces of the handlers do.                               *)
LEMMA RenderedView ==
  ASSUME NEW v \in Views
  PROVE  /\ Rendered(v) \in Views
         /\ Rendered(v).agent = v.agent /\ Rendered(v).shown = v.shown /\ Rendered(v).streaming = v.streaming
         /\ Rendered(v).working = v.working /\ Rendered(v).listed = v.listed
         /\ v.agent \in Rendered(v).stopping => AgentWorks(v, v.agent)
BY DEF Rendered, Views

LEMMA IdleIsAProbe == Idle \in Probes /\ Idle.pc = "idle"
BY DEF Idle, Probes, RunOrNobody

LEMMA ProbeOfTheView ==
  ASSUME NEW v \in Views, server \in Servers, RunsAreTheirAgents
  PROVE  /\ Probe(v) \in Probes
         /\ v.streaming => Probe(v).pc = "idle"
         /\ ~ v.streaming => /\ Probe(v).pc = "asked" /\ Probe(v).agent = v.agent
                             /\ Probe(v).run = server.active[v.agent]
         /\ Probe(v).pc = "asked" => Probe(v).agent \in PageAgents
         /\ Probe(v).pc = "asked" /\ Probe(v).run # Nobody => Serves[Probe(v).run] = Probe(v).agent
BY IdleIsAProbe DEF Probe, Idle, Probes, Views, Servers, RunOrNobody, RunsAreTheirAgents

(* Asking for a probe leaves one that will be right, unless a message is    *)
(* being sent.                                                              *)
ProbedWell ==
  /\ sync' \in Probes /\ (sync'.pc = "asked" => sync'.agent \in PageAgents)
  /\ sync'.pc = "asked" /\ sync'.run # Nobody => Serves[sync'.run] = sync'.agent
  /\ sync'.pc = "asked" => sync'.run = server.active[sync'.agent] \/ sync'.again
LEMMA Requested ==
  ASSUME PageTypes, RunsAreTheirAgents, RequestSync(view)
  PROVE  /\ ProbedWell
         /\ sync.pc = "asked" => sync'.pc = "asked" /\ sync'.again
         /\ \/ view.streaming
            \/ sync'.pc = "asked" /\ (sync'.again \/ (sync'.agent = view.agent /\ sync'.run = server.active[view.agent]))
<1>1. view \in Views /\ server \in Servers /\ sync \in Probes
  BY DEF PageTypes
<1>2. CASE sync.pc = "idle"
  BY <1>1, <1>2, ProbeOfTheView DEF RequestSync, ProbedWell, Views
<1>3. CASE sync.pc # "idle"
  <2>1. sync.pc = "asked"
    BY <1>1, <1>3 DEF Probes
  <2>2. sync' = [sync EXCEPT !.again = TRUE]
    BY <1>3 DEF RequestSync
  <2>3. sync' \in Probes /\ sync'.again = TRUE /\ sync'.pc = "asked" /\ sync'.agent = sync.agent /\ sync'.run = sync.run
    BY <1>1, <2>1, <2>2 DEF Probes
  <2> QED BY <2>1, <2>3 DEF ProbedWell, PageTypes, RunsAreTheirAgents
<1> QED BY <1>2, <1>3

LEMMA ProbedNext ==
  ASSUME PageTypes, RunsAreTheirAgents, NextProbe(view)
  PROVE  /\ ProbedWell
         /\ sync.again /\ ~ view.streaming => /\ sync'.pc = "asked" /\ sync'.agent = view.agent
                                             /\ sync'.run = server.active[view.agent]
<1>1. view \in Views /\ server \in Servers /\ sync \in Probes
  BY DEF PageTypes
<1>2. CASE sync.again
  BY <1>1, <1>2, ProbeOfTheView DEF NextProbe, ProbedWell, Views
<1>3. CASE ~ sync.again
  BY <1>1, <1>3, IdleIsAProbe DEF NextProbe, ProbedWell
<1> QED BY <1>2, <1>3

(* The parts of the invariant that the lemmas below treat.                  *)
ServersRight ==
  /\ server \in Servers /\ runtime \in Runtimes
  /\ \A a \in PageAgents : server.active[a] # Nobody => Serves[server.active[a]] = a
ProbesRight ==
  /\ sync \in Probes /\ (sync.pc = "asked" => sync.agent \in PageAgents)
  /\ sync.pc = "asked" /\ sync.run # Nobody => Serves[sync.run] = sync.agent
  /\ sync.pc = "asked" => ProbeIsRight \/ sync.again \/ WillBeTold

LEMMA OneMoreIsSaid ==
  ASSUME NEW s \in Servers, NEW b \in PageAgents
  PROVE  LET t == [s EXCEPT !.said[b] = s.said[b] + 1] IN
         /\ t \in Servers /\ t.active = s.active /\ t.begun = s.begun
         /\ t.said[b] = s.said[b] + 1 /\ \A a \in PageAgents \ {b} : t.said[a] = s.said[a]
<1> DEFINE said == [s.said EXCEPT ![b] = s.said[b] + 1]
           t == [s EXCEPT !.said[b] = s.said[b] + 1]
<1>1. s.said \in [PageAgents -> Nat] /\ s.said[b] + 1 \in Nat
  BY DEF Servers
<1>2. said \in [PageAgents -> Nat] /\ said[b] = s.said[b] + 1 /\ \A a \in PageAgents \ {b} : said[a] = s.said[a]
  BY <1>1
<1>3. t = [s EXCEPT !.said = said]
  OBVIOUS
<1> HIDE DEF said, t
<1>4. t \in Servers /\ t.active = s.active /\ t.begun = s.begun /\ t.said = said
  BY <1>2, <1>3 DEF Servers
<1> QED BY <1>2, <1>4 DEF t

LEMMA NobodyIsActive ==
  ASSUME NEW s \in Servers, NEW b \in PageAgents
  PROVE  LET t == [s EXCEPT !.active[b] = Nobody] IN
         /\ t \in Servers /\ t.said = s.said /\ t.begun = s.begun
         /\ t.active[b] = Nobody /\ \A a \in PageAgents \ {b} : t.active[a] = s.active[a]
<1> DEFINE active == [s.active EXCEPT ![b] = Nobody]
           t == [s EXCEPT !.active[b] = Nobody]
<1>1. s.active \in [PageAgents -> RunOrNobody] /\ Nobody \in RunOrNobody
  BY DEF Servers, RunOrNobody
<1>2. active \in [PageAgents -> RunOrNobody] /\ active[b] = Nobody /\ \A a \in PageAgents \ {b} : active[a] = s.active[a]
  BY <1>1
<1>3. t = [s EXCEPT !.active = active]
  OBVIOUS
<1> HIDE DEF active, t
<1>4. t \in Servers /\ t.said = s.said /\ t.begun = s.begun /\ t.active = active
  BY <1>2, <1>3 DEF Servers
<1> QED BY <1>2, <1>4 DEF t

LEMMA WorkingAreAgents == Working \subseteq PageAgents
BY DEF Working

LEMMA FetchIsAFetch ==
  ASSUME server \in Servers, NEW kind \in {"load", "refresh", "post"}, NEW a \in PageAgents
  PROVE  /\ Fetch(kind, a) \in Fetches /\ Fetch(kind, a).kind = kind /\ Fetch(kind, a).agent = a
         /\ Fetch(kind, a).n = server.said[a]
BY DEF Fetch, Fetches, Servers

(* What the page shows of an agent that a step replaces.                    *)
LEMMA OneIsShown ==
  ASSUME NEW v \in Views, NEW a \in PageAgents, NEW n \in Nat
  PROVE  LET t == [v EXCEPT !.shown[a] = n] IN
         /\ t \in Views /\ t.agent = v.agent /\ t.working = v.working /\ t.listed = v.listed
         /\ t.stopping = v.stopping /\ t.streaming = v.streaming
         /\ t.shown[a] = n /\ \A b \in PageAgents \ {a} : t.shown[b] = v.shown[b]
<1> DEFINE shown == [v.shown EXCEPT ![a] = n]
           t == [v EXCEPT !.shown[a] = n]
<1>1. v.shown \in [PageAgents -> Nat]
  BY DEF Views
<1>2. shown \in [PageAgents -> Nat] /\ shown[a] = n /\ \A b \in PageAgents \ {a} : shown[b] = v.shown[b]
  BY <1>1
<1>3. t = [v EXCEPT !.shown = shown]
  OBVIOUS
<1> HIDE DEF shown, t
<1>4. /\ t \in Views /\ t.agent = v.agent /\ t.working = v.working /\ t.listed = v.listed
      /\ t.stopping = v.stopping /\ t.streaming = v.streaming /\ t.shown = shown
  BY <1>2, <1>3 DEF Views
<1> QED BY <1>2, <1>4 DEF t

LEMMA HistoryIsShown ==
  ASSUME NEW v \in Views, NEW f \in Fetches
  PROVE  LET t == [v EXCEPT !.shown = [a \in PageAgents |-> IF a = f.agent THEN f.n ELSE 0]] IN
         /\ t \in Views /\ t.agent = v.agent /\ t.working = v.working /\ t.listed = v.listed
         /\ t.stopping = v.stopping /\ t.streaming = v.streaming
         /\ t.shown[f.agent] = f.n /\ \A b \in PageAgents \ {f.agent} : t.shown[b] = 0
<1> DEFINE shown == [a \in PageAgents |-> IF a = f.agent THEN f.n ELSE 0]
<1>1. shown \in [PageAgents -> Nat] /\ shown[f.agent] = f.n /\ \A b \in PageAgents \ {f.agent} : shown[b] = 0
  BY DEF Fetches
<1> HIDE DEF shown
<1>2. [v EXCEPT !.shown = shown] \in Views
  BY <1>1 DEF Views
<1> QED BY <1>1, <1>2 DEF Views, shown

FollowsRightly == run \in Followed /\ PageFollowsItsAgent

RestRight ==
  /\ fetches \subseteq Fetches /\ lists \subseteq SUBSET PageAgents
  /\ refresh \in BOOLEAN /\ history \in BOOLEAN /\ overtaken \in BOOLEAN
  /\ posts \in [1..MaxPosts -> Posts]
  /\ \A p \in 1..MaxPosts : posts[p].pc \in {"sent", "open", "closed"} => posts[p].agent \in PageAgents
  /\ stops \subseteq PageAgents /\ used \in Nat

LEMMA AnswersMayBeWrong ==
  ASSUME NEW v \in Views, NEW a
  PROVE  AgentWorks(v, a) \in BOOLEAN
BY DEF AgentWorks

LEMMA PostReplaced ==
  ASSUME NEW ps \in [1..MaxPosts -> Posts], NEW p \in 1..MaxPosts, NEW post \in Posts,
         post.pc \in {"sent", "open", "closed"} => post.agent \in PageAgents,
         \A q \in 1..MaxPosts : ps[q].pc \in {"sent", "open", "closed"} => ps[q].agent \in PageAgents
  PROVE  /\ [ps EXCEPT ![p] = post] \in [1..MaxPosts -> Posts]
         /\ \A q \in 1..MaxPosts : [ps EXCEPT ![p] = post][q].pc \in {"sent", "open", "closed"}
                                   => [ps EXCEPT ![p] = post][q].agent \in PageAgents
OBVIOUS

(* What the steps make of the view.                                         *)
LEMMA ToldView ==
  ASSUME PageTypes, Told
  PROVE  /\ view'.agent = view.agent /\ view'.shown = view.shown /\ view'.streaming = view.streaming
         /\ view'.agent \in view'.stopping => AgentWorks(view', view'.agent)
<1> DEFINE v == [view EXCEPT !.listed = Working]
<1>1. v \in Views /\ v.agent = view.agent /\ v.shown = view.shown /\ v.streaming = view.streaming
  BY WorkingAreAgents DEF Views, PageTypes
<1>2. view' = Rendered(v)
  BY DEF Told
<1> HIDE DEF v
<1> QED BY <1>1, <1>2, RenderedView DEF AgentWorks

LEMMA ListedView ==
  ASSUME PageTypes, NEW l \in lists, view' = Rendered([view EXCEPT !.listed = l])
  PROVE  /\ view'.agent = view.agent /\ view'.shown = view.shown /\ view'.streaming = view.streaming
         /\ view'.agent \in view'.stopping => AgentWorks(view', view'.agent)
<1> DEFINE v == [view EXCEPT !.listed = l]
<1>1. v \in Views /\ v.agent = view.agent /\ v.shown = view.shown /\ v.streaming = view.streaming
  BY DEF Views, PageTypes
<1>2. view' = Rendered(v)
  OBVIOUS
<1> HIDE DEF v
<1> QED BY <1>1, <1>2, RenderedView DEF AgentWorks

LEMMA SelectedView ==
  ASSUME PageTypes, NEW a \in PageAgents, SelectAgent(a)
  PROVE  /\ view'.agent = a /\ view'.shown = view.shown /\ view'.streaming = view.streaming
         /\ view'.agent \in view'.stopping => AgentWorks(view', view'.agent)
<1> DEFINE v == [view EXCEPT !.agent = a]
<1>1. v \in Views /\ v.agent = a /\ v.shown = view.shown /\ v.streaming = view.streaming
  BY DEF Views, PageTypes
<1>2. view' = Rendered(v)
  BY DEF SelectAgent
<1> HIDE DEF v
<1> QED BY <1>1, <1>2, RenderedView DEF AgentWorks

LEMMA SyncedView ==
  ASSUME PageTypes, SyncRun
  PROVE  /\ view'.agent = view.agent /\ view'.shown = view.shown /\ view'.streaming = view.streaming
         /\ sync.agent # view.agent => view' = view
         /\ sync.agent = view.agent => (AgentWorks(view', view.agent) <=> sync.run # Nobody)
         /\ view' = view \/ (view'.agent \in view'.stopping => AgentWorks(view', view'.agent))
<1> DEFINE a == sync.agent
           v == [view EXCEPT !.working = view.working \ {a}, !.listed = view.listed \ {a}]
           w == [view EXCEPT !.working = view.working \cup {a}]
<1>1. /\ v \in Views /\ v.agent = view.agent /\ v.shown = view.shown /\ v.streaming = view.streaming
      /\ a \notin v.working \cup v.listed
  BY DEF Views, PageTypes, SyncRun
<1>2. /\ w \in Views /\ w.agent = view.agent /\ w.shown = view.shown /\ w.streaming = view.streaming
      /\ a \in w.working
  BY DEF Views, PageTypes, SyncRun
<1>3. CASE sync.agent # view.agent
  BY <1>3 DEF SyncRun
<1>4. CASE sync.agent = view.agent /\ sync.run = Nobody
  <2>1. view' = Rendered(v)
    BY <1>4 DEF SyncRun, Unfollow
  <2> HIDE DEF v
  <2> QED BY <1>1, <1>4, <2>1, RenderedView DEF AgentWorks
<1>5. CASE sync.agent = view.agent /\ sync.run # Nobody
  <2>1. view' = Rendered(w)
    BY <1>5 DEF SyncRun, Follow
  <2> HIDE DEF w
  <2> QED BY <1>2, <1>5, <2>1, RenderedView DEF AgentWorks
<1> QED BY <1>3, <1>4, <1>5

LEMMA BroadcastTells ==
  ASSUME PageTypes, Broadcast
  PROVE  WillBeTold'
BY DEF PageTypes, Broadcast, WillBeTold, Runtimes

LEMMA SendingGoesOn ==
  ASSUME PageTypes, NEW p \in 1..MaxPosts, Send(p) \/ TakeMessage(p) \/ PostStreamEnds(p)
  PROVE  Sending'
<1>1. CASE Send(p)
  <2>1. posts'[p].pc = "sent"
    BY <1>1 DEF Send, PageTypes, NoPost
  <2> QED BY <2>1 DEF Sending
<1>2. CASE TakeMessage(p)
  <2>1. posts'[p].pc \in {"closed", "open"}
    <3>1. CASE posts' = [posts EXCEPT ![p].pc = "closed"]
      BY <3>1 DEF Posts, PageTypes
    <3>2. ASSUME NEW r \in RunIDs, posts' = [posts EXCEPT ![p].pc = "open", ![p].run = r]
          PROVE  posts'[p].pc = "open"
      BY <3>2 DEF Posts, PageTypes
    <3> QED BY <1>2, <3>1, <3>2 DEF TakeMessage
  <2> QED BY <2>1 DEF Sending
<1>3. CASE PostStreamEnds(p)
  <2>1. posts'[p].pc = "closed"
    BY <1>3 DEF PostStreamEnds, PageTypes, Posts
  <2> QED BY <2>1 DEF Sending
<1> QED BY <1>1, <1>2, <1>3

(* The end of a sending asks for the history or for the agents.             *)
LEMMA ReturnAsks ==
  ASSUME PageTypes, NEW p \in 1..MaxPosts, PostReturns(p)
  PROVE  /\ AsksForAgents'
         /\ view'.agent = view.agent /\ view'.shown = view.shown /\ view'.stopping = view.stopping
         /\ view'.streaming => view.streaming /\ ~ posts[p].direct
         /\ \/ fetches' = fetches \cup {Fetch("post", view.agent)}
            \/ fetches' = fetches /\ (history \/ view'.streaming)
<1> DEFINE v == IF posts[p].direct THEN [view EXCEPT !.streaming = FALSE, !.working = @ \ {posts[p].agent}] ELSE view
<1>1. /\ v.agent = view.agent /\ v.shown = view.shown /\ v.stopping = view.stopping
      /\ v.streaming => view.streaming /\ ~ posts[p].direct
  BY DEF PageTypes, Views
<1>2. /\ view' = v
      /\ IF MayRefresh(v)
         THEN fetches' = fetches \cup {Fetch("post", v.agent)} /\ UNCHANGED lists
         ELSE lists' = lists \cup {Working} /\ UNCHANGED fetches
  BY DEF PostReturns
<1> HIDE DEF v
<1>3. CASE MayRefresh(v)
  BY <1>1, <1>2, <1>3, FetchIsAFetch DEF AsksForAgents, PageTypes, Views
<1>4. CASE ~ MayRefresh(v)
  BY <1>1, <1>2, <1>4 DEF AsksForAgents, MayRefresh
<1> QED BY <1>3, <1>4

(* Histories grow only at the end of a run or with a message.               *)
SaidGrows == \A a \in PageAgents : server.said[a] <= server'.said[a] /\ server'.said[a] \in Nat

LEMMA FinishedSays ==
  ASSUME PageTypes, NEW r \in RunIDs, FinishRun(r)
  PROVE  SaidGrows
<1> DEFINE b == Serves[r]
           t == [server EXCEPT !.said[b] = server.said[b] + 1]
<1>1. b \in PageAgents /\ server \in Servers
  BY DEF PageTypes
<1>2. server' = [t EXCEPT !.active[b] = Nobody]
  BY DEF FinishRun, PageTypes, Servers
<1> HIDE DEF b
<1>3. /\ t \in Servers /\ t.said[b] = server.said[b] + 1
      /\ \A a \in PageAgents \ {b} : t.said[a] = server.said[a]
  BY <1>1, OneMoreIsSaid
<1> HIDE DEF t
<1>4. server'.said = t.said
  BY <1>2, <1>3 DEF Servers
<1>5. \A a \in PageAgents : server.said[a] \in Nat
  BY <1>1 DEF Servers
<1> QED BY <1>3, <1>4, <1>5 DEF SaidGrows

LEMMA TakenSays ==
  ASSUME PageTypes, NEW p \in 1..MaxPosts, TakeMessage(p)
  PROVE  SaidGrows
<1> DEFINE b == posts[p].agent
           heard == [server EXCEPT !.said[b] = server.said[b] + 1]
<1>1. b \in PageAgents /\ server \in Servers
  BY DEF PageTypes, TakeMessage
<1>2. server' = heard \/ \E r \in RunIDs : server' = Began(heard, r)
  BY DEF TakeMessage
<1> HIDE DEF b
<1>3. /\ heard \in Servers /\ heard.said[b] = server.said[b] + 1
      /\ \A a \in PageAgents \ {b} : heard.said[a] = server.said[a]
  BY <1>1, OneMoreIsSaid
<1> HIDE DEF heard
<1>4. server'.said = heard.said
  BY <1>2, <1>3 DEF Servers, Began
<1>5. \A a \in PageAgents : server.said[a] \in Nat
  BY <1>1 DEF Servers
<1> QED BY <1>3, <1>4, <1>5 DEF SaidGrows

LEMMA GrowthIsFine ==
  ASSUME PageTypes, HistoriesGrow, SaidGrows, UNCHANGED <<view, fetches>>
  PROVE  HistoriesGrow'
<1>1. \A a \in PageAgents : view.shown[a] \in Nat /\ server.said[a] \in Nat
  BY DEF PageTypes, Views, Servers
<1>2. \A f \in fetches : f.n \in Nat /\ f.agent \in PageAgents
  BY DEF PageTypes, Fetches
<1> QED BY <1>1, <1>2 DEF HistoriesGrow, SaidGrows

LEMMA FreshFetches ==
  ASSUME PageTypes, HistoriesGrow, NEW kind \in {"load", "refresh", "post"}, NEW a \in PageAgents,
         \A f \in fetches' : f \in fetches \/ f = Fetch(kind, a), server' = server, view'.shown = view.shown
  PROVE  HistoriesGrow'
<1>1. Fetch(kind, a).n <= server.said[Fetch(kind, a).agent]
  BY FetchIsAFetch DEF PageTypes, Servers
<1> QED BY <1>1 DEF HistoriesGrow

-----------------------------------------------------------------------------
(* The server and the stream of its events.                                *)
LEMMA ServersKept ==
  ASSUME PageTypes, RunsAreTheirAgents, PageNext
  PROVE  ServersRight'
<1> USE DEF PageTypes, ServersRight
<1>1. ASSUME NEW r \in RunIDs, BeginRun(r)
       PROVE  ServersRight'
  <2>1. server' \in Servers /\ \A a \in PageAgents : server'.active[a] # Nobody => Serves[server'.active[a]] = a
    BY <1>1, ZenonT(60) DEF BeginRun, Began, Servers, RunOrNobody, RunsAreTheirAgents
  <2>2. runtime' \in Runtimes
    BY <1>1 DEF BeginRun, Broadcast, Runtimes
  <2> QED BY <2>1, <2>2
<1>2. ASSUME NEW r \in RunIDs, FinishRun(r)
       PROVE  ServersRight'
  <2>1. server' \in Servers /\ \A a \in PageAgents : server'.active[a] # Nobody => Serves[server'.active[a]] = a
    <3> DEFINE b == Serves[r]
    <3>1. server' = [server EXCEPT !.active[b] = Nobody, !.said[b] = server.said[b] + 1] /\ b \in PageAgents
      BY <1>2 DEF FinishRun
    <3> HIDE DEF b
    <3> DEFINE t == [server EXCEPT !.said[b] = server.said[b] + 1]
    <3>2. t \in Servers /\ t.active = server.active
      BY <3>1, OneMoreIsSaid
    <3>3. server' = [t EXCEPT !.active[b] = Nobody]
      BY <3>1 DEF Servers
    <3> HIDE DEF t
    <3>4. /\ server' \in Servers /\ server'.active[b] = Nobody
          /\ \A a \in PageAgents \ {b} : server'.active[a] = server.active[a]
      <4>1. b \in PageAgents
        BY <3>1
      <4> QED BY ONLY <3>2, <3>3, <4>1, NobodyIsActive
    <3>5. \A a \in PageAgents : server.active[a] # Nobody => Serves[server.active[a]] = a
      BY DEF RunsAreTheirAgents
    <3> QED BY ONLY <3>4, <3>5
  <2>2. runtime' \in Runtimes
    BY <1>2 DEF FinishRun, Broadcast, Runtimes
  <2> QED BY <2>1, <2>2
<1>3. CASE Connected
  BY <1>3 DEF Connected, Runtimes, RunsAreTheirAgents
<1>4. CASE RuntimeEvent
  BY <1>4 DEF RuntimeEvent, Runtimes, RunsAreTheirAgents
<1>5. CASE RuntimeBreaks
  BY <1>5 DEF RuntimeBreaks, Runtimes, RunsAreTheirAgents
<1>6. CASE RuntimeReconnects
  BY <1>6 DEF RuntimeReconnects, Runtimes, RunsAreTheirAgents
<1>7. ASSUME NEW p \in 1..MaxPosts, TakeMessage(p)
       PROVE  ServersRight'
  <2>1. posts[p].agent \in PageAgents
    BY <1>7 DEF TakeMessage
  <2>2. server' \in Servers /\ \A a \in PageAgents : server'.active[a] # Nobody => Serves[server'.active[a]] = a
    <3> DEFINE b == posts[p].agent
               heard == [server EXCEPT !.said[b] = server.said[b] + 1]
    <3>1. heard \in Servers /\ heard.active = server.active /\ heard.begun = server.begun
      BY <2>1, OneMoreIsSaid
    <3>2. server' = heard \/ \E r \in RunIDs : Serves[r] = b /\ server' = Began(heard, r)
      BY <1>7 DEF TakeMessage
    <3> HIDE DEF heard
    <3>3. CASE server' = heard
      BY <3>1, <3>3 DEF RunsAreTheirAgents
    <3>4. ASSUME NEW r \in RunIDs, Serves[r] = b, server' = Began(heard, r)
          PROVE  server' \in Servers /\ \A a \in PageAgents : server'.active[a] # Nobody => Serves[server'.active[a]] = a
      BY <3>1, <3>4, <2>1, ZenonT(60) DEF RunsAreTheirAgents, Began, Servers, RunOrNobody
    <3> QED BY <3>2, <3>3, <3>4
  <2>3. runtime' \in Runtimes
    BY <1>7 DEF TakeMessage, Broadcast, Runtimes
  <2> QED BY <2>2, <2>3
<1>8. CASE
       \/ (\E r \in RunIDs : SourceTimer(r))
       \/ SyncRun
       \/ SourceEnds
       \/ Poll
       \/ (\E l \in lists : ListArrives(l))
       \/ RefreshTimer
       \/ LoadEarlier
       \/ EarlierLoaded
       \/ (\E f \in fetches : HistoryLoaded(f))
       \/ (\E f \in fetches : HistoryMerged(f))
       \/ (\E a \in PageAgents : SelectAgent(a))
       \/ (\E a \in PageAgents : StopReturns(a))
       \/ (\E p \in 1..MaxPosts : Send(p))
       \/ (\E p \in 1..MaxPosts : StreamEvent(p))
       \/ (\E p \in 1..MaxPosts : PostStreamEnds(p))
       \/ (\E p \in 1..MaxPosts : PostReturns(p))
       \/ Stop
  BY <1>8 DEF SourceTimer, SyncRun, Unfollow, Follow, SourceEnds, Poll, ListArrives, RefreshTimer, MayRefresh, Fetch, LoadEarlier, EarlierLoaded, HistoryLoaded, HistoryMerged, SelectAgent, NoRunFollowed, StopReturns, Send, NoPost, StreamEvent, PostStreamEnds, PostReturns, Stop, RunsAreTheirAgents
<1> QED BY <1>1, <1>2, <1>3, <1>4, <1>5, <1>6, <1>7, <1>8 DEF PageNext

(* The probe of the active run.                                             *)
LEMMA ProbesKept ==
  ASSUME PageTypes, RunsAreTheirAgents, OldProbesAreRepeated, PageNext
  PROVE  ProbesRight'
<1> USE DEF PageTypes, ProbesRight, ProbedWell, ProbeIsRight, RunsAreTheirAgents
<1>1. ASSUME NEW r \in RunIDs, BeginRun(r)
       PROVE  ProbesRight'
  <2>1. WillBeTold'
    BY <1>1 DEF BeginRun, Broadcast, WillBeTold, Runtimes
  <2> QED BY <1>1, <2>1 DEF BeginRun
<1>2. ASSUME NEW r \in RunIDs, FinishRun(r)
       PROVE  ProbesRight'
  <2>1. WillBeTold'
    BY <1>2 DEF FinishRun, Broadcast, WillBeTold, Runtimes
  <2> QED BY <1>2, <2>1 DEF FinishRun
<1>3. ASSUME NEW r \in RunIDs, SourceTimer(r)
       PROVE  ProbesRight'
  BY <1>3, Requested DEF SourceTimer, OldProbesAreRepeated, WillBeTold
<1>4. CASE Connected
  BY <1>4, Requested DEF Connected, Told
<1>5. CASE RuntimeEvent
  BY <1>5, Requested DEF RuntimeEvent, Told
<1>6. CASE RuntimeBreaks
  BY <1>6 DEF RuntimeBreaks, WillBeTold
<1>7. CASE RuntimeReconnects
  BY <1>7 DEF RuntimeReconnects, WillBeTold
<1>8. CASE SyncRun
  BY <1>8, ProbedNext DEF SyncRun
<1>9. ASSUME NEW l \in lists, ListArrives(l)
       PROVE  ProbesRight'
  BY <1>9, Requested DEF ListArrives, OldProbesAreRepeated, WillBeTold
<1>10. ASSUME NEW f \in fetches, HistoryLoaded(f)
       PROVE  ProbesRight'
  BY <1>10, Requested DEF HistoryLoaded, OldProbesAreRepeated, WillBeTold
<1>11. ASSUME NEW p \in 1..MaxPosts, TakeMessage(p)
       PROVE  ProbesRight'
  <2>1. WillBeTold' \/ (server'.active = server.active /\ (WillBeTold => WillBeTold'))
    BY <1>11 DEF TakeMessage, Broadcast, WillBeTold, Runtimes, Servers
  <2> QED BY <1>11, <2>1 DEF TakeMessage, OldProbesAreRepeated
<1>12. CASE
       \/ SourceEnds
       \/ Poll
       \/ RefreshTimer
       \/ LoadEarlier
       \/ EarlierLoaded
       \/ (\E f \in fetches : HistoryMerged(f))
       \/ (\E a \in PageAgents : SelectAgent(a))
       \/ (\E a \in PageAgents : StopReturns(a))
       \/ (\E p \in 1..MaxPosts : Send(p))
       \/ (\E p \in 1..MaxPosts : StreamEvent(p))
       \/ (\E p \in 1..MaxPosts : PostStreamEnds(p))
       \/ (\E p \in 1..MaxPosts : PostReturns(p))
       \/ Stop
  BY <1>12 DEF SourceEnds, Poll, RefreshTimer, MayRefresh, Fetch, LoadEarlier, EarlierLoaded, HistoryMerged, SelectAgent, NoRunFollowed, StopReturns, Send, NoPost, StreamEvent, PostStreamEnds, PostReturns, Stop, OldProbesAreRepeated, WillBeTold
<1> QED BY <1>1, <1>2, <1>3, <1>4, <1>5, <1>6, <1>7, <1>8, <1>9, <1>10, <1>11, <1>12 DEF PageNext

(* What the page shows.                                                     *)
LEMMA ViewKept ==
  ASSUME PageTypes, PageNext
  PROVE  (view \in Views)'
<1> USE DEF PageTypes
<1>1. CASE Connected
  <2> DEFINE v == [view EXCEPT !.listed = Working]
  <2>1. v \in Views
    BY WorkingAreAgents DEF Views
  <2>2. view' = Rendered(v)
    BY <1>1 DEF Connected, Told
  <2> HIDE DEF v
  <2> QED BY <2>1, <2>2, RenderedView
<1>2. CASE RuntimeEvent
  <2> DEFINE v == [view EXCEPT !.listed = Working]
  <2>1. v \in Views
    BY WorkingAreAgents DEF Views
  <2>2. view' = Rendered(v)
    BY <1>2 DEF RuntimeEvent, Told
  <2> HIDE DEF v
  <2> QED BY <2>1, <2>2, RenderedView
<1>3. CASE SyncRun
  <2>1. CASE view' = view
    BY <2>1
  <2> DEFINE a == sync.agent
             v == [view EXCEPT !.working = view.working \ {a}, !.listed = view.listed \ {a}]
             w == [view EXCEPT !.working = view.working \cup {a}]
  <2>2. v \in Views /\ w \in Views
    BY <1>3 DEF Views, SyncRun
  <2>3. CASE view' = Rendered(v) \/ view' = Rendered(w)
    <3> HIDE DEF v, w
    <3> QED BY <2>2, <2>3, RenderedView
  <2> QED BY <1>3, <2>1, <2>3 DEF SyncRun, Unfollow, Follow
<1>4. ASSUME NEW l \in lists, ListArrives(l)
       PROVE  (view \in Views)'
  <2> DEFINE v == [view EXCEPT !.listed = l]
  <2>1. v \in Views
    BY DEF Views
  <2>2. view' = Rendered(v)
    BY <1>4 DEF ListArrives
  <2> HIDE DEF v
  <2> QED BY <2>1, <2>2, RenderedView
<1>5. ASSUME NEW f \in fetches, HistoryLoaded(f)
       PROVE  (view \in Views)'
  <2>1. CASE view' = view
    BY <1>5, <2>1 DEF HistoryLoaded
  <2>2. CASE f.agent = view.agent /\ view' = [view EXCEPT !.shown = [a \in PageAgents |-> IF a = f.agent THEN f.n ELSE 0]]
    <3>1. f \in Fetches /\ view \in Views
      OBVIOUS
    <3>2. view' \in Views /\ view'.agent = view.agent
      BY ONLY <2>2, <3>1, HistoryIsShown
    <3> QED BY <1>5, <3>2 DEF HistoryLoaded
  <2> QED BY <1>5, <2>1, <2>2 DEF HistoryLoaded
<1>6. ASSUME NEW f \in fetches, HistoryMerged(f)
       PROVE  (view \in Views)'
  <2>1. f \in Fetches /\ f.agent \in PageAgents /\ f.n \in Nat
    BY DEF Fetches
  <2> QED BY <1>6, <2>1, OneIsShown DEF HistoryMerged
<1>7. ASSUME NEW a \in PageAgents, SelectAgent(a)
       PROVE  (view \in Views)'
  <2> DEFINE v == [view EXCEPT !.agent = a]
  <2>1. v \in Views
    BY DEF Views
  <2>2. view' = Rendered(v)
    BY <1>7 DEF SelectAgent
  <2> HIDE DEF v
  <2> QED BY <2>1, <2>2, RenderedView
<1>8. ASSUME NEW a \in PageAgents, StopReturns(a)
       PROVE  (view \in Views)'
  <2>1. view' = view \/ view' = [view EXCEPT !.stopping = view.stopping \ {a}]
    BY <1>8 DEF StopReturns
  <2>2. CASE view' = [view EXCEPT !.stopping = view.stopping \ {a}]
    BY <2>2 DEF Views
  <2> QED BY <2>1, <2>2
<1>9. ASSUME NEW p \in 1..MaxPosts, Send(p)
       PROVE  (view \in Views)'
  <2>1. view.agent \in PageAgents
    BY DEF Views
  <2>2. CASE view' = view
    BY <2>2
  <2>3. CASE view' = [view EXCEPT !.working = view.working \cup {view.agent},
                                 !.listed = view.listed \cup {view.agent}, !.streaming = TRUE]
    BY <2>1, <2>3 DEF Views
  <2> QED BY <1>9, <2>2, <2>3 DEF Send
<1>10. ASSUME NEW p \in 1..MaxPosts, PostReturns(p)
       PROVE  (view \in Views)'
  <2>1. view' = view \/ view' = [view EXCEPT !.streaming = FALSE, !.working = view.working \ {posts[p].agent}]
    BY <1>10 DEF PostReturns
  <2>2. CASE view' = [view EXCEPT !.streaming = FALSE, !.working = view.working \ {posts[p].agent}]
    BY <2>2 DEF Views
  <2> QED BY <2>1, <2>2
<1>11. CASE Stop
  <2>1. view.agent \in PageAgents /\ view' = [view EXCEPT !.stopping = view.stopping \cup {view.agent}]
    BY <1>11 DEF Stop, Views
  <2> QED BY <2>1 DEF Views
<1>12. CASE
       \/ (\E r \in RunIDs : BeginRun(r))
       \/ (\E r \in RunIDs : FinishRun(r))
       \/ (\E r \in RunIDs : SourceTimer(r))
       \/ RuntimeBreaks
       \/ RuntimeReconnects
       \/ SourceEnds
       \/ Poll
       \/ RefreshTimer
       \/ LoadEarlier
       \/ EarlierLoaded
       \/ (\E p \in 1..MaxPosts : TakeMessage(p))
       \/ (\E p \in 1..MaxPosts : StreamEvent(p))
       \/ (\E p \in 1..MaxPosts : PostStreamEnds(p))
  BY <1>12 DEF BeginRun, Began, Broadcast, FinishRun, SourceTimer, RuntimeBreaks, RuntimeReconnects, SourceEnds, Poll, RefreshTimer, MayRefresh, Fetch, LoadEarlier, EarlierLoaded, TakeMessage, StreamEvent, PostStreamEnds
<1> QED BY <1>1, <1>2, <1>3, <1>4, <1>5, <1>6, <1>7, <1>8, <1>9, <1>10, <1>11, <1>12 DEF PageNext

(* The page follows the agent it shows.                                     *)
LEMMA FollowKept ==
  ASSUME PageTypes, RunsAreTheirAgents, PageFollowsItsAgent, PageNext
  PROVE  FollowsRightly'
<1> USE DEF PageTypes, FollowsRightly, PageFollowsItsAgent
<1>1. ASSUME NEW r \in RunIDs, SourceTimer(r)
       PROVE  FollowsRightly'
  <2>1. /\ view' = view /\ run' \in {[run EXCEPT !.timers = run.timers \ {r}, !.key = Nobody],
                                       [run EXCEPT !.timers = run.timers \ {r}]}
    BY <1>1 DEF SourceTimer
  <2>2. ASSUME NEW kept \in RunOrNobody, run' = [run EXCEPT !.timers = run.timers \ {r}, !.key = kept]
        PROVE  run' \in Followed /\ run'.source = run.source /\ run'.agent = run.agent
    <3>1. run.timers \ {r} \subseteq RunIDs
      BY DEF Followed
    <3> QED BY <2>2, <3>1 DEF Followed
  <2>3. run \in Followed /\ run.key \in RunOrNobody /\ Nobody \in RunOrNobody
    BY DEF Followed, RunOrNobody
  <2>4. run' = [run EXCEPT !.timers = run.timers \ {r}, !.key = Nobody] \/ run' = [run EXCEPT !.timers = run.timers \ {r}, !.key = run.key]
    BY <2>1, <2>3 DEF Followed
  <2> QED BY <2>1, <2>2, <2>3, <2>4
<1>2. CASE Connected
  <2> DEFINE v == [view EXCEPT !.listed = Working]
  <2>1. v \in Views
    BY WorkingAreAgents DEF Views
  <2>2. view' = Rendered(v)
    BY <1>2 DEF Connected, Told
  <2> HIDE DEF v
  <2>3. view'.agent = v.agent /\ v.agent = view.agent
    BY <2>1, <2>2, RenderedView DEF v, Views
  <2> QED BY <1>2, <2>3 DEF Connected
<1>3. CASE RuntimeEvent
  <2> DEFINE v == [view EXCEPT !.listed = Working]
  <2>1. v \in Views
    BY WorkingAreAgents DEF Views
  <2>2. view' = Rendered(v)
    BY <1>3 DEF RuntimeEvent, Told
  <2> HIDE DEF v
  <2>3. view'.agent = v.agent /\ v.agent = view.agent
    BY <2>1, <2>2, RenderedView DEF v, Views
  <2> QED BY <1>3, <2>3 DEF RuntimeEvent
<1>4. CASE SyncRun
  <2>1. view'.agent = view.agent
    <3> DEFINE a == sync.agent
               v == [view EXCEPT !.working = view.working \ {a}, !.listed = view.listed \ {a}]
               w == [view EXCEPT !.working = view.working \cup {a}]
    <3>1. v \in Views /\ w \in Views /\ v.agent = view.agent /\ w.agent = view.agent
      BY <1>4 DEF Views, SyncRun
    <3>2. view' = view \/ view' = Rendered(v) \/ view' = Rendered(w)
      BY <1>4 DEF SyncRun, Unfollow, Follow
    <3> HIDE DEF v, w
    <3> QED BY <3>1, <3>2, RenderedView
  <2>2. CASE run' = run
    BY <2>1, <2>2
  <2>3. CASE sync.agent = view.agent /\ sync.run = Nobody /\ Unfollow(sync.agent)
    <3> DEFINE keyed == run.key # Nobody /\ Serves[run.key] = sync.agent
               source == IF keyed THEN Nobody ELSE run.source
               kept == IF keyed THEN Nobody ELSE run.key
               id == IF run.agent = sync.agent THEN Nobody ELSE run.id
    <3>1. run' = [run EXCEPT !.source = source, !.key = kept, !.id = id]
      BY <2>3 DEF Unfollow
    <3>2. {source, kept, id} \subseteq RunOrNobody /\ source \in {Nobody, run.source}
      BY DEF Followed, RunOrNobody
    <3> HIDE DEF source, kept, id
    <3>3. run' \in Followed /\ run'.source = source /\ run'.agent = run.agent
      BY <3>1, <3>2 DEF Followed
    <3> QED BY <2>1, <3>2, <3>3
  <2>4. CASE sync.agent = view.agent /\ sync.run # Nobody /\ Follow(sync.agent, sync.run)
    <3>1. sync.run \in RunOrNobody /\ Serves[sync.run] = view.agent /\ view.agent \in PageAgents
      BY <1>4, <2>4 DEF Probes, Views, RunsAreTheirAgents, SyncRun
    <3>2. run' = run \/ run' = [run EXCEPT !.id = sync.run, !.agent = view.agent, !.source = sync.run, !.key = sync.run]
      BY <2>4 DEF Follow
    <3>3. run' = run \/ (run' \in Followed /\ run'.source = sync.run /\ run'.agent = view.agent)
      <4>1. CASE run' = [run EXCEPT !.id = sync.run, !.agent = view.agent, !.source = sync.run, !.key = sync.run]
        BY <3>1, <4>1 DEF Followed
      <4> QED BY <3>2, <4>1
    <3> QED BY <2>1, <3>1, <3>3
  <2> QED BY <1>4, <2>2, <2>3, <2>4 DEF SyncRun
<1>5. CASE SourceEnds
  <2>1. view' = view /\ run' = [run EXCEPT !.source = Nobody, !.timers = run.timers \cup {run.key}] /\ run.key \in RunIDs
    BY <1>5 DEF SourceEnds, Followed, RunOrNobody
  <2> QED BY <2>1 DEF Followed, RunOrNobody
<1>6. ASSUME NEW l \in lists, ListArrives(l)
       PROVE  FollowsRightly'
  <2> DEFINE v == [view EXCEPT !.listed = l]
  <2>1. v \in Views /\ v.agent = view.agent
    BY DEF Views
  <2>2. view' = Rendered(v)
    BY <1>6 DEF ListArrives
  <2> HIDE DEF v
  <2>3. view'.agent = view.agent
    BY <2>1, <2>2, RenderedView
  <2> QED BY <1>6, <2>3 DEF ListArrives
<1>7. ASSUME NEW f \in fetches, HistoryLoaded(f)
       PROVE  FollowsRightly'
  <2>1. CASE view' = view
    BY <1>7, <2>1 DEF HistoryLoaded
  <2>2. CASE f.agent = view.agent /\ view' = [view EXCEPT !.shown = [a \in PageAgents |-> IF a = f.agent THEN f.n ELSE 0]]
    <3>1. f \in Fetches /\ view \in Views
      OBVIOUS
    <3>2. view' \in Views /\ view'.agent = view.agent
      BY ONLY <2>2, <3>1, HistoryIsShown
    <3> QED BY <1>7, <3>2 DEF HistoryLoaded
  <2> QED BY <1>7, <2>1, <2>2 DEF HistoryLoaded
<1>8. ASSUME NEW f \in fetches, HistoryMerged(f)
       PROVE  FollowsRightly'
  <2>1. view'.agent = view.agent /\ run' = run
    BY <1>8 DEF HistoryMerged, Views
  <2> QED BY <2>1
<1>9. ASSUME NEW a \in PageAgents, SelectAgent(a)
       PROVE  FollowsRightly'
  <2>1. run.agent # a
    BY <1>9 DEF SelectAgent
  <2>2. run' = [run EXCEPT !.id = Nobody, !.agent = a, !.source = Nobody, !.key = Nobody]
    BY <1>9, <2>1 DEF SelectAgent, NoRunFollowed
  <2>3. run' \in Followed /\ run'.agent = a /\ run'.source = Nobody
    BY <2>2 DEF Followed, RunOrNobody
  <2> DEFINE v == [view EXCEPT !.agent = a]
  <2>4. v \in Views /\ v.agent = a
    BY DEF Views
  <2>5. view' = Rendered(v)
    BY <1>9 DEF SelectAgent
  <2> HIDE DEF v
  <2>6. view'.agent = a
    BY <2>4, <2>5, RenderedView
  <2> QED BY <2>3, <2>6
<1>10. ASSUME NEW a \in PageAgents, StopReturns(a)
       PROVE  FollowsRightly'
  <2>1. view'.agent = view.agent /\ run' = run
    BY <1>10 DEF StopReturns, Views
  <2> QED BY <2>1
<1>11. ASSUME NEW p \in 1..MaxPosts, Send(p)
       PROVE  FollowsRightly'
  <2>1. view'.agent = view.agent /\ view.agent \in PageAgents
    BY <1>11, ZenonT(60) DEF Send, Views
  <2>2. run' = run \/ run' = [run EXCEPT !.id = Nobody, !.agent = view.agent]
    BY <1>11 DEF Send
  <2>3. run' \in Followed /\ run'.source = run.source /\ run'.agent \in {run.agent, view.agent}
    <3>1. CASE run' = [run EXCEPT !.id = Nobody, !.agent = view.agent]
      BY <2>1, <3>1 DEF Followed, RunOrNobody
    <3> QED BY <2>2, <3>1
  <2> QED BY <2>1, <2>3
<1>12. ASSUME NEW p \in 1..MaxPosts, StreamEvent(p)
       PROVE  FollowsRightly'
  <2>1. run' = [run EXCEPT !.id = posts[p].run] /\ posts[p].run \in RunOrNobody /\ view' = view
    BY <1>12 DEF StreamEvent, Posts
  <2> QED BY <2>1 DEF Followed
<1>13. ASSUME NEW p \in 1..MaxPosts, PostReturns(p)
       PROVE  FollowsRightly'
  <2>1. view'.agent = view.agent /\ run' = run
    BY <1>13 DEF PostReturns, Views
  <2> QED BY <2>1
<1>14. CASE Stop
  <2>1. view'.agent = view.agent /\ run' = run
    BY <1>14 DEF Stop, Views
  <2> QED BY <2>1
<1>15. CASE
       \/ (\E r \in RunIDs : BeginRun(r))
       \/ (\E r \in RunIDs : FinishRun(r))
       \/ RuntimeBreaks
       \/ RuntimeReconnects
       \/ Poll
       \/ RefreshTimer
       \/ LoadEarlier
       \/ EarlierLoaded
       \/ (\E p \in 1..MaxPosts : TakeMessage(p))
       \/ (\E p \in 1..MaxPosts : PostStreamEnds(p))
  BY <1>15 DEF BeginRun, Began, Broadcast, FinishRun, RuntimeBreaks, RuntimeReconnects, Poll, RefreshTimer, MayRefresh, Fetch, LoadEarlier, EarlierLoaded, TakeMessage, PostStreamEnds
<1> QED BY <1>1, <1>2, <1>3, <1>4, <1>5, <1>6, <1>7, <1>8, <1>9, <1>10, <1>11, <1>12, <1>13, <1>14, <1>15 DEF PageNext

(* What else the page holds.                                                *)
LEMMA RestKept ==
  ASSUME PageTypes, PageNext
  PROVE  RestRight'
<1> USE DEF PageTypes, RestRight
<1>1. ASSUME NEW r \in RunIDs, BeginRun(r)
       PROVE  RestRight'
  BY <1>1 DEF BeginRun, Began, Broadcast
<1>2. ASSUME NEW r \in RunIDs, FinishRun(r)
       PROVE  RestRight'
  BY <1>2 DEF FinishRun, Broadcast
<1>3. ASSUME NEW r \in RunIDs, SourceTimer(r)
       PROVE  RestRight'
  BY <1>3 DEF SourceTimer
<1>4. CASE Connected
  BY <1>4 DEF Connected, Told
<1>5. CASE RuntimeEvent
  BY <1>5 DEF RuntimeEvent, Told
<1>6. CASE RuntimeBreaks
  BY <1>6 DEF RuntimeBreaks
<1>7. CASE RuntimeReconnects
  BY <1>7 DEF RuntimeReconnects
<1>8. CASE SyncRun
  BY <1>8 DEF SyncRun, Unfollow, Follow
<1>9. CASE SourceEnds
  BY <1>9 DEF SourceEnds
<1>10. CASE Poll
  BY <1>10, WorkingAreAgents DEF Poll
<1>11. ASSUME NEW l \in lists, ListArrives(l)
       PROVE  RestRight'
  <2>1. refresh' \in BOOLEAN
    BY <1>11 DEF ListArrives, AgentWorks
  <2> QED BY <1>11, <2>1 DEF ListArrives
<1>12. CASE RefreshTimer
  <2>1. Fetch("refresh", view.agent) \in Fetches
    BY FetchIsAFetch DEF Views
  <2> QED BY <1>12, <2>1 DEF RefreshTimer
<1>13. CASE LoadEarlier
  BY <1>13 DEF LoadEarlier
<1>14. CASE EarlierLoaded
  BY <1>14 DEF EarlierLoaded
<1>15. ASSUME NEW f \in fetches, HistoryLoaded(f)
       PROVE  RestRight'
  <2>1. overtaken' \in BOOLEAN
    BY <1>15 DEF HistoryLoaded
  <2> QED BY <1>15, <2>1 DEF HistoryLoaded
<1>16. ASSUME NEW f \in fetches, HistoryMerged(f)
       PROVE  RestRight'
  BY <1>16, WorkingAreAgents DEF HistoryMerged
<1>17. ASSUME NEW a \in PageAgents, SelectAgent(a)
       PROVE  RestRight'
  <2>1. Fetch("load", a) \in Fetches
    BY FetchIsAFetch
  <2> QED BY <1>17, <2>1 DEF SelectAgent
<1>18. ASSUME NEW a \in PageAgents, StopReturns(a)
       PROVE  RestRight'
  BY <1>18, WorkingAreAgents DEF StopReturns
<1>19. ASSUME NEW p \in 1..MaxPosts, Send(p)
       PROVE  RestRight'
  <2> DEFINE post == [NoPost EXCEPT !.pc = "sent", !.agent = view.agent, !.direct = ~ AgentWorks(view, view.agent)]
  <2>1. posts' = [posts EXCEPT ![p] = post]
    BY <1>19 DEF Send
  <2>2. post \in Posts /\ (post.pc \in {"sent", "open", "closed"} => post.agent \in PageAgents)
    BY <1>19 DEF Posts, NoPost, Views, AgentWorks, RunOrNobody
  <2> HIDE DEF post
  <2>3. /\ posts' \in [1..MaxPosts -> Posts]
        /\ \A q \in 1..MaxPosts : posts'[q].pc \in {"sent", "open", "closed"} => posts'[q].agent \in PageAgents
    BY <2>1, <2>2, PostReplaced
  <2> QED BY <1>19, <2>3 DEF Send
<1>20. ASSUME NEW p \in 1..MaxPosts, TakeMessage(p)
       PROVE  RestRight'
  <2>1. posts[p] \in Posts /\ posts[p].agent \in PageAgents
    BY <1>20 DEF TakeMessage
  <2>2. PICK post : /\ posts' = [posts EXCEPT ![p] = post]
                    /\ \/ post = [posts[p] EXCEPT !.pc = "closed"]
                       \/ \E r \in RunIDs : post = [posts[p] EXCEPT !.pc = "open", !.run = r]
    <3>1. CASE posts' = [posts EXCEPT ![p].pc = "closed"]
      BY <3>1
    <3>2. ASSUME NEW r \in RunIDs, posts' = [posts EXCEPT ![p].pc = "open", ![p].run = r]
          PROVE  posts' = [posts EXCEPT ![p] = [posts[p] EXCEPT !.pc = "open", !.run = r]]
      BY <3>2
    <3> QED BY <1>20, <3>1, <3>2 DEF TakeMessage
  <2>3. post \in Posts /\ (post.pc \in {"sent", "open", "closed"} => post.agent \in PageAgents)
    <3>1. CASE post = [posts[p] EXCEPT !.pc = "closed"]
      BY <2>1, <3>1 DEF Posts
    <3>2. ASSUME NEW r \in RunIDs, post = [posts[p] EXCEPT !.pc = "open", !.run = r]
          PROVE  post \in Posts /\ post.agent = posts[p].agent
      BY <2>1, <3>2 DEF Posts, RunOrNobody
    <3> QED BY <2>1, <2>2, <3>1, <3>2
  <2>4. /\ posts' \in [1..MaxPosts -> Posts]
        /\ \A q \in 1..MaxPosts : posts'[q].pc \in {"sent", "open", "closed"} => posts'[q].agent \in PageAgents
    BY <2>2, <2>3, PostReplaced
  <2> QED BY <1>20, <2>4 DEF TakeMessage
<1>21. ASSUME NEW p \in 1..MaxPosts, StreamEvent(p)
       PROVE  RestRight'
  BY <1>21 DEF StreamEvent
<1>22. ASSUME NEW p \in 1..MaxPosts, PostStreamEnds(p)
       PROVE  RestRight'
  <2> DEFINE post == [posts[p] EXCEPT !.pc = "closed"]
  <2>1. posts' = [posts EXCEPT ![p] = post]
    BY <1>22 DEF PostStreamEnds
  <2>2. post \in Posts /\ (post.pc \in {"sent", "open", "closed"} => post.agent \in PageAgents)
    <3>1. posts[p] \in Posts /\ posts[p].agent \in PageAgents
      BY <1>22 DEF PostStreamEnds
    <3>2. post \in Posts
      BY <3>1 DEF Posts
    <3>3. post.agent = posts[p].agent
      BY <3>1 DEF Posts
    <3> QED BY <3>1, <3>2, <3>3
  <2> HIDE DEF post
  <2>3. /\ posts' \in [1..MaxPosts -> Posts]
        /\ \A q \in 1..MaxPosts : posts'[q].pc \in {"sent", "open", "closed"} => posts'[q].agent \in PageAgents
    BY <2>1, <2>2, PostReplaced
  <2> QED BY <1>22, <2>3 DEF PostStreamEnds
<1>23. ASSUME NEW p \in 1..MaxPosts, PostReturns(p)
       PROVE  RestRight'
  <2> DEFINE post == [NoPost EXCEPT !.pc = "done"]
  <2>1. posts' = [posts EXCEPT ![p] = post]
    BY <1>23 DEF PostReturns
  <2>2. post \in Posts /\ (post.pc \in {"sent", "open", "closed"} => post.agent \in PageAgents)
    BY <1>23 DEF Posts, NoPost, RunOrNobody
  <2> HIDE DEF post
  <2>3. /\ posts' \in [1..MaxPosts -> Posts]
        /\ \A q \in 1..MaxPosts : posts'[q].pc \in {"sent", "open", "closed"} => posts'[q].agent \in PageAgents
    BY <2>1, <2>2, PostReplaced
  <2>4. view.agent \in PageAgents
    BY DEF Views
  <2>5. fetches' \subseteq Fetches
    <3>1. Fetch("post", view.agent) \in Fetches
      BY <2>4, FetchIsAFetch
    <3>2. fetches' \subseteq fetches \cup {Fetch("post", view.agent)}
      <4> DEFINE v == IF posts[p].direct THEN [view EXCEPT !.streaming = FALSE, !.working = view.working \ {posts[p].agent}] ELSE view
      <4>1. v.agent = view.agent
        BY DEF Views
      <4>2. fetches' \subseteq fetches \cup {Fetch("post", v.agent)}
        BY <1>23 DEF PostReturns
      <4> QED BY <4>1, <4>2
    <3> QED BY <3>1, <3>2
  <2>6. lists' \subseteq SUBSET PageAgents
    BY <1>23, WorkingAreAgents DEF PostReturns
  <2> QED BY <1>23, <2>3, <2>5, <2>6 DEF PostReturns
<1>24. CASE Stop
  <2>1. view.agent \in PageAgents
    BY DEF Views
  <2> QED BY <1>24, <2>1 DEF Stop
<1> QED BY <1>1, <1>2, <1>3, <1>4, <1>5, <1>6, <1>7, <1>8, <1>9, <1>10, <1>11, <1>12, <1>13, <1>14, <1>15, <1>16, <1>17, <1>18, <1>19, <1>20, <1>21, <1>22, <1>23, <1>24 DEF PageNext

(* A message that is streamed is being sent.                                *)
LEMMA StreamingKept ==
  ASSUME PageTypes, StreamingIsSending, PageNext
  PROVE  StreamingIsSending'
<1> USE DEF PageTypes, StreamingIsSending
<1>1. CASE Connected
  <2> DEFINE v == [view EXCEPT !.listed = Working]
  <2>1. v \in Views
    BY WorkingAreAgents DEF Views
  <2>2. view' = Rendered(v)
    BY <1>1 DEF Connected, Told
  <2> HIDE DEF v
  <2>3. view'.streaming = v.streaming /\ v.streaming = view.streaming
    BY <2>1, <2>2, RenderedView DEF v, Views
  <2> QED BY <1>1, <2>3 DEF Connected
<1>2. CASE RuntimeEvent
  <2> DEFINE v == [view EXCEPT !.listed = Working]
  <2>1. v \in Views
    BY WorkingAreAgents DEF Views
  <2>2. view' = Rendered(v)
    BY <1>2 DEF RuntimeEvent, Told
  <2> HIDE DEF v
  <2>3. view'.streaming = v.streaming /\ v.streaming = view.streaming
    BY <2>1, <2>2, RenderedView DEF v, Views
  <2> QED BY <1>2, <2>3 DEF RuntimeEvent
<1>3. CASE SyncRun
  <2> DEFINE a == sync.agent
             v == [view EXCEPT !.working = view.working \ {a}, !.listed = view.listed \ {a}]
             w == [view EXCEPT !.working = view.working \cup {a}]
  <2>1. v \in Views /\ w \in Views /\ v.streaming = view.streaming /\ w.streaming = view.streaming
    BY <1>3 DEF Views, SyncRun
  <2>2. view' = view \/ view' = Rendered(v) \/ view' = Rendered(w)
    BY <1>3 DEF SyncRun, Unfollow, Follow
  <2> HIDE DEF v, w
  <2>3. view'.streaming = view.streaming
    BY <2>1, <2>2, RenderedView
  <2> QED BY <1>3, <2>3 DEF SyncRun
<1>4. ASSUME NEW l \in lists, ListArrives(l)
       PROVE  StreamingIsSending'
  <2> DEFINE v == [view EXCEPT !.listed = l]
  <2>1. v \in Views /\ v.streaming = view.streaming
    BY DEF Views
  <2>2. view' = Rendered(v)
    BY <1>4 DEF ListArrives
  <2> HIDE DEF v
  <2>3. view'.streaming = view.streaming
    BY <2>1, <2>2, RenderedView
  <2> QED BY <1>4, <2>3 DEF ListArrives
<1>5. ASSUME NEW f \in fetches, HistoryLoaded(f)
       PROVE  StreamingIsSending'
  <2>1. view'.streaming = view.streaming
    BY <1>5 DEF HistoryLoaded, Views
  <2> QED BY <1>5, <2>1 DEF HistoryLoaded
<1>6. ASSUME NEW f \in fetches, HistoryMerged(f)
       PROVE  StreamingIsSending'
  <2>1. view'.streaming = view.streaming
    BY <1>6 DEF HistoryMerged, Views
  <2> QED BY <1>6, <2>1 DEF HistoryMerged
<1>7. ASSUME NEW a \in PageAgents, SelectAgent(a)
       PROVE  StreamingIsSending'
  <2> DEFINE v == [view EXCEPT !.agent = a]
  <2>1. v \in Views /\ v.streaming = view.streaming
    BY DEF Views
  <2>2. view' = Rendered(v)
    BY <1>7 DEF SelectAgent
  <2> HIDE DEF v
  <2>3. view'.streaming = view.streaming
    BY <2>1, <2>2, RenderedView
  <2> QED BY <1>7, <2>3 DEF SelectAgent
<1>8. ASSUME NEW a \in PageAgents, StopReturns(a)
       PROVE  StreamingIsSending'
  <2>1. view'.streaming = view.streaming
    BY <1>8 DEF StopReturns, Views
  <2> QED BY <1>8, <2>1 DEF StopReturns
<1>9. ASSUME NEW p \in 1..MaxPosts, Send(p)
       PROVE  StreamingIsSending'
  <2> DEFINE direct == ~ AgentWorks(view, view.agent)
  <2>1. posts' = [posts EXCEPT ![p] = [NoPost EXCEPT !.pc = "sent", !.agent = view.agent, !.direct = direct]]
    BY <1>9 DEF Send
  <2>2. posts'[p].pc = "sent" /\ posts'[p].direct = direct /\ \A q \in 1..MaxPosts \ {p} : posts'[q] = posts[q]
    BY <2>1 DEF NoPost
  <2>3. posts[p].pc = "none" /\ (~ direct => view' = view)
    BY <1>9 DEF Send
  <2> HIDE DEF direct
  <2> QED BY <2>2, <2>3
<1>10. ASSUME NEW p \in 1..MaxPosts, TakeMessage(p)
       PROVE  StreamingIsSending'
  <2>1. posts'[p].pc \in {"closed", "open"} /\ posts'[p].direct = posts[p].direct
    <3>1. CASE posts' = [posts EXCEPT ![p].pc = "closed"]
      BY <3>1 DEF Posts
    <3>2. ASSUME NEW r \in RunIDs, posts' = [posts EXCEPT ![p].pc = "open", ![p].run = r]
          PROVE  posts'[p].pc = "open" /\ posts'[p].direct = posts[p].direct
      BY <3>2 DEF Posts
    <3> QED BY <1>10, <3>1, <3>2 DEF TakeMessage
  <2>2. \A q \in 1..MaxPosts \ {p} : posts'[q] = posts[q]
    BY <1>10 DEF TakeMessage
  <2>3. view' = view /\ posts[p].pc = "sent"
    BY <1>10 DEF TakeMessage
  <2> QED BY <2>1, <2>2, <2>3
<1>11. ASSUME NEW p \in 1..MaxPosts, PostStreamEnds(p)
       PROVE  StreamingIsSending'
  <2>1. posts'[p].pc = "closed" /\ posts'[p].direct = posts[p].direct /\ \A q \in 1..MaxPosts \ {p} : posts'[q] = posts[q]
    BY <1>11 DEF PostStreamEnds, Posts
  <2> QED BY <1>11, <2>1 DEF PostStreamEnds
<1>12. ASSUME NEW p \in 1..MaxPosts, PostReturns(p)
       PROVE  StreamingIsSending'
  <2>1. \A q \in 1..MaxPosts \ {p} : posts'[q] = posts[q]
    BY <1>12 DEF PostReturns
  <2>2. CASE posts[p].direct
    <3>1. view' = [view EXCEPT !.streaming = FALSE, !.working = view.working \ {posts[p].agent}]
      BY <1>12, <2>2 DEF PostReturns
    <3> QED BY <3>1 DEF Views
  <2>3. CASE ~ posts[p].direct
    BY <1>12, <2>1, <2>3 DEF PostReturns
  <2> QED BY <2>2, <2>3
<1>13. CASE Stop
  <2>1. view'.streaming = view.streaming
    BY <1>13 DEF Stop, Views
  <2> QED BY <1>13, <2>1 DEF Stop
<1>14. CASE
       \/ (\E r \in RunIDs : BeginRun(r))
       \/ (\E r \in RunIDs : FinishRun(r))
       \/ (\E r \in RunIDs : SourceTimer(r))
       \/ RuntimeBreaks
       \/ RuntimeReconnects
       \/ SourceEnds
       \/ Poll
       \/ RefreshTimer
       \/ LoadEarlier
       \/ EarlierLoaded
       \/ (\E p \in 1..MaxPosts : StreamEvent(p))
  BY <1>14 DEF BeginRun, Began, Broadcast, FinishRun, SourceTimer, RuntimeBreaks, RuntimeReconnects, SourceEnds, Poll, RefreshTimer, MayRefresh, Fetch, LoadEarlier, EarlierLoaded, StreamEvent
<1> QED BY <1>1, <1>2, <1>3, <1>4, <1>5, <1>6, <1>7, <1>8, <1>9, <1>10, <1>11, <1>12, <1>13, <1>14 DEF PageNext

(* The page shows who works, or will be told or find out.                   *)
LEMMA WorkShown ==
  ASSUME PageInv, PageNext
  PROVE  ShowsWhoWorks'
<1> USE DEF PageInv
<1>1. ASSUME NEW r \in RunIDs, BeginRun(r)
       PROVE  ShowsWhoWorks'
  BY <1>1, BroadcastTells DEF BeginRun, ShowsWhoWorks
<1>2. ASSUME NEW r \in RunIDs, FinishRun(r)
       PROVE  ShowsWhoWorks'
  BY <1>2, BroadcastTells DEF FinishRun, ShowsWhoWorks
<1>3. ASSUME NEW r \in RunIDs, SourceTimer(r)
       PROVE  ShowsWhoWorks'
  <2>1. WillBeProbed => WillBeProbed'
    BY <1>3, Requested DEF SourceTimer, WillBeProbed, ProbeIsRight, ProbedWell
  <2> QED BY <1>3, <2>1 DEF SourceTimer, ShowsWhoWorks, WillBeTold, Sending, AsksForAgents, Loads, Working
<1>4. CASE Connected
  <2>1. CASE view.streaming
    <3>1. Sending'
      BY <1>4, <2>1 DEF Connected, StreamingIsSending, Sending
    <3> QED BY <3>1 DEF ShowsWhoWorks
  <2>2. CASE ~ view.streaming
    <3>1. WillBeProbed'
      BY <1>4, <2>2, Requested, ToldView DEF Connected, Told, WillBeProbed, ProbeIsRight
    <3> QED BY <3>1 DEF ShowsWhoWorks
  <2> QED BY <2>1, <2>2
<1>5. CASE RuntimeEvent
  <2>1. CASE view.streaming
    <3>1. Sending'
      BY <1>5, <2>1 DEF RuntimeEvent, StreamingIsSending, Sending
    <3> QED BY <3>1 DEF ShowsWhoWorks
  <2>2. CASE ~ view.streaming
    <3>1. WillBeProbed'
      BY <1>5, <2>2, Requested, ToldView DEF RuntimeEvent, Told, WillBeProbed, ProbeIsRight
    <3> QED BY <3>1 DEF ShowsWhoWorks
  <2> QED BY <2>1, <2>2
<1>6. CASE RuntimeBreaks
  BY <1>6 DEF RuntimeBreaks, WillBeTold, ShowsWhoWorks
<1>7. CASE RuntimeReconnects
  BY <1>7 DEF RuntimeReconnects, WillBeTold, ShowsWhoWorks
<1>8. CASE SyncRun
  <2>1. view'.agent = view.agent /\ (WillBeTold => WillBeTold') /\ (Sending => Sending') /\ (AsksForAgents => AsksForAgents')
        /\ (Loads(view.agent) => Loads(view.agent)') /\ Working' = Working
    BY <1>8, SyncedView DEF SyncRun, WillBeTold, Sending, AsksForAgents, Loads, Working
  <2>2. CASE sync.again /\ view.streaming
    BY <2>1, <2>2 DEF StreamingIsSending, Sending, ShowsWhoWorks
  <2>3. CASE sync.again /\ ~ view.streaming
    <3>1. WillBeProbed'
      BY <1>8, <2>1, <2>3, ProbedNext DEF SyncRun, WillBeProbed, ProbeIsRight
    <3> QED BY <3>1 DEF ShowsWhoWorks
  <2>4. CASE ~ sync.again /\ ~ WillBeTold
    <3>1. sync.run = server.active[sync.agent]
      BY <1>8, <2>4 DEF OldProbesAreRepeated, ProbeIsRight, SyncRun
    <3>2. CASE sync.agent = view.agent
      <4>1. AgentWorks(view', view.agent) <=> view.agent \in Working
        BY <1>8, <3>1, <3>2, SyncedView DEF Working, PageTypes, Views
      <4> QED BY <2>1, <4>1 DEF ShowsWhoWorks
    <3>3. CASE sync.agent # view.agent
      <4>1. view' = view
        BY <1>8, <3>3, SyncedView
      <4> QED BY <2>1, <2>4, <3>3, <4>1 DEF ShowsWhoWorks, WillBeProbed
    <3> QED BY <3>2, <3>3
  <2>5. CASE WillBeTold
    BY <2>1, <2>5 DEF ShowsWhoWorks
  <2> QED BY <2>2, <2>3, <2>4, <2>5 DEF PageTypes, Probes
<1>9. CASE Poll
  BY <1>9 DEF Poll, ShowsWhoWorks, AsksForAgents
<1>10. ASSUME NEW l \in lists, ListArrives(l)
       PROVE  ShowsWhoWorks'
  <2>1. CASE view.streaming
    <3>1. Sending'
      BY <1>10, <2>1 DEF ListArrives, StreamingIsSending, Sending
    <3> QED BY <3>1 DEF ShowsWhoWorks
  <2>2. CASE ~ view.streaming
    <3>1. view'.agent = view.agent
      BY <1>10, ListedView DEF ListArrives
    <3>2. WillBeProbed'
      BY <1>10, <2>2, <3>1, Requested DEF ListArrives, WillBeProbed, ProbeIsRight
    <3> QED BY <3>2 DEF ShowsWhoWorks
  <2> QED BY <2>1, <2>2
<1>11. CASE RefreshTimer
  <2>1. fetches \subseteq fetches'
    BY <1>11 DEF RefreshTimer
  <2> QED BY <1>11, <2>1 DEF RefreshTimer, ShowsWhoWorks, WillBeTold, Sending, AsksForAgents, Loads, Working, WillBeProbed, ProbeIsRight
<1>12. ASSUME NEW f \in fetches, HistoryLoaded(f)
       PROVE  ShowsWhoWorks'
  <2>1. CASE f.agent # view.agent
    <3>1. view' = view /\ sync' = sync /\ (AsksForAgents => AsksForAgents') /\ (Loads(view.agent) => Loads(view.agent)')
      BY <1>12, <2>1 DEF HistoryLoaded, AsksForAgents, Loads
    <3> QED BY <1>12, <3>1 DEF HistoryLoaded, ShowsWhoWorks, WillBeTold, Sending, Working, WillBeProbed, ProbeIsRight
  <2>2. CASE f.agent = view.agent /\ view.streaming
    <3>1. Sending'
      BY <1>12, <2>2 DEF HistoryLoaded, StreamingIsSending, Sending
    <3> QED BY <3>1 DEF ShowsWhoWorks
  <2>3. CASE f.agent = view.agent /\ ~ view.streaming
    <3>1. view'.agent = view.agent
      BY <1>12 DEF HistoryLoaded, Views, PageTypes
    <3>2. WillBeProbed'
      BY <1>12, <2>3, <3>1, Requested DEF HistoryLoaded, WillBeProbed, ProbeIsRight
    <3> QED BY <3>2 DEF ShowsWhoWorks
  <2> QED BY <2>1, <2>2, <2>3
<1>13. ASSUME NEW f \in fetches, HistoryMerged(f)
       PROVE  ShowsWhoWorks'
  <2>1. view'.agent = view.agent /\ view'.working = view.working /\ view'.listed = view.listed
    BY <1>13 DEF HistoryMerged, Views, PageTypes
  <2>2. (AsksForAgents => AsksForAgents') /\ (Loads(view.agent) => Loads(view.agent)')
    BY <1>13 DEF HistoryMerged, AsksForAgents, Loads
  <2> QED BY <1>13, <2>1, <2>2 DEF HistoryMerged, ShowsWhoWorks, WillBeTold, Sending, Working, WillBeProbed, ProbeIsRight, AgentWorks
<1>14. ASSUME NEW a \in PageAgents, SelectAgent(a)
       PROVE  ShowsWhoWorks'
  <2>1. Loads(a)'
    BY <1>14, FetchIsAFetch DEF SelectAgent, Loads, PageTypes
  <2> QED BY <1>14, <2>1, SelectedView DEF ShowsWhoWorks
<1>15. ASSUME NEW a \in PageAgents, StopReturns(a)
       PROVE  ShowsWhoWorks'
  BY <1>15 DEF StopReturns, ShowsWhoWorks, AsksForAgents
<1>16. ASSUME NEW p \in 1..MaxPosts, Send(p)
       PROVE  ShowsWhoWorks'
  BY <1>16, SendingGoesOn DEF ShowsWhoWorks
<1>17. ASSUME NEW p \in 1..MaxPosts, TakeMessage(p)
       PROVE  ShowsWhoWorks'
  BY <1>17, SendingGoesOn DEF ShowsWhoWorks
<1>18. ASSUME NEW p \in 1..MaxPosts, PostStreamEnds(p)
       PROVE  ShowsWhoWorks'
  BY <1>18, SendingGoesOn DEF ShowsWhoWorks
<1>19. ASSUME NEW p \in 1..MaxPosts, PostReturns(p)
       PROVE  ShowsWhoWorks'
  BY <1>19, ReturnAsks DEF ShowsWhoWorks
<1>20. CASE Stop
  <2>1. view'.agent = view.agent /\ view'.working = view.working /\ view'.listed = view.listed
    BY <1>20 DEF Stop, Views, PageTypes
  <2> QED BY <1>20, <2>1 DEF Stop, ShowsWhoWorks, WillBeTold, Sending, Working, WillBeProbed, ProbeIsRight, AgentWorks, AsksForAgents, Loads
<1>21. CASE
       \/ SourceEnds
       \/ LoadEarlier
       \/ EarlierLoaded
       \/ (\E p \in 1..MaxPosts : StreamEvent(p))
  BY <1>21 DEF SourceEnds, LoadEarlier, EarlierLoaded, StreamEvent, ShowsWhoWorks, WillBeTold, Sending, Working, WillBeProbed, ProbeIsRight, AgentWorks, AsksForAgents, Loads
<1> QED BY <1>1, <1>2, <1>3, <1>4, <1>5, <1>6, <1>7, <1>8, <1>9, <1>10, <1>11, <1>12, <1>13, <1>14, <1>15, <1>16, <1>17, <1>18, <1>19, <1>20, <1>21 DEF PageNext

(* Stopping is shown of an agent that works, or the agents are asked for.    *)
LEMMA StoppingKept ==
  ASSUME PageInv, PageNext
  PROVE  StoppingWorks'
<1> USE DEF PageInv, StoppingWorks
<1>1. CASE Connected
  BY <1>1, ToldView DEF Connected
<1>2. CASE RuntimeEvent
  BY <1>2, ToldView DEF RuntimeEvent
<1>3. CASE SyncRun
  <2>1. AsksForAgents => AsksForAgents'
    BY <1>3 DEF SyncRun, AsksForAgents
  <2> QED BY <1>3, <2>1, SyncedView
<1>4. CASE Poll
  BY <1>4 DEF Poll, AsksForAgents
<1>5. ASSUME NEW l \in lists, ListArrives(l)
       PROVE  StoppingWorks'
  BY <1>5, ListedView DEF ListArrives
<1>6. CASE RefreshTimer
  BY <1>6 DEF RefreshTimer, AsksForAgents, AgentWorks
<1>7. ASSUME NEW f \in fetches, HistoryLoaded(f)
       PROVE  StoppingWorks'
  <2>1. /\ view'.agent = view.agent /\ view'.working = view.working /\ view'.listed = view.listed
        /\ view'.stopping = view.stopping
    BY <1>7 DEF HistoryLoaded, Views, PageTypes
  <2> QED BY <1>7, <2>1 DEF HistoryLoaded, AsksForAgents, AgentWorks
<1>8. ASSUME NEW f \in fetches, HistoryMerged(f)
       PROVE  StoppingWorks'
  <2>1. /\ view'.agent = view.agent /\ view'.working = view.working /\ view'.listed = view.listed
        /\ view'.stopping = view.stopping
    BY <1>8 DEF HistoryMerged, Views, PageTypes
  <2> QED BY <1>8, <2>1 DEF HistoryMerged, AsksForAgents, AgentWorks
<1>9. ASSUME NEW a \in PageAgents, SelectAgent(a)
       PROVE  StoppingWorks'
  BY <1>9, SelectedView
<1>10. ASSUME NEW a \in PageAgents, StopReturns(a)
       PROVE  StoppingWorks'
  BY <1>10 DEF StopReturns, AsksForAgents
<1>11. ASSUME NEW p \in 1..MaxPosts, Send(p)
       PROVE  StoppingWorks'
  <2>1. /\ view'.agent = view.agent /\ view'.stopping = view.stopping
        /\ AgentWorks(view, view.agent) => AgentWorks(view', view.agent)
    BY <1>11, ZenonT(60) DEF Send, Views, PageTypes, AgentWorks
  <2> QED BY <1>11, <2>1 DEF Send, AsksForAgents
<1>12. ASSUME NEW p \in 1..MaxPosts, PostReturns(p)
       PROVE  StoppingWorks'
  BY <1>12, ReturnAsks
<1>13. CASE Stop
  <2>1. view'.agent = view.agent /\ view'.working = view.working /\ view'.listed = view.listed
    BY <1>13 DEF Stop, Views, PageTypes
  <2> QED BY <1>13, <2>1 DEF Stop, AgentWorks
<1>14. CASE
       \/ (\E r \in RunIDs : BeginRun(r))
       \/ (\E r \in RunIDs : FinishRun(r))
       \/ (\E r \in RunIDs : SourceTimer(r))
       \/ RuntimeBreaks
       \/ RuntimeReconnects
       \/ SourceEnds
       \/ LoadEarlier
       \/ EarlierLoaded
       \/ (\E p \in 1..MaxPosts : TakeMessage(p))
       \/ (\E p \in 1..MaxPosts : StreamEvent(p))
       \/ (\E p \in 1..MaxPosts : PostStreamEnds(p))
  BY <1>14 DEF BeginRun, Began, Broadcast, FinishRun, SourceTimer, RuntimeBreaks, RuntimeReconnects, SourceEnds, LoadEarlier, EarlierLoaded, TakeMessage, StreamEvent, PostStreamEnds, AsksForAgents, AgentWorks
<1> QED BY <1>1, <1>2, <1>3, <1>4, <1>5, <1>6, <1>7, <1>8, <1>9, <1>10, <1>11, <1>12, <1>13, <1>14 DEF PageNext

(* Histories grow, and what is shown or asked for is of some time before.    *)
LEMMA HistoriesKept ==
  ASSUME PageInv, PageNext
  PROVE  HistoriesGrow'
<1> USE DEF PageInv, HistoriesGrow
<1>1. ASSUME NEW r \in RunIDs, BeginRun(r)
       PROVE  HistoriesGrow'
  <2>1. server'.said = server.said
    BY <1>1 DEF BeginRun, Began, PageTypes, Servers
  <2> QED BY <1>1, <2>1 DEF BeginRun
<1>2. ASSUME NEW r \in RunIDs, FinishRun(r)
       PROVE  HistoriesGrow'
  <2>1. SaidGrows
    BY <1>2, FinishedSays
  <2> QED BY <1>2, <2>1, GrowthIsFine DEF FinishRun
<1>3. CASE Connected
  BY <1>3, ToldView DEF Connected
<1>4. CASE RuntimeEvent
  BY <1>4, ToldView DEF RuntimeEvent
<1>5. CASE SyncRun
  BY <1>5, SyncedView DEF SyncRun
<1>6. ASSUME NEW l \in lists, ListArrives(l)
       PROVE  HistoriesGrow'
  BY <1>6, ListedView DEF ListArrives
<1>7. CASE RefreshTimer
  <2>1. view.agent \in PageAgents
    BY DEF PageTypes, Views
  <2>2. \A f \in fetches' : f \in fetches \/ f = Fetch("refresh", view.agent)
    BY <1>7 DEF RefreshTimer
  <2> QED BY <1>7, <2>1, <2>2, FreshFetches DEF RefreshTimer
<1>8. ASSUME NEW f \in fetches, HistoryLoaded(f)
       PROVE  HistoriesGrow'
  <2>1. CASE view' = view
    BY <1>8, <2>1 DEF HistoryLoaded
  <2>2. CASE view' = [view EXCEPT !.shown = [a \in PageAgents |-> IF a = f.agent THEN f.n ELSE 0]]
    <3>1. f \in Fetches /\ view \in Views
      BY DEF PageTypes
    <3>2. view'.shown[f.agent] = f.n /\ \A b \in PageAgents \ {f.agent} : view'.shown[b] = 0
      BY ONLY <2>2, <3>1, HistoryIsShown
    <3>3. \A b \in PageAgents : server.said[b] \in Nat
      BY DEF PageTypes, Servers
    <3> QED BY <1>8, <3>2, <3>3 DEF HistoryLoaded
  <2> QED BY <1>8, <2>1, <2>2 DEF HistoryLoaded
<1>9. ASSUME NEW f \in fetches, HistoryMerged(f)
       PROVE  HistoriesGrow'
  <2>1. f \in Fetches /\ f.agent \in PageAgents /\ f.n \in Nat
    BY DEF Fetches, PageTypes
  <2>2. CASE view' = view
    BY <1>9, <2>2 DEF HistoryMerged
  <2>3. CASE view' = [view EXCEPT !.shown[f.agent] = f.n]
    <3>1. view'.shown[f.agent] = f.n /\ \A b \in PageAgents \ {f.agent} : view'.shown[b] = view.shown[b]
      BY <2>1, <2>3, OneIsShown DEF PageTypes
    <3> QED BY <1>9, <3>1 DEF HistoryMerged
  <2> QED BY <1>9, <2>2, <2>3 DEF HistoryMerged
<1>10. ASSUME NEW a \in PageAgents, SelectAgent(a)
       PROVE  HistoriesGrow'
  <2>1. \A f \in fetches' : f \in fetches \/ f = Fetch("load", a)
    BY <1>10 DEF SelectAgent
  <2> QED BY <1>10, <2>1, FreshFetches, SelectedView DEF SelectAgent
<1>11. ASSUME NEW a \in PageAgents, StopReturns(a)
       PROVE  HistoriesGrow'
  <2>1. view'.shown = view.shown
    BY <1>11 DEF StopReturns, PageTypes, Views
  <2> QED BY <1>11, <2>1 DEF StopReturns
<1>12. ASSUME NEW p \in 1..MaxPosts, Send(p)
       PROVE  HistoriesGrow'
  <2>1. view'.shown = view.shown
    BY <1>12 DEF Send, PageTypes, Views
  <2> QED BY <1>12, <2>1 DEF Send
<1>13. ASSUME NEW p \in 1..MaxPosts, TakeMessage(p)
       PROVE  HistoriesGrow'
  <2>1. SaidGrows
    BY <1>13, TakenSays
  <2> QED BY <1>13, <2>1, GrowthIsFine DEF TakeMessage
<1>14. ASSUME NEW p \in 1..MaxPosts, PostReturns(p)
       PROVE  HistoriesGrow'
  <2>1. view.agent \in PageAgents
    BY DEF PageTypes, Views
  <2>2. \A f \in fetches' : f \in fetches \/ f = Fetch("post", view.agent)
    BY <1>14, ReturnAsks
  <2> QED BY <1>14, <2>1, <2>2, FreshFetches, ReturnAsks DEF PostReturns
<1>15. CASE Stop
  <2>1. view'.shown = view.shown
    BY <1>15 DEF Stop, PageTypes, Views
  <2> QED BY <1>15, <2>1 DEF Stop
<1>16. CASE
       \/ (\E r \in RunIDs : SourceTimer(r))
       \/ RuntimeBreaks
       \/ RuntimeReconnects
       \/ SourceEnds
       \/ Poll
       \/ LoadEarlier
       \/ EarlierLoaded
       \/ (\E p \in 1..MaxPosts : StreamEvent(p))
       \/ (\E p \in 1..MaxPosts : PostStreamEnds(p))
  BY <1>16 DEF SourceTimer, RuntimeBreaks, RuntimeReconnects, SourceEnds, Poll, LoadEarlier, EarlierLoaded, StreamEvent, PostStreamEnds
<1> QED BY <1>1, <1>2, <1>3, <1>4, <1>5, <1>6, <1>7, <1>8, <1>9, <1>10, <1>11, <1>12, <1>13, <1>14, <1>15, <1>16 DEF PageNext

(* The page shows the history of no other agent, or loads the right one.    *)
LEMMA OneIsShownKept ==
  ASSUME PageInv, PageNext
  PROVE  ShowsOneHistory'
<1> USE DEF PageInv, ShowsOneHistory
<1>1. CASE Connected
  BY <1>1, ToldView DEF Connected, Loads
<1>2. CASE RuntimeEvent
  BY <1>2, ToldView DEF RuntimeEvent, Loads
<1>3. CASE SyncRun
  BY <1>3, SyncedView DEF SyncRun, Loads
<1>4. ASSUME NEW l \in lists, ListArrives(l)
       PROVE  ShowsOneHistory'
  BY <1>4, ListedView DEF ListArrives, Loads
<1>5. CASE RefreshTimer
  BY <1>5 DEF RefreshTimer, Loads
<1>6. ASSUME NEW f \in fetches, HistoryLoaded(f)
       PROVE  ShowsOneHistory'
  <2>1. CASE f.agent # view.agent
    BY <1>6, <2>1 DEF HistoryLoaded, Loads
  <2>2. CASE f.agent = view.agent
    <3>1. f \in Fetches /\ view \in Views
      BY DEF PageTypes
    <3>2. view' = [view EXCEPT !.shown = [a \in PageAgents |-> IF a = f.agent THEN f.n ELSE 0]]
      BY <1>6, <2>2 DEF HistoryLoaded
    <3>3. view'.agent = view.agent /\ \A b \in PageAgents \ {f.agent} : view'.shown[b] = 0
      BY ONLY <3>1, <3>2, HistoryIsShown
    <3> QED BY <2>2, <3>3
  <2> QED BY <2>1, <2>2
<1>7. ASSUME NEW f \in fetches, HistoryMerged(f)
       PROVE  ShowsOneHistory'
  <2>1. f \in Fetches /\ f.agent \in PageAgents /\ f.n \in Nat
    BY DEF Fetches, PageTypes
  <2>2. Loads(view.agent) => Loads(view.agent)'
    BY <1>7 DEF HistoryMerged, Loads
  <2>3. CASE view' = view
    BY <2>2, <2>3
  <2>4. CASE f.agent = view.agent /\ view' = [view EXCEPT !.shown[f.agent] = f.n]
    <3>1. view'.agent = view.agent /\ \A b \in PageAgents \ {f.agent} : view'.shown[b] = view.shown[b]
      BY <2>1, <2>4, OneIsShown DEF PageTypes
    <3> QED BY <2>2, <2>4, <3>1
  <2> QED BY <1>7, <2>3, <2>4 DEF HistoryMerged
<1>8. ASSUME NEW a \in PageAgents, SelectAgent(a)
       PROVE  ShowsOneHistory'
  <2>1. Loads(a)'
    BY <1>8, FetchIsAFetch DEF SelectAgent, Loads, PageTypes
  <2> QED BY <1>8, <2>1, SelectedView
<1>9. ASSUME NEW a \in PageAgents, StopReturns(a)
       PROVE  ShowsOneHistory'
  <2>1. view'.shown = view.shown /\ view'.agent = view.agent
    BY <1>9 DEF StopReturns, PageTypes, Views
  <2> QED BY <1>9, <2>1 DEF StopReturns, Loads
<1>10. ASSUME NEW p \in 1..MaxPosts, Send(p)
       PROVE  ShowsOneHistory'
  <2>1. view'.shown = view.shown /\ view'.agent = view.agent
    BY <1>10, ZenonT(60) DEF Send, PageTypes, Views
  <2> QED BY <1>10, <2>1 DEF Send, Loads
<1>11. ASSUME NEW p \in 1..MaxPosts, PostReturns(p)
       PROVE  ShowsOneHistory'
  <2>1. fetches \subseteq fetches'
    BY <1>11, ReturnAsks
  <2> QED BY <1>11, <2>1, ReturnAsks DEF Loads
<1>12. CASE Stop
  <2>1. view'.shown = view.shown /\ view'.agent = view.agent
    BY <1>12 DEF Stop, PageTypes, Views
  <2> QED BY <1>12, <2>1 DEF Stop, Loads
<1>13. CASE
       \/ (\E r \in RunIDs : BeginRun(r))
       \/ (\E r \in RunIDs : FinishRun(r))
       \/ (\E r \in RunIDs : SourceTimer(r))
       \/ RuntimeBreaks
       \/ RuntimeReconnects
       \/ SourceEnds
       \/ Poll
       \/ LoadEarlier
       \/ EarlierLoaded
       \/ (\E p \in 1..MaxPosts : TakeMessage(p))
       \/ (\E p \in 1..MaxPosts : StreamEvent(p))
       \/ (\E p \in 1..MaxPosts : PostStreamEnds(p))
  BY <1>13 DEF BeginRun, Began, Broadcast, FinishRun, SourceTimer, RuntimeBreaks, RuntimeReconnects, SourceEnds, Poll, LoadEarlier, EarlierLoaded, TakeMessage, StreamEvent, PostStreamEnds, Loads
<1> QED BY <1>1, <1>2, <1>3, <1>4, <1>5, <1>6, <1>7, <1>8, <1>9, <1>10, <1>11, <1>12, <1>13 DEF PageNext

(* What the page shows of its agent is the last, or will be asked for.       *)
LEMMA LastIsShown ==
  ASSUME PageInv, PageNext
  PROVE  ShowsTheLast'
<1> USE DEF PageInv
<1>1. ASSUME NEW r \in RunIDs, BeginRun(r)
       PROVE  ShowsTheLast'
  BY <1>1, BroadcastTells DEF BeginRun, ShowsTheLast
<1>2. ASSUME NEW r \in RunIDs, FinishRun(r)
       PROVE  ShowsTheLast'
  BY <1>2, BroadcastTells DEF FinishRun, ShowsTheLast
<1>3. CASE Connected
  BY <1>3 DEF Connected, Told, ShowsTheLast
<1>4. CASE RuntimeEvent
  BY <1>4 DEF RuntimeEvent, Told, ShowsTheLast
<1>5. CASE RuntimeBreaks
  BY <1>5 DEF RuntimeBreaks, WillBeTold, ShowsTheLast
<1>6. CASE RuntimeReconnects
  BY <1>6 DEF RuntimeReconnects, WillBeTold, ShowsTheLast
<1>7. CASE SyncRun
  BY <1>7, SyncedView DEF SyncRun, ShowsTheLast, WillBeTold, Sending
<1>8. ASSUME NEW l \in lists, ListArrives(l)
       PROVE  ShowsTheLast'
  BY <1>8, ListedView DEF ListArrives, ShowsTheLast, WillBeTold, Sending
<1>9. CASE RefreshTimer
  <2>1. CASE history
    BY <1>9, <2>1 DEF RefreshTimer, ShowsTheLast
  <2>2. CASE view.streaming
    <3>1. Sending'
      BY <1>9, <2>2 DEF RefreshTimer, StreamingIsSending, Sending
    <3> QED BY <3>1 DEF ShowsTheLast
  <2>3. CASE ~ history /\ ~ view.streaming
    <3>1. view.agent \in PageAgents /\ Fetch("refresh", view.agent) \in fetches' /\ view' = view /\ server' = server
      BY <1>9, <2>3 DEF RefreshTimer, MayRefresh, PageTypes, Views
    <3>2. Fetch("refresh", view.agent).agent = view.agent /\ Fetch("refresh", view.agent).n = server.said[view.agent]
      BY <3>1, FetchIsAFetch DEF PageTypes
    <3> QED BY <3>1, <3>2 DEF ShowsTheLast
  <2> QED BY <2>1, <2>2, <2>3
<1>10. ASSUME NEW f \in fetches, HistoryLoaded(f)
       PROVE  ShowsTheLast'
  <2>1. f \in Fetches /\ view \in Views /\ f.n \in Nat /\ server.said[f.agent] \in Nat /\ view.shown[f.agent] \in Nat
        /\ f.n <= server.said[f.agent]
    BY DEF PageTypes, Fetches, Servers, Views, HistoriesGrow
  <2>2. CASE f.agent # view.agent
    BY <1>10, <2>2 DEF HistoryLoaded, ShowsTheLast, WillBeTold, Sending
  <2>3. CASE f.agent = view.agent
    <3>1. view' = [view EXCEPT !.shown = [a \in PageAgents |-> IF a = f.agent THEN f.n ELSE 0]]
      BY <1>10, <2>3 DEF HistoryLoaded
    <3>2. view'.agent = view.agent /\ view'.shown[f.agent] = f.n
      BY ONLY <2>1, <3>1, HistoryIsShown
    <3>3. /\ server' = server /\ (WillBeTold => WillBeTold') /\ (Sending => Sending') /\ refresh' = refresh
          /\ (overtaken \/ f.n < view.shown[f.agent] => overtaken') /\ fetches' = fetches \ {f}
      BY <1>10, <2>3 DEF HistoryLoaded, WillBeTold, Sending
    <3>4. CASE f.n = server.said[f.agent]
      BY <2>3, <3>2, <3>3, <3>4 DEF ShowsTheLast
    <3>5. CASE f.n # server.said[f.agent]
      BY <2>1, <2>3, <3>2, <3>3, <3>5 DEF ShowsTheLast
    <3> QED BY <3>4, <3>5
  <2> QED BY <2>2, <2>3
<1>11. ASSUME NEW f \in fetches, HistoryMerged(f)
       PROVE  ShowsTheLast'
  <2>1. f \in Fetches /\ view \in Views /\ f.n \in Nat /\ f.agent \in PageAgents
        /\ f.n <= server.said[f.agent] /\ view.shown[f.agent] <= server.said[f.agent]
    BY DEF PageTypes, Fetches, Servers, Views, HistoriesGrow
  <2>2. /\ server' = server /\ (WillBeTold => WillBeTold') /\ (Sending => Sending') /\ refresh' = refresh
        /\ (overtaken \/ history => overtaken') /\ fetches' = fetches \ {f}
    BY <1>11 DEF HistoryMerged, WillBeTold, Sending
  <2>3. CASE view.streaming
    BY <2>2, <2>3 DEF StreamingIsSending, Sending, ShowsTheLast
  <2>4. CASE history
    BY <2>2, <2>4 DEF ShowsTheLast
  <2>5. CASE f.agent # view.agent
    <3>1. view' = view
      BY <1>11, <2>5 DEF HistoryMerged
    <3> QED BY <2>2, <2>5, <3>1 DEF ShowsTheLast
  <2>6. CASE f.agent = view.agent /\ ~ view.streaming /\ ~ history
    <3>1. CASE f.n > view.shown[f.agent]
      <4>1. view' = [view EXCEPT !.shown[f.agent] = f.n]
        BY <1>11, <2>6, <3>1 DEF HistoryMerged, MayRefresh
      <4>2. view'.agent = view.agent /\ view'.shown[f.agent] = f.n
        BY <2>1, <4>1, OneIsShown
      <4>3. view.shown[f.agent] # server.said[f.agent]
        BY <2>1, <3>1 DEF Views, PageTypes, Servers
      <4> QED BY <2>2, <2>6, <4>2, <4>3 DEF ShowsTheLast
    <3>2. CASE ~ (f.n > view.shown[f.agent])
      <4>1. view' = view
        BY <1>11, <3>2 DEF HistoryMerged
      <4>2. f.n = server.said[f.agent] => view.shown[f.agent] = server.said[f.agent]
        BY <2>1, <3>2 DEF Views, PageTypes, Servers
      <4> QED BY <2>2, <2>6, <4>1, <4>2 DEF ShowsTheLast
    <3> QED BY <3>1, <3>2
  <2> QED BY <2>3, <2>4, <2>5, <2>6
<1>12. ASSUME NEW a \in PageAgents, SelectAgent(a)
       PROVE  ShowsTheLast'
  <2>1. view'.agent = a /\ server' = server /\ Fetch("load", a) \in fetches'
    BY <1>12, SelectedView DEF SelectAgent
  <2>2. Fetch("load", a).agent = a /\ Fetch("load", a).n = server.said[a]
    BY FetchIsAFetch DEF PageTypes
  <2> QED BY <2>1, <2>2 DEF ShowsTheLast
<1>13. ASSUME NEW a \in PageAgents, StopReturns(a)
       PROVE  ShowsTheLast'
  <2>1. view'.shown = view.shown /\ view'.agent = view.agent
    BY <1>13 DEF StopReturns, PageTypes, Views
  <2> QED BY <1>13, <2>1 DEF StopReturns, ShowsTheLast, WillBeTold, Sending
<1>14. ASSUME NEW p \in 1..MaxPosts, Send(p)
       PROVE  ShowsTheLast'
  BY <1>14, SendingGoesOn DEF ShowsTheLast
<1>15. ASSUME NEW p \in 1..MaxPosts, TakeMessage(p)
       PROVE  ShowsTheLast'
  BY <1>15, SendingGoesOn DEF ShowsTheLast
<1>16. ASSUME NEW p \in 1..MaxPosts, PostStreamEnds(p)
       PROVE  ShowsTheLast'
  BY <1>16, SendingGoesOn DEF ShowsTheLast
<1>17. ASSUME NEW p \in 1..MaxPosts, PostReturns(p)
       PROVE  ShowsTheLast'
  <2>1. view'.agent = view.agent /\ view.agent \in PageAgents /\ server' = server
    BY <1>17, ReturnAsks DEF PostReturns, PageTypes, Views
  <2>2. CASE fetches' = fetches \cup {Fetch("post", view.agent)}
    <3>1. Fetch("post", view.agent).agent = view.agent /\ Fetch("post", view.agent).n = server.said[view.agent]
      BY <2>1, FetchIsAFetch DEF PageTypes
    <3> QED BY <2>1, <2>2, <3>1 DEF ShowsTheLast
  <2>3. CASE history
    BY <1>17, <2>3 DEF PostReturns, ShowsTheLast
  <2>4. CASE view'.streaming
    <3>1. PICK q \in 1..MaxPosts : posts[q].pc \in {"sent", "open", "closed"} /\ posts[q].direct
      BY <1>17, <2>4, ReturnAsks DEF StreamingIsSending
    <3>2. posts'[q] = posts[q]
      <4>1. q # p
        BY <1>17, <2>4, <3>1, ReturnAsks
      <4>2. posts' = [posts EXCEPT ![p] = [NoPost EXCEPT !.pc = "done"]] /\ posts \in [1..MaxPosts -> Posts]
        BY <1>17 DEF PostReturns, PageTypes
      <4> QED BY <4>1, <4>2
    <3> QED BY <3>1, <3>2 DEF ShowsTheLast, Sending
  <2> QED BY <1>17, <2>2, <2>3, <2>4, ReturnAsks
<1>18. CASE Stop
  <2>1. view'.shown = view.shown /\ view'.agent = view.agent
    BY <1>18 DEF Stop, PageTypes, Views
  <2> QED BY <1>18, <2>1 DEF Stop, ShowsTheLast, WillBeTold, Sending
<1>19. CASE
       \/ (\E r \in RunIDs : SourceTimer(r))
       \/ SourceEnds
       \/ Poll
       \/ LoadEarlier
       \/ EarlierLoaded
       \/ (\E p \in 1..MaxPosts : StreamEvent(p))
  BY <1>19 DEF SourceTimer, SourceEnds, Poll, LoadEarlier, EarlierLoaded, StreamEvent, ShowsTheLast, WillBeTold, Sending
<1> QED BY <1>1, <1>2, <1>3, <1>4, <1>5, <1>6, <1>7, <1>8, <1>9, <1>10, <1>11, <1>12, <1>13, <1>14, <1>15, <1>16, <1>17, <1>18, <1>19 DEF PageNext

-----------------------------------------------------------------------------
LEMMA PageInvInit == PageInit => PageInv
<1> SUFFICES ASSUME PageInit PROVE PageInv
  OBVIOUS
<1>1. (CHOOSE a \in PageAgents : TRUE) \in PageAgents
  OBVIOUS
<1>2. PageTypes
  BY <1>1 DEF PageInit, PageTypes, Servers, Runtimes, Views, Followed, Probes, Fetches, Posts, RunOrNobody, Idle, NoPost
<1>3. RunsAreTheirAgents /\ PageFollowsItsAgent /\ OldProbesAreRepeated
  BY DEF PageInit, RunsAreTheirAgents, PageFollowsItsAgent, OldProbesAreRepeated, Idle
<1>4. WillBeTold
  BY DEF PageInit, WillBeTold
<1>5. StreamingIsSending /\ StoppingWorks /\ HistoriesGrow /\ ShowsOneHistory
  <2>1. /\ view.streaming = FALSE /\ view.stopping = {} /\ fetches = {}
        /\ \A a \in PageAgents : view.shown[a] = 0 /\ server.said[a] = 0
    BY DEF PageInit
  <2> QED BY <1>2, <2>1 DEF StreamingIsSending, StoppingWorks, HistoriesGrow, ShowsOneHistory, PageTypes, Views
<1> QED BY <1>2, <1>3, <1>4, <1>5 DEF PageInv, ShowsWhoWorks, ShowsTheLast

LEMMA PageInvStep ==
  ASSUME PageInv, [PageNext]_pageVars
  PROVE  PageInv'
<1>1. CASE PageNext
  <2> USE <1>1 DEF PageInv
  <2>1. ServersRight' /\ ProbesRight' /\ (view \in Views)' /\ FollowsRightly' /\ RestRight'
    BY ServersKept, ProbesKept, ViewKept, FollowKept, RestKept
  <2>2. PageTypes' /\ RunsAreTheirAgents' /\ PageFollowsItsAgent' /\ OldProbesAreRepeated'
    BY <2>1 DEF PageTypes, RunsAreTheirAgents, OldProbesAreRepeated, ServersRight, ProbesRight, FollowsRightly, RestRight
  <2>3. ShowsWhoWorks' /\ StreamingIsSending' /\ StoppingWorks'
    BY WorkShown, StreamingKept, StoppingKept
  <2>4. HistoriesGrow' /\ ShowsOneHistory' /\ ShowsTheLast'
    BY HistoriesKept, OneIsShownKept, LastIsShown
  <2> QED BY <2>2, <2>3, <2>4
<1>2. CASE UNCHANGED pageVars
  BY <1>2 DEF pageVars, PageInv, PageTypes, RunsAreTheirAgents, PageFollowsItsAgent, OldProbesAreRepeated, ShowsWhoWorks,
              StreamingIsSending, StoppingWorks, HistoriesGrow, ShowsOneHistory, ShowsTheLast, WillBeTold, Sending,
              AsksForAgents, Loads, ProbeIsRight, WillBeProbed, Working
<1> QED BY <1>1, <1>2

(* The invariant of the page (cmd/karoz/static/js): whatever it shows is    *)
(* right, or something is under way that will put it right.                 *)
THEOREM PageKeepsItsInvariant == PageSpec => []PageInv
BY PageInvInit, PageInvStep, PTL DEF PageSpec

(* The run the page listens to is a run of the agent it shows, for any      *)
(* number of agents, runs and messages (syncActiveRunEvents, selectAgent).  *)
THEOREM PageAlwaysFollowsItsAgent == PageSpec => []PageFollowsItsAgent
<1>1. PageInv => PageFollowsItsAgent
  BY DEF PageInv
<1> QED BY <1>1, PageKeepsItsInvariant, PTL

(* A page at which nothing is under way is up to date, although the server  *)
(* drops events that a watcher is too slow for and answers come late        *)
(* (broadcastRuntimeEvent, requestActiveRunSync, refreshActiveAgentChat).   *)
THEOREM RestingPageIsAlwaysCurrent == PageSpec => []RestingPageIsCurrent
<1>1. PageInv => RestingPageIsCurrent
  <2> SUFFICES ASSUME PageInv, AtRest
               PROVE  /\ AgentWorks(view, view.agent) <=> view.agent \in Working
                      /\ view.agent \in view.stopping => view.agent \in Working
                      /\ ~ view.streaming
                      /\ ~ overtaken /\ view.agent \notin Working =>
                           view.shown = [a \in PageAgents |-> IF a = view.agent THEN server.said[a] ELSE 0]
    BY DEF RestingPageIsCurrent
  <2>1. ~ WillBeTold /\ ~ Sending /\ ~ AsksForAgents /\ ~ Loads(view.agent) /\ ~ WillBeProbed /\ ~ refresh /\ fetches = {}
    BY DEF AtRest, WillBeTold, Sending, AsksForAgents, Loads, WillBeProbed, Idle
  <2>2. AgentWorks(view, view.agent) <=> view.agent \in Working
    BY <2>1 DEF PageInv, ShowsWhoWorks
  <2>3. view.agent \in view.stopping => view.agent \in Working
    BY <2>1, <2>2 DEF PageInv, StoppingWorks
  <2>4. ~ view.streaming
    BY <2>1 DEF PageInv, StreamingIsSending, Sending
  <2>5. ASSUME ~ overtaken
        PROVE  view.shown = [a \in PageAgents |-> IF a = view.agent THEN server.said[a] ELSE 0]
    <3>1. view.shown \in [PageAgents -> Nat]
      BY DEF PageInv, PageTypes, Views
    <3>2. view.shown[view.agent] = server.said[view.agent]
      BY <2>1, <2>5 DEF PageInv, ShowsTheLast
    <3>3. \A a \in PageAgents \ {view.agent} : view.shown[a] = 0
      BY <2>1 DEF PageInv, ShowsOneHistory
    <3> QED BY <3>1, <3>2, <3>3
  <2> QED BY <2>2, <2>3, <2>4, <2>5
<1> QED BY <1>1, PageKeepsItsInvariant, PTL

HIDE PageAssumption DEF Live, Abandoned, GiveBack

-----------------------------------------------------------------------------
(* The conversation.  The types, without the bounds.                        *)
SessionRecord == [summary : SUBSET Nat, cut : SUBSET Nat, start : Nat, covered : Nat, version : Nat]
ClaimRecord == [summary : SUBSET Nat, cut : SUBSET Nat, batch : SUBSET Nat, covered : Nat, version : Nat]
LogEntry == [kind : {"item"}, item : Items] \cup [kind : {"checkpoint"}, session : SessionRecord]
Logs == [Agents -> Seq(LogEntry)]
WriterStates == {"idle", "save", "note", "check"}
TurnRecord == [pc : {"new", "input", "prompt", "state", "told", "talking", "over"},
               seq : Nat, told : SUBSET Nat, version : Nat, missed : SUBSET Nat,
               moved : BOOLEAN, tries : Nat]

LogTypes ==
  /\ events \in Logs /\ disk \in Logs
  /\ messages \in [Agents -> Seq(Items)] /\ transcripts \in [Agents -> Seq(Items)]
  /\ session \in SessionRecord
WorkTypes ==
  /\ claim \in ClaimRecord
  /\ worker \in [Workers -> [pc : {"idle", "asking", "again"}, claim : ClaimRecord]]
  /\ writer \in [Writers \cup Turns -> WriterStates]
  /\ retry \in BOOLEAN /\ stalled \in BOOLEAN
TurnTypes == turn \in [Turns -> TurnRecord]
OutboxTypes == outbox \in [Receipts -> {"pending", "admitted", "acknowledged"}]

(* What the events of a log come to: messages in the order of their         *)
(* numbers, and a session whose summary was made from those it has covered. *)
InOrder(items) == \A m, n \in DOMAIN items : m < n => items[m].seq < items[n].seq
ContextOf(items, s) ==
  /\ s.start = s.covered + 1
  /\ \A n \in SeqsOf(items) : n <= s.covered => n \in MadeFrom(s)
  /\ \A n \in MadeFrom(s) : n \in SeqsOf(items) /\ n <= s.covered
  /\ s.covered = 0 \/ \E n \in SeqsOf(items) : s.covered + Window <= n
ProjectionOK(p) ==
  /\ p \in [transcript : Seq(Items), messages : Seq(Items), session : SessionRecord]
  /\ InOrder(p.transcript) /\ InOrder(p.messages)
  /\ Range(p.messages) = {i \in Range(p.transcript) : ~ i.hidden}
  /\ ContextOf(p.messages, p.session)

(* Every receipt and every input is in a conversation once.                 *)
ReceiptOnce(r, ls) ==
  \A a, b \in Agents :
    \A m \in DOMAIN Replayed(ls[a]).messages, n \in DOMAIN Replayed(ls[b]).messages :
      Replayed(ls[a]).messages[m].id = r /\ Replayed(ls[b]).messages[n].id = r => a = b /\ m = n
InputOnce(t, ls) ==
  \A i, j \in Range(Replayed(ls[Owner]).transcript) :
    i.hidden /\ j.hidden /\ i.id = t /\ j.id = t => i = j
LogsOK(ls) ==
  /\ \A a \in Agents : ProjectionOK(Replayed(ls[a]))
  /\ \A r \in Receipts : ReceiptOnce(r, ls)
  /\ \A t \in Turns : InputOnce(t, ls)

OnDisk(r) == \E a \in Agents : r \in IdsOf(Replayed(disk[a]).messages)
LogsInv ==
  /\ LogTypes /\ LogsOK(events) /\ LogsOK(disk)
  /\ \A a \in Agents : /\ transcripts[a] = Replayed(events[a]).transcript
                       /\ messages[a] = Replayed(events[a]).messages
  /\ ContextOf(messages[Owner], session)
  /\ \/ session = Replayed(events[Owner]).session
     \/ session.version > Replayed(events[Owner]).session.version
  /\ \A r \in Receipts : Received(r) <=> OnDisk(r)

OutboxInv == OutboxTypes /\ \A r \in Receipts : outbox[r] # "pending" => OnDisk(r)

(* The claim is of the session as it is, has all the messages its summary   *)
(* will cover and no other, and one goroutine has it.                       *)
Asking(k) == worker[k].pc = "asking"
ClaimOK ==
  /\ claim.version = session.version /\ claim.covered = session.covered
  /\ \E last \in claim.batch :
       /\ \A n \in claim.batch : n <= last
       /\ claim.covered < last
       /\ \A n \in SeqsOf(messages[Owner]) : n <= last => n \in MadeFrom(claim) \cup claim.batch
       /\ \A n \in MadeFrom(claim) \cup claim.batch : n \in SeqsOf(messages[Owner]) /\ n <= last
       /\ \E n \in SeqsOf(messages[Owner]) : last + Window <= n
ClaimsInv ==
  /\ WorkTypes
  /\ claim # NoClaim => ClaimOK /\ \E k \in Workers : Asking(k)
  /\ \A k \in Workers : Asking(k) => claim # NoClaim /\ worker[k].claim = claim
  /\ \A j, k \in Workers : Asking(j) /\ Asking(k) => j = k
  /\ retry => stalled
  /\ LongWindowsAreWorkedOn

TurnsInv ==
  /\ TurnTypes /\ TurnsMissNothing
  /\ \A t \in Turns : turn[t].pc = "told" =>
       /\ turn[t].version <= session.version
       /\ turn[t].version = session.version => turn[t].told = MadeFrom(session)

ConversationInv == LogsInv /\ OutboxInv /\ ClaimsInv /\ TurnsInv

USE ConversationAssumption DEF Agents

-----------------------------------------------------------------------------
(* The replay of a log.                                                     *)

LEMMA AReplayExists ==
  ASSUME NEW l, NEW N \in Nat
  PROVE  \E p : p = [n \in 0 .. N |-> IF n = 0 THEN Blank ELSE Applied(p[n - 1], l[n])]
<1> DEFINE Good(n) == \E p : p = [m \in 0 .. n |-> IF m = 0 THEN Blank ELSE Applied(p[m - 1], l[m])]
           Bad == {n \in Nat : ~ Good(n)}
<1>1. SUFFICES ASSUME Bad # {} PROVE FALSE
  OBVIOUS
<1>2. PICK n \in Bad : \A m \in Bad : n <= m
  <2>1. Bad \subseteq Nat
    OBVIOUS
  <2> HIDE DEF Bad
  <2> QED BY <1>1, <2>1, LeastNumber
<1>3. CASE n = 0
  <2> DEFINE q == [m \in 0 .. 0 |-> Blank]
  <2>1. q = [m \in 0 .. 0 |-> IF m = 0 THEN Blank ELSE Applied(q[m - 1], l[m])]
    OBVIOUS
  <2> QED BY <1>2, <1>3, <2>1
<1>4. CASE n # 0
  <2>0. n \in Nat /\ n - 1 \in Nat /\ ~ (n <= n - 1)
    BY <1>2, <1>4
  <2>1. n - 1 \in Nat /\ Good(n - 1)
    <3> HIDE DEF Good
    <3>1. n - 1 \notin Bad
      <4> HIDE DEF Bad
      <4> QED BY <1>2, <2>0
    <3> QED BY <2>0, <3>1
  <2>2. PICK p : p = [m \in 0 .. n - 1 |-> IF m = 0 THEN Blank ELSE Applied(p[m - 1], l[m])]
    BY <2>1
  <2> DEFINE q == [m \in 0 .. n |-> IF m = n THEN Applied(p[n - 1], l[n]) ELSE p[m]]
  <2>3. \A m \in 0 .. n : q[m] = IF m = 0 THEN Blank ELSE Applied(q[m - 1], l[m])
    <3> TAKE m \in 0 .. n
    <3>1. CASE m = n
      <4>1. n - 1 \in 0 .. n /\ n - 1 # n
        BY <2>1
      <4>2. q[n - 1] = p[n - 1]
        BY <4>1
      <4> QED BY <1>4, <3>1, <4>2
    <3>2. CASE m # n
      <4>1. m \in 0 .. n - 1 /\ q[m] = p[m]
        BY <2>1, <3>2
      <4>2. p[m] = IF m = 0 THEN Blank ELSE Applied(p[m - 1], l[m])
        BY <2>2, <4>1
      <4>3. CASE m # 0
        <5>1. m - 1 \in 0 .. n /\ m - 1 # n
          BY <4>1, <4>3
        <5>2. q[m - 1] = p[m - 1]
          BY <5>1
        <5> QED BY <4>1, <4>2, <5>2
      <4> QED BY <4>1, <4>2, <4>3
    <3> QED BY <3>1, <3>2
  <2>4. q = [m \in 0 .. n |-> IF m = 0 THEN Blank ELSE Applied(q[m - 1], l[m])]
    <3> DEFINE w == [m \in 0 .. n |-> IF m = 0 THEN Blank ELSE Applied(q[m - 1], l[m])]
    <3>1. \A m \in 0 .. n : q[m] = w[m]
      BY <2>3
    <3> QED BY <3>1
  <2>5. Good(n)
    <3> HIDE DEF q
    <3> QED BY <2>4
  <2> QED BY <1>2, <2>5
<1> QED BY <1>3, <1>4

LEMMA ReplaySteps ==
  ASSUME NEW l, NEW N \in Nat, Len(l) = N
  PROVE  \E p : /\ Replayed(l) = p[N]
                /\ p[0] = Blank
                /\ \A n \in 1 .. N : p[n] = Applied(p[n - 1], l[n])
<1> DEFINE Is(p) == p = [n \in 0 .. N |-> IF n = 0 THEN Blank ELSE Applied(p[n - 1], l[n])]
           q == CHOOSE p : Is(p)
<1>1. \E p : Is(p)
  BY AReplayExists
<1>2. Is(q)
  BY <1>1
<1>3. Replayed(l) = q[N]
  BY DEF Replayed
<1> HIDE DEF q
<1>4. \A n \in 0 .. N : q[n] = IF n = 0 THEN Blank ELSE Applied(q[n - 1], l[n])
  BY <1>2
<1> QED BY <1>3, <1>4

LEMMA ReplayOfNothing == Replayed(<<>>) = Blank
<1>1. Len(<<>>) = 0
  OBVIOUS
<1> QED BY <1>1, ReplaySteps

\* To replay one more event is to apply it.
LEMMA ReplayOfOneMore ==
  ASSUME NEW S, NEW l \in Seq(S), NEW e \in S
  PROVE  Replayed(Append(l, e)) = Applied(Replayed(l), e)
<1> DEFINE N == Len(l)
           m == Append(l, e)
<1>1. /\ N \in Nat /\ Len(m) = N + 1 /\ m[N + 1] = e
      /\ \A n \in 1 .. N : m[n] = l[n]
  OBVIOUS
<1>2. PICK p : /\ Replayed(l) = p[N]
               /\ p[0] = Blank
               /\ \A n \in 1 .. N : p[n] = Applied(p[n - 1], l[n])
  BY <1>1, ReplaySteps, Zenon
<1>3. PICK q : /\ Replayed(m) = q[N + 1]
               /\ q[0] = Blank
               /\ \A n \in 1 .. N + 1 : q[n] = Applied(q[n - 1], m[n])
  <2>1. N + 1 \in Nat
    BY <1>1
  <2> HIDE DEF N, m
  <2> QED BY <1>1, <2>1, ReplaySteps
<1> HIDE DEF N, m
<1> DEFINE Bad == {n \in Nat : n <= N /\ p[n] # q[n]}
<1>4. Bad = {}
  <2> SUFFICES ASSUME Bad # {} PROVE FALSE
    OBVIOUS
  <2>1. PICK n \in Bad : \A k \in Bad : n <= k
    <3>1. Bad \subseteq Nat
      OBVIOUS
    <3> HIDE DEF Bad
    <3> QED BY <3>1, LeastNumber
  <2>2. n # 0
    BY <1>2, <1>3, <2>1
  <2>3. n - 1 \in Nat /\ n - 1 <= N /\ p[n - 1] = q[n - 1] /\ n \in 1 .. N
    <3>1. n \in Nat /\ n <= N /\ n - 1 \in Nat /\ n - 1 <= N /\ n \in 1 .. N /\ ~ (n <= n - 1)
      BY <1>1, <2>1, <2>2
    <3>2. n - 1 \notin Bad
      <4> HIDE DEF Bad
      <4> QED BY <2>1, <3>1
    <3> QED BY <3>1, <3>2
  <2>4. p[n] = q[n]
    <3>1. p[n] = Applied(p[n - 1], l[n])
      BY <1>2, <2>3
    <3>2. n \in 1 .. N + 1 /\ m[n] = l[n]
      BY <1>1, <2>3
    <3>3. q[n] = Applied(q[n - 1], l[n])
      BY <1>3, <3>2
    <3> QED BY <2>3, <3>1, <3>3
  <2> QED BY <2>1, <2>4
<1>5. p[N] = q[N]
  BY <1>1, <1>4
<1>6. q[N + 1] = Applied(q[N], e)
  BY <1>1, <1>3
<1> QED BY <1>2, <1>3, <1>5, <1>6 DEF m

-----------------------------------------------------------------------------
(* One event more.                                                          *)

LEMMA OneMore ==
  ASSUME NEW S, NEW s \in Seq(S), NEW x \in S
  PROVE  /\ Append(s, x) \in Seq(S) /\ Range(Append(s, x)) = Range(s) \cup {x}
         /\ Len(s) \in Nat /\ DOMAIN s = 1 .. Len(s) /\ DOMAIN Append(s, x) = 1 .. Len(s) + 1
         /\ \A n \in DOMAIN s : n # Len(s) + 1 /\ n \in DOMAIN Append(s, x) /\ Append(s, x)[n] = s[n]
         /\ Append(s, x)[Len(s) + 1] = x
         /\ \A n \in DOMAIN Append(s, x) : n \in DOMAIN s \/ n = Len(s) + 1
         /\ \A n \in DOMAIN s : s[n] \in Range(s) /\ s[n] \in S
<1>1. /\ Append(s, x) \in Seq(S)
      /\ Len(s) \in Nat /\ DOMAIN s = 1 .. Len(s) /\ DOMAIN Append(s, x) = 1 .. Len(s) + 1
      /\ Append(s, x)[Len(s) + 1] = x
      /\ \A n \in 1 .. Len(s) : Append(s, x)[n] = s[n] /\ s[n] \in S
  OBVIOUS
<1>2. /\ \A n \in 1 .. Len(s) : n # Len(s) + 1 /\ n \in 1 .. Len(s) + 1
      /\ \A n \in 1 .. Len(s) + 1 : n \in 1 .. Len(s) \/ n = Len(s) + 1
      /\ Len(s) + 1 \in 1 .. Len(s) + 1
  BY <1>1
<1> DEFINE t == Append(s, x)
<1> HIDE DEF t
<1>3. Range(t) = Range(s) \cup {x}
  BY <1>1, <1>2 DEF Range, t
<1> QED BY <1>1, <1>2, <1>3 DEF Range, t

LEMMA ItemFacts ==
  /\ \A i \in Items : i.seq \in Nat /\ i.seq > 0 /\ i.seq <= MaxSeq /\ i.hidden \in BOOLEAN
  /\ \A i \in Items : ItemEvent(i) \in LogEntry /\ ItemEvent(i).kind = "item" /\ ItemEvent(i).item = i
  /\ \A s \in SessionRecord : /\ CheckpointEvent(s) \in LogEntry /\ CheckpointEvent(s).kind = "checkpoint"
                              /\ CheckpointEvent(s).session = s
<1>1. MaxSeq \in Nat
  OBVIOUS
<1>2. \A i \in Items : i.seq \in 1 .. MaxSeq /\ i.hidden \in BOOLEAN
  BY DEF Items
<1> QED BY <1>1, <1>2 DEF ItemEvent, CheckpointEvent, LogEntry

LEMMA NumbersOfItems ==
  ASSUME NEW s \in Seq(Items)
  PROVE  SeqsOf(s) \subseteq 1 .. MaxSeq /\ \A n \in DOMAIN s : s[n] \in Items /\ s[n].seq \in SeqsOf(s)
<1>1. \A n \in DOMAIN s : s[n] \in Items
  OBVIOUS
<1>2. \A i \in Range(s) : i \in Items
  BY <1>1 DEF Range
<1> QED BY <1>1, <1>2, ItemFacts DEF SeqsOf, Range, Items

\* A message with a number above all others keeps the order and the context.
LEMMA OrderGoesOn ==
  ASSUME NEW s \in Seq(Items), InOrder(s), NEW i \in Items, \A j \in Range(s) : j.seq < i.seq
  PROVE  InOrder(Append(s, i))
<1> DEFINE t == Append(s, i)
<1>1. SUFFICES ASSUME NEW m \in DOMAIN t, NEW n \in DOMAIN t, m < n PROVE t[m].seq < t[n].seq
  BY DEF InOrder
<1>2. /\ m \in DOMAIN s \/ m = Len(s) + 1
      /\ n \in DOMAIN s \/ n = Len(s) + 1
      /\ Len(s) \in Nat /\ DOMAIN s = 1 .. Len(s)
      /\ t[Len(s) + 1] = i /\ \A k \in DOMAIN s : t[k] = s[k] /\ s[k] \in Range(s)
  BY OneMore
<1> HIDE DEF t
<1>3. m \in DOMAIN s
  BY <1>1, <1>2
<1> QED BY <1>1, <1>2, <1>3 DEF InOrder

LEMMA SeqsOfOneMore ==
  ASSUME NEW s \in Seq(Items), NEW i \in Items
  PROVE  /\ SeqsOf(Append(s, i)) = SeqsOf(s) \cup {i.seq} /\ IdsOf(Append(s, i)) = IdsOf(s) \cup {i.id}
BY OneMore DEF SeqsOf, IdsOf

LEMMA ContextGoesOn ==
  ASSUME NEW s \in Seq(Items), NEW x \in SessionRecord, ContextOf(s, x),
         NEW i \in Items, \A n \in SeqsOf(s) : n < i.seq
  PROVE  ContextOf(Append(s, i), x)
<1>1. SeqsOf(Append(s, i)) = SeqsOf(s) \cup {i.seq}
  BY SeqsOfOneMore
<1>2. /\ x.start = x.covered + 1
      /\ \A n \in SeqsOf(s) : n <= x.covered => n \in MadeFrom(x)
      /\ \A n \in MadeFrom(x) : n \in SeqsOf(s) /\ n <= x.covered
      /\ x.covered = 0 \/ \E n \in SeqsOf(s) : x.covered + Window <= n
  BY DEF ContextOf
<1>3. x.covered \in Nat /\ Window \in Nat /\ i.seq \in Nat /\ i.seq > 0 /\ \A n \in SeqsOf(s) : n \in Nat
  BY ItemFacts, NumbersOfItems DEF SessionRecord
<1>4. ~ (i.seq <= x.covered)
  BY <1>2, <1>3
<1> QED BY <1>1, <1>2, <1>4 DEF ContextOf

LEMMA ItemIsApplied ==
  ASSUME NEW p, ProjectionOK(p), NEW i \in Items, \A j \in Range(p.transcript) : j.seq < i.seq
  PROVE  /\ ProjectionOK(Applied(p, ItemEvent(i)))
         /\ Applied(p, ItemEvent(i)).transcript = Append(p.transcript, i)
         /\ Applied(p, ItemEvent(i)).messages = IF i.hidden THEN p.messages ELSE Append(p.messages, i)
         /\ Applied(p, ItemEvent(i)).session = p.session
<1> DEFINE q == Applied(p, ItemEvent(i))
<1>1. /\ p \in [transcript : Seq(Items), messages : Seq(Items), session : SessionRecord]
      /\ p.transcript \in Seq(Items) /\ p.messages \in Seq(Items) /\ p.session \in SessionRecord
      /\ InOrder(p.transcript) /\ InOrder(p.messages) /\ ContextOf(p.messages, p.session)
      /\ Range(p.messages) = {j \in Range(p.transcript) : ~ j.hidden}
  BY DEF ProjectionOK
<1>2. q = [p EXCEPT !.transcript = Append(@, i), !.messages = IF i.hidden THEN @ ELSE Append(@, i)]
  BY ItemFacts DEF Applied
<1>3. /\ Append(p.transcript, i) \in Seq(Items) /\ Append(p.messages, i) \in Seq(Items)
      /\ Range(Append(p.transcript, i)) = Range(p.transcript) \cup {i}
      /\ Range(Append(p.messages, i)) = Range(p.messages) \cup {i}
  BY <1>1, OneMore
<1>4. /\ q.transcript = Append(p.transcript, i) /\ q.session = p.session
      /\ q.messages = IF i.hidden THEN p.messages ELSE Append(p.messages, i)
      /\ q \in [transcript : Seq(Items), messages : Seq(Items), session : SessionRecord]
  BY <1>1, <1>2, <1>3
<1> HIDE DEF q
<1>5. InOrder(q.transcript)
  BY <1>1, <1>4, OrderGoesOn
<1>6. \A j \in Range(p.messages) : j.seq < i.seq
  BY <1>1
<1>7. InOrder(q.messages)
  BY <1>1, <1>4, <1>6, OrderGoesOn
<1>8. Range(q.messages) = {j \in Range(q.transcript) : ~ j.hidden}
  BY <1>1, <1>3, <1>4
<1>9. \A n \in SeqsOf(p.messages) : n < i.seq
  BY <1>6 DEF SeqsOf
<1>10. ContextOf(q.messages, q.session)
  BY <1>1, <1>4, <1>9, ContextGoesOn
<1> QED BY <1>4, <1>5, <1>7, <1>8, <1>10 DEF ProjectionOK, q

LEMMA CheckpointIsApplied ==
  ASSUME NEW p, ProjectionOK(p), NEW s \in SessionRecord, ContextOf(p.messages, s)
  PROVE  /\ ProjectionOK(Applied(p, CheckpointEvent(s)))
         /\ Applied(p, CheckpointEvent(s)).transcript = p.transcript
         /\ Applied(p, CheckpointEvent(s)).messages = p.messages
         /\ Applied(p, CheckpointEvent(s)).session = s
<1>1. Applied(p, CheckpointEvent(s)) = [p EXCEPT !.session = s]
  BY ItemFacts DEF Applied
<1> QED BY <1>1 DEF ProjectionOK

-----------------------------------------------------------------------------
(* An append.                                                               *)

Ids == Receipts \cup Turns \cup {Anyone}

LEMMA NextSeqIsNew ==
  ASSUME LogsInv, NEW a \in Agents
  PROVE  /\ NextSeq(a) \in Nat \ {0}
         /\ \A i \in Range(transcripts[a]) : i.seq < NextSeq(a)
         /\ \A n \in SeqsOf(messages[a]) : n < NextSeq(a)
<1> DEFINE S == {0} \cup SeqsOf(messages[a]) \cup SeqsOf(transcripts[a])
<1>1. messages[a] \in Seq(Items) /\ transcripts[a] \in Seq(Items) /\ MaxSeq \in Nat
  BY DEF LogsInv, LogTypes
<1>2. S \in SUBSET (0 .. MaxSeq) /\ S # {}
  BY <1>1, NumbersOfItems
<1> HIDE DEF S
<1>3. Max(S) \in S /\ \A n \in S : n <= Max(S)
  BY <1>1, <1>2, MaxIsLargest
<1>4. NextSeq(a) = 1 + Max(S)
  BY DEF NextSeq, S
<1>5. \A n \in S : n \in Nat /\ n < NextSeq(a)
  <2>1. \A n \in S : n \in Nat
    BY <1>1, <1>2
  <2>2. Max(S) \in Nat
    BY <1>3, <2>1
  <2> QED BY <1>3, <1>4, <2>1, <2>2
<1>6. Max(S) \in Nat
  BY <1>3, <1>5
<1>7. NextSeq(a) \in Nat \ {0}
  BY <1>4, <1>6
<1>8. SeqsOf(messages[a]) \subseteq S /\ \A i \in Range(transcripts[a]) : i.seq \in S
  BY DEF S, SeqsOf
<1> QED BY <1>5, <1>7, <1>8

\* What an append makes of the logs.
LEMMA AppendIsOK ==
  ASSUME LogsInv, NEW a \in Agents, NEW id \in Ids, NEW hidden \in BOOLEAN, AppendEvent(a, id, hidden),
         hidden => id \in Turns /\ InputOf(id) = {} /\ a = Owner,
         id \in Receipts => ~ Received(id)
  PROVE  /\ events' \in Logs /\ LogsOK(events')
         /\ messages' \in [Agents -> Seq(Items)] /\ transcripts' \in [Agents -> Seq(Items)]
         /\ \A b \in Agents : /\ transcripts'[b] = Replayed(events'[b]).transcript
                              /\ messages'[b] = Replayed(events'[b]).messages
                              /\ Replayed(events'[b]).session = Replayed(events[b]).session
         /\ messages' = IF hidden THEN messages
                        ELSE [messages EXCEPT ![a] = Append(@, [seq |-> NextSeq(a), id |-> id, hidden |-> FALSE])]
         /\ [seq |-> NextSeq(a), id |-> id, hidden |-> FALSE] \in Items
         /\ \A r \in Receipts : Received(r)' <=> Received(r) \/ (r = id)
<1> DEFINE i == [seq |-> NextSeq(a), id |-> id, hidden |-> hidden]
           P(b) == Replayed(events[b])
           Q(b) == Replayed(events'[b])
<1>1. /\ NextSeq(a) <= MaxSeq
      /\ events' = [events EXCEPT ![a] = Append(@, ItemEvent(i))]
      /\ transcripts' = [transcripts EXCEPT ![a] = Append(@, i)]
      /\ messages' = IF hidden THEN messages ELSE [messages EXCEPT ![a] = Append(@, i)]
  BY DEF AppendEvent
<1>2. i \in Items /\ [seq |-> NextSeq(a), id |-> id, hidden |-> FALSE] \in Items
  <2>1. NextSeq(a) \in 1 .. MaxSeq
    BY <1>1, NextSeqIsNew
  <2> QED BY <2>1 DEF Items, Ids
<1>3. i.seq = NextSeq(a) /\ i.id = id /\ i.hidden = hidden
  OBVIOUS
<1> HIDE DEF i
<1>4. /\ events \in Logs /\ messages \in [Agents -> Seq(Items)] /\ transcripts \in [Agents -> Seq(Items)]
      /\ \A b \in Agents : /\ ProjectionOK(P(b)) /\ transcripts[b] = P(b).transcript /\ messages[b] = P(b).messages
                           /\ P(b).transcript \in Seq(Items) /\ P(b).messages \in Seq(Items)
  BY DEF LogsInv, LogTypes, LogsOK, ProjectionOK
<1>5. /\ events[a] \in Seq(LogEntry) /\ ItemEvent(i) \in LogEntry
      /\ Append(events[a], ItemEvent(i)) \in Seq(LogEntry)
      /\ Append(transcripts[a], i) \in Seq(Items) /\ Append(messages[a], i) \in Seq(Items)
  BY <1>2, <1>4, ItemFacts DEF Logs
<1>6. events' \in Logs /\ messages' \in [Agents -> Seq(Items)] /\ transcripts' \in [Agents -> Seq(Items)]
  BY <1>1, <1>4, <1>5 DEF Logs
<1>7. Q(a) = Applied(P(a), ItemEvent(i)) /\ \A b \in Agents : b # a => Q(b) = P(b)
  <2>1. events'[a] = Append(events[a], ItemEvent(i)) /\ \A b \in Agents : b # a => events'[b] = events[b]
    BY <1>1, <1>4 DEF Logs
  <2> QED BY <1>5, <2>1, ReplayOfOneMore
<1> HIDE DEF P, Q
<1>8. \A j \in Range(P(a).transcript) : j.seq < i.seq
  BY <1>3, <1>4, NextSeqIsNew
<1>18. /\ ProjectionOK(Applied(P(a), ItemEvent(i)))
       /\ Applied(P(a), ItemEvent(i)).transcript = Append(P(a).transcript, i)
       /\ Applied(P(a), ItemEvent(i)).messages = IF i.hidden THEN P(a).messages ELSE Append(P(a).messages, i)
       /\ Applied(P(a), ItemEvent(i)).session = P(a).session
  <2>1. ProjectionOK(P(a))
    BY <1>4
  <2> QED BY <1>2, <1>8, <2>1, ItemIsApplied
<1>9. /\ ProjectionOK(Q(a)) /\ Q(a).transcript = Append(P(a).transcript, i) /\ Q(a).session = P(a).session
      /\ Q(a).messages = IF hidden THEN P(a).messages ELSE Append(P(a).messages, i)
  BY <1>3, <1>7, <1>18
<1>19. ASSUME NEW s \in Seq(Items)
       PROVE  /\ Range(Append(s, i)) = Range(s) \cup {i}
              /\ \A m \in DOMAIN Append(s, i) :
                   \/ m \in DOMAIN s /\ Append(s, i)[m] = s[m]
                   \/ m = Len(s) + 1 /\ Append(s, i)[m] = i
  <2>1. /\ Range(Append(s, i)) = Range(s) \cup {i}
        /\ \A m \in DOMAIN s : Append(s, i)[m] = s[m]
        /\ Append(s, i)[Len(s) + 1] = i
        /\ \A m \in DOMAIN Append(s, i) : m \in DOMAIN s \/ m = Len(s) + 1
    BY <1>2, OneMore
  <2> QED BY <2>1
<1>10. \A b \in Agents : /\ ProjectionOK(Q(b)) /\ Q(b).session = P(b).session
                         /\ transcripts'[b] = Q(b).transcript /\ messages'[b] = Q(b).messages
  BY <1>1, <1>4, <1>7, <1>9
<1>11. \A b \in Agents : \A m \in DOMAIN Q(b).messages :
         \/ m \in DOMAIN P(b).messages /\ Q(b).messages[m] = P(b).messages[m]
         \/ b = a /\ ~ hidden /\ m = Len(P(a).messages) + 1 /\ Q(b).messages[m] = i
  <2> TAKE b \in Agents
  <2>1. CASE b = a /\ ~ hidden
    <3>1. Q(b).messages = Append(P(a).messages, i) /\ P(a).messages \in Seq(Items)
      BY <1>4, <1>9, <2>1
    <3> QED BY <1>19, <2>1, <3>1
  <2>2. CASE b # a \/ hidden
    <3>1. Q(b).messages = P(b).messages
      BY <1>7, <1>9, <2>2
    <3> QED BY <3>1
  <2> QED BY <2>1, <2>2
<1>12. \A r \in Receipts : ~ Received(r) => \A b \in Agents : \A m \in DOMAIN P(b).messages : P(b).messages[m].id # r
  BY <1>4 DEF Received, IdsOf, Range
<1>13. ASSUME NEW r \in Receipts PROVE ReceiptOnce(r, events')
  <2>1. ReceiptOnce(r, events)
    BY DEF LogsInv, LogsOK
  <2>2. \A b, c \in Agents : \A m \in DOMAIN P(b).messages, n \in DOMAIN P(c).messages :
          P(b).messages[m].id = r /\ P(c).messages[n].id = r => b = c /\ m = n
    BY <2>1 DEF ReceiptOnce, P
  <2>3. \A b, c \in Agents : \A m \in DOMAIN Q(b).messages, n \in DOMAIN Q(c).messages :
          Q(b).messages[m].id = r /\ Q(c).messages[n].id = r => b = c /\ m = n
    <3>1. CASE r # id
      BY <1>3, <1>11, <2>2, <3>1
    <3>2. CASE r = id
      BY <1>11, <1>12, <3>2
    <3> QED BY <3>1, <3>2
  <2> QED BY <2>3 DEF ReceiptOnce, Q
<1>14. ASSUME NEW t \in Turns PROVE InputOnce(t, events')
  <2>1. InputOnce(t, events)
    BY DEF LogsInv, LogsOK
  <2>2. \A j \in Range(Q(Owner).transcript) : j \in Range(P(Owner).transcript) \/ (j = i /\ a = Owner)
    <3>1. CASE a = Owner
      <4>1. Q(Owner).transcript = Append(P(Owner).transcript, i) /\ P(Owner).transcript \in Seq(Items)
        BY <1>4, <1>9, <3>1
      <4>2. Range(Q(Owner).transcript) = Range(P(Owner).transcript) \cup {i}
        BY <1>19, <4>1
      <4> QED BY <3>1, <4>2
    <3>2. CASE a # Owner
      BY <1>7, <3>2
    <3> QED BY <3>1, <3>2
  <2>3. hidden /\ t = id => \A j \in Range(P(Owner).transcript) : ~ (j.hidden /\ j.id = t)
    BY <1>4 DEF InputOf
  <2>4. \A j, k \in Range(P(Owner).transcript) : j.hidden /\ k.hidden /\ j.id = t /\ k.id = t => j = k
    BY <2>1 DEF InputOnce, P
  <2>5. \A j, k \in Range(Q(Owner).transcript) : j.hidden /\ k.hidden /\ j.id = t /\ k.id = t => j = k
    BY <1>3, <2>2, <2>3, <2>4
  <2> QED BY <2>5 DEF InputOnce, Q
<1>15. LogsOK(events')
  BY <1>10, <1>13, <1>14 DEF LogsOK, Q
<1>16. messages' = IF hidden THEN messages
                   ELSE [messages EXCEPT ![a] = Append(@, [seq |-> NextSeq(a), id |-> id, hidden |-> FALSE])]
  BY <1>1 DEF i
<1>17. ASSUME NEW r \in Receipts PROVE Received(r)' <=> Received(r) \/ (r = id)
  <2>1. CASE hidden
    <3>1. messages' = messages /\ r # id
      BY <1>16, <2>1
    <3> QED BY <3>1 DEF Received
  <2>2. CASE ~ hidden
    <3>1. IdsOf(messages'[a]) = IdsOf(messages[a]) \cup {id} /\ \A b \in Agents : b # a => messages'[b] = messages[b]
      BY <1>1, <1>2, <1>3, <1>4, <2>2, SeqsOfOneMore
    <3> QED BY <3>1 DEF Received
  <2> QED BY <2>1, <2>2
<1> QED BY <1>2, <1>6, <1>10, <1>15, <1>16, <1>17 DEF P, Q

-----------------------------------------------------------------------------
(* What the steps do to the logs.                                           *)

LEMMA LogsStay ==
  ASSUME LogsInv, UNCHANGED log
  PROVE  LogsInv' /\ \A r \in Receipts : OnDisk(r)' <=> OnDisk(r)
BY DEF LogsInv, log, LogTypes, Received, OnDisk

\* The file is the memory: what it has received the memory has.
LEMMA WhatIsSaved ==
  ASSUME disk' = events', \A a \in Agents : messages'[a] = Replayed(events'[a]).messages, NEW r \in Receipts
  PROVE  OnDisk(r)' <=> Received(r)'
BY DEF OnDisk, Received

LEMMA LogsAreSaved ==
  ASSUME LogsInv, UNCHANGED <<events, messages, transcripts, session>>, disk' \in {disk, events}
  PROVE  LogsInv' /\ \A r \in Receipts : OnDisk(r)' <=> OnDisk(r)
<1>1. CASE disk' = disk
  <2>1. UNCHANGED log
    BY <1>1 DEF log
  <2> QED BY <2>1, LogsStay
<1>2. CASE disk' = events
  <2>1. \A a \in Agents : messages'[a] = Replayed(events'[a]).messages
    BY DEF LogsInv
  <2>2. \A r \in Receipts : (OnDisk(r)' <=> Received(r)') /\ (Received(r)' <=> Received(r))
                            /\ (Received(r) <=> OnDisk(r))
    BY <1>2, <2>1, WhatIsSaved DEF LogsInv, Received
  <2>3. LogTypes' /\ LogsOK(events)' /\ LogsOK(disk)'
    BY <1>2 DEF LogsInv, LogTypes
  <2>4. ContextOf(messages[Owner], session)'
    BY DEF LogsInv
  <2> QED BY <2>1, <2>2, <2>3, <2>4 DEF LogsInv
<1> QED BY <1>1, <1>2

LEMMA LogsAreAppended ==
  ASSUME LogsInv, NEW a \in Agents, NEW id \in Ids, NEW hidden \in BOOLEAN, AppendEvent(a, id, hidden),
         hidden => id \in Turns /\ InputOf(id) = {} /\ a = Owner,
         id \in Receipts => ~ Received(id),
         session' = session,
         \/ disk' = disk /\ id \notin Receipts
         \/ disk' = events'
  PROVE  /\ LogsInv'
         /\ \A r \in Receipts : OnDisk(r)' <=> OnDisk(r) \/ (r = id)
<1>1. /\ events' \in Logs /\ LogsOK(events')
      /\ messages' \in [Agents -> Seq(Items)] /\ transcripts' \in [Agents -> Seq(Items)]
      /\ \A b \in Agents : /\ transcripts'[b] = Replayed(events'[b]).transcript
                           /\ messages'[b] = Replayed(events'[b]).messages
                           /\ Replayed(events'[b]).session = Replayed(events[b]).session
      /\ messages' = IF hidden THEN messages
                     ELSE [messages EXCEPT ![a] = Append(@, [seq |-> NextSeq(a), id |-> id, hidden |-> FALSE])]
      /\ [seq |-> NextSeq(a), id |-> id, hidden |-> FALSE] \in Items
      /\ \A r \in Receipts : Received(r)' <=> Received(r) \/ (r = id)
  BY AppendIsOK
<1>2. \A r \in Receipts : (OnDisk(r)' <=> Received(r)') /\ (Received(r) <=> OnDisk(r))
  <2>1. CASE disk' = disk /\ id \notin Receipts
    BY <1>1, <2>1 DEF LogsInv, OnDisk
  <2>2. CASE disk' = events'
    BY <1>1, <2>2, WhatIsSaved DEF LogsInv
  <2> QED BY <2>1, <2>2
<1>3. disk' \in Logs /\ LogsOK(disk')
  BY <1>1 DEF LogsInv, LogTypes
<1>4. ContextOf(messages'[Owner], session)
  <2>1. ContextOf(messages[Owner], session) /\ messages \in [Agents -> Seq(Items)] /\ session \in SessionRecord
    BY DEF LogsInv, LogTypes
  <2>2. CASE messages'[Owner] = messages[Owner]
    BY <2>1, <2>2
  <2>3. CASE a = Owner /\ ~ hidden
    <3> DEFINE i == [seq |-> NextSeq(a), id |-> id, hidden |-> FALSE]
    <3>1. messages'[Owner] = Append(messages[Owner], i) /\ i \in Items /\ i.seq = NextSeq(Owner)
      BY <1>1, <2>1, <2>3
    <3> HIDE DEF i
    <3>2. \A n \in SeqsOf(messages[Owner]) : n < i.seq
      BY <3>1, NextSeqIsNew
    <3>3. messages[Owner] \in Seq(Items)
      BY <2>1
    <3>4. ContextOf(Append(messages[Owner], i), session)
      BY <2>1, <3>1, <3>2, <3>3, ContextGoesOn
    <3> QED BY <3>1, <3>4
  <2> QED BY <1>1, <2>1, <2>2, <2>3
<1>5. LogTypes' /\ LogsOK(events)' /\ LogsOK(disk)'
  BY <1>1, <1>3 DEF LogTypes, LogsInv
<1>6. \/ session' = Replayed(events'[Owner]).session
      \/ session'.version > Replayed(events'[Owner]).session.version
  BY <1>1 DEF LogsInv
<1>7. ContextOf(messages[Owner], session)'
  BY <1>4
<1> QED BY <1>1, <1>2, <1>5, <1>6, <1>7 DEF LogsInv

LEMMA LogsAreReplayed ==
  ASSUME LogsInv, events' = disk, disk' = disk,
         transcripts' = [a \in Agents |-> Replayed(disk[a]).transcript],
         messages' = [a \in Agents |-> Replayed(disk[a]).messages],
         session' = Replayed(disk[Owner]).session
  PROVE  LogsInv' /\ \A r \in Receipts : OnDisk(r)' <=> OnDisk(r)
<1>1. \A a \in Agents : ProjectionOK(Replayed(disk[a]))
  BY DEF LogsInv, LogsOK
<1>2. \A a \in Agents : /\ Replayed(disk[a]).transcript \in Seq(Items) /\ Replayed(disk[a]).messages \in Seq(Items)
                        /\ Replayed(disk[a]).session \in SessionRecord
                        /\ ContextOf(Replayed(disk[a]).messages, Replayed(disk[a]).session)
  BY <1>1 DEF ProjectionOK
<1>3. LogTypes' /\ LogsOK(events)' /\ LogsOK(disk)'
  BY <1>2 DEF LogTypes, LogsInv
<1>4. \A a \in Agents : transcripts'[a] = Replayed(events'[a]).transcript /\ messages'[a] = Replayed(events'[a]).messages
  OBVIOUS
<1>5. \A r \in Receipts : (OnDisk(r)' <=> Received(r)') /\ (OnDisk(r)' <=> OnDisk(r))
  BY <1>4, WhatIsSaved DEF OnDisk
<1>6. ContextOf(messages[Owner], session)'
  BY <1>2
<1> QED BY <1>3, <1>4, <1>5, <1>6 DEF LogsInv

\* A checkpoint that fits the messages is a session they can be read with, saved or not.
LEMMA LogsAreCheckpointed ==
  ASSUME LogsInv, NEW s \in SessionRecord, ContextOf(messages[Owner], s), s.version > session.version,
         session' = s, UNCHANGED <<messages, transcripts>>,
         \/ /\ events' = [events EXCEPT ![Owner] = Append(@, CheckpointEvent(s))]
            /\ disk' = events'
         \/ UNCHANGED <<events, disk>>
  PROVE  LogsInv' /\ \A r \in Receipts : OnDisk(r)' <=> OnDisk(r)
<1> DEFINE P(b) == Replayed(events[b])
           Q(b) == Replayed(events'[b])
<1>1. /\ events \in Logs /\ disk \in Logs /\ session \in SessionRecord
      /\ \A b \in Agents : ProjectionOK(P(b)) /\ transcripts[b] = P(b).transcript /\ messages[b] = P(b).messages
  BY DEF LogsInv, LogTypes, LogsOK
<1>2. ContextOf(messages[Owner], session)'
  OBVIOUS
<1>3. s.version \in Nat /\ session.version \in Nat /\ \A b \in Agents : P(b).session.version \in Nat
  BY <1>1 DEF SessionRecord, ProjectionOK
<1>4. session = P(Owner).session \/ session.version > P(Owner).session.version
  BY DEF LogsInv
<1>5. CASE UNCHANGED <<events, disk>>
  <2>1. session'.version > Replayed(events'[Owner]).session.version
    BY <1>3, <1>4, <1>5
  <2>2. LogTypes' /\ LogsOK(events)' /\ LogsOK(disk)' /\ \A r \in Receipts : OnDisk(r)' <=> OnDisk(r)
    BY <1>5 DEF LogsInv, LogTypes, OnDisk
  <2> QED BY <1>1, <1>2, <1>5, <2>1, <2>2 DEF LogsInv, Received
<1>6. CASE events' = [events EXCEPT ![Owner] = Append(@, CheckpointEvent(s))] /\ disk' = events'
  <2>1. /\ events'[Owner] = Append(events[Owner], CheckpointEvent(s))
        /\ events[Owner] \in Seq(LogEntry) /\ CheckpointEvent(s) \in LogEntry
        /\ \A b \in Agents : b # Owner => events'[b] = events[b]
    BY <1>1, <1>6, ItemFacts DEF Logs
  <2>2. events' \in Logs
    <3>1. Append(events[Owner], CheckpointEvent(s)) \in Seq(LogEntry)
      BY <2>1
    <3> QED BY <1>1, <1>6, <3>1 DEF Logs
  <2>3. Q(Owner) = Applied(P(Owner), CheckpointEvent(s)) /\ \A b \in Agents : b # Owner => Q(b) = P(b)
    BY <2>1, ReplayOfOneMore
  <2> HIDE DEF P, Q
  <2>4. /\ ProjectionOK(Q(Owner)) /\ Q(Owner).session = s
        /\ Q(Owner).messages = P(Owner).messages /\ Q(Owner).transcript = P(Owner).transcript
    BY <1>1, <2>3, CheckpointIsApplied
  <2>5. \A b \in Agents : /\ ProjectionOK(Q(b)) /\ Q(b).messages = P(b).messages
                          /\ Q(b).transcript = P(b).transcript
    BY <1>1, <2>3, <2>4
  <2>6. \A r \in Receipts : ReceiptOnce(r, events')
    BY <2>5 DEF LogsInv, LogsOK, ReceiptOnce, P, Q
  <2>7. \A t \in Turns : InputOnce(t, events')
    BY <2>5 DEF LogsInv, LogsOK, InputOnce, P, Q
  <2>8. LogsOK(events')
    BY <2>5, <2>6, <2>7 DEF LogsOK, Q
  <2>9. LogTypes' /\ LogsOK(events)' /\ LogsOK(disk)'
    BY <1>6, <2>2, <2>8 DEF LogTypes, LogsInv
  <2>10. \A b \in Agents : transcripts'[b] = Replayed(events'[b]).transcript /\ messages'[b] = Replayed(events'[b]).messages
    BY <1>1, <2>5 DEF Q
  <2>11. \A r \in Receipts : (OnDisk(r)' <=> Received(r)') /\ (Received(r)' <=> Received(r)) /\ (Received(r) <=> OnDisk(r))
    BY <1>6, <2>10, WhatIsSaved DEF LogsInv, Received
  <2> QED BY <1>2, <2>4, <2>9, <2>10, <2>11 DEF LogsInv, Q
<1> QED BY <1>5, <1>6

-----------------------------------------------------------------------------
(* The checkpoints.                                                         *)

\* What ClaimOK asks of what a summary was made from and of a batch.
Tells(c) ==
  \E last \in c.batch :
    /\ \A n \in c.batch : n <= last
    /\ c.covered < last
    /\ \A n \in SeqsOf(messages[Owner]) : n <= last => n \in MadeFrom(c) \cup c.batch
    /\ \A n \in MadeFrom(c) \cup c.batch : n \in SeqsOf(messages[Owner]) /\ n <= last
    /\ \E n \in SeqsOf(messages[Owner]) : last + Window <= n

LEMMA NumbersOfTheOwner ==
  ASSUME LogsInv
  PROVE  /\ messages[Owner] \in Seq(Items) /\ SeqsOf(messages[Owner]) \subseteq 1 .. MaxSeq
         /\ MaxSeq \in Nat /\ Window \in Nat \ {0} /\ Batch \in Nat \ {0}
         /\ session \in SessionRecord /\ session.summary \in SUBSET Nat /\ session.cut \in SUBSET Nat
         /\ session.covered \in Nat
         /\ session.version \in Nat
         /\ \A n \in SeqsOf(messages[Owner]) : n \in Nat
<1>1. messages[Owner] \in Seq(Items) /\ session \in SessionRecord /\ MaxSeq \in Nat
  BY DEF LogsInv, LogTypes
<1>2. SeqsOf(messages[Owner]) \subseteq 1 .. MaxSeq
  BY <1>1, NumbersOfItems
<1> QED BY <1>1, <1>2 DEF SessionRecord

\* The next batch is the lower end of what no summary covers: with what the summary was
\* made from it is all that is not above it, and the window stays.
LEMMA NextBatchTells ==
  ASSUME LogsInv, Due, NEW c, c.summary = session.summary, c.cut = session.cut,
         c.batch = NextBatch, c.covered = session.covered
  PROVE  Tells(c) /\ NextBatch \in SUBSET Nat
<1> DEFINE M == SeqsOf(messages[Owner])
           At(n) == {p \in Uncovered : p <= n}
<1>1. /\ M \subseteq 1 .. MaxSeq /\ \A n \in M : n \in Nat
      /\ MaxSeq \in Nat /\ Window \in Nat /\ Batch \in Nat /\ session.covered \in Nat
  BY NumbersOfTheOwner
<1>2. /\ Uncovered = {n \in M : n > session.covered /\ n <= Boundary}
      /\ NextBatch = {n \in Uncovered : Cardinality(At(n)) <= Batch} /\ NextBatch # {}
  BY DEF Uncovered, NextBatch, Due
<1>3. Boundary + Window \in M /\ Boundary \in Int
  <2>1. messages[Owner] \in Seq(Items) /\ messages[Owner] # <<>>
    BY NumbersOfTheOwner DEF Due
  <2>2. Len(messages[Owner]) \in DOMAIN messages[Owner]
    BY <2>1
  <2>3. Last(messages[Owner]).seq \in M
    BY <2>1, <2>2, NumbersOfItems DEF Last
  <2> QED BY <1>1, <2>3 DEF Boundary
<1>4. IsFiniteSet(Uncovered) /\ Uncovered \subseteq M
  <2>1. IsFiniteSet(1 .. MaxSeq)
    <3>1. 1 \in Int /\ MaxSeq \in Int
      BY <1>1
    <3> QED BY <3>1, FS_Interval
  <2> QED BY <1>1, <1>2, <2>1, FS_Subset
<1>6. NextBatch \in SUBSET (0 .. MaxSeq) /\ NextBatch \subseteq Uncovered
  <2>1. NextBatch \subseteq Uncovered
    <3> HIDE DEF At
    <3> QED BY <1>2
  <2>2. 1 .. MaxSeq \subseteq 0 .. MaxSeq
    BY <1>1
  <2> QED BY <1>1, <1>4, <2>1, <2>2
<1> HIDE DEF M
<1>5. ASSUME NEW n \in NextBatch, NEW m \in Uncovered, m <= n PROVE m \in NextBatch
  <2>0. m \in Nat /\ n \in Nat /\ \A p \in Uncovered : p \in Nat
    BY <1>1, <1>4, <1>5, <1>6
  <2>4. \A p \in Uncovered : p <= m => p <= n
    BY <1>5, <2>0
  <2>1. At(m) \subseteq At(n) /\ At(n) \subseteq Uncovered
    BY <2>4
  <2>2. IsFiniteSet(At(n)) /\ IsFiniteSet(At(m)) /\ Cardinality(At(m)) <= Cardinality(At(n))
    BY <1>4, <2>1, FS_Subset
  <2>3. Cardinality(At(m)) \in Nat /\ Cardinality(At(n)) \in Nat
    BY <2>2, FS_CardinalityType
  <2> QED BY <1>1, <1>2, <1>5, <2>2, <2>3
<1>7. Max(NextBatch) \in NextBatch /\ \A n \in NextBatch : n <= Max(NextBatch)
  BY <1>1, <1>2, <1>6, MaxIsLargest
<1> DEFINE last == Max(NextBatch)
<1> HIDE DEF last, At
<1>8. last \in NextBatch /\ last \in Uncovered /\ last \in Nat /\ \A n \in NextBatch : n <= last
  <2>1. last \in NextBatch /\ \A n \in NextBatch : n <= last
    BY <1>7 DEF last
  <2>2. last \in Uncovered
    BY <1>6, <2>1
  <2>3. last \in Nat
    BY <1>1, <1>4, <2>2
  <2> QED BY <2>1, <2>2, <2>3
<1>9. session.covered < last /\ last <= Boundary
  BY <1>2, <1>8
<1>10. ASSUME NEW n \in M, n <= last PROVE n \in MadeFrom(session) \cup NextBatch
  <2>1. CASE n <= session.covered
    BY <2>1 DEF LogsInv, ContextOf, M
  <2>2. CASE ~ (n <= session.covered)
    <3>1. n \in Uncovered
      BY <1>1, <1>2, <1>3, <1>8, <1>9, <1>10, <2>2
    <3> QED BY <1>5, <1>8, <1>10, <3>1
  <2> QED BY <2>1, <2>2
<1>11. \E n \in M : last + Window <= n
  <2>1. last + Window <= Boundary + Window
    BY <1>1, <1>3, <1>8, <1>9
  <2> QED BY <1>3, <2>1
<1>12. NextBatch \in SUBSET Nat
  BY <1>1, <1>4, <1>6
<1>13. MadeFrom(c) = MadeFrom(session)
  BY DEF MadeFrom
<1>15. \A n \in M : n <= last => n \in MadeFrom(c) \cup c.batch
  BY <1>10, <1>13
<1>16. ASSUME NEW n \in MadeFrom(c) \cup c.batch PROVE n \in M /\ n <= last
  <2>1. CASE n \in c.batch
    BY <1>4, <1>6, <1>8, <2>1
  <2>2. CASE n \in MadeFrom(c)
    <3>1. n \in M /\ n <= session.covered
      BY <1>13, <2>2 DEF LogsInv, ContextOf, M
    <3>2. n \in Nat /\ session.covered \in Nat /\ last \in Nat /\ session.covered < last
      BY <1>1, <1>8, <1>9, <3>1
    <3> QED BY <3>1, <3>2
  <2> QED BY <2>1, <2>2
<1>14. /\ last \in c.batch /\ c.covered < last
       /\ \A n \in c.batch : n <= last
  BY <1>8, <1>9
<1> QED BY <1>11, <1>12, <1>14, <1>15, <1>16 DEF Tells, M

LEMMA ClaimIsTold == ClaimOK <=> /\ claim.version = session.version /\ claim.covered = session.covered
                                 /\ Tells(claim)
BY DEF ClaimOK, Tells

\* A checkpoint covers its batch and no more, whatever of it the summary tells.
LEMMA CheckpointFits ==
  ASSUME LogsInv, NEW c \in ClaimRecord, Tells(c), c.version = session.version,
         NEW summary \in Summaries(c)
  PROVE  /\ Checkpointed(c, summary) \in SessionRecord
         /\ ContextOf(messages[Owner], Checkpointed(c, summary))
         /\ Checkpointed(c, summary).version > session.version
<1> DEFINE M == SeqsOf(messages[Owner])
           made == MadeFrom(c) \cup c.batch
           next == [summary |-> summary, cut |-> made \ summary, start |-> Max(c.batch) + 1,
                    covered |-> Max(c.batch), version |-> session.version + 1]
<1>1. PICK last \in c.batch :
        /\ \A n \in c.batch : n <= last
        /\ c.covered < last
        /\ \A n \in M : n <= last => n \in made
        /\ \A n \in made : n \in M /\ n <= last
        /\ \E n \in M : last + Window <= n
  BY DEF Tells
<1>2. c.batch \in SUBSET Nat /\ c.summary \in SUBSET Nat /\ c.cut \in SUBSET Nat /\ last \in Nat
  BY DEF ClaimRecord
<1>3. Max(c.batch) = last
  <2>1. \A y \in c.batch : last >= y
    BY <1>1, <1>2
  <2>2. /\ Max(c.batch) \in c.batch
        /\ \A y \in c.batch : Max(c.batch) >= y
    BY <2>1 DEF Max
  <2>3. Max(c.batch) >= last /\ last >= Max(c.batch) /\ Max(c.batch) \in Nat
    BY <1>2, <2>1, <2>2
  <2> QED BY <1>2, <2>3
<1>4. session.version \in Nat
  BY NumbersOfTheOwner
<1>5. summary \subseteq made /\ made \in SUBSET Nat
  <2>1. summary \subseteq c.summary \cup c.batch
    BY DEF Summaries
  <2> QED BY <1>2, <2>1 DEF MadeFrom
<1>6. Checkpointed(c, summary) = next
  BY DEF Checkpointed
<1> HIDE DEF made, M
<1>7. /\ next.summary = summary /\ next.cut = made \ summary /\ next.start = last + 1
      /\ next.covered = last /\ next.version = session.version + 1
      /\ next \in SessionRecord
  <2>1. summary \in SUBSET Nat /\ made \ summary \in SUBSET Nat
    BY <1>5
  <2>2. last + 1 \in Nat /\ session.version + 1 \in Nat
    BY <1>2, <1>4
  <2> QED BY <1>2, <1>3, <2>1, <2>2 DEF SessionRecord
<1> HIDE DEF next
<1>8. MadeFrom(next) = made
  BY <1>5, <1>7 DEF MadeFrom
<1>9. ContextOf(messages[Owner], next)
  BY <1>1, <1>7, <1>8 DEF ContextOf, M
<1> QED BY <1>4, <1>6, <1>7, <1>9

LEMMA TellingGoesOn ==
  ASSUME LogsInv, NEW c \in ClaimRecord, Tells(c),
         \/ messages'[Owner] = messages[Owner]
         \/ \E i \in Items : i.seq = NextSeq(Owner) /\ messages'[Owner] = Append(messages[Owner], i)
  PROVE  Tells(c)'
<1>1. PICK last \in c.batch :
        /\ \A n \in c.batch : n <= last
        /\ c.covered < last
        /\ \A n \in SeqsOf(messages[Owner]) : n <= last => n \in MadeFrom(c) \cup c.batch
        /\ \A n \in MadeFrom(c) \cup c.batch : n \in SeqsOf(messages[Owner]) /\ n <= last
        /\ \E n \in SeqsOf(messages[Owner]) : last + Window <= n
  BY DEF Tells
<1>2. CASE messages'[Owner] = messages[Owner]
  BY <1>1, <1>2 DEF Tells
<1>3. ASSUME NEW i \in Items, i.seq = NextSeq(Owner), messages'[Owner] = Append(messages[Owner], i)
      PROVE  Tells(c)'
  <2>1. SeqsOf(messages'[Owner]) = SeqsOf(messages[Owner]) \cup {i.seq}
    BY <1>3, NumbersOfTheOwner, SeqsOfOneMore
  <2>2. /\ \A n \in SeqsOf(messages[Owner]) : n < i.seq /\ n \in Nat
        /\ i.seq \in Nat
    BY <1>3, NextSeqIsNew, NumbersOfTheOwner
  <2>3. last \in Nat /\ Window \in Nat
    BY DEF ClaimRecord
  <2>4. ~ (i.seq <= last)
    BY <1>1, <2>2, <2>3
  <2>5. /\ \A n \in SeqsOf(messages'[Owner]) : n <= last => n \in MadeFrom(c) \cup c.batch
        /\ \A n \in MadeFrom(c) \cup c.batch : n \in SeqsOf(messages'[Owner]) /\ n <= last
        /\ \E n \in SeqsOf(messages'[Owner]) : last + Window <= n
    BY <1>1, <2>1, <2>4
  <2> QED BY <1>1, <2>5 DEF Tells
<1> QED BY <1>2, <1>3

LEMMA DueStays ==
  ASSUME messages'[Owner] = messages[Owner], session' = session
  PROVE  Due' <=> Due
BY DEF Due, Boundary, NextBatch, Uncovered

LEMMA NoClaimIsTyped == NoClaim \in ClaimRecord /\ NoClaim.batch = {}
BY DEF NoClaim, ClaimRecord

LEMMA ClaimsStay ==
  ASSUME LogsInv, ClaimsInv, UNCHANGED <<claim, worker, retry, session>>,
         \/ messages'[Owner] = messages[Owner]
         \/ \E i \in Items : i.seq = NextSeq(Owner) /\ messages'[Owner] = Append(messages[Owner], i),
         writer' \in [Writers \cup Turns -> WriterStates], stalled' \in BOOLEAN, stalled => stalled',
         LongWindowsAreWorkedOn'
  PROVE  ClaimsInv'
<1>1. claim # NoClaim => ClaimOK'
  <2> SUFFICES ASSUME claim # NoClaim PROVE ClaimOK'
    OBVIOUS
  <2>1. Tells(claim) /\ claim \in ClaimRecord /\ claim.version = session.version /\ claim.covered = session.covered
    BY ClaimIsTold DEF ClaimsInv, WorkTypes
  <2>2. Tells(claim)'
    <3> DEFINE c == claim
    <3>1. claim' = c
      OBVIOUS
    <3>2. \A d \in ClaimRecord : d = claim => (Tells(d))'
      <4> TAKE d \in ClaimRecord
      <4> HAVE d = claim
      <4> QED BY <2>1, TellingGoesOn
    <3> QED BY <2>1, <3>2 DEF Tells
  <2> QED BY <2>1, <2>2 DEF ClaimOK, Tells
<1> QED BY <1>1 DEF ClaimsInv, WorkTypes, Asking

\* A look at the window leaves somebody at work on it, or the reason why not.
LEMMA LookIsOK ==
  ASSUME LogsInv, ClaimsInv, NEW free \in SUBSET Workers, \A k \in free : ~ Asking(k),
         MaybeCheckpoint(free), UNCHANGED log, retry' = retry,
         writer' \in [Writers \cup Turns -> WriterStates]
  PROVE  ClaimsInv'
<1>0. /\ claim \in ClaimRecord /\ retry \in BOOLEAN /\ stalled \in BOOLEAN
      /\ worker \in [Workers -> [pc : {"idle", "asking", "again"}, claim : ClaimRecord]]
      /\ NoClaim \in ClaimRecord
      /\ messages'[Owner] = messages[Owner] /\ session' = session
  BY NoClaimIsTyped DEF ClaimsInv, WorkTypes, log
<1>1. Due' <=> Due
  BY <1>0, DueStays
<1>2. CASE Due /\ claim = NoClaim /\ ~ retry
  <2> DEFINE c == [summary |-> session.summary, cut |-> session.cut, batch |-> NextBatch,
                   covered |-> session.covered, version |-> session.version]
  <2>1. PICK k \in free :
          /\ claim' = c /\ stalled' = FALSE
          /\ worker' = [j \in Workers |-> IF j = k THEN [pc |-> "asking", claim |-> c]
                                          ELSE IF j \in free THEN [pc |-> "idle", claim |-> NoClaim]
                                          ELSE worker[j]]
    BY <1>2 DEF MaybeCheckpoint
  <2>2. c.summary = session.summary /\ c.cut = session.cut /\ c.batch = NextBatch
        /\ c.covered = session.covered /\ c.version = session.version
    OBVIOUS
  <2>3. Tells(c) /\ NextBatch \in SUBSET Nat
    <3> HIDE DEF c
    <3> QED BY <1>2, <2>2, NextBatchTells
  <2>4. c \in ClaimRecord
    BY <2>3, NumbersOfTheOwner DEF ClaimRecord
  <2> HIDE DEF c
  <2>5. ClaimOK'
    BY <1>0, <2>1, <2>2, <2>3 DEF ClaimOK, Tells
  <2>6. \A j \in Workers : Asking(j)' => j = k
    <3> SUFFICES ASSUME NEW j \in Workers, j # k PROVE ~ Asking(j)'
      OBVIOUS
    <3>1. ~ Asking(j)
      BY <1>2 DEF ClaimsInv
    <3> QED BY <2>1, <3>1 DEF Asking
  <2>7. worker'[k] = [pc |-> "asking", claim |-> c] /\ k \in Workers
    BY <2>1
  <2>8. worker' \in [Workers -> [pc : {"idle", "asking", "again"}, claim : ClaimRecord]]
    BY <1>0, <2>1, <2>4
  <2>9. claim' # NoClaim
    BY <2>1, <2>3, NoClaimIsTyped DEF Tells
  <2>10. LongWindowsAreWorkedOn'
    BY <2>7 DEF LongWindowsAreWorkedOn
  <2>11. WorkTypes'
    BY <1>0, <2>1, <2>4, <2>8 DEF WorkTypes
  <2> QED BY <1>2, <2>1, <2>5, <2>6, <2>7, <2>9, <2>10, <2>11 DEF ClaimsInv, Asking
<1>3. CASE ~ (Due /\ claim = NoClaim /\ ~ retry)
  <2>1. /\ claim' = claim /\ stalled' = stalled
        /\ worker' = [j \in Workers |-> IF j \in free THEN [pc |-> "idle", claim |-> NoClaim] ELSE worker[j]]
    BY <1>3 DEF MaybeCheckpoint
  <2>2. WorkTypes'
    BY <1>0, <2>1 DEF WorkTypes
  <2>3. \A j \in Workers : /\ Asking(j)' <=> Asking(j)
                           /\ Asking(j) => worker'[j] = worker[j]
    BY <2>1 DEF Asking
  <2>4. claim # NoClaim => ClaimOK' /\ \E k \in Workers : Asking(k)'
    BY <1>0, <2>1, <2>3 DEF ClaimsInv, ClaimOK
  <2>5. LongWindowsAreWorkedOn'
    <3> SUFFICES ASSUME Due' PROVE stalled' \/ \E k \in Workers : Asking(k)'
      BY DEF LongWindowsAreWorkedOn, Asking
    <3> QED BY <1>0, <1>1, <1>3, <2>1, <2>4 DEF ClaimsInv
  <2> QED BY <1>0, <2>1, <2>2, <2>3, <2>4, <2>5 DEF ClaimsInv
<1> QED BY <1>2, <1>3

\* The goroutine that had the claim is done with it.
LEMMA ClaimEnds ==
  ASSUME LogsInv, ClaimsInv, NEW k \in Workers, Asking(k), claim' = NoClaim,
         NEW pc \in {"idle", "again"}, worker' = [worker EXCEPT ![k] = [pc |-> pc, claim |-> NoClaim]],
         retry' \in BOOLEAN, stalled' \in BOOLEAN, retry' => stalled', pc = "again" \/ stalled',
         writer' = writer
  PROVE  ClaimsInv'
<1>1. worker \in [Workers -> [pc : {"idle", "asking", "again"}, claim : ClaimRecord]]
  BY DEF ClaimsInv, WorkTypes
<1>2. worker'[k] = [pc |-> pc, claim |-> NoClaim] /\ \A j \in Workers : j # k => worker'[j] = worker[j]
  BY <1>1
<1>3. \A j \in Workers : ~ Asking(j)'
  BY <1>2 DEF ClaimsInv, Asking
<1>4. WorkTypes'
  BY <1>1, NoClaimIsTyped DEF ClaimsInv, WorkTypes
<1>5. LongWindowsAreWorkedOn'
  BY <1>2 DEF LongWindowsAreWorkedOn
<1> QED BY <1>3, <1>4, <1>5 DEF ClaimsInv

LEMMA TurnsStay ==
  ASSUME TurnsInv, session.version \in Nat, session'.version \in Nat,
         session' = session \/ session'.version > session.version,
         \/ turn' = turn
         \/ \E t \in Turns : \E x \in TurnRecord : /\ turn' = [turn EXCEPT ![t] = x]
                                                   /\ x.pc # "told" /\ (x.missed # {} => x.moved)
  PROVE  TurnsInv'
<1>1. turn \in [Turns -> TurnRecord] /\ \A t \in Turns : turn[t].version \in Nat
  BY DEF TurnsInv, TurnTypes, TurnRecord
<1>2. CASE turn' = turn
  BY <1>1, <1>2 DEF TurnsInv, TurnTypes, TurnsMissNothing
<1>3. ASSUME NEW t \in Turns, NEW x \in TurnRecord, turn' = [turn EXCEPT ![t] = x],
             x.pc # "told", x.missed # {} => x.moved
      PROVE  TurnsInv'
  <2>1. turn' \in [Turns -> TurnRecord] /\ turn'[t] = x /\ \A u \in Turns : u # t => turn'[u] = turn[u]
    BY <1>1, <1>3
  <2> QED BY <1>1, <1>3, <2>1 DEF TurnsInv, TurnTypes, TurnsMissNothing
<1> QED BY <1>2, <1>3

-----------------------------------------------------------------------------
(* The actions.                                                             *)

LEMMA OutboxStays ==
  ASSUME OutboxInv, outbox' = outbox, \A r \in Receipts : OnDisk(r) => OnDisk(r)'
  PROVE  OutboxInv'
BY DEF OutboxInv, OutboxTypes

LEMMA VersionsAreNumbers ==
  ASSUME LogsInv
  PROVE  session \in SessionRecord /\ session.version \in Nat /\ MadeFrom(session) \in SUBSET Nat
BY NumbersOfTheOwner DEF MadeFrom

\* A step that leaves the log, the outbox and the turns alone.
LEMMA LogAndTurnsStay ==
  ASSUME ConversationInv, UNCHANGED <<log, outbox, turn>>
  PROVE  LogsInv' /\ OutboxInv' /\ TurnsInv'
<1>1. LogsInv' /\ \A r \in Receipts : OnDisk(r)' <=> OnDisk(r)
  BY LogsStay DEF ConversationInv
<1>2. session' = session
  BY DEF log
<1>3. OutboxInv'
  BY <1>1, OutboxStays DEF ConversationInv
<1>4. TurnsInv'
  BY <1>2, TurnsStay, VersionsAreNumbers DEF ConversationInv
<1> QED BY <1>1, <1>3, <1>4

\* A step that leaves the checkpoints and what the owner reads alone.
LEMMA CheckpointsStay ==
  ASSUME LogsInv, ClaimsInv, UNCHANGED <<claim, worker, retry, writer, session>>,
         messages'[Owner] = messages[Owner], stalled' \in BOOLEAN, stalled => stalled'
  PROVE  ClaimsInv'
<1>1. Due' <=> Due
  BY DueStays
<1>2. LongWindowsAreWorkedOn'
  BY <1>1 DEF ClaimsInv, LongWindowsAreWorkedOn
<1>3. writer' \in [Writers \cup Turns -> WriterStates]
  BY DEF ClaimsInv, WorkTypes
<1> QED BY <1>2, <1>3, ClaimsStay

LEMMA ReleaseIsOK ==
  ASSUME ConversationInv, NEW k \in Workers, Release(k)
  PROVE  ConversationInv'
<1>1. Asking(k) /\ claim = worker[k].claim
  BY DEF Release, ConversationInv, ClaimsInv, Asking
<1>2. /\ claim' = NoClaim /\ retry' = TRUE /\ stalled' = TRUE /\ writer' = writer
      /\ worker' = [worker EXCEPT ![k] = [pc |-> "idle", claim |-> NoClaim]]
      /\ UNCHANGED <<log, outbox, turn>>
  BY <1>1 DEF Release, ReleaseClaim
<1>3. ClaimsInv'
  BY <1>1, <1>2, ClaimEnds DEF ConversationInv
<1> QED BY <1>2, <1>3, LogAndTurnsStay DEF ConversationInv

LEMMA CommitIsOK ==
  ASSUME ConversationInv, NEW k \in Workers, NEW ok \in BOOLEAN, Commit(k, ok)
  PROVE  ConversationInv'
<1> DEFINE c == worker[k].claim
<1>1. Asking(k) /\ claim = c /\ claim # NoClaim /\ ClaimOK /\ claim \in ClaimRecord
  BY DEF Commit, ConversationInv, ClaimsInv, Asking, WorkTypes
<1>2. Tells(c) /\ c.version = session.version /\ c.covered = session.covered /\ c \in ClaimRecord
  BY <1>1, ClaimIsTold
<1>0. PICK summary \in Summaries(c) : session' = Checkpointed(c, summary)
  BY <1>1, <1>2 DEF Commit
<1> DEFINE next == Checkpointed(c, summary)
<1>3. /\ claim' = NoClaim /\ session' = next
      /\ \/ /\ worker' = [worker EXCEPT ![k] = [pc |-> "again", claim |-> NoClaim]]
            /\ events' = [events EXCEPT ![Owner] = Append(@, CheckpointEvent(next))]
            /\ disk' = events' /\ retry' = FALSE /\ UNCHANGED stalled
         \/ /\ worker' = [worker EXCEPT ![k] = [pc |-> "idle", claim |-> NoClaim]]
            /\ retry' = TRUE /\ stalled' = TRUE /\ UNCHANGED <<events, disk>>
      /\ UNCHANGED <<messages, transcripts, writer, turn, outbox>>
  BY <1>0, <1>1, <1>2 DEF Commit
<1> HIDE DEF c
<1>4. next \in SessionRecord /\ ContextOf(messages[Owner], next) /\ next.version > session.version
  BY <1>2, CheckpointFits DEF ConversationInv
<1> HIDE DEF next
<1>5. LogsInv' /\ \A r \in Receipts : OnDisk(r)' <=> OnDisk(r)
  BY <1>3, <1>4, LogsAreCheckpointed DEF ConversationInv
<1>6. OutboxInv'
  BY <1>3, <1>5, OutboxStays DEF ConversationInv
<1>7. TurnsInv'
  <2>1. session.version \in Nat /\ session'.version \in Nat
    BY <1>3, <1>4, VersionsAreNumbers DEF ConversationInv, SessionRecord
  <2> QED BY <1>3, <1>4, <2>1, TurnsStay DEF ConversationInv
<1>8. ClaimsInv'
  <2>1. stalled \in BOOLEAN
    BY DEF ConversationInv, ClaimsInv, WorkTypes
  <2> QED BY <1>1, <1>3, <2>1, ClaimEnds DEF ConversationInv
<1> QED BY <1>5, <1>6, <1>7, <1>8 DEF ConversationInv

LEMMA LookAgainIsOK ==
  ASSUME ConversationInv, NEW k \in Workers, LookAgain(k)
  PROVE  ConversationInv'
<1>1. MaybeCheckpoint({k}) /\ UNCHANGED <<log, outbox, turn>> /\ retry' = retry /\ writer' = writer
      /\ \A j \in {k} : ~ Asking(j)
  BY DEF LookAgain, Asking
<1>2. ClaimsInv'
  <2>1. UNCHANGED log /\ {k} \in SUBSET Workers /\ writer' \in [Writers \cup Turns -> WriterStates]
    BY <1>1 DEF ConversationInv, ClaimsInv, WorkTypes
  <2> QED BY <1>1, <2>1, LookIsOK DEF ConversationInv
<1> QED BY <1>1, <1>2, LogAndTurnsStay DEF ConversationInv

LEMMA FreeOnesAreNotAsking == FreeWorkers \in SUBSET Workers /\ \A k \in FreeWorkers : ~ Asking(k)
BY DEF FreeWorkers, Asking

LEMMA CheckIsOK ==
  ASSUME ConversationInv, NEW x \in Writers \cup Turns, Check(x)
  PROVE  ConversationInv'
<1>1. /\ MaybeCheckpoint(FreeWorkers) /\ UNCHANGED <<log, outbox, turn>> /\ retry' = retry
      /\ writer' = [writer EXCEPT ![x] = "idle"]
  BY DEF Check
<1>2. ClaimsInv'
  <2>1. UNCHANGED log /\ writer' \in [Writers \cup Turns -> WriterStates]
    BY <1>1 DEF ConversationInv, ClaimsInv, WorkTypes, WriterStates
  <2> QED BY <1>1, <2>1, FreeOnesAreNotAsking, LookIsOK DEF ConversationInv
<1> QED BY <1>1, <1>2, LogAndTurnsStay DEF ConversationInv

LEMMA RetryElapsesIsOK ==
  ASSUME ConversationInv, RetryElapses
  PROVE  ConversationInv'
<1>1. UNCHANGED <<log, outbox, turn>> /\ UNCHANGED <<claim, worker, writer, stalled>> /\ retry' = FALSE
      /\ messages' = messages /\ session' = session
  BY DEF RetryElapses, log
<1>2. Due' <=> Due
  BY <1>1, DueStays
<1>3. ClaimsInv'
  BY <1>1, <1>2 DEF ConversationInv, ClaimsInv, WorkTypes, ClaimOK, Asking, LongWindowsAreWorkedOn
<1> QED BY <1>1, <1>3, LogAndTurnsStay DEF ConversationInv

\* An append to the owner's conversation by somebody who will save it, or whom nobody waits for.
LEMMA OwnersAppend ==
  ASSUME ConversationInv, NEW id \in Ids \ Receipts, NEW hidden \in BOOLEAN, AppendEvent(Owner, id, hidden),
         hidden => id \in Turns /\ InputOf(id) = {},
         UNCHANGED <<session, disk, claim, retry, worker, outbox, stalled>>,
         \/ hidden /\ writer' = writer
         \/ \E x \in Writers \cup Turns : writer' = [writer EXCEPT ![x] = "save"],
         \/ turn' = turn
         \/ \E t \in Turns : \E x \in TurnRecord : /\ turn' = [turn EXCEPT ![t] = x]
                                                   /\ x.pc # "told" /\ (x.missed # {} => x.moved)
  PROVE  ConversationInv'
<1>1. LogsInv' /\ \A r \in Receipts : OnDisk(r) => OnDisk(r)'
  BY LogsAreAppended DEF ConversationInv
<1>2. OutboxInv'
  BY <1>1, OutboxStays DEF ConversationInv
<1>3. TurnsInv'
  BY VersionsAreNumbers, TurnsStay DEF ConversationInv
<1>4. ClaimsInv'
  <2>1. \/ hidden /\ messages'[Owner] = messages[Owner]
        \/ \E i \in Items : i.seq = NextSeq(Owner) /\ messages'[Owner] = Append(messages[Owner], i)
    <3> DEFINE i == [seq |-> NextSeq(Owner), id |-> id, hidden |-> FALSE]
    <3>1. /\ messages' = IF hidden THEN messages ELSE [messages EXCEPT ![Owner] = Append(@, i)]
          /\ i \in Items /\ messages \in [Agents -> Seq(Items)]
      BY AppendIsOK, SMTT(40) DEF ConversationInv, LogsInv, LogTypes
    <3> QED BY <3>1
  <2>2. writer \in [Writers \cup Turns -> WriterStates] /\ stalled \in BOOLEAN
    BY DEF ConversationInv, ClaimsInv, WorkTypes
  <2>3. CASE hidden /\ writer' = writer
    <3>1. messages'[Owner] = messages[Owner]
      BY <2>3 DEF AppendEvent
    <3> QED BY <2>2, <2>3, <3>1, CheckpointsStay DEF ConversationInv
  <2>4. ASSUME NEW x \in Writers \cup Turns, writer' = [writer EXCEPT ![x] = "save"] PROVE ClaimsInv'
    <3>1. writer' \in [Writers \cup Turns -> WriterStates] /\ writer'[x] = "save"
      BY <2>2, <2>4 DEF WriterStates
    <3>2. LongWindowsAreWorkedOn'
      BY <3>1 DEF LongWindowsAreWorkedOn
    <3> QED BY <2>1, <2>2, <3>1, <3>2, ClaimsStay DEF ConversationInv
  <2> QED BY <2>3, <2>4
<1> QED BY <1>1, <1>2, <1>3, <1>4 DEF ConversationInv

LEMMA WriterAppendsIsOK ==
  ASSUME ConversationInv, NEW x \in Writers, WriterAppends(x)
  PROVE  ConversationInv'
<1>1. Anyone \in Ids \ Receipts
  BY DEF Ids
<1>2. AppendEvent(Owner, Anyone, FALSE) /\ FALSE \in BOOLEAN /\ writer' = [writer EXCEPT ![x] = "save"]
      /\ UNCHANGED <<session, disk, claim, retry, worker, turn, outbox, stalled>>
  BY DEF WriterAppends
<1> QED BY <1>1, <1>2, OwnersAppend

LEMMA WriterNotesIsOK ==
  ASSUME ConversationInv, NEW x \in Writers, WriterNotes(x)
  PROVE  ConversationInv'
<1>1. /\ writer[x] = "idle" /\ writer' = [writer EXCEPT ![x] = "note"]
      /\ UNCHANGED <<log, outbox, turn>> /\ UNCHANGED <<claim, worker, retry, stalled>>
      /\ messages' = messages /\ session' = session
  BY DEF WriterNotes, log
<1>2. ClaimsInv'
  <2>1. writer \in [Writers \cup Turns -> WriterStates] /\ stalled \in BOOLEAN /\ x \in Writers \cup Turns
    BY DEF ConversationInv, ClaimsInv, WorkTypes
  <2>2. /\ writer' \in [Writers \cup Turns -> WriterStates]
        /\ \A y \in Writers \cup Turns : writer[y] \in {"save", "check"} => writer'[y] = writer[y]
    BY <1>1, <2>1 DEF WriterStates
  <2>3. Due' <=> Due
    BY <1>1, DueStays
  <2>4. LongWindowsAreWorkedOn'
    BY <1>1, <2>2, <2>3 DEF ConversationInv, ClaimsInv, LongWindowsAreWorkedOn
  <2> QED BY <1>1, <2>1, <2>2, <2>4, ClaimsStay DEF ConversationInv
<1> QED BY <1>1, <1>2, LogAndTurnsStay DEF ConversationInv

\* A save, whoever makes it, saves what the memory has.
LEMMA SaveIsOK ==
  ASSUME ConversationInv, disk' \in {disk, events}, UNCHANGED <<events, messages, transcripts, session, outbox>>,
         \/ turn' = turn
         \/ \E t \in Turns : \E x \in TurnRecord : /\ turn' = [turn EXCEPT ![t] = x]
                                                   /\ x.pc # "told" /\ (x.missed # {} => x.moved)
  PROVE  LogsInv' /\ OutboxInv' /\ TurnsInv'
<1>1. LogsInv' /\ \A r \in Receipts : OnDisk(r)' <=> OnDisk(r)
  BY LogsAreSaved DEF ConversationInv
<1>2. OutboxInv'
  BY <1>1, OutboxStays DEF ConversationInv
<1>3. TurnsInv'
  BY VersionsAreNumbers, TurnsStay DEF ConversationInv
<1> QED BY <1>1, <1>2, <1>3

LEMMA PersistIsOK ==
  ASSUME ConversationInv, NEW x \in Writers \cup Turns, NEW ok \in BOOLEAN, Persist(x, ok)
  PROVE  ConversationInv'
<1>1. /\ disk' \in {disk, events} /\ UNCHANGED <<events, messages, transcripts, session, outbox>>
      /\ turn' = turn /\ UNCHANGED <<claim, worker, retry>>
      /\ writer' = [writer EXCEPT ![x] = IF ok /\ writer[x] = "save" THEN "check" ELSE "idle"]
      /\ stalled' = (stalled \/ (writer[x] = "save" /\ ~ ok))
      /\ writer[x] \in {"save", "note"}
  BY DEF Persist, Save
<1>2. LogsInv' /\ OutboxInv' /\ TurnsInv'
  BY <1>1, SaveIsOK
<1>3. ClaimsInv'
  <2>1. writer \in [Writers \cup Turns -> WriterStates] /\ stalled \in BOOLEAN
    BY DEF ConversationInv, ClaimsInv, WorkTypes
  <2>2. /\ writer' \in [Writers \cup Turns -> WriterStates]
        /\ \A y \in Writers \cup Turns : y # x => writer'[y] = writer[y]
        /\ writer'[x] = IF ok /\ writer[x] = "save" THEN "check" ELSE "idle"
    BY <1>1, <2>1 DEF WriterStates
  <2>3. Due' <=> Due
    BY <1>1, DueStays
  <2>4. stalled' \in BOOLEAN /\ (stalled => stalled') /\ (writer[x] = "save" /\ ~ ok => stalled')
    BY <1>1, <2>1, Zenon
  <2>5. LongWindowsAreWorkedOn'
    <3> SUFFICES ASSUME Due'
                 PROVE  \/ \E k \in Workers : worker[k].pc \in {"asking", "again"}
                        \/ \E y \in Writers \cup Turns : writer'[y] \in {"save", "check"}
                        \/ stalled'
      BY <1>1 DEF LongWindowsAreWorkedOn
    <3>1. CASE \E k \in Workers : worker[k].pc \in {"asking", "again"}
      BY <3>1
    <3>2. ASSUME NEW y \in Writers \cup Turns, writer[y] \in {"save", "check"}
          PROVE  (\E z \in Writers \cup Turns : writer'[z] \in {"save", "check"}) \/ stalled'
      BY <1>1, <2>2, <2>4, <3>2
    <3>3. CASE stalled
      BY <2>4, <3>3
    <3> QED BY <2>3, <3>1, <3>2, <3>3 DEF ConversationInv, ClaimsInv, LongWindowsAreWorkedOn
  <2> QED BY <1>1, <2>2, <2>4, <2>5, ClaimsStay DEF ConversationInv
<1> QED BY <1>2, <1>3 DEF ConversationInv

-----------------------------------------------------------------------------
(* The turns.                                                               *)

LEMMA TurnParts ==
  ASSUME ConversationInv, NEW t \in Turns
  PROVE  /\ turn[t] \in TurnRecord /\ turn[t].tries \in Nat /\ turn[t].seq \in Nat
         /\ Over(turn[t]) \in TurnRecord /\ Over(turn[t]).pc = "over" /\ Over(turn[t]).missed = {}
         /\ \A n \in Nat : NewTurn(n) \in TurnRecord /\ NewTurn(n).pc = "new" /\ NewTurn(n).missed = {}
<1>1. turn[t] \in TurnRecord
  BY DEF ConversationInv, TurnsInv, TurnTypes
<1>2. turn[t].tries \in Nat /\ turn[t].seq \in Nat
  BY <1>1 DEF TurnRecord
<1> QED BY <1>1, <1>2 DEF TurnRecord, Over, NewTurn

\* A turn that goes on without having been told keeps what it missed.
LEMMA TurnGoesOn ==
  ASSUME ConversationInv, NEW t \in Turns,
         NEW pc \in {"new", "input", "prompt", "state", "talking", "over"}, NEW n \in Nat
  PROVE  /\ [turn[t] EXCEPT !.pc = pc] \in TurnRecord
         /\ [turn[t] EXCEPT !.pc = pc].pc = pc
         /\ [turn[t] EXCEPT !.pc = pc].missed # {} => [turn[t] EXCEPT !.pc = pc].moved
         /\ [turn[t] EXCEPT !.pc = pc, !.seq = n] \in TurnRecord
         /\ [turn[t] EXCEPT !.pc = pc, !.seq = n].pc = pc
         /\ [turn[t] EXCEPT !.pc = pc, !.seq = n].missed # {} => [turn[t] EXCEPT !.pc = pc, !.seq = n].moved
<1>1. turn[t] \in TurnRecord /\ (turn[t].missed # {} => turn[t].moved)
  BY DEF ConversationInv, TurnsInv, TurnTypes, TurnsMissNothing
<1> QED BY <1>1 DEF TurnRecord

LEMMA StartDirectIsOK ==
  ASSUME ConversationInv, NEW t \in Turns, StartDirect(t)
  PROVE  ConversationInv'
<1> DEFINE x == [turn[t] EXCEPT !.pc = "prompt", !.seq = NextSeq(Owner)]
<1>1. NextSeq(Owner) \in Nat
  BY NextSeqIsNew DEF ConversationInv
<1>2. x \in TurnRecord /\ x.pc # "told" /\ (x.missed # {} => x.moved)
  BY <1>1, TurnGoesOn, ZenonT(60)
<1>3. turn' = [turn EXCEPT ![t] = x]
  BY DEF StartDirect, ConversationInv, TurnsInv, TurnTypes
<1> HIDE DEF x
<1>4. t \in Ids \ Receipts /\ t \in Writers \cup Turns
  BY DEF Ids
<1>5. AppendEvent(Owner, t, FALSE) /\ FALSE \in BOOLEAN /\ writer' = [writer EXCEPT ![t] = "save"]
      /\ UNCHANGED <<session, disk, claim, retry, worker, outbox, stalled>>
  BY DEF StartDirect
<1> QED BY <1>2, <1>3, <1>4, <1>5, OwnersAppend

LEMMA OnlyTurnsStep ==
  ASSUME ConversationInv, UNCHANGED <<log, claim, retry, worker, writer, outbox, stalled>>, TurnsInv'
  PROVE  ConversationInv'
<1>1. LogsInv' /\ \A r \in Receipts : OnDisk(r)' <=> OnDisk(r)
  BY LogsStay DEF ConversationInv
<1>2. OutboxInv'
  BY <1>1, OutboxStays DEF ConversationInv
<1>3. session' = session /\ messages' = messages /\ stalled \in BOOLEAN
  BY DEF log, ConversationInv, ClaimsInv, WorkTypes
<1>4. ClaimsInv'
  BY <1>3, CheckpointsStay DEF ConversationInv
<1> QED BY <1>1, <1>2, <1>4 DEF ConversationInv

\* The usual step of a turn: to a state that misses nothing.
LEMMA TurnStepIsOK ==
  ASSUME ConversationInv, UNCHANGED <<log, claim, retry, worker, writer, outbox, stalled>>,
         NEW t \in Turns, NEW x \in TurnRecord, turn' = [turn EXCEPT ![t] = x],
         x.pc # "told", x.missed # {} => x.moved
  PROVE  ConversationInv'
<1>1. session' = session
  BY DEF log
<1>2. TurnsInv'
  BY <1>1, TurnsStay, VersionsAreNumbers DEF ConversationInv
<1> QED BY <1>2, OnlyTurnsStep

LEMMA StartScheduledIsOK ==
  ASSUME ConversationInv, NEW t \in Turns, StartScheduled(t)
  PROVE  ConversationInv'
<1>1. CASE InputOf(t) = {} /\ AppendEvent(Owner, t, TRUE)
           /\ turn' = [turn EXCEPT ![t].pc = "input", ![t].seq = NextSeq(Owner)]
  <2> DEFINE x == [turn[t] EXCEPT !.pc = "input", !.seq = NextSeq(Owner)]
  <2>1. NextSeq(Owner) \in Nat
    BY NextSeqIsNew DEF ConversationInv
  <2>2. x \in TurnRecord /\ x.pc # "told" /\ (x.missed # {} => x.moved)
    BY <2>1, TurnGoesOn, ZenonT(60)
  <2>3. turn' = [turn EXCEPT ![t] = x]
    BY <1>1 DEF ConversationInv, TurnsInv, TurnTypes
  <2> HIDE DEF x
  <2>4. t \in Ids \ Receipts
    BY DEF Ids
  <2>5. TRUE \in BOOLEAN /\ writer' = writer /\ UNCHANGED <<session, disk, claim, retry, worker, outbox, stalled>>
    BY DEF StartScheduled
  <2> QED BY <1>1, <2>2, <2>3, <2>4, <2>5, OwnersAppend
<1>2. ASSUME NEW i \in InputOf(t), turn' = [turn EXCEPT ![t].pc = "input", ![t].seq = i.seq],
             UNCHANGED <<events, messages, transcripts>>
      PROVE  ConversationInv'
  <2> DEFINE x == [turn[t] EXCEPT !.pc = "input", !.seq = i.seq]
  <2>1. i.seq \in Nat
    <3>1. i \in Range(transcripts[Owner]) /\ transcripts[Owner] \in Seq(Items)
      BY DEF InputOf, ConversationInv, LogsInv, LogTypes
    <3> QED BY <3>1, ItemFacts DEF Range
  <2>2. x \in TurnRecord /\ x.pc # "told" /\ (x.missed # {} => x.moved)
    BY <2>1, TurnGoesOn, ZenonT(60)
  <2>3. turn' = [turn EXCEPT ![t] = x]
    BY <1>2 DEF ConversationInv, TurnsInv, TurnTypes
  <2> HIDE DEF x
  <2>4. UNCHANGED <<log, claim, retry, worker, writer, outbox, stalled>>
    BY <1>2 DEF StartScheduled, log
  <2> QED BY <2>2, <2>3, <2>4, TurnStepIsOK
<1> QED BY <1>1, <1>2 DEF StartScheduled

LEMMA SaveInputIsOK ==
  ASSUME ConversationInv, NEW t \in Turns, NEW ok \in BOOLEAN, SaveInput(t, ok)
  PROVE  ConversationInv'
<1> DEFINE x == IF ok THEN [turn[t] EXCEPT !.pc = "prompt"] ELSE Over(turn[t])
<1>1. x \in TurnRecord /\ x.pc # "told" /\ (x.missed # {} => x.moved)
  <2>1. CASE ok
    <3>1. 0 \in Nat
      OBVIOUS
    <3> QED BY <2>1, <3>1, TurnGoesOn
  <2>2. CASE ~ ok
    BY <2>2, TurnParts
  <2> QED BY <2>1, <2>2
<1>2. turn' = [turn EXCEPT ![t] = x]
  BY DEF SaveInput
<1> HIDE DEF x
<1>3. /\ disk' \in {disk, events} /\ UNCHANGED <<events, messages, transcripts, session, outbox>>
      /\ UNCHANGED <<claim, retry, worker, writer, stalled>>
  BY DEF SaveInput, Save
<1>4. LogsInv' /\ OutboxInv' /\ TurnsInv'
  BY <1>1, <1>2, <1>3, SaveIsOK
<1>5. ClaimsInv'
  <2>1. stalled \in BOOLEAN
    BY DEF ConversationInv, ClaimsInv, WorkTypes
  <2> QED BY <1>3, <2>1, CheckpointsStay DEF ConversationInv
<1> QED BY <1>4, <1>5 DEF ConversationInv

LEMMA RetryIsOK ==
  ASSUME ConversationInv, NEW t \in Turns, Retry(t)
  PROVE  ConversationInv'
<1> DEFINE x == NewTurn(turn[t].tries + 1)
<1>1. x \in TurnRecord /\ x.pc # "told" /\ (x.missed # {} => x.moved)
  <2>1. turn[t].tries + 1 \in Nat
    BY TurnParts
  <2> QED BY <2>1, TurnParts
<1> HIDE DEF x
<1>2. turn' = [turn EXCEPT ![t] = x] /\ UNCHANGED <<log, claim, retry, worker, writer, outbox, stalled>>
  BY DEF Retry, x
<1> QED BY <1>1, <1>2, TurnStepIsOK

LEMMA TurnEndsIsOK ==
  ASSUME ConversationInv, NEW t \in Turns, TurnEnds(t)
  PROVE  ConversationInv'
<1> DEFINE x == Over(turn[t])
<1>1. x \in TurnRecord /\ x.pc # "told" /\ (x.missed # {} => x.moved)
  BY TurnParts
<1> HIDE DEF x
<1>2. turn' = [turn EXCEPT ![t] = x] /\ UNCHANGED <<log, claim, retry, worker, writer, outbox, stalled>>
  BY DEF TurnEnds, x
<1> QED BY <1>1, <1>2, TurnStepIsOK

LEMMA PromptIsOK ==
  ASSUME ConversationInv, NEW t \in Turns, Prompt(t)
  PROVE  ConversationInv'
<1> DEFINE x == [turn[t] EXCEPT !.pc = "state"]
<1>1. x \in TurnRecord /\ x.pc # "told" /\ (x.missed # {} => x.moved)
  <2>1. 0 \in Nat
    OBVIOUS
  <2> QED BY <2>1, TurnGoesOn
<1> HIDE DEF x
<1>2. /\ turn' = [turn EXCEPT ![t] = x] /\ MaybeCheckpoint(FreeWorkers)
      /\ UNCHANGED <<log, outbox>> /\ retry' = retry /\ writer' = writer
  BY DEF Prompt, Goes, x
<1>3. LogsInv' /\ \A r \in Receipts : OnDisk(r)' <=> OnDisk(r)
  BY <1>2, LogsStay DEF ConversationInv
<1>4. OutboxInv'
  BY <1>2, <1>3, OutboxStays DEF ConversationInv
<1>5. TurnsInv'
  <2>1. session' = session
    BY <1>2 DEF log
  <2> QED BY <1>1, <1>2, <2>1, TurnsStay, VersionsAreNumbers DEF ConversationInv
<1>6. ClaimsInv'
  <2>1. UNCHANGED log /\ writer' \in [Writers \cup Turns -> WriterStates]
    BY <1>2 DEF ConversationInv, ClaimsInv, WorkTypes
  <2> QED BY <1>2, <2>1, FreeOnesAreNotAsking, LookIsOK DEF ConversationInv
<1> QED BY <1>3, <1>4, <1>5, <1>6 DEF ConversationInv

LEMMA ReadSummaryIsOK ==
  ASSUME ConversationInv, NEW t \in Turns, ReadSummary(t)
  PROVE  ConversationInv'
<1> DEFINE x == [turn[t] EXCEPT !.pc = "told", !.told = MadeFrom(session), !.version = session.version]
<1>1. /\ turn \in [Turns -> TurnRecord] /\ (turn[t].missed # {} => turn[t].moved)
      /\ session.version \in Nat /\ MadeFrom(session) \in SUBSET Nat
  BY VersionsAreNumbers DEF ConversationInv, TurnsInv, TurnTypes, TurnsMissNothing
<1>2. /\ x \in TurnRecord /\ (x.missed # {} => x.moved)
      /\ x.told = MadeFrom(session) /\ x.version = session.version
  BY <1>1 DEF TurnRecord
<1>3. turn' = [turn EXCEPT ![t] = x]
  BY <1>1 DEF ReadSummary
<1> HIDE DEF x
<1>4. /\ UNCHANGED <<log, claim, retry, worker, writer, outbox, stalled>> /\ session' = session
  BY DEF ReadSummary, log
<1>5. turn' \in [Turns -> TurnRecord] /\ turn'[t] = x /\ \A u \in Turns : u # t => turn'[u] = turn[u]
  BY <1>1, <1>2, <1>3
<1>6. TurnsInv'
  BY <1>1, <1>2, <1>4, <1>5 DEF ConversationInv, TurnsInv, TurnTypes, TurnsMissNothing
<1> QED BY <1>4, <1>6, OnlyTurnsStep

\* What the summary of the same version was not made from is in the history.
LEMMA ReadHistoryIsOK ==
  ASSUME ConversationInv, NEW t \in Turns, ReadHistory(t)
  PROVE  ConversationInv'
<1> DEFINE before == {i.seq : i \in {j \in Range(messages[Owner]) : j.id # t /\ j.seq < turn[t].seq}}
           x == [turn[t] EXCEPT !.pc = "talking", !.missed = before \ (turn[t].told \cup Delta),
                                !.told = {}, !.version = 0, !.moved = session.version # turn[t].version]
<1>1. /\ turn[t].pc = "told" /\ turn \in [Turns -> TurnRecord]
      /\ UNCHANGED <<log, claim, retry, worker, writer, outbox, stalled>>
      /\ turn[t].version <= session.version
      /\ turn[t].version = session.version => turn[t].told = MadeFrom(session)
  BY DEF ReadHistory, ConversationInv, TurnsInv, TurnTypes
<1>2. CASE turn[t].seq \in Delta
  <2>1. before \subseteq SeqsOf(messages[Owner]) /\ \A n \in SeqsOf(messages[Owner]) : n \in Nat
    BY NumbersOfTheOwner DEF SeqsOf, ConversationInv
  <2>2. SeqsOf(messages[Owner]) \subseteq SeqsOf(transcripts[Owner])
    <3>1. Range(messages[Owner]) \subseteq Range(transcripts[Owner])
      BY DEF ConversationInv, LogsInv, LogsOK, ProjectionOK
    <3> QED BY <3>1 DEF SeqsOf
  <2>3. ContextOf(messages[Owner], session) /\ session.covered \in Nat
    BY NumbersOfTheOwner DEF ConversationInv, LogsInv
  <2>4. ASSUME turn[t].version = session.version, NEW n \in before PROVE n \in turn[t].told \cup Delta
    <3>1. n \in SeqsOf(messages[Owner]) /\ n \in SeqsOf(transcripts[Owner]) /\ n \in Nat
      BY <2>1, <2>2, <2>4
    <3>2. n <= session.covered => n \in MadeFrom(session)
      BY <2>3, <3>1 DEF ContextOf
    <3>3. n >= session.start \/ n <= session.covered
      BY <2>3, <3>1 DEF ContextOf
    <3> QED BY <1>1, <2>4, <3>1, <3>2, <3>3 DEF Delta
  <2>5. turn' = [turn EXCEPT ![t] = x]
    BY <1>1, <1>2 DEF ReadHistory
  <2>6. x \in TurnRecord /\ x.pc # "told" /\ (x.missed # {} => x.moved)
    <3>1. before \in SUBSET Nat
      BY <2>1
    <3>2. (before \ (turn[t].told \cup Delta)) # {} => session.version # turn[t].version
      BY <2>4
    <3> HIDE DEF before
    <3>3. /\ x.pc = "talking" /\ x.missed = before \ (turn[t].told \cup Delta)
          /\ x.moved = (session.version # turn[t].version) /\ x \in TurnRecord
      <4> DEFINE s == turn[t]
                 m == before \ (turn[t].told \cup Delta)
                 b == session.version # turn[t].version
                 X(u, v, w) == [u EXCEPT !.pc = "talking", !.missed = v, !.told = {}, !.version = 0, !.moved = w]
      <4>1. s \in TurnRecord /\ m \in SUBSET Nat /\ b \in BOOLEAN
        BY <1>1, <3>1
      <4>2. x = X(s, m, b)
        BY Zenon
      <4> HIDE DEF s, m, b, x
      <4>3. \A v \in SUBSET Nat, w \in BOOLEAN :
              X(s, v, w).pc = "talking" /\ X(s, v, w).missed = v /\ X(s, v, w).moved = w /\ X(s, v, w) \in TurnRecord
        <5> TAKE v \in SUBSET Nat, w \in BOOLEAN
        <5>1. s \in TurnRecord
          BY <4>1
        <5>2. X(s, v, w) \in TurnRecord
          BY <5>1 DEF TurnRecord
        <5>3. X(s, v, w).pc = "talking"
          BY <5>1 DEF TurnRecord
        <5>4. X(s, v, w).missed = v
          BY <5>1 DEF TurnRecord
        <5>5. X(s, v, w).moved = w
          BY <5>1 DEF TurnRecord
        <5> QED BY <5>2, <5>3, <5>4, <5>5
      <4> HIDE DEF X
      <4>4. x.pc = "talking" /\ x.missed = m /\ x.moved = b /\ x \in TurnRecord
        BY <4>1, <4>2, <4>3, Zenon
      <4> USE DEF m, b
      <4> HIDE DEF x
      <4> QED BY <4>4, Zenon
    <3> HIDE DEF x
    <3>4. x.missed # {} => x.moved
      BY <3>2, <3>3
    <3> QED BY <3>3, <3>4
  <2> HIDE DEF x
  <2> QED BY <1>1, <2>5, <2>6, TurnStepIsOK
<1>3. CASE turn[t].seq \notin Delta
  <2> DEFINE y == Over(turn[t])
  <2>1. y \in TurnRecord /\ y.pc # "told" /\ (y.missed # {} => y.moved)
    BY TurnParts
  <2>2. turn' = [turn EXCEPT ![t] = y]
    BY <1>3 DEF ReadHistory
  <2> HIDE DEF y
  <2> QED BY <1>1, <2>1, <2>2, TurnStepIsOK
<1> QED BY <1>2, <1>3

LEMMA TurnSpeaksIsOK ==
  ASSUME ConversationInv, NEW t \in Turns, TurnSpeaks(t)
  PROVE  ConversationInv'
<1>1. t \in Ids \ Receipts /\ t \in Writers \cup Turns
  BY DEF Ids
<1>2. AppendEvent(Owner, t, FALSE) /\ FALSE \in BOOLEAN /\ writer' = [writer EXCEPT ![t] = "save"]
      /\ UNCHANGED <<session, disk, claim, retry, worker, turn, outbox, stalled>>
  BY DEF TurnSpeaks
<1> QED BY <1>1, <1>2, OwnersAppend

-----------------------------------------------------------------------------
(* Receipts and restarts.                                                   *)

LEMMA OwnerComesAndGoesIsOK ==
  ASSUME ConversationInv, OwnerComesAndGoes
  PROVE  ConversationInv'
<1>1. UNCHANGED <<log, claim, retry, worker, writer, turn, outbox, stalled>>
  BY DEF OwnerComesAndGoes
<1>2. TurnsInv'
  BY <1>1, LogAndTurnsStay
<1> QED BY <1>1, <1>2, OnlyTurnsStep

LEMMA AdmitIsOK ==
  ASSUME ConversationInv, NEW r \in Receipts, NEW ok \in BOOLEAN, Admit(r, ok)
  PROVE  ConversationInv'
<1>1. /\ UNCHANGED <<claim, retry, worker, writer, turn>> /\ stalled \in BOOLEAN
      /\ outbox \in [Receipts -> {"pending", "admitted", "acknowledged"}]
  BY DEF Admit, ConversationInv, ClaimsInv, WorkTypes, OutboxInv, OutboxTypes
<1>2. CASE /\ Received(r) /\ outbox' = [outbox EXCEPT ![r] = "admitted"]
           /\ UNCHANGED <<log, stalled>>
  <2>1. LogsInv' /\ \A q \in Receipts : OnDisk(q)' <=> OnDisk(q)
    BY <1>2, LogsStay DEF ConversationInv
  <2>2. OnDisk(r)
    BY <1>2 DEF ConversationInv, LogsInv
  <2>3. OutboxInv'
    BY <1>1, <1>2, <2>1, <2>2 DEF ConversationInv, OutboxInv, OutboxTypes
  <2>4. session' = session /\ messages' = messages /\ stalled' = stalled
    BY <1>2 DEF log
  <2>5. ClaimsInv'
    BY <1>1, <2>4, CheckpointsStay DEF ConversationInv
  <2>6. TurnsInv'
    BY <1>1, <2>4, TurnsStay, VersionsAreNumbers DEF ConversationInv
  <2> QED BY <2>1, <2>3, <2>5, <2>6 DEF ConversationInv
<1>3. CASE /\ ~ Received(r) /\ AppendEvent(Recipient, r, FALSE) /\ disk' = events'
           /\ outbox' = [outbox EXCEPT ![r] = "admitted"]
           /\ stalled' = (stalled \/ Recipient = Owner)
           /\ session' = session
  <2>1. Recipient \in Agents /\ r \in Ids /\ FALSE \in BOOLEAN
    BY DEF Recipient, Ids
  <2>2. LogsInv' /\ \A q \in Receipts : OnDisk(q)' <=> OnDisk(q) \/ (q = r)
    BY <1>3, <2>1, LogsAreAppended DEF ConversationInv
  <2>3. OutboxInv'
    BY <1>1, <1>3, <2>2 DEF ConversationInv, OutboxInv, OutboxTypes
  <2>4. TurnsInv'
    BY <1>1, <1>3, TurnsStay, VersionsAreNumbers DEF ConversationInv
  <2>5. stalled' \in BOOLEAN /\ (stalled => stalled') /\ (Recipient = Owner => stalled')
    BY <1>1, <1>3, Zenon
  <2>6. ClaimsInv'
    <3>1. CASE Recipient = Owner
      <4> DEFINE i == [seq |-> NextSeq(Owner), id |-> r, hidden |-> FALSE]
      <4>1. /\ messages' = [messages EXCEPT ![Owner] = Append(@, i)]
            /\ i \in Items /\ messages \in [Agents -> Seq(Items)]
        BY <1>3, <2>1, <3>1, AppendIsOK DEF ConversationInv, LogsInv, LogTypes
      <4>2. \E j \in Items : j.seq = NextSeq(Owner) /\ messages'[Owner] = Append(messages[Owner], j)
        BY <4>1
      <4>3. LongWindowsAreWorkedOn'
        BY <2>5, <3>1 DEF LongWindowsAreWorkedOn
      <4>4. writer' \in [Writers \cup Turns -> WriterStates]
        BY <1>1 DEF ConversationInv, ClaimsInv, WorkTypes
      <4> QED BY <1>1, <1>3, <2>5, <4>2, <4>3, <4>4, ClaimsStay DEF ConversationInv
    <3>2. CASE Recipient # Owner
      <4>1. messages'[Owner] = messages[Owner]
        BY <1>3, <2>1, <3>2 DEF AppendEvent, ConversationInv, LogsInv, LogTypes
      <4> QED BY <1>1, <1>3, <2>5, <4>1, CheckpointsStay DEF ConversationInv
    <3> QED BY <3>1, <3>2
  <2> QED BY <2>2, <2>3, <2>4, <2>6 DEF ConversationInv
<1>4. CASE UNCHANGED <<log, outbox, stalled>>
  <2>1. TurnsInv'
    BY <1>1, <1>4, LogAndTurnsStay
  <2> QED BY <1>1, <1>4, <2>1, OnlyTurnsStep
<1> QED BY <1>2, <1>3, <1>4 DEF Admit

LEMMA AcknowledgeIsOK ==
  ASSUME ConversationInv, NEW r \in Receipts, NEW ok \in BOOLEAN, Acknowledge(r, ok)
  PROVE  ConversationInv'
<1>1. /\ UNCHANGED <<log, claim, retry, worker, writer, turn, stalled>> /\ stalled \in BOOLEAN
      /\ outbox[r] = "admitted" /\ outbox' = [outbox EXCEPT ![r] = IF ok THEN "acknowledged" ELSE "pending"]
      /\ session' = session /\ messages' = messages
  BY DEF Acknowledge, ConversationInv, ClaimsInv, WorkTypes, log
<1>2. LogsInv' /\ \A q \in Receipts : OnDisk(q)' <=> OnDisk(q)
  BY <1>1, LogsStay DEF ConversationInv
<1>3. OutboxInv'
  BY <1>1, <1>2 DEF ConversationInv, OutboxInv, OutboxTypes
<1>4. ClaimsInv'
  BY <1>1, CheckpointsStay DEF ConversationInv
<1>5. TurnsInv'
  BY <1>1, TurnsStay, VersionsAreNumbers DEF ConversationInv
<1> QED BY <1>2, <1>3, <1>4, <1>5 DEF ConversationInv

\* A restart has the file's conversation, and nobody works on it.
LEMMA RestartIsOK ==
  ASSUME ConversationInv, Restart
  PROVE  ConversationInv'
<1>1. LogsInv' /\ \A r \in Receipts : OnDisk(r)' <=> OnDisk(r)
  BY LogsAreReplayed DEF Restart, ConversationInv
<1>2. OutboxInv'
  BY <1>1 DEF Restart, ConversationInv, OutboxInv, OutboxTypes
<1>3. ClaimsInv'
  BY NoClaimIsTyped DEF Restart, ClaimsInv, WorkTypes, WriterStates, Asking, LongWindowsAreWorkedOn
<1>4. TurnsInv'
  <2>1. turn' = [t \in Turns |-> IF turn[t].pc = "new" THEN turn[t] ELSE Over(turn[t])]
    BY DEF Restart
  <2>2. \A t \in Turns : turn[t] \in TurnRecord /\ (turn[t].missed # {} => turn[t].moved)
    BY DEF ConversationInv, TurnsInv, TurnTypes, TurnsMissNothing
  <2>3. \A t \in Turns : /\ turn'[t] \in TurnRecord /\ turn'[t].pc # "told"
                         /\ turn'[t].missed # {} => turn'[t].moved
    BY <2>1, <2>2, TurnParts
  <2>4. turn' \in [Turns -> TurnRecord]
    BY <2>1, <2>3
  <2> QED BY <2>3, <2>4 DEF TurnsInv, TurnTypes, TurnsMissNothing
<1> QED BY <1>1, <1>2, <1>3, <1>4 DEF ConversationInv

-----------------------------------------------------------------------------
LEMMA ConversationBegins == ConversationInit => ConversationInv
<1> SUFFICES ASSUME ConversationInit PROVE ConversationInv
  OBVIOUS
<1>1. /\ \A a \in Agents : /\ events[a] = <<>> /\ disk[a] = <<>>
                           /\ messages[a] = <<>> /\ transcripts[a] = <<>>
      /\ \A a \in Agents : Replayed(events[a]) = Blank /\ Replayed(disk[a]) = Blank
      /\ session = NewSession
  BY ReplayOfNothing DEF ConversationInit
<1>2. /\ Blank.transcript = <<>> /\ Blank.messages = <<>> /\ Blank.session = NewSession
      /\ Range(<<>>) = {} /\ SeqsOf(<<>>) = {} /\ IdsOf(<<>>) = {} /\ DOMAIN <<>> = {}
  BY DEF Blank, Range, SeqsOf, IdsOf
<1>3. /\ NewSession \in SessionRecord /\ NewSession.covered = 0 /\ NewSession.start = 1
      /\ MadeFrom(NewSession) = {}
  BY DEF NewSession, SessionRecord, MadeFrom
<1>4. ProjectionOK(Blank)
  <2>1. Blank \in [transcript : Seq(Items), messages : Seq(Items), session : SessionRecord]
    BY <1>3 DEF Blank
  <2> QED BY <1>2, <1>3, <2>1 DEF ProjectionOK, InOrder, ContextOf
<1>5. LogTypes
  BY <1>1, <1>3 DEF ConversationInit, LogTypes, Logs
<1>6. LogsOK(events) /\ LogsOK(disk)
  BY <1>1, <1>2, <1>4 DEF LogsOK, ReceiptOnce, InputOnce
<1>7. LogsInv
  <2>1. ContextOf(messages[Owner], session)
    BY <1>1, <1>2, <1>3 DEF ContextOf
  <2>2. \A r \in Receipts : ~ Received(r) /\ ~ OnDisk(r)
    BY <1>1, <1>2 DEF Received, OnDisk
  <2> QED BY <1>1, <1>2, <1>5, <1>6, <2>1, <2>2 DEF LogsInv
<1>8. OutboxInv
  BY DEF ConversationInit, OutboxInv, OutboxTypes
<1>9. ClaimsInv
  <2>1. ~ Due
    BY <1>1 DEF Due
  <2> QED BY <2>1, NoClaimIsTyped DEF ConversationInit, ClaimsInv, WorkTypes, WriterStates, Asking, LongWindowsAreWorkedOn
<1>10. TurnsInv
  <2>1. NewTurn(0) \in TurnRecord /\ NewTurn(0).pc = "new" /\ NewTurn(0).missed = {}
    BY DEF NewTurn, TurnRecord
  <2> QED BY <2>1 DEF ConversationInit, TurnsInv, TurnTypes, TurnsMissNothing
<1> QED BY <1>7, <1>8, <1>9, <1>10 DEF ConversationInv

LEMMA ConversationGoesOn == ConversationInv /\ [ConversationNext]_conversationVars => ConversationInv'
<1> SUFFICES ASSUME ConversationInv, [ConversationNext]_conversationVars PROVE ConversationInv'
  OBVIOUS
<1>1. ASSUME NEW k \in Workers, Release(k) \/ LookAgain(k) \/ \E ok \in BOOLEAN : Commit(k, ok)
      PROVE  ConversationInv'
  BY <1>1, ReleaseIsOK, LookAgainIsOK, CommitIsOK
<1>2. ASSUME NEW x \in Writers, WriterAppends(x) \/ WriterNotes(x)
      PROVE  ConversationInv'
  BY <1>2, WriterAppendsIsOK, WriterNotesIsOK
<1>3. ASSUME NEW x \in Writers \cup Turns, Check(x) \/ \E ok \in BOOLEAN : Persist(x, ok)
      PROVE  ConversationInv'
  BY <1>3, CheckIsOK, PersistIsOK
<1>4. ASSUME NEW t \in Turns, \/ StartDirect(t) \/ StartScheduled(t) \/ Retry(t) \/ Prompt(t)
                              \/ ReadSummary(t) \/ ReadHistory(t) \/ TurnSpeaks(t) \/ TurnEnds(t)
                              \/ \E ok \in BOOLEAN : SaveInput(t, ok)
      PROVE  ConversationInv'
  BY <1>4, StartDirectIsOK, StartScheduledIsOK, RetryIsOK, PromptIsOK, ReadSummaryIsOK, ReadHistoryIsOK,
     TurnSpeaksIsOK, TurnEndsIsOK, SaveInputIsOK
<1>5. ASSUME NEW r \in Receipts, NEW ok \in BOOLEAN, Admit(r, ok) \/ Acknowledge(r, ok)
      PROVE  ConversationInv'
  BY <1>5, AdmitIsOK, AcknowledgeIsOK
<1>6. CASE UNCHANGED conversationVars
  <2>1. UNCHANGED <<log, claim, retry, worker, writer, turn, outbox, stalled>>
    BY <1>6 DEF conversationVars
  <2>2. TurnsInv'
    BY <2>1, LogAndTurnsStay
  <2> QED BY <2>1, <2>2, OnlyTurnsStep
<1> QED BY <1>1, <1>2, <1>3, <1>4, <1>5, <1>6, RetryElapsesIsOK, OwnerComesAndGoesIsOK, RestartIsOK DEF ConversationNext

\* In a conversation, the logs replay to what is in memory, the claim is of
\* the session as it is, and a turn whose summary and history are of one
\* version was given every message or a summary that was made from it.
THEOREM ConversationKeepsItsInvariant == ConversationSpec => []ConversationInv
BY ConversationBegins, ConversationGoesOn, PTL DEF ConversationSpec

-----------------------------------------------------------------------------
(* What the conversation promises.                                          *)

LEMMA TheContextIsWhole == ConversationInv => NothingFallsBetween
<1> SUFFICES ASSUME ConversationInv PROVE NothingFallsBetween
  OBVIOUS
<1> DEFINE S == SeqsOf(messages[Owner])
<1>1. /\ S \subseteq 1 .. MaxSeq /\ MaxSeq \in Nat /\ Window \in Nat /\ session.covered \in Nat
      /\ \A n \in S : n \in Nat
      /\ ContextOf(messages[Owner], session)
  BY NumbersOfTheOwner DEF ConversationInv, LogsInv
<1>2. Archive = {n \in S : n < session.start} /\ Archive = MadeFrom(session)
  BY <1>1 DEF Archive, ContextOf
<1>3. session.start + Window <= Max({Window} \cup S) + 1
  <2> DEFINE T == {Window} \cup S
  <2>1. /\ MaxSeq + Window \in Nat /\ T \in SUBSET (0 .. MaxSeq + Window) /\ T # {}
        /\ Window \in T /\ S \subseteq T
    BY <1>1
  <2>2. session.start = session.covered + 1
        /\ (session.covered = 0 \/ \E n \in S : session.covered + Window <= n)
    BY <1>1 DEF ContextOf
  <2> HIDE DEF T
  <2>3. Max(T) \in T /\ \A n \in T : n <= Max(T)
    BY <2>1, MaxIsLargest
  <2>4. Max(T) \in Nat
    <3>1. \A n \in T : n \in Nat
      BY <2>1
    <3> HIDE DEF T
    <3> QED BY <2>3, <3>1
  <2> HIDE DEF S
  <2>5. session.start + Window <= Max(T) + 1
    BY <1>1, <2>1, <2>2, <2>3, <2>4
  <2> QED BY <2>5 DEF T, S
<1>4. TurnsMissNothing /\ LongWindowsAreWorkedOn
  BY DEF ConversationInv, TurnsInv, ClaimsInv
<1> QED BY <1>2, <1>3, <1>4 DEF NothingFallsBetween, ContextIsWhole

\* A set with at most one member has at most one.
LEMMA AtMostOne ==
  ASSUME NEW S, \A x, y \in S : x = y
  PROVE  Cardinality(S) <= 1
<1>1. CASE S = {}
  BY <1>1, FS_EmptySet
<1>2. CASE S # {}
  <2>1. PICK x : S = {x}
    BY <1>2
  <2>2. Cardinality(S) = 1
    BY <2>1, FS_Singleton
  <2> QED BY <2>2
<1> QED BY <1>1, <1>2

LEMMA TheReceiptsAreKept == ConversationInv => ReceiptsAreKept
<1> SUFFICES ASSUME ConversationInv, NEW r \in Receipts
             PROVE  /\ outbox[r] = "acknowledged" => \E a \in Agents : r \in IdsOf(Replayed(disk[a]).transcript)
                    /\ Cardinality({p \in Agents \X (1 .. MaxSeq) :
                                      p[2] \in DOMAIN messages[p[1]] /\ messages[p[1]][p[2]].id = r}) <= 1
  BY DEF ReceiptsAreKept
<1>1. outbox[r] = "acknowledged" => \E a \in Agents : r \in IdsOf(Replayed(disk[a]).transcript)
  <2> SUFFICES ASSUME outbox[r] = "acknowledged"
               PROVE  \E a \in Agents : r \in IdsOf(Replayed(disk[a]).transcript)
    OBVIOUS
  <2>1. PICK a \in Agents : r \in IdsOf(Replayed(disk[a]).messages)
    BY DEF ConversationInv, OutboxInv, OnDisk
  <2>2. Range(Replayed(disk[a]).messages) \subseteq Range(Replayed(disk[a]).transcript)
    <3>1. ProjectionOK(Replayed(disk[a]))
      BY DEF ConversationInv, LogsInv, LogsOK
    <3> QED BY <3>1 DEF ProjectionOK
  <2> QED BY <2>1, <2>2 DEF IdsOf
<1>2. Cardinality({p \in Agents \X (1 .. MaxSeq) :
                     p[2] \in DOMAIN messages[p[1]] /\ messages[p[1]][p[2]].id = r}) <= 1
  <2> DEFINE P == {p \in Agents \X (1 .. MaxSeq) :
                     p[2] \in DOMAIN messages[p[1]] /\ messages[p[1]][p[2]].id = r}
  <2>1. ReceiptOnce(r, events) /\ \A a \in Agents : messages[a] = Replayed(events[a]).messages
    BY DEF ConversationInv, LogsInv, LogsOK
  <2>2. ASSUME NEW p \in P, NEW q \in P PROVE p = q
    <3>1. /\ p[1] \in Agents /\ q[1] \in Agents /\ p = <<p[1], p[2]>> /\ q = <<q[1], q[2]>>
          /\ p[2] \in DOMAIN messages[p[1]] /\ messages[p[1]][p[2]].id = r
          /\ q[2] \in DOMAIN messages[q[1]] /\ messages[q[1]][q[2]].id = r
      OBVIOUS
    <3>2. p[1] = q[1] /\ p[2] = q[2]
      BY <2>1, <3>1 DEF ReceiptOnce
    <3> QED BY <3>1, <3>2
  <2> HIDE DEF P
  <2>3. Cardinality(P) <= 1
    BY <2>2, AtMostOne
  <2> QED BY <2>3 DEF P
<1> QED BY <1>1, <1>2

LEMMA TheReplayIsFaithful == ConversationInv => ReplayIsFaithful
<1> SUFFICES ASSUME ConversationInv PROVE ReplayIsFaithful
  OBVIOUS
<1>1. ASSUME NEW a \in Agents
      PROVE  /\ Increasing(Replayed(disk[a]).transcript)
             /\ transcripts[a] = Replayed(events[a]).transcript
             /\ messages[a] = Replayed(events[a]).messages
  <2> DEFINE s == Replayed(disk[a]).transcript
  <2>1. s \in Seq(Items) /\ InOrder(s)
    BY DEF ConversationInv, LogsInv, LogsOK, ProjectionOK
  <2> HIDE DEF s
  <2>2. Len(s) \in Nat /\ DOMAIN s = 1 .. Len(s)
    BY <2>1
  <2>3. ASSUME NEW n \in 2 .. Len(s) PROVE s[n - 1].seq < s[n].seq
    <3>1. n - 1 \in DOMAIN s /\ n \in DOMAIN s /\ n - 1 < n
      BY <2>2
    <3> QED BY <2>1, <3>1 DEF InOrder
  <2>4. Increasing(s)
    BY <2>3 DEF Increasing
  <2> QED BY <2>4 DEF s, ConversationInv, LogsInv
<1>2. session # Replayed(events[Owner]).session => session.version > Replayed(events[Owner]).session.version
  BY DEF ConversationInv, LogsInv
<1> QED BY <1>1, <1>2 DEF ReplayIsFaithful

LEMMA TheInputsAreGivenOnce == ConversationInv => InputsAreGivenOnce
<1> SUFFICES ASSUME ConversationInv, NEW t \in Turns PROVE Cardinality(InputOf(t)) <= 1
  BY DEF InputsAreGivenOnce
<1>1. InputOnce(t, events) /\ transcripts[Owner] = Replayed(events[Owner]).transcript
  BY DEF ConversationInv, LogsInv, LogsOK
<1>2. \A i, j \in InputOf(t) : i = j
  BY <1>1 DEF InputOnce, InputOf
<1> QED BY <1>2, AtMostOne

\* The window starts behind what was handed over to be summarised and never
\* earlier or later, whatever commitAgentCheckpoint is late with or fails to
\* save and however little buildAgentCheckpointPrompt has room for; a turn that
\* read both in one version of the session was given every message itself or a
\* summary made from it; and
\* maybeCheckpointAgentSession is never left unasked for without a reason.
THEOREM ContextAlwaysWhole == ConversationSpec => []NothingFallsBetween
BY ConversationKeepsItsInvariant, TheContextIsWhole, PTL

\* What loadAgentSessionEvents replays is what was in memory, through crashes
\* and failed saves; a receipt whose outbox entry is acknowledged is in the
\* file, for one agent and once, and so is the input of a run however often
\* the run is tried.
THEOREM LogAlwaysTheConversation == ConversationSpec => []LogIsTheConversation
<1>1. ConversationInv => LogIsTheConversation
  BY TheReceiptsAreKept, TheReplayIsFaithful, TheInputsAreGivenOnce DEF LogIsTheConversation
<1> QED BY <1>1, ConversationKeepsItsInvariant, PTL
=============================================================================
