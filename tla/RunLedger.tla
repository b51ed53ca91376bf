------------------------------ MODULE RunLedger ------------------------------
(***************************************************************************)
(* The event ledgers of runs (cmd/karoz/agent_run_ledger.go), those who    *)
(* publish to them and the handlers that stream them to clients, which ask *)
(* for the events after any place and disconnect at any time.  What the    *)
(* page in the browser makes of them is module Page.                       *)
(*                                                                         *)
(* A run that is retried keeps its ID and gets a new ledger: a ledger is a *)
(* run and the number of its start.  An event is its size; its sequence    *)
(* number follows from its place.                                          *)
(***************************************************************************)
EXTENDS Integers, FiniteSets, Sequences, SequencesExt, FiniteSetsExt

CONSTANTS Runs, Clients,
          MaxStarts,     \* starts of a run: the first and its retries
          MaxAllStarts,  \* bound on the starts of all runs
          MaxEvents,     \* bound on the events of a ledger
          Limit,         \* agentRunLedgerLimit
          ByteLimit,     \* agentRunLedgerByteLimit
          TerminalLimit, \* agentRunTerminalLedgerLimit
          Buffer,        \* agentRunSubscriberBuffer
          NoRun

ASSUME RunLedgerAssumption ==
  /\ {MaxStarts, MaxAllStarts, MaxEvents, Limit, ByteLimit, TerminalLimit, Buffer} \subseteq Nat \ {0}
  /\ NoRun \notin Runs

Ledgers == Runs \X (1..MaxStarts)
NoLedger == <<NoRun, 0>>
Sizes == 1..ByteLimit    \* a larger event is replaced by a marker

VARIABLES ledger,   \* [Ledgers -> what was published, discarded and retained]
          current,  \* the map from runs to ledgers: [Runs -> number of the start, or 0]
          ended,    \* ledgers with a terminal event, by the time of their last one
          work,     \* [Runs -> is it active, its end not yet published, its starts, those with a ledger]
          conn      \* [Clients -> the connection to a handler and the handler's state]

vars == <<ledger, current, ended, work, conn>>
publishers == <<ledger, current, ended, work>>

(* last is the sequence number of the last event, terminal those that end   *)
(* the run; events retains those after the floor.  late is history: it says *)
(* that the ledger was opened when the end of its run had been told already.*)
EmptyLedger == [next |-> 0, floor |-> 0, events |-> <<>>, terminal |-> {}, late |-> FALSE]

(* A connection asks for the events of a run after a place; at is the place *)
(* the handler has since taken it to.                                       *)
Off == [pc |-> "off", run |-> NoRun, ledger |-> NoLedger, after |-> 0, at |-> 0,
        replay |-> <<>>, live |-> <<>>, subscribed |-> FALSE, closed |-> 0]

Bytes(events) == FoldSeq(LAMBDA size, sum : size + sum, 0, events)

TypeOK ==
  /\ \A l \in Ledgers :
       /\ ledger[l].next \in 0..MaxEvents /\ ledger[l].floor \in 0..MaxEvents
       /\ ledger[l].events \in Seq(Sizes) /\ ledger[l].terminal \subseteq 1..MaxEvents
       /\ ledger[l].late \in BOOLEAN
  /\ current \in [Runs -> 0..MaxStarts]
  /\ ended \in Seq(Ledgers)
  /\ work \in [Runs -> [active : BOOLEAN, reporting : BOOLEAN, starts : 0..MaxStarts, opened : 0..MaxStarts]]
  /\ \A c \in Clients :
       /\ conn[c].pc \in {"off", "asking", "found", "streaming"}
       /\ conn[c].run \in Runs \cup {NoRun} /\ conn[c].ledger \in Ledgers \cup {NoLedger}
       /\ conn[c].after \in 0..MaxEvents /\ conn[c].at \in 0..MaxEvents
       /\ Range(conn[c].replay) \cup Range(conn[c].live) \subseteq 1..MaxEvents
       /\ Len(conn[c].live) <= Buffer
       /\ conn[c].subscribed \in BOOLEAN /\ conn[c].closed \in 0..1

Init ==
  /\ ledger = [l \in Ledgers |-> EmptyLedger]
  /\ current = [r \in Runs |-> 0]
  /\ ended = <<>>
  /\ work = [r \in Runs |-> [active |-> FALSE, reporting |-> FALSE, starts |-> 0, opened |-> 0]]
  /\ conn = [c \in Clients |-> Off]

-----------------------------------------------------------------------------
(* Publishing *)

(* publish drops the oldest events over a limit, never the newest; the      *)
(* floor is the last one dropped.  The mutant takes it for the first kept.  *)
Keeps(events, n) == n <= Limit /\ Bytes(SubSeq(events, Len(events) - n + 1, Len(events))) <= ByteLimit
Kept(events) == Max({n \in 1..Len(events) : Keeps(events, n)} \cup {1})

TrimmedLow(l) ==
  LET n == Kept(l.events)
  IN  IF n = Len(l.events) THEN l
      ELSE [l EXCEPT !.events = SubSeq(@, Len(@) - n + 1, Len(@)), !.floor = l.next - n - 1]

Trimmed(l) ==
  LET n == Kept(l.events)
  IN  IF n = Len(l.events) THEN l
      ELSE [l EXCEPT !.events = SubSeq(@, Len(@) - n + 1, Len(@)), !.floor = l.next - n]

(* A lagging observer is detached; every observer is, after the last event. *)
(* The mutant forgets to close the channel of a lagging one.                *)
DeliveredDetaching(k, seq, terminal) ==
  LET full == Len(k.live) = Buffer
  IN  [k EXCEPT !.live = IF full THEN @ ELSE Append(@, seq),
                !.subscribed = ~ full /\ ~ terminal,
                !.closed = IF ~ full /\ terminal THEN @ + 1 ELSE @]

Delivered(k, seq, terminal) ==
  LET full == Len(k.live) = Buffer
  IN  [k EXCEPT !.live = IF full THEN @ ELSE Append(@, seq),
                !.subscribed = ~ full /\ ~ terminal,
                !.closed = IF full \/ terminal THEN @ + 1 ELSE @]

Publish(l, size, terminal) ==
  LET seq == ledger[l].next + 1
      last == [ledger[l] EXCEPT !.next = seq, !.events = Append(@, size),
                                !.terminal = IF terminal THEN @ \cup {seq} ELSE @]
  IN  /\ ledger' = [ledger EXCEPT ![l] = Trimmed(last)]
      /\ ended' = IF terminal THEN Append(RemoveFirst(ended, l), l) ELSE ended
      /\ conn' = [c \in Clients |->
                    IF conn[c].ledger = l /\ conn[c].subscribed
                    THEN Delivered(conn[c], seq, last.terminal # {}) ELSE conn[c]]

(* The worker publishes to the ledger it has opened, and may still do so    *)
(* after a terminal event of a canceller.                                   *)
PublishEvent(r) ==
  /\ work[r].starts > 0 /\ current[r] = work[r].starts
  /\ LET l == <<r, current[r]>>
     IN  /\ ledger[l].next < MaxEvents - 1
         /\ \E size \in Sizes : Publish(l, size, FALSE)
  /\ UNCHANGED <<current, work>>

(* finishAgentRunWithLedger and commitAgentRunResultWithLedger: the run      *)
(* leaves the registry, then its terminal event goes to the ledger of the   *)
(* run's ID, if there is one; before the worker opened its own, that is the *)
(* one of an earlier start.                                                 *)
EndRun(r) ==
  /\ work[r].active
  /\ work' = [work EXCEPT ![r].active = FALSE, ![r].reporting = TRUE]
  /\ UNCHANGED <<ledger, current, ended, conn>>

PublishTerminal(r) ==
  LET l == <<r, current[r]>> IN
  /\ work[r].reporting
  /\ work' = [work EXCEPT ![r].reporting = FALSE]
  /\ IF current[r] = 0 THEN UNCHANGED <<ledger, ended, conn>>
     ELSE ledger[l].next < MaxEvents /\ Publish(l, 1, TRUE)
  /\ UNCHANGED current

(* A run begins; a retry follows the report of the start before.            *)
StartRun(r) ==
  /\ ~ work[r].active /\ ~ work[r].reporting
  /\ work[r].starts < MaxStarts
  /\ Cardinality({l \in Ledgers : l[2] <= work[l[1]].starts}) < MaxAllStarts
  /\ work' = [work EXCEPT ![r].active = TRUE, ![r].starts = @ + 1]
  /\ UNCHANGED <<ledger, current, ended, conn>>

(* createRunLedger makes room for the ledger it adds: ledgers whose run is  *)
(* over go, the one that ended first before the others.  A ledger nobody    *)
(* can reach is gone.  A run that is cancelled between the claim of its     *)
(* worker and this step is over, and its end told, before its ledger is     *)
(* opened: nobody will publish an end to it.                                *)
Evicted == {ended[i] : i \in 1..(Len(ended) - TerminalLimit + 1)}
NotEvicted == SubSeq(ended, Max({0, Len(ended) - TerminalLimit + 1}) + 1, Len(ended))

OpenLedger(r) ==
  /\ work[r].opened < work[r].starts
  /\ work' = [work EXCEPT ![r].opened = work[r].starts]
  /\ current' = [q \in Runs |-> IF q = r THEN work[r].starts
                                ELSE IF <<q, current[q]>> \in Evicted THEN 0 ELSE current[q]]
  /\ ended' = RemoveFirst(NotEvicted, <<r, current[r]>>)
  /\ ledger' = [l \in Ledgers |->
                  IF l = <<r, work[r].starts>>
                  THEN [ledger[l] EXCEPT !.late = ~ work[r].active /\ ~ work[r].reporting]
                  ELSE IF current'[l[1]] = l[2] \/ (\E c \in Clients : conn[c].ledger = l)
                  THEN ledger[l] ELSE EmptyLedger]
  /\ UNCHANGED conn

-----------------------------------------------------------------------------
(* The handler *)

Set(c, k) == conn' = [conn EXCEPT ![c] = k] /\ UNCHANGED publishers

Connect(c, r, after) ==
  /\ conn[c].pc = "off"
  /\ Set(c, [Off EXCEPT !.pc = "asking", !.run = r, !.after = after, !.at = after])

(* The ledger is looked up by the run's ID; without one the answer is 404.  *)
Lookup(c) ==
  LET r == conn[c].run IN
  /\ conn[c].pc = "asking"
  /\ Set(c, IF current[r] = 0 THEN Off
            ELSE [conn[c] EXCEPT !.pc = "found", !.ledger = <<r, current[r]>>])

(* subscribe, and the reset event for a client whose next event is gone.    *)
Subscribe(c) ==
  LET k == conn[c]
      l == ledger[k.ledger]
  IN
  /\ k.pc = "found"
  /\ Set(c, [k EXCEPT !.pc = "streaming",
                      !.at = IF k.after < l.floor THEN l.floor ELSE @,
                      !.replay = [i \in 1..Len(l.events) |-> l.floor + i],
                      !.subscribed = l.terminal = {},
                      !.closed = IF l.terminal = {} THEN 0 ELSE 1])

(* The handler writes an event the client has not asked to leave out.       *)
Written(k, seq) == IF seq > k.after THEN [k EXCEPT !.at = seq] ELSE k

Replay(c) ==
  /\ conn[c].pc = "streaming" /\ conn[c].replay # <<>>
  /\ Set(c, Written([conn[c] EXCEPT !.replay = Tail(@)], Head(conn[c].replay)))

Stream(c) ==
  /\ conn[c].pc = "streaming" /\ conn[c].replay = <<>> /\ conn[c].live # <<>>
  /\ Set(c, Written([conn[c] EXCEPT !.live = Tail(@)], Head(conn[c].live)))

(* The channel is closed and drained: the handler returns.                  *)
StreamEnds(c) ==
  /\ conn[c].pc = "streaming" /\ conn[c].replay = <<>> /\ conn[c].live = <<>> /\ conn[c].closed > 0
  /\ Set(c, Off)

(* The connection breaks; the handler, if it has come to subscribe, leaves. *)
Disconnect(c) ==
  /\ conn[c].pc # "off"
  /\ Set(c, Off)

-----------------------------------------------------------------------------
RunStep(r) == StartRun(r) \/ OpenLedger(r) \/ PublishEvent(r) \/ EndRun(r) \/ PublishTerminal(r)
HandlerStep(c) == Lookup(c) \/ Subscribe(c) \/ Replay(c) \/ Stream(c) \/ StreamEnds(c)

Next ==
  \/ \E r \in Runs : RunStep(r)
  \/ \E c \in Clients : \/ \E r \in Runs, after \in 0..MaxEvents : Connect(c, r, after)
                        \/ HandlerStep(c)
                        \/ Disconnect(c)

Spec == Init /\ [][Next]_vars

-----------------------------------------------------------------------------
(* Properties *)

(* "A lagging observer must never silently lose ordering": the event that   *)
(* is written to a client is the successor of the last one it knows of,     *)
(* whatever was discarded or detached in between; where events are gone, a  *)
(* reset first takes it to the last that is gone.                           *)
NoSilentGap ==
  [][\A c \in Clients :
       LET before == conn[c].at  after == conn'[c].at IN
       conn[c].pc \in {"found", "streaming"} /\ conn'[c].pc = "streaming" /\ after # before =>
         IF conn[c].pc = "found"
         THEN after > before /\ ledger[conn[c].ledger].events # <<>> /\ conn'[c].replay[1] = after + 1
         ELSE after = before + 1]_vars

(* Only ledgers whose run is over are evicted, and one that ended earlier   *)
(* never outlives one that ended later: the ledger of a run that is active, *)
(* or whose terminal event is still to come, stays in the map.              *)
ActiveLedgersStay ==
  [][\A r \in Runs :
       current[r] # 0 /\ current'[r] = 0 =>
         LET gone == <<r, current[r]>>
         IN  /\ ledger[gone].terminal # {}
             /\ \A i, j \in DOMAIN ended :
                  ended[j] = gone /\ i < j => current'[ended[i][1]] # ended[i][2]]_vars

(* What an observer of a run may rely on, whatever the limits throw away:   *)
(* events that are dropped are announced, and a run that is still to end is *)
(* not dropped as a whole.                                                  *)
NothingIsLostSilently == NoSilentGap /\ ActiveLedgersStay

(* The run of a ledger is still to publish its end to it.                   *)
EndIsComing(l) ==
  /\ current[l[1]] = l[2] /\ work[l[1]].starts = l[2]
  /\ work[l[1]].active \/ work[l[1]].reporting

(* A handler that waits for events waits for an end that is still to come:  *)
(* its run has not published one, and will publish it to this very ledger,  *)
(* which nothing drops from the map or replaces before.  The exception is a *)
(* ledger that was opened late: its handlers wait until they disconnect.    *)
(* A handler that is told no more, because it was detached or because the   *)
(* run is over, finds its channel closed, and closed once.                  *)
ChannelsTellTheEnd ==
  \A c \in Clients : conn[c].pc = "streaming" =>
    LET l == conn[c].ledger IN
    /\ conn[c].closed = (IF conn[c].subscribed THEN 0 ELSE 1)
    /\ conn[c].subscribed => ledger[l].terminal = {} /\ (EndIsComing(l) \/ ledger[l].late)

=============================================================================
