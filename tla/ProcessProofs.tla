---------------------------- MODULE ProcessProofs ----------------------------
(***************************************************************************)
(* For any number of processes, any capacity of the ledger, and a crash    *)
(* between any two writes: what the process files promise.                 *)
(*                                                                         *)
(* The argument has three layers.  The first holds on any storage: who     *)
(* holds the lane, that the memory is never behind the disk, and that      *)
(* whatever speaks of a release, in a file or in an operation under way,   *)
(* speaks of an end whose message is durable.  The second is about storage *)
(* that is sound: memory and disk are then the same, and the three entries *)
(* of a process have, at each step of the operation that holds the lane,   *)
(* one of a few shapes (UpShape, BootShape).  The shapes that a crash may  *)
(* leave behind are those that a startup accepts (Safe); those that a      *)
(* startup leaves when it is itself cut short are more (Weak), and         *)
(* recovery either refuses them or completes them all the same.            *)
(*                                                                         *)
(* The third reads the life of a process off those shapes and shows, one   *)
(* action after another, that each step of the files is a step of          *)
(* ProcessLife for the process it is about and none for the others.        *)
(***************************************************************************)
EXTENDS ProcessProperties, FiniteSetTheorems, TLAPS

-----------------------------------------------------------------------------
(* The operations. *)

Writers == {"admit", "terminal", "release"}

(* Who holds the lane, and for which process.                               *)
LaneOK ==
  /\ lane.op = "none" => lane = FreeLane
  /\ lane.op = "boot" <=> phase = "recovering"
  /\ lane.op \in Writers => phase = "up" /\ lane.proc \in Procs
  /\ At("boot", "release") \/ At("boot", "admission") => lane.proc \in Procs
  /\ lane.op = "release" => outbox.acking = lane.proc
  /\ \A p \in Procs :
       /\ sup[p] = "admitting" <=> lane.op = "admit" /\ lane.proc = p
       /\ sup[p] = "recording" <=> lane.op = "terminal" /\ lane.proc = p

(* The events that the outbox has still to deliver are in the records.      *)
OutboxOK ==
  /\ phase \in {"down", "recovering"} => outbox = IdleOutbox
  /\ outbox.acking # NoProc => outbox.acking \in outbox.todo
  /\ phase = "up" =>
       \A p \in outbox.todo : p # outbox.acking => Terminal(Rec(p).state) /\ Rec(p).event

(* Whatever speaks of a release is about an end that has been announced.    *)
Announced(p) == delivered[p] # "none"

Says(s, p) == s.authority.records[p].acked \/ s.journal[p].release # "none"

AnnouncedOK ==
  /\ \A p \in Procs : Says(mem, p) \/ Says(disk, p) => Announced(p)
  /\ outbox.acking # NoProc => Announced(outbox.acking)
  /\ lane.op = "release" \/ At("boot", "release") => Announced(lane.proc)

(* The record an operation works on is terminal, or is still to be made.    *)
Unknown(p) ==
  /\ mem.authority.records[p] = NoRecord /\ disk.authority.records[p] = NoRecord
  /\ p \notin mem.authority.tombstones /\ p \notin disk.authority.tombstones

BeforeCreation == {"intent", "token_selected", "allocate", "allocated", "create"}

WorkOK ==
  /\ \A p \in Procs : sup[p] = "new" => Unknown(p)
  /\ lane.op = "admit" /\ lane.pc \in BeforeCreation => Unknown(lane.proc)
  /\ lane.op = "terminal" /\ lane.pc # "record" => Terminal(Rec(lane.proc).state)
  /\ lane.op = "release" /\ lane.pc \notin DOMAIN RetentionPlan => Terminal(Rec(lane.proc).state)
  /\ At("boot", "release") => Terminal(Rec(lane.proc).state)
  /\ lane.pc \in {"remove", "delete"} => lane.chosen \subseteq disk.authority.tombstones

(* What a record in memory may look like: also one that the supervisor has  *)
(* made invalid, when it retries to record an end already acknowledged.     *)
Undone(r) == Terminal(r.state) /\ r.event /\ r.acked

Plausible(r) ==
  /\ r.state = "absent" => r = NoRecord
  /\ r.state \in {"starting", "running"} => r.res \in {"allocating", "active"}
  /\ Terminal(r.state) => r.event \/ r.acked

(* How far a record in memory has come.                                     *)
Reached(r) == IF Undone(r) THEN 4 ELSE Rank(r)

(* What is in memory is what is on disk, or further.                        *)
Behind(before, after, expiring) ==
  \/ after.state # "absent" /\ Rank(before) <= Reached(after)
  \/ after.state = "absent" /\ (Rank(before) = 0 \/ (Rank(before) = 5 /\ expiring))

RecordsOK ==
  /\ ValidAuthority(disk.authority)
  /\ \A p \in Procs : Plausible(mem.authority.records[p]) /\ Plausible(disk.authority.records[p])
  /\ \A p \in disk.authority.tombstones : Rank(disk.authority.records[p]) \in {0, 5}
  /\ \A p \in mem.authority.tombstones : Rank(mem.authority.records[p]) \in {0, 5}
  /\ phase = "recovering" => mem = disk
  /\ phase = "up" => disk.authority.tombstones \subseteq mem.authority.tombstones
  /\ phase # "down" =>
       \A p \in Procs : Behind(disk.authority.records[p], mem.authority.records[p],
                               p \in disk.authority.tombstones)

WritersInv == TypeOK /\ LaneOK /\ OutboxOK /\ AnnouncedOK /\ WorkOK /\ RecordsOK

-----------------------------------------------------------------------------
(* The shapes of the entries of a process, on sound storage.                *)

OnDisk(p) == disk.authority.records[p]
Entry(p, admit, release, slot) ==
  disk.journal[p].admit = admit /\ disk.journal[p].release = release /\ disk.ledger[p] = slot

(* The records.                                                             *)
Missing(p) == OnDisk(p) = NoRecord
Starting(p, res) == OnDisk(p) = [state |-> "starting", res |-> res, event |-> FALSE, acked |-> FALSE]
Runs(p) == /\ OnDisk(p).state \in {"starting", "running"} /\ OnDisk(p).res = "active"
           /\ ~ OnDisk(p).event /\ ~ OnDisk(p).acked
HasEnded(p) == /\ Terminal(OnDisk(p).state) /\ OnDisk(p).res = "terminal_unacknowledged"
               /\ OnDisk(p).event /\ ~ OnDisk(p).acked
Acked(p, res) == /\ Terminal(OnDisk(p).state) /\ OnDisk(p).res = res
                 /\ ~ OnDisk(p).event /\ OnDisk(p).acked

(* Between two operations.                                                  *)
Nothing(p) == Entry(p, "none", "none", "none") /\ Missing(p)
NoSlotLeft(p) == Entry(p, "token_selected", "none", "none") /\ Missing(p)
Live(p) == Entry(p, "committed", "none", "active") /\ Runs(p)
Interrupted(p) == Entry(p, "committed", "none", "active") /\ HasEnded(p)
Ended(p) == Entry(p, "committed", "none", "terminal_unacknowledged") /\ HasEnded(p)
Released(p) == Entry(p, "none", "none", "none") /\ Acked(p, "none")

Settled(p) == Nothing(p) \/ Ended(p) \/ Released(p)
Resting(p) == Settled(p) \/ Live(p) \/ NoSlotLeft(p)

(* The steps of the operations: pc is the write that comes next.            *)
AdmitShape(p, pc) ==
  \/ pc = "intent" /\ Nothing(p)
  \/ pc = "token_selected" /\ Entry(p, "intent", "none", "none") /\ Missing(p)
  \/ pc = "allocate" /\ Entry(p, "token_selected", "none", "none") /\ Missing(p)
  \/ pc = "allocated" /\ Entry(p, "token_selected", "none", "allocating") /\ Missing(p)
  \/ pc = "create" /\ Entry(p, "allocated", "none", "allocating") /\ Missing(p)
  \/ pc = "authority_saved" /\ Entry(p, "allocated", "none", "allocating") /\ Starting(p, "allocating")
  \/ pc = "activate" /\ Entry(p, "authority_saved", "none", "allocating") /\ Starting(p, "allocating")
  \/ pc = "active" /\ Entry(p, "authority_saved", "none", "active") /\ Starting(p, "allocating")
  \/ pc = "reservation" /\ Entry(p, "active", "none", "active") /\ Starting(p, "allocating")
  \/ pc = "committed" /\ Entry(p, "active", "none", "active") /\ Starting(p, "active")

TerminalShape(p, pc) ==
  \/ pc = "record" /\ Live(p)
  \/ pc = "slot" /\ Interrupted(p)
  \/ pc = "reservation" /\ Ended(p)

ReleaseShape(p, pc) ==
  \/ pc = "release_intent" /\ Ended(p)
  \/ pc = "acknowledge" /\ HasEnded(p)
       /\ Entry(p, "committed", "release_intent", "terminal_unacknowledged")
  \/ pc = "release_marked" /\ Acked(p, "terminal_unacknowledged")
       /\ Entry(p, "committed", "release_intent", "terminal_unacknowledged")
  \/ pc = "slot" /\ Acked(p, "terminal_unacknowledged")
       /\ Entry(p, "committed", "release_marked", "terminal_unacknowledged")
  \/ pc = "reservation" /\ Acked(p, "terminal_unacknowledged")
       /\ Entry(p, "committed", "release_marked", "releasing")
  \/ pc = "detach" /\ Acked(p, "releasing") /\ Entry(p, "committed", "release_marked", "releasing")
  \/ pc = "authority_detached" /\ Acked(p, "none")
       /\ Entry(p, "committed", "release_marked", "releasing")
  \/ pc = "free" /\ Acked(p, "none") /\ Entry(p, "committed", "authority_detached", "releasing")
  \/ pc = "forget_admission" /\ Acked(p, "none") /\ Entry(p, "committed", "authority_detached", "none")
  \/ pc = "forget_release" /\ Acked(p, "none") /\ Entry(p, "none", "authority_detached", "none")
  \/ pc \in DOMAIN RetentionPlan /\ Released(p)

UpShape(p) ==
  \/ lane.op = "admit" /\ lane.proc = p /\ AdmitShape(p, lane.pc)
  \/ lane.op = "terminal" /\ lane.proc = p /\ TerminalShape(p, lane.pc)
  \/ lane.op = "release" /\ lane.proc = p /\ ReleaseShape(p, lane.pc)
  \/ ~ (lane.op \in Writers /\ lane.proc = p) /\ Resting(p)

(* What a startup may find, and what it may leave when it is cut short.     *)
SafeAdmission(p) ==
  \/ Entry(p, "intent", "none", "none") /\ Missing(p)
  \/ NoSlotLeft(p)
  \/ Entry(p, "token_selected", "none", "allocating") /\ Missing(p)
  \/ Entry(p, "allocated", "none", "allocating") /\ (Missing(p) \/ Starting(p, "allocating"))
  \/ Entry(p, "authority_saved", "none", "allocating") /\ Starting(p, "allocating")
  \/ Entry(p, "authority_saved", "none", "active") /\ Starting(p, "allocating")
  \/ Entry(p, "active", "none", "active") /\ (Starting(p, "allocating") \/ Starting(p, "active"))
  \/ Live(p) \/ Interrupted(p) \/ Ended(p)

WeakAdmission(p) ==
  /\ disk.journal[p].release = "none"
  /\ \/ /\ Missing(p)
        /\ disk.journal[p].admit \in {"intent", "token_selected", "allocated"}
        /\ disk.ledger[p] \in {"none", "allocating"}
     \/ /\ Starting(p, "allocating")
        /\ disk.journal[p].admit \in {"allocated", "authority_saved", "active"}
        /\ disk.ledger[p] \in {"allocating", "active"}
     \/ /\ Starting(p, "active")
        /\ disk.journal[p].admit \in {"allocated", "authority_saved", "active"}
        /\ disk.ledger[p] = "active"
     \/ Live(p) \/ Interrupted(p) \/ Ended(p)

SafeRelease(p) ==
  \/ Entry(p, "committed", "release_intent", "terminal_unacknowledged")
       /\ (HasEnded(p) \/ Acked(p, "terminal_unacknowledged"))
  \/ Entry(p, "committed", "release_marked", "terminal_unacknowledged")
       /\ Acked(p, "terminal_unacknowledged")
  \/ Entry(p, "committed", "release_marked", "releasing")
       /\ (Acked(p, "terminal_unacknowledged") \/ Acked(p, "releasing") \/ Acked(p, "none"))
  \/ Entry(p, "committed", "authority_detached", "releasing") /\ Acked(p, "none")
  \/ Entry(p, "committed", "authority_detached", "none") /\ Acked(p, "none")
  \/ Entry(p, "none", "authority_detached", "none") /\ Acked(p, "none")

WeakRelease(p) ==
  /\ disk.journal[p].release # "none"
  /\ \/ /\ HasEnded(p) \/ Acked(p, "terminal_unacknowledged")
        /\ disk.ledger[p] = "terminal_unacknowledged" /\ disk.journal[p].admit = "committed"
     \/ /\ Acked(p, "terminal_unacknowledged") \/ Acked(p, "releasing") \/ Acked(p, "none")
        /\ disk.ledger[p] = "releasing" /\ disk.journal[p].admit = "committed"
     \/ /\ Acked(p, "none")
        /\ disk.ledger[p] = "none" /\ disk.journal[p].admit \in {"committed", "none"}

Safe(p) == Nothing(p) \/ Released(p) \/ SafeAdmission(p) \/ SafeRelease(p)
Weak(p) == Nothing(p) \/ Released(p) \/ WeakAdmission(p) \/ WeakRelease(p)

(* The steps of a startup.                                                  *)
BootShape(p) ==
  \/ /\ lane.pc = "operations"
     /\ p \in lane.chosen => Live(p) \/ Ended(p)
  \/ /\ lane.pc = "release"
     /\ lane.proc = p => WeakRelease(p) /\ p \notin lane.chosen
     /\ p \in lane.chosen => Live(p) \/ Ended(p)
  \/ /\ lane.pc = "admission"
     /\ disk.journal[p].release = "none"
     /\ lane.proc = p => WeakAdmission(p) /\ p \notin lane.chosen
     /\ p \in lane.chosen => Live(p) \/ Ended(p)
  \/ lane.pc = "interrupt" /\ (Settled(p) \/ Live(p))
  \/ lane.pc = "slots" /\ (p \in lane.chosen => Interrupted(p)) /\ (p \notin lane.chosen => Settled(p))
  \/ lane.pc \in {"tombstones", "expire", "select", "remove", "delete"} /\ Settled(p)

Recovered(p) == lane.pc \in {"release", "admission"} /\ lane.proc = p

SoundOK ==
  /\ mem = IF phase = "down" THEN EmptyStores ELSE disk
  /\ phase \in {"down", "recovering"} => \A p \in Procs : sup[p] \in {"new", "gone"}
  /\ \A p \in Procs : Weak(p)
  /\ ~ cutShort /\ phase = "down" => \A p \in Procs : Safe(p)
  /\ ~ cutShort /\ phase = "recovering" => \A p \in Procs : Safe(p) \/ Recovered(p)
  /\ phase = "refused" => cutShort
  /\ \A p \in Procs : sup[p] = "new" => Nothing(p)
  /\ phase = "up" => \A p \in Procs : /\ UpShape(p)
                                      /\ sup[p] \in {"admitted", "opened", "running", "exited"} => Live(p)
  /\ phase = "recovering" => \A p \in Procs : BootShape(p)
  /\ lane.pc \in {"remove", "delete"} => \A p \in lane.chosen : Released(p)
  /\ \A p \in Procs : Announced(p) => \/ Terminal(OnDisk(p).state)
                                      \/ Missing(p) /\ sup[p] \notin {"new", "admitting"}

SoundInv == storage = "sound" => SoundOK

ProcessInv == WritersInv /\ SoundInv

-----------------------------------------------------------------------------
(* The stores and the records.                                             *)

JournalTable == [Procs -> [admit : AdmitStates, release : ReleaseStates]]
LedgerTable == [Procs -> SlotStates]
AuthorityTable == [records : [Procs -> Record], tombstones : SUBSET Procs]

StoresOK == mem \in Stores /\ disk \in Stores /\ storage \in Storage


JournalLeft ==
  /\ mem'.ledger = mem.ledger /\ mem'.authority = mem.authority
  /\ disk'.ledger = disk.ledger /\ disk'.authority = disk.authority
LedgerLeft ==
  /\ mem'.journal = mem.journal /\ mem'.authority = mem.authority
  /\ disk'.journal = disk.journal /\ disk'.authority = disk.authority
AuthorityLeft ==
  /\ mem'.journal = mem.journal /\ mem'.ledger = mem.ledger
  /\ disk'.journal = disk.journal /\ disk'.ledger = disk.ledger

LEMMA StoreFields ==
  ASSUME NEW s \in Stores
  PROVE  /\ s = [journal |-> s.journal, ledger |-> s.ledger, authority |-> s.authority]
         /\ s.journal \in JournalTable /\ s.ledger \in LedgerTable /\ s.authority \in AuthorityTable
         /\ \A p \in Procs : /\ s.journal[p] \in [admit : AdmitStates, release : ReleaseStates]
                             /\ s.journal[p].admit \in AdmitStates
                             /\ s.journal[p].release \in ReleaseStates
                             /\ s.ledger[p] \in SlotStates
                             /\ s.authority.records[p] \in Record
         /\ s.authority.records \in [Procs -> Record]
         /\ s.authority.tombstones \subseteq Procs
  BY DEF Stores, JournalTable, LedgerTable, AuthorityTable

LEMMA NoRecords ==
  /\ NoRecord \in Record /\ NoRecord.state = "absent" /\ NoRecord.res = "none"
  /\ ~ NoRecord.event /\ ~ NoRecord.acked
  BY DEF NoRecord, Record, ProcessStates, SlotStates

LEMMA Empty ==
  /\ EmptyStores \in Stores
  /\ \A p \in Procs : /\ EmptyStores.journal[p].admit = "none" /\ EmptyStores.journal[p].release = "none"
                      /\ EmptyStores.ledger[p] = "none"
                      /\ EmptyStores.authority.records[p] = NoRecord
  /\ EmptyStores.authority.tombstones = {}
<1>1. EmptyStores.journal \in JournalTable /\ EmptyStores.ledger \in LedgerTable
  BY DEF EmptyStores, JournalTable, LedgerTable, AdmitStates, ReleaseStates, SlotStates
<1>2. EmptyStores.authority \in AuthorityTable
  <2> HIDE DEF NoRecord
  <2> QED BY NoRecords DEF EmptyStores, AuthorityTable
<1>3. EmptyStores \in Stores
  BY <1>1, <1>2 DEF EmptyStores, Stores, JournalTable, LedgerTable, AuthorityTable
<1> QED
  BY <1>3 DEF EmptyStores

LEMMA JournalUpdates ==
  ASSUME NEW s \in Stores, NEW x \in JournalTable
  PROVE  /\ [s EXCEPT !["journal"] = x] \in Stores
         /\ [s EXCEPT !["journal"] = x].journal = x
         /\ [s EXCEPT !["journal"] = x].ledger = s.ledger
         /\ [s EXCEPT !["journal"] = x].authority = s.authority
  BY DEF Stores, JournalTable, LedgerTable, AuthorityTable

LEMMA LedgerUpdates ==
  ASSUME NEW s \in Stores, NEW x \in LedgerTable
  PROVE  /\ [s EXCEPT !["ledger"] = x] \in Stores
         /\ [s EXCEPT !["ledger"] = x].ledger = x
         /\ [s EXCEPT !["ledger"] = x].journal = s.journal
         /\ [s EXCEPT !["ledger"] = x].authority = s.authority
  BY DEF Stores, JournalTable, LedgerTable, AuthorityTable

LEMMA AuthorityUpdates ==
  ASSUME NEW s \in Stores, NEW x \in AuthorityTable
  PROVE  /\ [s EXCEPT !["authority"] = x] \in Stores
         /\ [s EXCEPT !["authority"] = x].authority = x
         /\ [s EXCEPT !["authority"] = x].journal = s.journal
         /\ [s EXCEPT !["authority"] = x].ledger = s.ledger
  BY DEF Stores, JournalTable, LedgerTable, AuthorityTable

(* A write of the journal, of the ledger and of the authority.              *)
LEMMA JournalWrites ==
  ASSUME StoresOK, NEW x \in JournalTable, NEW ok \in BOOLEAN, Write("journal", x, ok)
  PROVE  /\ mem' \in Stores /\ disk' \in Stores
         /\ JournalLeft
         /\ mem'.journal = x
         /\ ok => disk'.journal = x
         /\ ~ ok => disk' = disk /\ storage = "failing"
         /\ ok /\ mem = disk => mem' = disk'
<1>1. /\ mem' = [mem EXCEPT !["journal"] = x]
      /\ ok => disk' = [disk EXCEPT !["journal"] = x]
      /\ ~ ok => disk' = disk /\ storage = "failing"
  BY DEF Write
<1>2. mem' \in Stores /\ (ok => disk' \in Stores)
  BY <1>1, JournalUpdates DEF StoresOK
<1>3. mem'.journal = x /\ mem'.ledger = mem.ledger /\ mem'.authority = mem.authority
  BY <1>1, JournalUpdates DEF StoresOK
<1>4. ASSUME ok PROVE disk'.journal = x /\ disk'.ledger = disk.ledger /\ disk'.authority = disk.authority
  <2>1. disk' = [disk EXCEPT !["journal"] = x]
    BY <1>1, <1>4
  <2> QED
    BY <2>1, JournalUpdates DEF StoresOK
<1>5. ok /\ mem = disk => mem' = disk'
  BY <1>1
<1> QED
  BY <1>1, <1>2, <1>3, <1>4, <1>5 DEF StoresOK, JournalLeft

LEMMA LedgerWrites ==
  ASSUME StoresOK, NEW x \in LedgerTable, NEW ok \in BOOLEAN, Write("ledger", x, ok)
  PROVE  /\ mem' \in Stores /\ disk' \in Stores
         /\ LedgerLeft
         /\ mem'.ledger = x
         /\ ok => disk'.ledger = x
         /\ ~ ok => disk' = disk /\ storage = "failing"
         /\ ok /\ mem = disk => mem' = disk'
<1>1. /\ mem' = [mem EXCEPT !["ledger"] = x]
      /\ ok => disk' = [disk EXCEPT !["ledger"] = x]
      /\ ~ ok => disk' = disk /\ storage = "failing"
  BY DEF Write
<1>2. mem' \in Stores /\ (ok => disk' \in Stores)
  BY <1>1, LedgerUpdates DEF StoresOK
<1>3. mem'.ledger = x /\ mem'.journal = mem.journal /\ mem'.authority = mem.authority
  BY <1>1, LedgerUpdates DEF StoresOK
<1>4. ASSUME ok PROVE disk'.ledger = x /\ disk'.journal = disk.journal /\ disk'.authority = disk.authority
  <2>1. disk' = [disk EXCEPT !["ledger"] = x]
    BY <1>1, <1>4
  <2> QED
    BY <2>1, LedgerUpdates DEF StoresOK
<1>5. ok /\ mem = disk => mem' = disk'
  BY <1>1
<1> QED
  BY <1>1, <1>2, <1>3, <1>4, <1>5 DEF StoresOK, LedgerLeft

LEMMA AuthorityWrites ==
  ASSUME StoresOK, NEW x \in AuthorityTable, NEW ok \in BOOLEAN, PutAuthority(x, ok)
  PROVE  /\ mem' \in Stores /\ disk' \in Stores
         /\ AuthorityLeft
         /\ mem'.authority = x
         /\ ok => disk'.authority = x /\ ValidAuthority(x)
         /\ ~ ok => disk' = disk /\ (ValidAuthority(x) => storage = "failing")
         /\ ok /\ mem = disk => mem' = disk'
<1>1. /\ mem' = [mem EXCEPT !["authority"] = x]
      /\ ok => disk' = [disk EXCEPT !["authority"] = x] /\ ValidAuthority(x)
      /\ ~ ok => disk' = disk /\ (ValidAuthority(x) => storage = "failing")
  BY DEF Write, PutAuthority
<1>2. mem' \in Stores /\ (ok => disk' \in Stores)
  BY <1>1, AuthorityUpdates DEF StoresOK
<1>3. mem'.authority = x /\ mem'.journal = mem.journal /\ mem'.ledger = mem.ledger
  BY <1>1, AuthorityUpdates DEF StoresOK
<1>4. ASSUME ok PROVE disk'.authority = x /\ disk'.journal = disk.journal /\ disk'.ledger = disk.ledger
  <2>1. disk' = [disk EXCEPT !["authority"] = x]
    BY <1>1, <1>4
  <2> QED
    BY <2>1, AuthorityUpdates DEF StoresOK
<1>5. ok /\ mem = disk => mem' = disk'
  BY <1>1
<1> QED
  BY <1>1, <1>2, <1>3, <1>4, <1>5 DEF StoresOK, AuthorityLeft

-----------------------------------------------------------------------------
(* The lane.                                                               *)

AllSteps == DOMAIN AdmitPlan \cup DOMAIN TerminalPlan \cup DOMAIN ReleasePlan
              \cup DOMAIN RetentionPlan \cup BootSteps \cup {"idle"}
LaneRecord == [op : Writers \cup {"none", "boot"}, proc : Procs \cup {NoProc}, pc : AllSteps,
               chosen : SUBSET Procs]

LEMMA Plans ==
  /\ DOMAIN AdmitPlan = BeforeCreation \cup {"authority_saved", "activate", "active", "reservation",
                                             "committed"}
  /\ AdmitPlan["intent"] = "token_selected" /\ AdmitPlan["token_selected"] = "allocate"
  /\ AdmitPlan["allocate"] = "allocated" /\ AdmitPlan["allocated"] = "create"
  /\ AdmitPlan["create"] = "authority_saved" /\ AdmitPlan["authority_saved"] = "activate"
  /\ AdmitPlan["activate"] = "active" /\ AdmitPlan["active"] = "reservation"
  /\ AdmitPlan["reservation"] = "committed" /\ AdmitPlan["committed"] = "end"
  /\ DOMAIN TerminalPlan = {"record", "slot", "reservation"}
  /\ TerminalPlan["record"] = "slot" /\ TerminalPlan["slot"] = "reservation"
  /\ TerminalPlan["reservation"] = "end"
  /\ DOMAIN ReleasePlan = {"release_intent", "acknowledge", "release_marked", "slot", "reservation",
                           "detach", "authority_detached", "free", "forget_admission",
                           "forget_release"}
  /\ ReleasePlan["release_intent"] = "acknowledge" /\ ReleasePlan["acknowledge"] = "release_marked"
  /\ ReleasePlan["release_marked"] = "slot" /\ ReleasePlan["slot"] = "reservation"
  /\ ReleasePlan["reservation"] = "detach" /\ ReleasePlan["detach"] = "authority_detached"
  /\ ReleasePlan["authority_detached"] = "free" /\ ReleasePlan["free"] = "forget_admission"
  /\ ReleasePlan["forget_admission"] = "forget_release" /\ ReleasePlan["forget_release"] = "select"
  /\ DOMAIN RetentionPlan = {"select", "remove", "delete"}
<1>1. /\ DOMAIN AdmitPlan = BeforeCreation \cup {"authority_saved", "activate", "active", "reservation",
                                             "committed"}
      /\ AdmitPlan["intent"] = "token_selected" /\ AdmitPlan["token_selected"] = "allocate"
      /\ AdmitPlan["allocate"] = "allocated" /\ AdmitPlan["allocated"] = "create"
      /\ AdmitPlan["create"] = "authority_saved" /\ AdmitPlan["authority_saved"] = "activate"
      /\ AdmitPlan["activate"] = "active" /\ AdmitPlan["active"] = "reservation"
      /\ AdmitPlan["reservation"] = "committed" /\ AdmitPlan["committed"] = "end"
  BY DEF AdmitPlan, BeforeCreation
<1>2. /\ DOMAIN TerminalPlan = {"record", "slot", "reservation"}
      /\ TerminalPlan["record"] = "slot" /\ TerminalPlan["slot"] = "reservation"
      /\ TerminalPlan["reservation"] = "end"
  BY DEF TerminalPlan
<1>3. /\ DOMAIN ReleasePlan = {"release_intent", "acknowledge", "release_marked", "slot",
                               "reservation", "detach", "authority_detached", "free",
                               "forget_admission", "forget_release"}
      /\ ReleasePlan["release_intent"] = "acknowledge" /\ ReleasePlan["acknowledge"] = "release_marked"
      /\ ReleasePlan["release_marked"] = "slot" /\ ReleasePlan["slot"] = "reservation"
      /\ ReleasePlan["reservation"] = "detach" /\ ReleasePlan["detach"] = "authority_detached"
      /\ ReleasePlan["authority_detached"] = "free" /\ ReleasePlan["free"] = "forget_admission"
      /\ ReleasePlan["forget_admission"] = "forget_release" /\ ReleasePlan["forget_release"] = "select"
  BY DEF ReleasePlan
<1>4. DOMAIN RetentionPlan = {"select", "remove", "delete"}
  BY DEF RetentionPlan
<1> QED
  BY <1>1, <1>2, <1>3, <1>4

LEMMA StepSets ==
  /\ Steps("none") = {"idle"}
  /\ Steps("admit") = DOMAIN AdmitPlan /\ Steps("terminal") = DOMAIN TerminalPlan
  /\ Steps("release") = DOMAIN ReleasePlan \cup DOMAIN RetentionPlan
  /\ Steps("boot") = BootSteps \cup DOMAIN RetentionPlan
  BY DEF Steps

(* A lane is a record whose step is one of its operation's.                 *)
LEMMA LaneTypes ==
  ASSUME NEW l
  PROVE  l \in Lanes <=> l \in LaneRecord /\ l.pc \in Steps(l.op)
<1> DEFINE Of(op) == [op : {op}, proc : Procs \cup {NoProc}, pc : Steps(op), chosen : SUBSET Procs]
           Ops == {"none", "admit", "terminal", "release", "boot"}
<1>1. Lanes = UNION {Of(op) : op \in Ops}
  BY DEF Lanes
<1>2. \A op \in Ops : Steps(op) \subseteq AllSteps
  BY StepSets DEF AllSteps
<1>3. ASSUME l \in Lanes PROVE l \in LaneRecord /\ l.pc \in Steps(l.op)
  <2>1. PICK op \in Ops : l \in Of(op)
    BY <1>1, <1>3
  <2> QED
    BY <2>1, <1>2 DEF LaneRecord, Writers
<1>4. ASSUME l \in LaneRecord, l.pc \in Steps(l.op) PROVE l \in Lanes
  <2>1. l.op \in Ops /\ l \in Of(l.op)
    BY <1>4 DEF LaneRecord, Writers
  <2> HIDE DEF Of
  <2> QED
    BY <2>1, <1>1
<1> QED
  BY <1>3, <1>4

LEMMA FreeLanes ==
  /\ FreeLane \in LaneRecord /\ FreeLane \in Lanes
  /\ FreeLane.op = "none" /\ FreeLane.proc = NoProc /\ FreeLane.pc = "idle" /\ FreeLane.chosen = {}
<1>1. /\ FreeLane \in LaneRecord
      /\ FreeLane.op = "none" /\ FreeLane.proc = NoProc /\ FreeLane.pc = "idle" /\ FreeLane.chosen = {}
  BY DEF FreeLane, LaneRecord, AllSteps
<1> QED
  BY <1>1, LaneTypes, StepSets

(* What becomes of the lane.                                                *)
LEMMA Takes ==
  ASSUME NEW op \in Writers \cup {"boot"}, NEW p \in Procs \cup {NoProc}, NEW pc \in Steps(op), Take(op, p, pc)
  PROVE  /\ lane' \in Lanes
         /\ lane'.op = op /\ lane'.proc = p /\ lane'.pc = pc /\ lane'.chosen = {}
<1>1. /\ lane'.op = op /\ lane'.proc = p /\ lane'.pc = pc /\ lane'.chosen = {}
      /\ lane' = [op |-> op, proc |-> p, pc |-> pc, chosen |-> {}]
  BY DEF Take
<1>2. pc \in AllSteps
  BY StepSets DEF AllSteps, Writers
<1>3. lane' \in LaneRecord
  BY <1>1, <1>2 DEF LaneRecord
<1> QED
  BY <1>1, <1>3, LaneTypes

LEMMA LaneMoves ==
  ASSUME lane \in Lanes, NEW pc \in Steps(lane.op), NEW p \in Procs \cup {NoProc}, NEW S \in SUBSET Procs
  PROVE  /\ [lane EXCEPT !.pc = pc] \in Lanes
         /\ [lane EXCEPT !.pc = pc].op = lane.op /\ [lane EXCEPT !.pc = pc].proc = lane.proc
         /\ [lane EXCEPT !.pc = pc].pc = pc /\ [lane EXCEPT !.pc = pc].chosen = lane.chosen
         /\ [lane EXCEPT !.pc = pc, !.chosen = S] \in Lanes
         /\ [lane EXCEPT !.pc = pc, !.chosen = S].op = lane.op
         /\ [lane EXCEPT !.pc = pc, !.chosen = S].proc = lane.proc
         /\ [lane EXCEPT !.pc = pc, !.chosen = S].pc = pc
         /\ [lane EXCEPT !.pc = pc, !.chosen = S].chosen = S
         /\ [lane EXCEPT !.pc = pc, !.proc = p] \in Lanes
         /\ [lane EXCEPT !.pc = pc, !.proc = p].op = lane.op
         /\ [lane EXCEPT !.pc = pc, !.proc = p].proc = p
         /\ [lane EXCEPT !.pc = pc, !.proc = p].pc = pc
         /\ [lane EXCEPT !.pc = pc, !.proc = p].chosen = lane.chosen
         /\ [lane EXCEPT !.chosen = S] \in Lanes
         /\ [lane EXCEPT !.chosen = S].op = lane.op /\ [lane EXCEPT !.chosen = S].proc = lane.proc
         /\ [lane EXCEPT !.chosen = S].pc = lane.pc /\ [lane EXCEPT !.chosen = S].chosen = S
<1>1. lane \in LaneRecord /\ lane.op \in Writers \cup {"none", "boot"}
  BY LaneTypes DEF LaneRecord
<1>2. pc \in AllSteps
  BY <1>1, StepSets DEF AllSteps, Writers
<1>3. /\ [lane EXCEPT !.pc = pc] \in LaneRecord
      /\ [lane EXCEPT !.pc = pc].op = lane.op /\ [lane EXCEPT !.pc = pc].proc = lane.proc
      /\ [lane EXCEPT !.pc = pc].pc = pc /\ [lane EXCEPT !.pc = pc].chosen = lane.chosen
  BY <1>1, <1>2 DEF LaneRecord
<1>4. /\ [lane EXCEPT !.pc = pc, !.chosen = S] \in LaneRecord
      /\ [lane EXCEPT !.pc = pc, !.chosen = S].op = lane.op
      /\ [lane EXCEPT !.pc = pc, !.chosen = S].proc = lane.proc
      /\ [lane EXCEPT !.pc = pc, !.chosen = S].pc = pc
      /\ [lane EXCEPT !.pc = pc, !.chosen = S].chosen = S
  BY <1>1, <1>2 DEF LaneRecord
<1>5. /\ [lane EXCEPT !.pc = pc, !.proc = p] \in LaneRecord
      /\ [lane EXCEPT !.pc = pc, !.proc = p].op = lane.op
      /\ [lane EXCEPT !.pc = pc, !.proc = p].proc = p
      /\ [lane EXCEPT !.pc = pc, !.proc = p].pc = pc
      /\ [lane EXCEPT !.pc = pc, !.proc = p].chosen = lane.chosen
  BY <1>1, <1>2 DEF LaneRecord
<1>6. /\ [lane EXCEPT !.chosen = S] \in LaneRecord
      /\ [lane EXCEPT !.chosen = S].op = lane.op /\ [lane EXCEPT !.chosen = S].proc = lane.proc
      /\ [lane EXCEPT !.chosen = S].pc = lane.pc /\ [lane EXCEPT !.chosen = S].chosen = S
  BY <1>1, <1>2 DEF LaneRecord
<1>7. [lane EXCEPT !.pc = pc] \in Lanes /\ [lane EXCEPT !.pc = pc, !.chosen = S] \in Lanes
  BY <1>3, <1>4, LaneTypes
<1>8. [lane EXCEPT !.pc = pc, !.proc = p] \in Lanes /\ [lane EXCEPT !.chosen = S] \in Lanes
  BY <1>5, <1>6, LaneTypes
<1> QED
  BY <1>3, <1>4, <1>5, <1>6, <1>7, <1>8

(* The lane goes on, or is let go.                                          *)
OnLane(pc, S) ==
  lane' \in Lanes /\ lane'.op = lane.op /\ lane'.proc = lane.proc /\ lane'.pc = pc /\ lane'.chosen = S
LetGo == lane' = FreeLane

LEMMA FollowsAdmit ==
  ASSUME lane \in Lanes, lane.op = "admit", NEW ok \in BOOLEAN, Follow(AdmitPlan, ok)
  PROVE  /\ Ends(AdmitPlan, ok) <=> ~ ok \/ lane.pc = "committed"
         /\ Ends(AdmitPlan, ok) => LetGo
         /\ ~ Ends(AdmitPlan, ok) => AdmitPlan[lane.pc] # "end" /\ OnLane(AdmitPlan[lane.pc], lane.chosen)
<1>1. lane.pc \in DOMAIN AdmitPlan
  BY LaneTypes, StepSets
<1>2. Ends(AdmitPlan, ok) <=> ~ ok \/ lane.pc = "committed"
  BY <1>1, Plans DEF Ends, BeforeCreation
<1>3. ASSUME ~ Ends(AdmitPlan, ok) PROVE OnLane(AdmitPlan[lane.pc], lane.chosen)
  <2>1. AdmitPlan[lane.pc] \in Steps(lane.op)
    BY <1>1, <1>2, <1>3, Plans, StepSets DEF BeforeCreation
  <2>2. lane' = [lane EXCEPT !.pc = AdmitPlan[lane.pc]]
    BY <1>3 DEF Follow, Ends
  <2> QED
    BY <2>1, <2>2, LaneMoves DEF OnLane
<1> QED
  BY <1>2, <1>3 DEF Follow, Ends, LetGo

LEMMA FollowsTerminal ==
  ASSUME lane \in Lanes, lane.op = "terminal", NEW ok \in BOOLEAN, Follow(TerminalPlan, ok)
  PROVE  /\ Ends(TerminalPlan, ok) <=> ~ ok \/ lane.pc = "reservation"
         /\ Ends(TerminalPlan, ok) => LetGo
         /\ ~ Ends(TerminalPlan, ok) => OnLane(TerminalPlan[lane.pc], lane.chosen)
<1>1. lane.pc \in DOMAIN TerminalPlan
  BY LaneTypes, StepSets
<1>2. Ends(TerminalPlan, ok) <=> ~ ok \/ lane.pc = "reservation"
  BY <1>1, Plans DEF Ends
<1>3. ASSUME ~ Ends(TerminalPlan, ok) PROVE OnLane(TerminalPlan[lane.pc], lane.chosen)
  <2>1. TerminalPlan[lane.pc] \in Steps(lane.op)
    BY <1>1, <1>2, <1>3, Plans, StepSets
  <2>2. lane' = [lane EXCEPT !.pc = TerminalPlan[lane.pc]]
    BY <1>3 DEF Follow, Ends
  <2> QED
    BY <2>1, <2>2, LaneMoves DEF OnLane
<1> QED
  BY <1>2, <1>3 DEF Follow, Ends, LetGo

LEMMA FollowsRelease ==
  ASSUME lane \in Lanes, lane.op = "release", lane.pc \notin DOMAIN RetentionPlan,
         NEW ok \in BOOLEAN, Follow(ReleasePlan, ok)
  PROVE  /\ ~ ok => LetGo
         /\ ok => OnLane(ReleasePlan[lane.pc], lane.chosen)
<1>1. lane.pc \in DOMAIN ReleasePlan
  BY LaneTypes, StepSets
<1>2. ReleasePlan[lane.pc] # "end" /\ ReleasePlan[lane.pc] \in Steps(lane.op)
  BY <1>1, Plans, StepSets
<1>3. ASSUME ok PROVE OnLane(ReleasePlan[lane.pc], lane.chosen)
  <2>2. lane' = [lane EXCEPT !.pc = ReleasePlan[lane.pc]]
    BY <1>2, <1>3 DEF Follow
  <2> QED
    BY <1>2, <2>2, LaneMoves DEF OnLane
<1> QED
  BY <1>3 DEF Follow, LetGo
-----------------------------------------------------------------------------
(* What each write does to the entries of a process.  A save that fails     *)
(* leaves the disk as it was.                                               *)

AuthorityPut(a, ok) ==
  /\ mem' \in Stores /\ disk' \in Stores
  /\ AuthorityLeft
  /\ mem'.authority = a
  /\ ok => disk'.authority = a /\ ValidAuthority(a)
  /\ ~ ok => disk' = disk /\ (ValidAuthority(a) => storage = "failing")
  /\ ok /\ mem = disk => mem' = disk'

RecordPut(p, r, ok) ==
  /\ \E a \in AuthorityTable :
       /\ AuthorityPut(a, ok)
       /\ a.records[p] = r /\ a.tombstones = mem.authority.tombstones
       /\ \A q \in Procs \ {p} : a.records[q] = Rec(q)

JournalPut(p, admit, release, ok) ==
  /\ mem' \in Stores /\ disk' \in Stores
  /\ JournalLeft
  /\ mem'.journal[p].admit = admit /\ mem'.journal[p].release = release
  /\ \A q \in Procs \ {p} : mem'.journal[q] = mem.journal[q]
  /\ ok => disk'.journal = mem'.journal
  /\ ~ ok => disk' = disk /\ storage = "failing"
  /\ ok /\ mem = disk => mem' = disk'

SlotPut(p, slot, ok) ==
  /\ mem' \in Stores /\ disk' \in Stores
  /\ LedgerLeft
  /\ mem'.ledger[p] = slot
  /\ \A q \in Procs \ {p} : mem'.ledger[q] = mem.ledger[q]
  /\ ok => disk'.ledger = mem'.ledger
  /\ ~ ok => disk' = disk /\ storage = "failing"
  /\ ok /\ mem = disk => mem' = disk'

LEMMA PutsAuthority ==
  ASSUME StoresOK, NEW a \in AuthorityTable, NEW ok \in BOOLEAN, PutAuthority(a, ok)
  PROVE  AuthorityPut(a, ok)
<1> QED
  BY AuthorityWrites, Zenon DEF AuthorityPut

LEMMA PutsRecord ==
  ASSUME StoresOK, NEW p \in Procs, NEW r \in Record, NEW ok \in BOOLEAN, PutRecord(p, r, ok)
  PROVE  RecordPut(p, r, ok)
<1> DEFINE a == [mem.authority EXCEPT !.records[p] = r]
<1>1. mem.authority \in AuthorityTable
  BY StoreFields DEF StoresOK
<1>2. /\ a \in AuthorityTable
      /\ a.records[p] = r /\ a.tombstones = mem.authority.tombstones
      /\ \A q \in Procs \ {p} : a.records[q] = mem.authority.records[q]
  BY <1>1 DEF AuthorityTable
<1>3. PutAuthority(a, ok)
  BY DEF PutRecord
<1> HIDE DEF a
<1>4. AuthorityPut(a, ok)
  BY <1>2, <1>3, PutsAuthority
<1> QED
  BY <1>2, <1>4 DEF RecordPut, Rec

LEMMA PutsAdmission ==
  ASSUME StoresOK, NEW p \in Procs, NEW st \in AdmitStates, NEW ok \in BOOLEAN, PutAdmission(p, st, ok)
  PROVE  JournalPut(p, st, mem.journal[p].release, ok)
<1> DEFINE j == [mem.journal EXCEPT ![p].admit = st]
<1>1. mem.journal \in JournalTable
  BY StoreFields DEF StoresOK
<1>2. /\ j \in JournalTable
      /\ j[p].admit = st /\ j[p].release = mem.journal[p].release
      /\ \A q \in Procs \ {p} : j[q] = mem.journal[q]
  BY <1>1 DEF JournalTable
<1>3. Write("journal", j, ok)
  BY DEF PutAdmission
<1> HIDE DEF j
<1> QED
  BY <1>2, <1>3, JournalWrites DEF JournalPut

LEMMA PutsRelease ==
  ASSUME StoresOK, NEW p \in Procs, NEW st \in ReleaseStates, NEW ok \in BOOLEAN, PutRelease(p, st, ok)
  PROVE  JournalPut(p, mem.journal[p].admit, st, ok)
<1> DEFINE j == [mem.journal EXCEPT ![p].release = st]
<1>1. mem.journal \in JournalTable
  BY StoreFields DEF StoresOK
<1>2. /\ j \in JournalTable
      /\ j[p].release = st /\ j[p].admit = mem.journal[p].admit
      /\ \A q \in Procs \ {p} : j[q] = mem.journal[q]
  BY <1>1 DEF JournalTable
<1>3. Write("journal", j, ok)
  BY DEF PutRelease
<1> HIDE DEF j
<1> QED
  BY <1>2, <1>3, JournalWrites DEF JournalPut

LEMMA PutsSlot ==
  ASSUME StoresOK, NEW p \in Procs, NEW st \in SlotStates, NEW ok \in BOOLEAN, PutSlot(p, st, ok)
  PROVE  SlotPut(p, st, ok)
<1> DEFINE l == [mem.ledger EXCEPT ![p] = st]
<1>1. mem.ledger \in LedgerTable
  BY StoreFields DEF StoresOK
<1>2. /\ l \in LedgerTable
      /\ l[p] = st
      /\ \A q \in Procs \ {p} : l[q] = mem.ledger[q]
  BY <1>1 DEF LedgerTable
<1>3. Write("ledger", l, ok)
  BY DEF PutSlot
<1> HIDE DEF l
<1> QED
  BY <1>2, <1>3, LedgerWrites DEF SlotPut

(* The operations of the ledger and of the records.                         *)
LEMMA MovesSlot ==
  ASSUME StoresOK, NEW p \in Procs, NEW st \in SlotStates, NEW ok \in BOOLEAN, MoveSlot(p, st, ok)
  PROVE  \/ Keep /\ ok /\ Slot(p) = st
         \/ Keep /\ ~ ok /\ ~ CanMove(Slot(p), st)
         \/ Keep /\ ~ ok /\ Slot(p) = "none"
         \/ SlotPut(p, st, ok)
  BY PutsSlot, Zenon DEF MoveSlot

LEMMA FreesSlot ==
  ASSUME StoresOK, NEW p \in Procs, NEW ok \in BOOLEAN, FreeSlot(p, ok)
  PROVE  \/ Keep /\ ok /\ Slot(p) = "none"
         \/ Keep /\ ~ ok /\ Slot(p) \notin {"none", "releasing"}
         \/ SlotPut(p, "none", ok)
<1>1. "none" \in SlotStates
  BY DEF SlotStates
<1> QED
  BY <1>1, PutsSlot DEF FreeSlot

LEMMA Allocates ==
  ASSUME StoresOK, NEW p \in Procs, NEW ok \in BOOLEAN, Allocate(p, ok)
  PROVE  (Keep /\ ~ ok) \/ SlotPut(p, "allocating", ok)
<1>1. "allocating" \in SlotStates
  BY DEF SlotStates
<1> QED
  BY <1>1, PutsSlot, Zenon DEF Allocate
-----------------------------------------------------------------------------
(* How a record moves on.                                                  *)

LEMMA Ranks ==
  ASSUME NEW r \in Record
  PROVE  /\ r.state = "absent" => Rank(r) = 0
         /\ r.state = "starting" => Rank(r) = 1
         /\ r.state = "running" => Rank(r) = 2
         /\ Terminal(r.state) /\ r.event => Rank(r) = 3
         /\ Terminal(r.state) /\ ~ r.event /\ r.res # "none" => Rank(r) = 4
         /\ Terminal(r.state) /\ ~ r.event /\ r.res = "none" => Rank(r) = 5
         /\ r.event \in BOOLEAN /\ r.acked \in BOOLEAN /\ r.res \in SlotStates
         /\ r.state \in {"absent", "starting", "running"} \/ Terminal(r.state)
         /\ Terminal(r.state) => r.state \notin {"absent", "starting", "running"}
<1>1. /\ r.state \in ProcessStates /\ r.event \in BOOLEAN /\ r.acked \in BOOLEAN
      /\ r.res \in SlotStates
  BY DEF Record
<1> QED
  BY <1>1 DEF Rank, Terminal, ProcessStates

LEMMA Reaches ==
  ASSUME NEW r \in Record
  PROVE  /\ Rank(r) \in 0 .. 5 /\ Reached(r) \in 0 .. 5
         /\ Rank(r) = 0 <=> r.state = "absent"
         /\ Rank(r) = 5 <=> Terminal(r.state) /\ ~ r.event /\ r.res = "none"
         /\ Rank(r) = 5 <=> Reached(r) = 5
         /\ ~ Undone(r) => Reached(r) = Rank(r)
         /\ Undone(r) => Reached(r) = 4
         /\ ValidRecord(r) => ~ Undone(r)
  BY Ranks DEF Reached, Undone, ValidRecord

Grows(r, s) ==
  /\ s \in Record /\ Plausible(s) /\ s.state # "absent"
  /\ r.state # "absent" => Reached(r) <= Reached(s)
  /\ Terminal(r.state) => Terminal(s.state)

(* A step that acknowledges nothing.                                        *)
Quietly(r, s) ==
  Grows(r, s) /\ s.acked = r.acked /\ (r.event => s.event) /\ (s.event => r.event \/ Terminal(s.state))

LEMMA Built ==
  ASSUME NEW st \in ProcessStates, NEW slot \in SlotStates, NEW e \in BOOLEAN, NEW k \in BOOLEAN
  PROVE  [state |-> st, res |-> slot, event |-> e, acked |-> k] \in Record
  BY DEF Record

LEMMA FieldUpdates ==
  ASSUME NEW r \in Record, NEW st \in ProcessStates, NEW slot \in SlotStates, NEW e \in BOOLEAN, NEW k \in BOOLEAN
  PROVE  /\ [r EXCEPT !.state = st] = [state |-> st, res |-> r.res, event |-> r.event, acked |-> r.acked]
         /\ [r EXCEPT !.res = slot] = [state |-> r.state, res |-> slot, event |-> r.event, acked |-> r.acked]
         /\ [r EXCEPT !.event = e] = [state |-> r.state, res |-> r.res, event |-> e, acked |-> r.acked]
         /\ [r EXCEPT !.acked = k] = [state |-> r.state, res |-> r.res, event |-> r.event, acked |-> k]
<1>1. PICK st1 \in ProcessStates, slot1 \in SlotStates, e1 \in BOOLEAN, k1 \in BOOLEAN :
         r = [state |-> st1, res |-> slot1, event |-> e1, acked |-> k1]
  BY DEF Record
<1>2. [r EXCEPT !.res = slot] = [state |-> r.state, res |-> slot, event |-> r.event, acked |-> r.acked]
  BY <1>1
<1>3. [r EXCEPT !.state = st] = [state |-> st, res |-> r.res, event |-> r.event, acked |-> r.acked]
  BY <1>1
<1>4. [r EXCEPT !.event = e] = [state |-> r.state, res |-> r.res, event |-> e, acked |-> r.acked]
  BY <1>1
<1>5. [r EXCEPT !.acked = k] = [state |-> r.state, res |-> r.res, event |-> r.event, acked |-> k]
  BY <1>1
<1> QED
  BY <1>2, <1>3, <1>4, <1>5

LEMMA Updated ==
  ASSUME NEW r \in Record, NEW st \in ProcessStates, NEW slot \in SlotStates, NEW e \in BOOLEAN, NEW k \in BOOLEAN
  PROVE  /\ [r EXCEPT !.res = slot] = [state |-> r.state, res |-> slot, event |-> r.event, acked |-> r.acked]
         /\ [r EXCEPT !.state = st] = [state |-> st, res |-> r.res, event |-> r.event, acked |-> r.acked]
         /\ [r EXCEPT !.event = e, !.acked = k] = [state |-> r.state, res |-> r.res, event |-> e, acked |-> k]
         /\ [r EXCEPT !.state = st, !.res = slot, !.event = e]
              = [state |-> st, res |-> slot, event |-> e, acked |-> r.acked]
<1> DEFINE r1 == [r EXCEPT !.event = e]
           r2 == [r EXCEPT !.state = st]
           r3 == [r2 EXCEPT !.res = slot]
<1>0. r.state \in ProcessStates /\ r.res \in SlotStates /\ r.event \in BOOLEAN /\ r.acked \in BOOLEAN
  BY DEF Record
<1>1. r1 = [state |-> r.state, res |-> r.res, event |-> e, acked |-> r.acked]
  BY FieldUpdates
<1>2. r2 = [state |-> st, res |-> r.res, event |-> r.event, acked |-> r.acked]
  BY FieldUpdates
<1>3. r1 \in Record /\ r1.state = r.state /\ r1.res = r.res /\ r1.event = e /\ r1.acked = r.acked
  <2> HIDE DEF r1
  <2> QED BY <1>0, <1>1, Built
<1>4. r2 \in Record /\ r2.state = st /\ r2.res = r.res /\ r2.event = r.event /\ r2.acked = r.acked
  <2> HIDE DEF r2
  <2> QED BY <1>0, <1>2, Built
<1>5. [r1 EXCEPT !.acked = k] = [state |-> r.state, res |-> r.res, event |-> e, acked |-> k]
  <2> HIDE DEF r1
  <2> QED BY <1>3, FieldUpdates
<1>6. r3 = [state |-> st, res |-> slot, event |-> r.event, acked |-> r.acked]
  <2> HIDE DEF r2
  <2>1. [r2 EXCEPT !.res = slot] = [state |-> r2.state, res |-> slot, event |-> r2.event, acked |-> r2.acked]
    BY <1>4, FieldUpdates
  <2> QED BY <1>4, <2>1
<1>7. r3 \in Record /\ r3.state = st /\ r3.res = slot /\ r3.event = r.event /\ r3.acked = r.acked
  <2> HIDE DEF r3
  <2> QED BY <1>0, <1>6, Built
<1>8. [r3 EXCEPT !.event = e] = [state |-> st, res |-> slot, event |-> e, acked |-> r.acked]
  <2> HIDE DEF r3
  <2> QED BY <1>7, FieldUpdates
<1> QED
  BY <1>5, <1>8, FieldUpdates

LEMMA ReservationGrows ==
  ASSUME NEW r \in Record, Plausible(r), r.res # "none",
         NEW slot \in SlotStates \ {"none"},
         r.state \in {"starting", "running"} => slot \in {"allocating", "active"}
  PROVE  LET s == [state |-> r.state, res |-> slot, event |-> r.event, acked |-> r.acked]
         IN  s \in Record /\ Quietly(r, s)
<1> DEFINE s == [state |-> r.state, res |-> slot, event |-> r.event, acked |-> r.acked]
<1>1. r.state \in ProcessStates
  BY DEF Record
<1>2. /\ s \in Record
      /\ s.state = r.state /\ s.res = slot /\ s.event = r.event /\ s.acked = r.acked
  BY <1>1, Ranks, Built
<1> HIDE DEF s
<1>3. r.state # "absent"
  BY NoRecords DEF Plausible
<1>4. Plausible(s)
  BY <1>2, <1>3, Ranks DEF Plausible
<1>5. Reached(r) <= Reached(s)
  BY <1>2, <1>3, Ranks DEF Reached, Undone
<1> QED
  BY <1>2, <1>3, <1>4, <1>5, Ranks DEF Quietly, Grows, Plausible, s

LEMMA RunningGrows ==
  ASSUME NEW r \in Record, Plausible(r), CanTransition(r.state, "running")
  PROVE  LET s == [state |-> "running", res |-> r.res, event |-> r.event, acked |-> r.acked]
         IN  s \in Record /\ Quietly(r, s) /\ r.state \in {"starting", "running"}
<1> DEFINE s == [state |-> "running", res |-> r.res, event |-> r.event, acked |-> r.acked]
<1>1. /\ s \in Record
      /\ s.state = "running" /\ s.res = r.res /\ s.event = r.event /\ s.acked = r.acked
  BY Ranks, Built DEF ProcessStates
<1> HIDE DEF s
<1>2. r.state \in {"starting", "running"} /\ ~ Terminal(r.state) /\ ~ Terminal("running")
  BY DEF CanTransition, Terminal
<1>3. Plausible(s)
  BY <1>1, <1>2 DEF Plausible
<1>4. Reached(r) <= Reached(s)
  BY <1>1, <1>2, Ranks DEF Reached, Undone
<1> QED
  BY <1>1, <1>2, <1>3, <1>4 DEF Quietly, Grows, s

LEMMA TerminalGrows ==
  ASSUME NEW r \in Record, Plausible(r), r.res \notin {"none", "allocating"}, ~ r.event,
         CanTransition(r.state, "exited")
  PROVE  LET s == [state |-> "exited", res |-> "terminal_unacknowledged", event |-> TRUE, acked |-> r.acked]
         IN  s \in Record /\ Quietly(r, s) /\ s.state = "exited"
<1> DEFINE s == [state |-> "exited", res |-> "terminal_unacknowledged", event |-> TRUE, acked |-> r.acked]
<1>1. /\ s \in Record /\ s.state = "exited" /\ s.event /\ s.acked = r.acked
      /\ Terminal(s.state)
  BY Ranks, Built DEF ProcessStates, SlotStates, Terminal
<1> HIDE DEF s
<1>2. Plausible(s)
  BY <1>1, Ranks DEF Plausible
<1>3. r.state # "absent"
  BY NoRecords DEF Plausible
<1>4. Reached(r) <= Reached(s)
  BY <1>1, <1>3, Ranks DEF Reached, Undone, Plausible
<1> QED
  BY <1>1, <1>2, <1>3, <1>4, Ranks DEF Quietly, Grows, s

LEMMA AcknowledgementGrows ==
  ASSUME NEW r \in Record, Plausible(r), ValidEvent(r), r.event
  PROVE  LET s == [state |-> r.state, res |-> r.res, event |-> FALSE, acked |-> TRUE]
         IN  s \in Record /\ Grows(r, s)
<1> DEFINE s == [state |-> r.state, res |-> r.res, event |-> FALSE, acked |-> TRUE]
<1>1. r.state \in ProcessStates
  BY DEF Record
<1>2. s \in Record /\ s.state = r.state /\ s.res = r.res /\ ~ s.event /\ s.acked
  BY <1>1, Ranks, Built
<1> HIDE DEF s
<1>3. Terminal(r.state) /\ r.res # "none"
  BY DEF ValidEvent
<1>4. Plausible(s) /\ s.state # "absent"
  BY <1>2, <1>3, Ranks DEF Plausible
<1>5. Reached(r) <= Reached(s)
  BY <1>2, <1>3, Ranks DEF Reached, Undone
<1> QED
  BY <1>2, <1>3, <1>4, <1>5 DEF Grows, s

LEMMA DetachmentGrows ==
  ASSUME NEW r \in Record, Plausible(r), r.res = "releasing", ~ r.event
  PROVE  LET s == [state |-> r.state, res |-> "none", event |-> r.event, acked |-> r.acked]
         IN  s \in Record /\ Quietly(r, s)
<1> DEFINE s == [state |-> r.state, res |-> "none", event |-> r.event, acked |-> r.acked]
<1>1. r.state \in ProcessStates
  BY DEF Record
<1>2. s \in Record /\ s.state = r.state /\ s.res = "none" /\ s.event = r.event /\ s.acked = r.acked
  BY <1>1, Ranks, Built DEF SlotStates
<1> HIDE DEF s
<1>3. Terminal(r.state)
  BY Ranks, NoRecords DEF Plausible
<1>4. Plausible(s)
  BY <1>2, <1>3, Ranks DEF Plausible
<1>5. Reached(r) <= Reached(s)
  BY <1>2, <1>3, Ranks DEF Reached, Undone
<1> QED
  BY <1>2, <1>3, <1>4, <1>5, Ranks DEF Quietly, Grows, s

(* The operations on the record of a process.                               *)
SetsReservation(p, slot, ok) ==
  \E s \in Record : /\ RecordPut(p, s, ok) /\ Quietly(Rec(p), s)
                    /\ s = [state |-> Rec(p).state, res |-> slot, event |-> Rec(p).event,
                            acked |-> Rec(p).acked]

LEMMA PutsReservation ==
  ASSUME StoresOK, NEW p \in Procs, NEW slot \in SlotStates \ {"none"}, NEW ok \in BOOLEAN,
         Plausible(Rec(p)),
         Rec(p).state \in {"starting", "running"} => slot \in {"allocating", "active"},
         PutReservation(p, slot, ok)
  PROVE  \/ Keep /\ ~ ok /\ Rec(p).res = "none"
         \/ Rec(p).res # "none" /\ SetsReservation(p, slot, ok)
<1>1. Rec(p) \in Record
  BY StoreFields DEF StoresOK, Rec
<1> DEFINE s == [state |-> Rec(p).state, res |-> slot, event |-> Rec(p).event, acked |-> Rec(p).acked]
<1>2. CASE Rec(p).res # "none"
  <2>1. s \in Record /\ Quietly(Rec(p), s)
    BY <1>1, <1>2, ReservationGrows
  <2>2. [Rec(p) EXCEPT !.res = slot] = s
    BY <1>1, Updated DEF ProcessStates
  <2>3. PutRecord(p, s, ok)
    BY <1>2, <2>2 DEF PutReservation
  <2> HIDE DEF s
  <2>4. RecordPut(p, s, ok)
    BY <2>1, <2>3, PutsRecord
  <2> QED
    BY <1>2, <2>1, <2>4 DEF SetsReservation, s
<1> QED
  BY <1>2 DEF PutReservation

SetsAcknowledged(p, ok) ==
  \E s \in Record : /\ RecordPut(p, s, ok) /\ Grows(Rec(p), s)
                    /\ s = [state |-> Rec(p).state, res |-> Rec(p).res, event |-> FALSE, acked |-> TRUE]

LEMMA Acknowledges ==
  ASSUME StoresOK, NEW p \in Procs, NEW ok \in BOOLEAN, Plausible(Rec(p)), Acknowledge(p, ok)
  PROVE  \/ Keep /\ (ok <=> Terminal(Rec(p).state) /\ ~ Rec(p).event /\ Rec(p).acked)
              /\ ~ (Rec(p).event /\ ValidEvent(Rec(p)))
         \/ Rec(p).event /\ ValidEvent(Rec(p)) /\ SetsAcknowledged(p, ok)
<1>1. Rec(p) \in Record
  BY StoreFields DEF StoresOK, Rec
<1> DEFINE s == [state |-> Rec(p).state, res |-> Rec(p).res, event |-> FALSE, acked |-> TRUE]
<1>2. CASE Rec(p).event /\ ValidEvent(Rec(p))
  <2>1. s \in Record /\ Grows(Rec(p), s)
    BY <1>1, <1>2, AcknowledgementGrows
  <2>2. [Rec(p) EXCEPT !.event = FALSE, !.acked = TRUE] = s
    BY <1>1, Updated DEF ProcessStates, SlotStates
  <2>3. PutRecord(p, s, ok)
    BY <1>2, <2>2 DEF Acknowledge, ValidEvent
  <2> HIDE DEF s
  <2>4. RecordPut(p, s, ok)
    BY <2>1, <2>3, PutsRecord
  <2> QED
    BY <1>2, <2>1, <2>4 DEF SetsAcknowledged, s
<1>3. CASE ~ (Rec(p).event /\ ValidEvent(Rec(p)))
  <2>1. Keep /\ ok = (Terminal(Rec(p).state) /\ ~ Rec(p).event /\ Rec(p).acked)
    BY <1>3 DEF Acknowledge
  <2> QED
    BY <1>3, <2>1
<1> QED
  BY <1>2, <1>3

SetsDetached(p, ok) ==
  \E s \in Record : /\ RecordPut(p, s, ok) /\ Quietly(Rec(p), s)
                    /\ s = [state |-> Rec(p).state, res |-> "none", event |-> Rec(p).event,
                            acked |-> Rec(p).acked]

LEMMA Detaches ==
  ASSUME StoresOK, NEW p \in Procs, NEW ok \in BOOLEAN, Plausible(Rec(p)), Detach(p, ok)
  PROVE  \/ Keep /\ (ok => Rec(p).res = "none" /\ Rec(p).state # "absent")
              /\ ~ (Rec(p).res = "releasing" /\ ~ Rec(p).event)
         \/ Rec(p).res = "releasing" /\ ~ Rec(p).event /\ SetsDetached(p, ok)
<1>1. Rec(p) \in Record
  BY StoreFields DEF StoresOK, Rec
<1> DEFINE s == [state |-> Rec(p).state, res |-> "none", event |-> Rec(p).event, acked |-> Rec(p).acked]
<1>2. CASE Rec(p).res = "releasing" /\ ~ Rec(p).event
  <2>1. s \in Record /\ Quietly(Rec(p), s)
    BY <1>1, <1>2, DetachmentGrows
  <2>2. [Rec(p) EXCEPT !.res = "none"] = s
    BY <1>1, Updated DEF ProcessStates, SlotStates
  <2>3. PutRecord(p, s, ok)
    BY <1>2, <2>2 DEF Detach
  <2> HIDE DEF s
  <2>4. RecordPut(p, s, ok)
    BY <2>1, <2>3, PutsRecord
  <2> QED
    BY <1>2, <2>1, <2>4 DEF SetsDetached, s
<1>3. CASE ~ (Rec(p).res = "releasing" /\ ~ Rec(p).event)
  BY <1>3 DEF Detach
<1> QED
  BY <1>2, <1>3

SetsExited(p, ok) ==
  \E s \in Record : /\ RecordPut(p, s, ok) /\ Quietly(Rec(p), s)
                    /\ s = [state |-> "exited", res |-> "terminal_unacknowledged", event |-> TRUE,
                            acked |-> Rec(p).acked]

LEMMA PersistsTerminal ==
  ASSUME StoresOK, NEW p \in Procs, NEW ok \in BOOLEAN, Plausible(Rec(p)), PersistTerminal(p, ok)
  PROVE  \/ Keep /\ (ok => Rec(p).event /\ Rec(p).res # "none" /\ Rec(p).state = "exited")
              /\ (~ ok => ~ (/\ ~ Rec(p).event /\ Rec(p).res \notin {"none", "allocating"}
                            /\ CanTransition(Rec(p).state, "exited")))
         \/ ~ Rec(p).event /\ CanTransition(Rec(p).state, "exited") /\ SetsExited(p, ok)
<1>1. Rec(p) \in Record
  BY StoreFields DEF StoresOK, Rec
<1> DEFINE s == [state |-> "exited", res |-> "terminal_unacknowledged", event |-> TRUE, acked |-> Rec(p).acked]
<1>0. Rec(p).event \in BOOLEAN
  BY <1>1, Ranks
<1>2. CASE /\ ~ Rec(p).event /\ Rec(p).res \notin {"none", "allocating"}
           /\ CanTransition(Rec(p).state, "exited")
  <2>1. s \in Record /\ Quietly(Rec(p), s)
    BY <1>1, <1>2, TerminalGrows
  <2>2. [Rec(p) EXCEPT !.state = "exited", !.res = "terminal_unacknowledged", !.event = TRUE] = s
    BY <1>1, Updated DEF ProcessStates, SlotStates
  <2>3. PutRecord(p, s, ok)
    BY <1>2, <2>2 DEF PersistTerminal
  <2> HIDE DEF s
  <2>4. RecordPut(p, s, ok)
    BY <2>1, <2>3, PutsRecord
  <2> QED
    BY <1>2, <2>1, <2>4 DEF SetsExited, s
<1>3. CASE Rec(p).event /\ Rec(p).res # "none"
  <2>1. Keep /\ ok = (Rec(p).state = "exited")
    BY <1>3 DEF PersistTerminal
  <2> QED
    BY <1>3, <2>1
<1>4. CASE /\ ~ (Rec(p).event /\ Rec(p).res # "none")
           /\ ~ (/\ ~ Rec(p).event /\ Rec(p).res \notin {"none", "allocating"}
                 /\ CanTransition(Rec(p).state, "exited"))
  <2>1. Rec(p).res \in {"none", "allocating"} \/ ~ CanTransition(Rec(p).state, "exited")
    BY <1>0, <1>4
  <2>2. Keep /\ ~ ok
    BY <1>4, <2>1 DEF PersistTerminal
  <2> QED
    BY <1>4, <2>2
<1> QED
  BY <1>2, <1>3, <1>4

SetsRunning(p, ok) ==
  \E s \in Record : /\ RecordPut(p, s, ok) /\ Quietly(Rec(p), s)
                    /\ s = [state |-> "running", res |-> Rec(p).res, event |-> Rec(p).event,
                            acked |-> Rec(p).acked]

(* What MarkRunning does to the files.                                      *)
RunningRecorded(p, ok) ==
  IF Rec(p).res # "none" /\ CanTransition(Rec(p).state, "running")
  THEN PutRecord(p, [Rec(p) EXCEPT !.state = "running"], ok) ELSE Keep /\ ~ ok

LEMMA RecordsRunning ==
  ASSUME StoresOK, NEW p \in Procs, NEW ok \in BOOLEAN, Plausible(Rec(p)), RunningRecorded(p, ok)
  PROVE  \/ Keep /\ ~ ok
         \/ Rec(p).state \in {"starting", "running"} /\ SetsRunning(p, ok)
<1>1. Rec(p) \in Record
  BY StoreFields DEF StoresOK, Rec
<1> DEFINE s == [state |-> "running", res |-> Rec(p).res, event |-> Rec(p).event, acked |-> Rec(p).acked]
<1>2. CASE Rec(p).res # "none" /\ CanTransition(Rec(p).state, "running")
  <2>1. s \in Record /\ Quietly(Rec(p), s) /\ Rec(p).state \in {"starting", "running"}
    BY <1>1, <1>2, RunningGrows
  <2>2. [Rec(p) EXCEPT !.state = "running"] = s
    BY <1>1, Updated DEF ProcessStates, SlotStates
  <2>3. PutRecord(p, s, ok)
    BY <1>2, <2>2 DEF RunningRecorded
  <2> HIDE DEF s
  <2>4. RecordPut(p, s, ok)
    BY <2>1, <2>3, PutsRecord
  <2> QED
    BY <1>2, <2>1, <2>4 DEF SetsRunning, s
<1> QED
  BY <1>2 DEF RunningRecorded

NewRecord == [state |-> "starting", res |-> "allocating", event |-> FALSE, acked |-> FALSE]

LEMMA NewRecords ==
  /\ NewRecord \in Record /\ Plausible(NewRecord)
  /\ NewRecord.state = "starting" /\ NewRecord.res = "allocating"
  /\ ~ NewRecord.event /\ ~ NewRecord.acked
<1>1. /\ NewRecord \in Record
      /\ NewRecord.state = "starting" /\ NewRecord.res = "allocating"
      /\ ~ NewRecord.event /\ ~ NewRecord.acked
  BY DEF NewRecord, Record, ProcessStates, SlotStates
<1> QED
  BY <1>1 DEF Plausible, Terminal

LEMMA CreatesRecord ==
  ASSUME StoresOK, NEW p \in Procs, NEW ok \in BOOLEAN, Rec(p).state = "absent", CreateRecord(p, ok)
  PROVE  RecordPut(p, NewRecord, ok)
<1>1. PutRecord(p, NewRecord, ok)
  BY DEF CreateRecord, NewRecord
<1> QED
  BY <1>1, NewRecords, PutsRecord
-----------------------------------------------------------------------------
(* A write of the authority keeps the records in order.                     *)

Moves(p, s) ==
  LET r == Rec(p) IN
  \/ s = r
  \/ Grows(r, s) /\ (r.state = "absent" => Unknown(p))
  \/ s = NoRecord /\ p \in disk.authority.tombstones

(* What DiskIsNeverUndone says of a step.                                   *)
Forward(p) ==
  LET before == disk.authority.records[p]
      after == disk'.authority.records[p]
  IN  \/ Rank(before) <= Rank(after)
      \/ Rank(before) = 5 /\ Rank(after) = 0 /\ p \in disk.authority.tombstones

AllForward == \A p \in Procs : Forward(p)

LEMMA MovesKeepBehind ==
  ASSUME StoresOK, RecordsOK, phase # "down", NEW p \in Procs, NEW s \in Record, Moves(p, s)
  PROVE  /\ Behind(disk.authority.records[p], s, p \in disk.authority.tombstones)
         /\ Plausible(s)
<1> DEFINE d == disk.authority.records[p]
           r == Rec(p)
<1>1. d \in Record /\ r \in Record
  BY StoreFields DEF StoresOK, Rec
<1>2. /\ Behind(d, r, p \in disk.authority.tombstones)
      /\ Plausible(r)
      /\ p \in disk.authority.tombstones => Rank(d) \in {0, 5}
  BY DEF RecordsOK, Rec
<1>3. CASE s = r
  BY <1>2, <1>3
<1>4. CASE Grows(r, s) /\ (r.state = "absent" => Unknown(p))
  <2>1. r.state = "absent" => Rank(d) = 0
    BY <1>4, NoRecords, Ranks DEF Unknown
  <2>2. Rank(d) <= Reached(s)
    <3> HIDE DEF d, r
    <3> QED BY <1>1, <1>2, <1>4, <2>1, Reaches DEF Grows, Behind
  <2> QED
    BY <1>4, <2>2 DEF Grows, Behind
<1>5. CASE s = NoRecord /\ p \in disk.authority.tombstones
  <2>1. s.state = "absent" /\ Plausible(s)
    BY <1>5, NoRecords DEF Plausible, Terminal
  <2> QED
    BY <1>2, <1>5, <2>1 DEF Behind
<1> QED
  BY <1>3, <1>4, <1>5 DEF Moves

LEMMA SavedRecords ==
  ASSUME NEW d \in Record, NEW s \in Record, NEW e, ValidRecord(s), Behind(d, s, e)
  PROVE  /\ Rank(d) <= Rank(s) \/ (Rank(d) = 5 /\ Rank(s) = 0 /\ e)
         /\ \A f : Behind(s, s, f)
<1>1. Rank(s) = Reached(s) /\ Rank(s) \in 0 .. 5 /\ Rank(d) \in 0 .. 5
      /\ (Rank(s) = 0 <=> s.state = "absent")
  BY Reaches
<1> QED
  BY <1>1 DEF Behind

LEMMA AuthorityPutKeeps ==
  ASSUME StoresOK, RecordsOK, phase # "down",
         NEW a \in AuthorityTable, NEW ok \in BOOLEAN, AuthorityPut(a, ok),
         \A p \in Procs : Moves(p, a.records[p]),
         \A p \in a.tombstones : Rank(a.records[p]) \in {0, 5},
         phase' # "down",
         phase' = "recovering" => ok /\ phase = "recovering",
         phase' = "up" => ok \/ (phase = "up" /\ mem.authority.tombstones \subseteq a.tombstones)
  PROVE  RecordsOK' /\ AllForward
<1>1. \A p \in Procs : /\ Behind(disk.authority.records[p], a.records[p], p \in disk.authority.tombstones)
                       /\ Plausible(a.records[p]) /\ a.records[p] \in Record
                       /\ disk.authority.records[p] \in Record
  BY MovesKeepBehind, StoreFields DEF StoresOK, AuthorityTable
<1>2. mem'.authority = a
  BY DEF AuthorityPut
<1>3. CASE ok
  <2>1. disk'.authority = a /\ ValidAuthority(a)
    BY <1>3 DEF AuthorityPut
  <2>2. \A p \in Procs : ValidRecord(a.records[p])
    BY <2>1 DEF ValidAuthority
  <2>3. \A p \in Procs : /\ \/ Rank(disk.authority.records[p]) <= Rank(a.records[p])
                            \/ /\ Rank(disk.authority.records[p]) = 5 /\ Rank(a.records[p]) = 0
                               /\ p \in disk.authority.tombstones
                         /\ Behind(a.records[p], a.records[p], p \in a.tombstones)
    BY <1>1, <2>2, SavedRecords
  <2>4. AllForward
    BY <2>1, <2>3, Zenon DEF AllForward, Forward
  <2>5. (mem = disk)' \/ ~ (phase' = "recovering")
    <3>1. phase' = "recovering" => mem' = disk'
      BY <1>3 DEF AuthorityPut, RecordsOK
    <3> QED BY <3>1
  <2> QED
    BY <1>1, <1>2, <2>1, <2>3, <2>4, <2>5 DEF RecordsOK
<1>4. CASE ~ ok
  <2>1. disk' = disk
    BY <1>4 DEF AuthorityPut
  <2>2. \A p \in Procs : Rank(disk.authority.records[p]) \in 0 .. 5
    BY <1>1, Reaches
  <2>3. AllForward
    BY <2>1, <2>2 DEF AllForward, Forward
  <2> QED
    BY <1>1, <1>2, <1>4, <2>1, <2>3 DEF RecordsOK
<1> QED
  BY <1>3, <1>4

-----------------------------------------------------------------------------
(* What a step does to the files, as far as those who work on them care:    *)
(* acker is the process it may acknowledge, creator the one it may record.  *)

HasEvent(p) == Terminal(Rec(p).state) /\ Rec(p).event

Effect(acker, creator) ==
  /\ mem' \in Stores /\ disk' \in Stores
  /\ RecordsOK' /\ AllForward
  /\ \A q \in Procs :
       /\ Says(mem', q) \/ Says(disk', q) => Says(mem, q) \/ Says(disk, q) \/ q = acker
       /\ q # creator => (Unknown(q) => Unknown(q)')
       /\ q # acker => (HasEvent(q) => HasEvent(q)')

Steady ==
  /\ disk.authority.tombstones \subseteq disk'.authority.tombstones
  /\ \A q \in Procs : Terminal(Rec(q).state) => Terminal(Rec(q).state)'

(* A startup goes on only if its save has succeeded.                        *)
PhaseStep(ok) ==
  /\ phase \in {"up", "recovering"} /\ phase' # "down"
  /\ phase' = "recovering" => ok /\ phase = "recovering"
  /\ phase' = "up" => ok \/ phase = "up"

LEMMA LeftEffect ==
  ASSUME StoresOK, RecordsOK, NEW ok \in BOOLEAN, PhaseStep(ok), NEW acker, NEW creator,
         mem' \in Stores, disk' \in Stores,
         mem'.authority = mem.authority, disk'.authority = disk.authority,
         ok /\ mem = disk => mem' = disk',
         \A q \in Procs : /\ mem'.journal[q].release # "none" => mem.journal[q].release # "none" \/ q = acker
                          /\ disk'.journal[q].release # "none" =>
                               disk.journal[q].release # "none" \/ mem.journal[q].release # "none" \/ q = acker
  PROVE  Effect(acker, creator) /\ Steady
<1>1. RecordsOK'
  <2>1. phase' = "recovering" => mem' = disk'
    BY DEF PhaseStep, RecordsOK
  <2>2. phase' = "up" => disk.authority.tombstones \subseteq mem.authority.tombstones
    BY DEF PhaseStep, RecordsOK
  <2> QED
    BY <2>1, <2>2 DEF RecordsOK, PhaseStep
<1>2. AllForward
  <2>1. \A p \in Procs : Rank(disk.authority.records[p]) \in 0 .. 5
    BY StoreFields, Reaches DEF StoresOK
  <2> QED
    BY <2>1 DEF AllForward, Forward
<1>3. \A q \in Procs : /\ Says(mem', q) \/ Says(disk', q) => Says(mem, q) \/ Says(disk, q) \/ q = acker
                       /\ Unknown(q) => Unknown(q)'
                       /\ HasEvent(q) => HasEvent(q)'
  BY DEF Says, Unknown, HasEvent, Rec
<1>4. Steady
  BY DEF Steady, Rec
<1> QED
  BY <1>1, <1>2, <1>3, <1>4, Zenon DEF Effect

LEMMA KeepEffect ==
  ASSUME StoresOK, RecordsOK, NEW ok \in BOOLEAN, PhaseStep(ok), Keep, NEW acker, NEW creator
  PROVE  Effect(acker, creator) /\ Steady
<1>1. mem' = mem /\ disk' = disk
  BY DEF Keep
<1>2. mem' \in Stores /\ disk' \in Stores /\ mem'.authority = mem.authority
      /\ disk'.authority = disk.authority /\ (ok /\ mem = disk => mem' = disk')
  BY <1>1 DEF StoresOK
<1>3. \A q \in Procs : mem'.journal[q].release = mem.journal[q].release
                       /\ disk'.journal[q].release = disk.journal[q].release
  BY <1>1
<1> QED
  BY <1>2, <1>3, LeftEffect

LEMMA SlotEffect ==
  ASSUME StoresOK, RecordsOK, NEW ok \in BOOLEAN, PhaseStep(ok), NEW acker, NEW creator,
         NEW p \in Procs, NEW slot, SlotPut(p, slot, ok)
  PROVE  Effect(acker, creator) /\ Steady
<1>1. mem' \in Stores /\ disk' \in Stores /\ mem'.authority = mem.authority
      /\ disk'.authority = disk.authority /\ (ok /\ mem = disk => mem' = disk')
      /\ mem'.journal = mem.journal /\ disk'.journal = disk.journal
  BY DEF SlotPut, LedgerLeft
<1> QED
  BY <1>1, LeftEffect

LEMMA JournalEffect ==
  ASSUME StoresOK, RecordsOK, NEW ok \in BOOLEAN, PhaseStep(ok), NEW acker, NEW creator,
         NEW p \in Procs, NEW admit, NEW release, JournalPut(p, admit, release, ok),
         acker = p \/ release = "none" \/ release = mem.journal[p].release
  PROVE  Effect(acker, creator) /\ Steady
<1>1. mem' \in Stores /\ disk' \in Stores /\ mem'.authority = mem.authority
      /\ disk'.authority = disk.authority /\ (ok /\ mem = disk => mem' = disk')
  BY DEF JournalPut, JournalLeft
<1>2. \A q \in Procs : mem'.journal[q].release # "none" => mem.journal[q].release # "none" \/ q = acker
  BY DEF JournalPut
<1>3. disk'.journal = mem'.journal \/ disk' = disk
  BY DEF JournalPut
<1>4. \A q \in Procs : disk'.journal[q].release # "none" =>
        disk.journal[q].release # "none" \/ mem.journal[q].release # "none" \/ q = acker
  BY <1>2, <1>3
<1> QED
  BY <1>1, <1>2, <1>4, LeftEffect

LEMMA RecordEffect ==
  ASSUME StoresOK, RecordsOK, NEW ok \in BOOLEAN, PhaseStep(ok), NEW acker, NEW creator,
         NEW p \in Procs, NEW s \in Record, RecordPut(p, s, ok),
         Grows(Rec(p), s), Rec(p).state = "absent" => Unknown(p),
         acker = p \/ Quietly(Rec(p), s), creator = p \/ Rec(p).state # "absent"
  PROVE  Effect(acker, creator) /\ Steady
<1>1. PICK a \in AuthorityTable : /\ AuthorityPut(a, ok)
                                  /\ a.records[p] = s /\ a.tombstones = mem.authority.tombstones
                                  /\ \A q \in Procs \ {p} : a.records[q] = Rec(q)
  BY DEF RecordPut
<1>2. \A q \in Procs : Moves(q, a.records[q])
  BY <1>1 DEF Moves
<1>3. \A q \in a.tombstones : Rank(a.records[q]) \in {0, 5}
  <2> SUFFICES ASSUME NEW q \in a.tombstones PROVE Rank(a.records[q]) \in {0, 5}
    OBVIOUS
  <2>1. q \in Procs /\ Rank(Rec(q)) \in {0, 5} /\ Rec(q) \in Record
    BY <1>1, StoreFields DEF StoresOK, RecordsOK, Rec
  <2>2. CASE q = p
    <3>1. Rec(p).state # "absent"
      BY <1>1, <2>2 DEF Unknown
    <3>2. Reached(Rec(p)) = 5
      BY <2>1, <2>2, <3>1, Reaches
    <3>3. Reached(s) \in 0 .. 5 /\ Reached(s) >= 5
      BY <3>1, <3>2, Reaches DEF Grows
    <3> QED
      BY <1>1, <2>2, <3>3, Reaches
  <2> QED
    BY <1>1, <2>1, <2>2
<1>4. RecordsOK' /\ AllForward
  BY <1>1, <1>2, <1>3, AuthorityPutKeeps DEF PhaseStep
<1>5. /\ mem' \in Stores /\ disk' \in Stores
      /\ mem'.authority = a /\ mem'.journal = mem.journal /\ disk'.journal = disk.journal
      /\ disk'.authority = a \/ disk'.authority = disk.authority
  BY <1>1 DEF AuthorityPut, AuthorityLeft
<1>6. \A q \in Procs \ {p} : /\ mem'.authority.records[q] = mem.authority.records[q]
                             /\ \/ disk'.authority.records[q] = disk.authority.records[q]
                                \/ disk'.authority.records[q] = mem.authority.records[q]
  BY <1>1, <1>5 DEF Rec
<1>7. disk.authority.tombstones \subseteq disk'.authority.tombstones
  <2>1. disk.authority.tombstones \subseteq mem.authority.tombstones
    BY DEF RecordsOK, PhaseStep
  <2> QED
    BY <1>1, <1>5, <2>1
<1>8. /\ mem'.authority.tombstones = mem.authority.tombstones
      /\ disk'.authority.tombstones \in {mem.authority.tombstones, disk.authority.tombstones}
      /\ mem'.authority.records[p] = s
      /\ disk'.authority.records[p] \in {s, disk.authority.records[p]}
  BY <1>1, <1>5
<1>9. \A q \in Procs \ {p} : /\ Says(mem', q) \/ Says(disk', q) => Says(mem, q) \/ Says(disk, q)
                             /\ Unknown(q) => Unknown(q)'
                             /\ HasEvent(q) => HasEvent(q)'
                             /\ Terminal(Rec(q).state) => Terminal(Rec(q).state)'
  BY <1>5, <1>6, <1>8 DEF Says, Unknown, HasEvent, Rec
<1>10. Says(mem', p) \/ Says(disk', p) => Says(mem, p) \/ Says(disk, p) \/ p = acker
  BY <1>5, <1>8 DEF Says, Quietly, Rec
<1>11. p # creator => (Unknown(p) => Unknown(p)')
  BY NoRecords DEF Unknown, Rec
<1>12. p # acker => (HasEvent(p) => HasEvent(p)')
  BY <1>8 DEF HasEvent, Quietly, Grows, Rec
<1>13. Terminal(Rec(p).state) => Terminal(Rec(p).state)'
  BY <1>8 DEF Grows, Rec
<1>14. Effect(acker, creator)
  BY <1>4, <1>5, <1>9, <1>10, <1>11, <1>12 DEF Effect
<1>15. Steady
  BY <1>7, <1>9, <1>13 DEF Steady
<1> QED
  BY <1>14, <1>15

-----------------------------------------------------------------------------
(* The writes of a retention and of a startup are of several records.       *)

LEMMA SelectEffect ==
  ASSUME StoresOK, RecordsOK, NEW ok \in BOOLEAN, PhaseStep(ok), NEW acker, NEW creator,
         NEW S \in SUBSET Procs, S \subseteq Retainable,
         PutAuthority([mem.authority EXCEPT !.tombstones = @ \cup S], ok)
  PROVE  /\ Effect(acker, creator) /\ Steady
         /\ ok => S \subseteq disk'.authority.tombstones
<1> DEFINE a == [mem.authority EXCEPT !.tombstones = @ \cup S]
<1>1. mem.authority \in AuthorityTable
  BY StoreFields DEF StoresOK
<1>2. a \in AuthorityTable /\ a.records = mem.authority.records /\ a.tombstones = mem.authority.tombstones \cup S
  BY <1>1 DEF AuthorityTable
<1>3. PutAuthority(a, ok)
  OBVIOUS
<1> HIDE DEF a
<1>4. AuthorityPut(a, ok)
  BY <1>2, <1>3, PutsAuthority
<1>5. \A q \in Procs : Moves(q, a.records[q])
  BY <1>2 DEF Moves, Rec
<1>6. \A q \in S : Rec(q).state # "absent" /\ Rank(Rec(q)) = 5
  <2> SUFFICES ASSUME NEW q \in S PROVE Rec(q).state # "absent" /\ Rank(Rec(q)) = 5
    OBVIOUS
  <2>1. q \in Procs /\ Rec(q) \in Record /\ Plausible(Rec(q))
    BY StoreFields DEF StoresOK, RecordsOK, Rec
  <2>2. Rec(q).state # "absent" /\ Rec(q).res = "none" /\ ~ Rec(q).event
    BY DEF Retainable
  <2>3. Terminal(Rec(q).state)
    BY <2>1, <2>2, Ranks DEF Plausible
  <2> QED
    BY <2>1, <2>2, <2>3, Ranks
<1>7. \A q \in a.tombstones : Rank(a.records[q]) \in {0, 5}
  BY <1>2, <1>6 DEF RecordsOK, Rec
<1>8. RecordsOK' /\ AllForward
  BY <1>2, <1>4, <1>5, <1>7, AuthorityPutKeeps DEF PhaseStep
<1>9. /\ mem' \in Stores /\ disk' \in Stores
      /\ mem'.authority = a /\ mem'.journal = mem.journal /\ disk'.journal = disk.journal
      /\ ok => disk'.authority = a
      /\ disk'.authority = a \/ disk'.authority = disk.authority
  BY <1>4 DEF AuthorityPut, AuthorityLeft
<1>10. disk.authority.tombstones \subseteq mem.authority.tombstones
  BY DEF RecordsOK, PhaseStep
<1>11. \A q \in Procs : /\ Says(mem', q) \/ Says(disk', q) => Says(mem, q) \/ Says(disk, q)
                        /\ HasEvent(q) => HasEvent(q)'
                        /\ Terminal(Rec(q).state) => Terminal(Rec(q).state)'
  BY <1>2, <1>9 DEF Says, HasEvent, Rec
<1>12. \A q \in Procs : Unknown(q) => Unknown(q)'
  <2> SUFFICES ASSUME NEW q \in Procs, Unknown(q) PROVE Unknown(q)'
    OBVIOUS
  <2>1. q \notin S
    BY <1>6, NoRecords DEF Unknown, Rec
  <2> QED
    BY <1>2, <1>9, <2>1 DEF Unknown
<1>13. Effect(acker, creator)
  BY <1>8, <1>9, <1>11, <1>12, Zenon DEF Effect
<1>14. Steady
  BY <1>2, <1>9, <1>10, <1>11 DEF Steady
<1>15. ok => S \subseteq disk'.authority.tombstones
  BY <1>2, <1>9
<1> QED
  BY <1>13, <1>14, <1>15

(* Records are deleted that have a tombstone; all of those, tombstones      *)
(* included, at a startup.                                                  *)
Deletes(a, S) == \A q \in Procs : a.records[q] = IF q \in S THEN NoRecord ELSE Rec(q)

LEMMA DeleteEffect ==
  ASSUME StoresOK, RecordsOK, NEW ok \in BOOLEAN, PhaseStep(ok), NEW acker, NEW creator,
         NEW S \in SUBSET Procs, S \subseteq disk.authority.tombstones,
         NEW a \in AuthorityTable, PutAuthority(a, ok),
         Deletes(a, S),
         \/ a.tombstones = mem.authority.tombstones
         \/ a.tombstones = {} /\ phase = "recovering" /\ S = mem.authority.tombstones
  PROVE  /\ Effect(acker, creator)
         /\ \A q \in disk.authority.tombstones \ disk'.authority.tombstones :
              disk'.authority.records[q].state = "absent"
<1> USE DEF Deletes
<1>1. AuthorityPut(a, ok)
  BY PutsAuthority
<1>2. \A q \in Procs : Moves(q, a.records[q])
  BY DEF Moves
<1>3. \A q \in a.tombstones : Rank(a.records[q]) \in {0, 5}
  <2> SUFFICES ASSUME NEW q \in a.tombstones PROVE Rank(a.records[q]) \in {0, 5}
    OBVIOUS
  <2>1. q \in Procs /\ q \in mem.authority.tombstones
    BY DEF AuthorityTable
  <2>2. Rank(Rec(q)) \in {0, 5} /\ Rank(NoRecord) = 0
    BY <2>1, NoRecords, Ranks DEF RecordsOK, Rec
  <2> QED
    BY <2>1, <2>2
<1>4. \/ phase' # "up" \/ ok \/ (phase = "up" /\ a.tombstones = mem.authority.tombstones)
  BY DEF PhaseStep
<1>5. RecordsOK' /\ AllForward
  BY <1>1, <1>2, <1>3, <1>4, AuthorityPutKeeps DEF PhaseStep
<1>6. /\ mem' \in Stores /\ disk' \in Stores
      /\ mem'.authority = a /\ mem'.journal = mem.journal /\ disk'.journal = disk.journal
      /\ disk'.authority = a \/ disk'.authority = disk.authority
  BY <1>1 DEF AuthorityPut, AuthorityLeft
<1>7. disk.authority.tombstones \subseteq mem.authority.tombstones
  BY DEF RecordsOK, PhaseStep
<1>8. \A q \in S : ~ HasEvent(q)
  <2> SUFFICES ASSUME NEW q \in S PROVE ~ HasEvent(q)
    OBVIOUS
  <2>1. Rec(q) \in Record /\ Rank(Rec(q)) \in {0, 5}
    BY <1>7, StoreFields DEF StoresOK, RecordsOK, Rec
  <2> QED
    BY <2>1, Ranks DEF HasEvent
<1>9. \A q \in Procs : /\ Says(mem', q) \/ Says(disk', q) => Says(mem, q) \/ Says(disk, q)
                       /\ HasEvent(q) => HasEvent(q)'
  <2> SUFFICES ASSUME NEW q \in Procs
               PROVE  /\ Says(mem', q) \/ Says(disk', q) => Says(mem, q) \/ Says(disk, q)
                      /\ HasEvent(q) => HasEvent(q)'
    OBVIOUS
  <2>1. a.records[q] = IF q \in S THEN NoRecord ELSE Rec(q)
    OBVIOUS
  <2>2. a.records[q].acked => mem.authority.records[q].acked
    BY <2>1, NoRecords DEF Rec
  <2>3. Says(mem', q) \/ Says(disk', q) => Says(mem, q) \/ Says(disk, q)
    BY <1>6, <2>2 DEF Says
  <2>4. HasEvent(q) => HasEvent(q)'
    BY <1>6, <1>8, <2>1 DEF HasEvent, Rec
  <2> QED
    BY <2>3, <2>4
<1>10. \A q \in Procs : Unknown(q) => Unknown(q)'
  BY <1>6 DEF Unknown, Rec
<1>11. Effect(acker, creator)
  BY <1>5, <1>6, <1>9, <1>10, Zenon DEF Effect
<1>12. \A q \in disk.authority.tombstones \ disk'.authority.tombstones :
         disk'.authority.records[q].state = "absent"
  <2> SUFFICES ASSUME NEW q \in disk.authority.tombstones, q \notin disk'.authority.tombstones
               PROVE  disk'.authority.records[q].state = "absent"
    OBVIOUS
  <2>1. disk'.authority = a /\ q \in mem.authority.tombstones /\ q \in Procs
    BY <1>6, <1>7, StoreFields DEF StoresOK
  <2>2. q \in S
    BY <2>1
  <2> QED
    BY <2>1, <2>2, NoRecords
<1> QED
  BY <1>11, <1>12

LEMMA InterruptionGrows ==
  ASSUME NEW r \in Record, r.state \in {"starting", "running"}
  PROVE  LET s == [state |-> "interrupted", res |-> "terminal_unacknowledged", event |-> TRUE, acked |-> r.acked]
         IN  s \in Record /\ Quietly(r, s) /\ Terminal(s.state)
<1> DEFINE s == [state |-> "interrupted", res |-> "terminal_unacknowledged", event |-> TRUE, acked |-> r.acked]
<1>1. /\ s \in Record /\ s.state = "interrupted" /\ s.event /\ s.acked = r.acked
      /\ Terminal(s.state)
  BY Ranks, Built DEF ProcessStates, SlotStates, Terminal
<1> HIDE DEF s
<1>2. Plausible(s)
  BY <1>1, Ranks DEF Plausible
<1>3. Reached(r) <= Reached(s)
  BY <1>1, Ranks DEF Reached, Undone
<1> QED
  BY <1>1, <1>2, <1>3, Ranks DEF Quietly, Grows, s

InterruptedRecord(r) ==
  [state |-> "interrupted", res |-> "terminal_unacknowledged", event |-> TRUE, acked |-> r.acked]

Interrupts(a, S) ==
  \A q \in Procs : a.records[q] = IF q \in S THEN InterruptedRecord(Rec(q)) ELSE Rec(q)

LEMMA InterruptEffect ==
  ASSUME StoresOK, RecordsOK, NEW ok \in BOOLEAN, PhaseStep(ok), NEW acker, NEW creator,
         NEW S \in SUBSET Procs, \A q \in S : Rec(q).state \in {"starting", "running"},
         NEW a \in AuthorityTable, PutAuthority(a, ok),
         Interrupts(a, S),
         a.tombstones = mem.authority.tombstones
  PROVE  Effect(acker, creator) /\ Steady
<1> USE DEF Interrupts
<1>1. AuthorityPut(a, ok)
  BY PutsAuthority
<1>2. \A q \in S : /\ Quietly(Rec(q), a.records[q]) /\ Rec(q) \in Record
                   /\ Rec(q).state # "absent" /\ ~ Terminal(Rec(q).state)
                   /\ Terminal(a.records[q].state)
  <2> SUFFICES ASSUME NEW q \in S
               PROVE  /\ Quietly(Rec(q), a.records[q]) /\ Rec(q) \in Record
                      /\ Rec(q).state # "absent" /\ ~ Terminal(Rec(q).state)
                      /\ Terminal(a.records[q].state)
    OBVIOUS
  <2>1. Rec(q) \in Record
    BY StoreFields DEF StoresOK, Rec
  <2>2. a.records[q] = InterruptedRecord(Rec(q))
    OBVIOUS
  <2> QED
    BY <2>1, <2>2, InterruptionGrows DEF InterruptedRecord, Terminal
<1>3. \A q \in Procs : Moves(q, a.records[q])
  BY <1>2 DEF Moves, Quietly
<1>4. \A q \in a.tombstones : Rank(a.records[q]) \in {0, 5}
  <2> SUFFICES ASSUME NEW q \in a.tombstones PROVE Rank(a.records[q]) \in {0, 5}
    OBVIOUS
  <2>1. q \in Procs /\ Rank(Rec(q)) \in {0, 5}
    BY StoreFields DEF StoresOK, RecordsOK, Rec
  <2>2. q \notin S
    BY <1>2, <2>1, Reaches
  <2> QED
    BY <2>1, <2>2
<1>5. RecordsOK' /\ AllForward
  BY <1>1, <1>3, <1>4, AuthorityPutKeeps DEF PhaseStep
<1>6. /\ mem' \in Stores /\ disk' \in Stores
      /\ mem'.authority = a /\ mem'.journal = mem.journal /\ disk'.journal = disk.journal
      /\ disk'.authority = a \/ disk'.authority = disk.authority
  BY <1>1 DEF AuthorityPut, AuthorityLeft
<1>7. disk.authority.tombstones \subseteq mem.authority.tombstones
  BY DEF RecordsOK, PhaseStep
<1>8. \A q \in Procs : /\ Says(mem', q) \/ Says(disk', q) => Says(mem, q) \/ Says(disk, q)
                       /\ HasEvent(q) => HasEvent(q)'
                       /\ Terminal(Rec(q).state) => Terminal(Rec(q).state)'
                       /\ Unknown(q) => Unknown(q)'
  <2> SUFFICES ASSUME NEW q \in Procs
               PROVE  /\ Says(mem', q) \/ Says(disk', q) => Says(mem, q) \/ Says(disk, q)
                      /\ HasEvent(q) => HasEvent(q)'
                      /\ Terminal(Rec(q).state) => Terminal(Rec(q).state)'
                      /\ Unknown(q) => Unknown(q)'
    OBVIOUS
  <2>1. CASE q \in S
    <3>1. a.records[q].acked = mem.authority.records[q].acked /\ ~ Unknown(q) /\ ~ HasEvent(q)
      BY <1>2, <2>1, NoRecords DEF Unknown, HasEvent, Rec, Quietly
    <3> QED
      BY <1>2, <1>6, <2>1, <3>1 DEF Says
  <2>2. CASE q \notin S
    <3>1. a.records[q] = mem.authority.records[q]
      BY <2>2 DEF Rec
    <3> QED
      BY <1>6, <3>1 DEF Says, HasEvent, Unknown, Rec
  <2> QED
    BY <2>1, <2>2
<1> QED
  BY <1>5, <1>6, <1>7, <1>8, Zenon DEF Effect, Steady

-----------------------------------------------------------------------------
(* The steps of the supervisor.                                            *)

LogsSafe ==
  \A p \in Procs :
    /\ p \in logs \ logs' => p \in disk.authority.tombstones
    /\ p \in disk.authority.tombstones \ disk'.authority.tombstones =>
         disk'.authority.records[p].state = "absent"

Kept == WritersInv' /\ AllForward /\ LogsSafe

LEMMA Typed ==
  ASSUME TypeOK
  PROVE  /\ StoresOK /\ lane \in Lanes /\ lane.pc \in Steps(lane.op)
         /\ lane.op \in Writers \cup {"none", "boot"}
         /\ lane.proc \in Procs \cup {NoProc} /\ lane.chosen \in SUBSET Procs
         /\ outbox.todo \in SUBSET Procs /\ outbox.acking \in Procs \cup {NoProc}
         /\ outbox = [todo |-> outbox.todo, acking |-> outbox.acking]
         /\ NoProc \notin Procs
<1>1. StoresOK /\ lane \in Lanes /\ NoProc \notin Procs
  BY ProcessPersistenceAssumption DEF TypeOK, StoresOK
<1>2. lane \in LaneRecord /\ lane.pc \in Steps(lane.op)
  BY <1>1, LaneTypes
<1>3. /\ outbox.todo \in SUBSET Procs /\ outbox.acking \in Procs \cup {NoProc}
      /\ outbox = [todo |-> outbox.todo, acking |-> outbox.acking]
  BY DEF TypeOK
<1> QED
  BY <1>1, <1>2, <1>3 DEF LaneRecord

LEMMA SupChanges ==
  ASSUME TypeOK, NEW p \in Procs, NEW st \in SupStates, Sup(p, st)
  PROVE  /\ sup' \in [Procs -> SupStates] /\ sup'[p] = st
         /\ \A q \in Procs \ {p} : sup'[q] = sup[q]
  BY DEF TypeOK, Sup

LEMMA StaysTyped ==
  ASSUME TypeOK, NEW acker, NEW creator, Effect(acker, creator), logs' \in SUBSET Procs, phase' \in Phases,
         lane' \in Lanes, sup' \in [Procs -> SupStates],
         outbox' \in [todo : SUBSET Procs, acking : Procs \cup {NoProc}],
         delivered' \in [Procs -> {"none", "exited", "interrupted"}], cutShort' \in BOOLEAN,
         storage' = storage
  PROVE  TypeOK'
  BY DEF TypeOK, Effect

(* What the step leaves of the announcements: nothing new is spoken of,     *)
(* unless it has been announced.                                            *)
LEMMA StaysAnnounced ==
  ASSUME AnnouncedOK, NEW acker, NEW creator, Effect(acker, creator), UNCHANGED <<outbox, delivered>>,
         acker \in Procs => Announced(acker),
         lane'.op = "release" \/ At("boot", "release")' => Announced(lane'.proc)
  PROVE  AnnouncedOK'
  BY DEF AnnouncedOK, Announced, Effect

LEMMA StaysInOutbox ==
  ASSUME OutboxOK, NEW acker, NEW creator, Effect(acker, creator), UNCHANGED outbox,
         outbox.todo \in SUBSET Procs,
         acker \notin Procs \/ acker = outbox.acking,
         phase' = phase
  PROVE  OutboxOK'
<1>1. \A p \in outbox.todo : p # outbox.acking /\ HasEvent(p) => HasEvent(p)'
  BY DEF Effect
<1> QED
  BY <1>1 DEF OutboxOK, HasEvent

LEMMA LogsStaySafe ==
  ASSUME Steady, logs \subseteq logs'
  PROVE  LogsSafe
  BY DEF LogsSafe, Steady

LEMMA Reserves ==
  ASSUME WritersInv, NEW p \in Procs, Reserve(p) PROVE Kept
<1> USE DEF WritersInv
<1>1. /\ phase = "up" /\ lane = FreeLane /\ sup[p] = "new"
      /\ Take("admit", p, "intent") /\ Sup(p, "admitting")
      /\ UNCHANGED <<mem, disk, logs, phase, outbox, delivered, cutShort, storage>>
  BY DEF Reserve
<1>2. Effect(NoProc, NoProc) /\ Steady
  BY <1>1, Typed, KeepEffect DEF PhaseStep, Keep
<1>3. /\ lane' \in Lanes
      /\ lane'.op = "admit" /\ lane'.proc = p /\ lane'.pc = "intent" /\ lane'.chosen = {}
  BY <1>1, Takes, StepSets, Plans DEF Writers, BeforeCreation
<1>4. /\ sup' \in [Procs -> SupStates] /\ sup'[p] = "admitting"
      /\ \A q \in Procs \ {p} : sup'[q] = sup[q]
  BY <1>1, SupChanges DEF SupStates
<1>5. TypeOK'
  BY <1>1, <1>2, <1>3, <1>4, StaysTyped DEF TypeOK
<1>6. LaneOK'
  BY <1>1, <1>3, <1>4, FreeLanes DEF LaneOK, Writers, At
<1>7. OutboxOK'
  BY <1>1, <1>2, Typed, StaysInOutbox
<1>8. AnnouncedOK'
  BY <1>1, <1>2, <1>3, Typed, StaysAnnounced DEF At
<1>9. WorkOK'
  <2>1. \A q \in Procs : Unknown(q) => Unknown(q)'
    BY <1>2, Typed DEF Effect
  <2> QED
    BY <1>1, <1>3, <1>4, <2>1 DEF WorkOK, At
<1>10. LogsSafe
  BY <1>1, <1>2, LogsStaySafe
<1> QED
  BY <1>2, <1>5, <1>6, <1>7, <1>8, <1>9, <1>10 DEF Kept, Effect

(* A step of the supervisor that needs no file: it holds no lane, and takes *)
(* none.                                                                    *)
SupervisorMoves(p, st) ==
  /\ phase = "up" /\ sup[p] \notin {"new", "admitting", "recording"} /\ Sup(p, st)
  /\ st \in SupStates \ {"new", "admitting", "recording"}
  /\ logs \subseteq logs' /\ logs' \in SUBSET Procs
  /\ UNCHANGED <<phase, lane, outbox, delivered, cutShort, storage>>

LEMMA SupervisorMovesKeep ==
  ASSUME WritersInv, NEW p \in Procs, NEW st, SupervisorMoves(p, st), Effect(NoProc, NoProc), Steady
  PROVE  Kept
<1> USE DEF WritersInv
<1>1. /\ phase = "up" /\ sup[p] \notin {"new", "admitting", "recording"}
      /\ st \in SupStates \ {"new", "admitting", "recording"}
      /\ logs \subseteq logs' /\ logs' \in SUBSET Procs
      /\ UNCHANGED <<phase, lane, outbox, delivered, cutShort, storage>>
  BY DEF SupervisorMoves
<1>2. /\ sup' \in [Procs -> SupStates] /\ sup'[p] = st
      /\ \A q \in Procs \ {p} : sup'[q] = sup[q]
  BY <1>1, SupChanges DEF SupervisorMoves
<1>3. TypeOK'
  BY <1>1, <1>2, StaysTyped DEF TypeOK
<1>4. LaneOK'
  BY <1>1, <1>2, Typed DEF LaneOK, At
<1>5. OutboxOK'
  BY <1>1, Typed, StaysInOutbox
<1>6. AnnouncedOK'
  BY <1>1, Typed, StaysAnnounced DEF AnnouncedOK, At
<1>7. WorkOK'
  <2>1. \A q \in Procs : Unknown(q) => Unknown(q)'
    BY Typed DEF Effect
  <2>2. lane.op \in Writers => lane.proc \in Procs
    BY DEF LaneOK
  <2>3. ~ At("boot", "release") /\ ~ At("boot", "release")'
    BY <1>1 DEF LaneOK, At
  <2>4. \A q \in Procs : Terminal(Rec(q).state) => Terminal(Rec(q).state)'
    BY DEF Steady
  <2>5. \A q \in Procs : sup'[q] = "new" => Unknown(q)'
    BY <1>1, <1>2, <2>1 DEF WorkOK
  <2>6. lane.op = "admit" /\ lane.pc \in BeforeCreation => Unknown(lane.proc)'
    BY <1>1, <2>1, <2>2 DEF WorkOK, Writers
  <2>7. /\ lane.op = "terminal" /\ lane.pc # "record" => Terminal(Rec(lane.proc).state)'
        /\ lane.op = "release" /\ lane.pc \notin DOMAIN RetentionPlan => Terminal(Rec(lane.proc).state)'
    BY <1>1, <2>2, <2>4 DEF WorkOK, Writers
  <2>8. lane.pc \in {"remove", "delete"} => lane.chosen \subseteq disk'.authority.tombstones
    BY DEF WorkOK, Steady
  <2> QED
    BY <1>1, <2>3, <2>5, <2>6, <2>7, <2>8 DEF WorkOK, Rec
<1>8. LogsSafe
  BY <1>1, LogsStaySafe
<1> QED
  BY <1>3, <1>4, <1>5, <1>6, <1>7, <1>8 DEF Kept, Effect

LEMMA OpensLog ==
  ASSUME WritersInv, NEW p \in Procs, OpenLog(p) PROVE Kept
<1> USE DEF WritersInv
<1>1. SupervisorMoves(p, "opened")
  BY DEF OpenLog, SupervisorMoves, SupStates, TypeOK
<1>2. Effect(NoProc, NoProc) /\ Steady
  BY Typed, KeepEffect DEF OpenLog, PhaseStep, Keep
<1> QED
  BY <1>1, <1>2, SupervisorMovesKeep

LEMMA FailsBeforeSpawn ==
  ASSUME WritersInv, NEW p \in Procs, FailBeforeSpawn(p) \/ Exit(p) PROVE Kept
<1> USE DEF WritersInv
<1>1. SupervisorMoves(p, "exited")
  BY DEF FailBeforeSpawn, Exit, SupervisorMoves, SupStates, TypeOK
<1>2. Effect(NoProc, NoProc) /\ Steady
  BY Typed, KeepEffect DEF FailBeforeSpawn, Exit, PhaseStep, Keep
<1> QED
  BY <1>1, <1>2, SupervisorMovesKeep

LEMMA MarksRunning ==
  ASSUME WritersInv, NEW p \in Procs, NEW ok \in BOOLEAN, MarkRunning(p, ok) PROVE Kept
<1> USE DEF WritersInv
<1>1. SupervisorMoves(p, IF ok THEN "running" ELSE "exited") /\ RunningRecorded(p, ok)
  BY DEF MarkRunning, RunningRecorded, SupervisorMoves, SupStates, TypeOK
<1>2. PhaseStep(ok)
  BY <1>1 DEF PhaseStep, SupervisorMoves
<1>3. Effect(NoProc, NoProc) /\ Steady
  <2>1. Plausible(Rec(p)) /\ StoresOK
    BY Typed DEF RecordsOK, Rec
  <2>2. CASE Keep
    BY <1>2, <2>1, <2>2, KeepEffect
  <2>3. CASE Rec(p).state \in {"starting", "running"} /\ SetsRunning(p, ok)
    <3>1. PICK s \in Record : RecordPut(p, s, ok) /\ Quietly(Rec(p), s)
      BY <2>3 DEF SetsRunning
    <3>2. Grows(Rec(p), s) /\ Rec(p).state # "absent"
      BY <2>3, <3>1 DEF Quietly
    <3> QED
      BY <1>2, <2>1, <3>1, <3>2, RecordEffect
  <2> QED
    BY <1>1, <2>1, <2>2, <2>3, RecordsRunning
<1> QED
  BY <1>1, <1>3, SupervisorMovesKeep

LEMMA MarksTerminal ==
  ASSUME WritersInv, NEW p \in Procs, MarkTerminal(p) PROVE Kept
<1> USE DEF WritersInv
<1>1. /\ phase = "up" /\ lane = FreeLane /\ sup[p] = "exited"
      /\ Take("terminal", p, "record") /\ Sup(p, "recording")
      /\ UNCHANGED <<mem, disk, logs, phase, outbox, delivered, cutShort, storage>>
  BY DEF MarkTerminal
<1>2. Effect(NoProc, NoProc) /\ Steady
  BY <1>1, Typed, KeepEffect DEF PhaseStep, Keep
<1>3. /\ lane' \in Lanes
      /\ lane'.op = "terminal" /\ lane'.proc = p /\ lane'.pc = "record" /\ lane'.chosen = {}
  BY <1>1, Takes, StepSets, Plans DEF Writers
<1>4. /\ sup' \in [Procs -> SupStates] /\ sup'[p] = "recording"
      /\ \A q \in Procs \ {p} : sup'[q] = sup[q]
  BY <1>1, SupChanges DEF SupStates
<1>5. TypeOK'
  BY <1>1, <1>2, <1>3, <1>4, StaysTyped DEF TypeOK
<1>6. LaneOK'
  BY <1>1, <1>3, <1>4, FreeLanes DEF LaneOK, Writers, At
<1>7. OutboxOK'
  BY <1>1, <1>2, Typed, StaysInOutbox
<1>8. AnnouncedOK'
  BY <1>1, <1>2, <1>3, Typed, StaysAnnounced DEF At
<1>9. WorkOK'
  <2>1. \A q \in Procs : Unknown(q) => Unknown(q)'
    BY <1>2, Typed DEF Effect
  <2> QED
    BY <1>1, <1>3, <1>4, <2>1 DEF WorkOK, At
<1>10. LogsSafe
  BY <1>1, <1>2, LogsStaySafe
<1> QED
  BY <1>2, <1>5, <1>6, <1>7, <1>8, <1>9, <1>10 DEF Kept, Effect

LEMMA AdmitsProcess ==
  ASSUME WritersInv, NEW p \in Procs, NEW ok \in BOOLEAN, AdmitProcess(p, ok) PROVE Kept
<1> USE DEF WritersInv
<1> DEFINE creator == IF lane.pc = "create" THEN p ELSE NoProc
<1>1. /\ lane.op = "admit" /\ lane.proc = p /\ phase = "up"
      /\ Follow(AdmitPlan, ok)
      /\ UNCHANGED <<logs, phase, outbox, delivered, cutShort, storage>>
  BY DEF AdmitProcess, LaneOK, Writers
<1>2. sup' = IF Ends(AdmitPlan, ok) THEN [sup EXCEPT ![p] = IF ok THEN "admitted" ELSE "rejected"] ELSE sup
  BY DEF AdmitProcess
<1>3. PhaseStep(ok) /\ StoresOK /\ Plausible(Rec(p))
  BY <1>1, Typed DEF PhaseStep, RecordsOK, Rec
<1>4. Effect(NoProc, creator) /\ Steady
  <2>1. CASE lane.pc \in {"intent", "token_selected", "allocated", "authority_saved", "active", "committed"}
             /\ PutAdmission(p, lane.pc, ok)
    <3>1. lane.pc \in AdmitStates
      BY <2>1 DEF AdmitStates
    <3>2. JournalPut(p, lane.pc, mem.journal[p].release, ok)
      BY <1>3, <2>1, <3>1, PutsAdmission
    <3> QED
      BY <1>3, <3>2, JournalEffect
  <2>2. CASE lane.pc = "allocate" /\ Allocate(p, ok)
    <3>1. Keep \/ SlotPut(p, "allocating", ok)
      BY <1>3, <2>2, Allocates
    <3> QED
      BY <1>3, <3>1, KeepEffect, SlotEffect
  <2>3. CASE lane.pc = "create" /\ CreateRecord(p, ok)
    <3>1. Unknown(p) /\ creator = p
      BY <1>1, <2>3 DEF WorkOK, BeforeCreation
    <3>2. Rec(p) = NoRecord /\ Rec(p).state = "absent" /\ ~ Rec(p).acked /\ ~ Rec(p).event
      BY <3>1, NoRecords DEF Unknown, Rec
    <3>3. RecordPut(p, NewRecord, ok)
      BY <1>3, <2>3, <3>2, CreatesRecord
    <3>4. Grows(Rec(p), NewRecord) /\ Quietly(Rec(p), NewRecord)
      <4>1. /\ Rec(p).acked \in BOOLEAN /\ NewRecord.acked \in BOOLEAN
            /\ Rec(p).event \in BOOLEAN /\ NewRecord.event \in BOOLEAN
        BY <3>2, NewRecords, NoRecords, Ranks
      <4> QED
        BY <3>2, <4>1, NewRecords DEF Grows, Quietly, Terminal
    <3> HIDE DEF creator
    <3> QED
      BY <1>3, <3>1, <3>3, <3>4, NewRecords, RecordEffect
  <2>4. CASE lane.pc = "activate" /\ MoveSlot(p, "active", ok)
    <3>1. Keep \/ SlotPut(p, "active", ok)
      BY <1>3, <2>4, MovesSlot DEF SlotStates
    <3> QED
      BY <1>3, <3>1, KeepEffect, SlotEffect
  <2>5. CASE lane.pc = "reservation" /\ PutReservation(p, "active", ok)
    <3>1. Keep \/ (Rec(p).res # "none" /\ SetsReservation(p, "active", ok))
      BY <1>3, <2>5, PutsReservation DEF SlotStates
    <3>2. CASE Rec(p).res # "none" /\ SetsReservation(p, "active", ok)
      <4>1. PICK s \in Record : RecordPut(p, s, ok) /\ Quietly(Rec(p), s)
        BY <3>2 DEF SetsReservation
      <4>2. Grows(Rec(p), s) /\ Rec(p).state # "absent"
        BY <1>3, <3>2, <4>1, NoRecords DEF Quietly, Plausible
      <4> QED
        BY <1>3, <4>1, <4>2, RecordEffect
    <3> QED
      BY <1>3, <3>1, <3>2, KeepEffect
  <2> QED
    BY <2>1, <2>2, <2>3, <2>4, <2>5 DEF AdmitProcess
<1> HIDE DEF creator
<1>5. /\ Ends(AdmitPlan, ok) => LetGo
      /\ ~ Ends(AdmitPlan, ok) => AdmitPlan[lane.pc] # "end" /\ OnLane(AdmitPlan[lane.pc], lane.chosen)
  BY <1>1, Typed, FollowsAdmit
<1>6. lane' \in Lanes
  BY <1>5, FreeLanes DEF LetGo, OnLane
<1>7. \/ Ends(AdmitPlan, ok) /\ LetGo /\ sup' \in [Procs -> SupStates]
            /\ sup'[p] \in {"admitted", "rejected"} /\ \A q \in Procs \ {p} : sup'[q] = sup[q]
      \/ sup' = sup /\ OnLane(AdmitPlan[lane.pc], lane.chosen) /\ AdmitPlan[lane.pc] # "end"
  <2>1. CASE Ends(AdmitPlan, ok)
    <3>1. Sup(p, IF ok THEN "admitted" ELSE "rejected")
      BY <1>2, <2>1 DEF Sup
    <3>2. /\ sup' \in [Procs -> SupStates] /\ sup'[p] = IF ok THEN "admitted" ELSE "rejected"
          /\ \A q \in Procs \ {p} : sup'[q] = sup[q]
      BY <3>1, SupChanges DEF SupStates
    <3> QED
      BY <1>5, <2>1, <3>2
  <2> QED
    BY <1>2, <1>5, <2>1
<1>8. sup' \in [Procs -> SupStates]
  BY <1>7 DEF TypeOK
<1>9. TypeOK'
  BY <1>1, <1>4, <1>6, <1>8, StaysTyped DEF TypeOK
<1>10. LaneOK'
  <2>1. CASE LetGo /\ sup'[p] \in {"admitted", "rejected"} /\ \A q \in Procs \ {p} : sup'[q] = sup[q]
    BY <1>1, <2>1, FreeLanes DEF LaneOK, LetGo, Writers, At
  <2>2. CASE sup' = sup /\ OnLane(AdmitPlan[lane.pc], lane.chosen)
    BY <1>1, <2>2 DEF LaneOK, OnLane, Writers, At
  <2> QED
    BY <1>7, <2>1, <2>2
<1>11. OutboxOK'
  BY <1>1, <1>4, Typed, StaysInOutbox
<1>12. lane'.op \in {"none", "admit"}
  BY <1>1, <1>5, FreeLanes DEF LetGo, OnLane
<1>13. AnnouncedOK'
  BY <1>1, <1>4, <1>12, Typed, StaysAnnounced DEF At
<1>14. WorkOK'
  <2>1. \A q \in Procs \ {creator} : Unknown(q) => Unknown(q)'
    BY <1>4 DEF Effect
  <2>2. sup[p] = "admitting" /\ p \in Procs
    BY <1>1 DEF LaneOK
  <2>3. \A q \in Procs : sup'[q] = "new" => Unknown(q)'
    <3>1. \A q \in Procs : sup'[q] = "new" => q # p /\ sup[q] = "new"
      BY <1>7, <2>2
    <3> QED
      BY <2>1, <3>1, Typed DEF WorkOK, creator
  <2>4. lane'.op = "admit" /\ lane'.pc \in BeforeCreation =>
          lane'.proc = p /\ lane.pc \in BeforeCreation \ {"create"}
    <3>1. lane.pc \in DOMAIN AdmitPlan
      BY <1>1, Typed, StepSets
    <3>2. AdmitPlan[lane.pc] \in BeforeCreation => lane.pc \in BeforeCreation \ {"create"}
      BY <3>1, Plans DEF BeforeCreation
    <3> QED
      BY <1>1, <1>7, <3>2, FreeLanes DEF LetGo, OnLane
  <2>5. lane'.op = "admit" /\ lane'.pc \in BeforeCreation => Unknown(lane.proc)'
    BY <1>1, <2>1, <2>4, Typed DEF WorkOK, creator
  <2>6. lane'.pc \notin {"remove", "delete"}
    <3>1. lane.pc \in DOMAIN AdmitPlan
      BY <1>1, Typed, StepSets
    <3> QED
      BY <1>7, <3>1, Plans, FreeLanes DEF LetGo, OnLane, BeforeCreation
  <2> QED
    BY <1>12, <2>3, <2>5, <2>6 DEF WorkOK, At
<1>15. LogsSafe
  BY <1>1, <1>4, LogsStaySafe
<1> QED
  BY <1>4, <1>9, <1>10, <1>11, <1>13, <1>14, <1>15 DEF Kept, Effect

LEMMA RecordsTerminal ==
  ASSUME WritersInv, NEW p \in Procs, NEW ok \in BOOLEAN, RecordTerminal(p, ok) PROVE Kept
<1> USE DEF WritersInv
<1>1. /\ lane.op = "terminal" /\ lane.proc = p /\ phase = "up"
      /\ Follow(TerminalPlan, ok)
      /\ UNCHANGED <<logs, phase, outbox, delivered, cutShort, storage>>
  BY DEF RecordTerminal, LaneOK, Writers
<1>2. sup' = IF Ends(TerminalPlan, ok) THEN [sup EXCEPT ![p] = IF ok THEN "ended" ELSE "exited"] ELSE sup
  BY DEF RecordTerminal
<1>3. PhaseStep(ok) /\ StoresOK /\ Plausible(Rec(p)) /\ Rec(p) \in Record
  BY <1>1, Typed, StoreFields DEF PhaseStep, RecordsOK, Rec, StoresOK
<1>4. Effect(NoProc, NoProc) /\ Steady /\ (lane.pc = "record" /\ ok => Terminal(Rec(p).state)')
  <2>1. CASE lane.pc = "record" /\ PersistTerminal(p, ok)
    <3>1. \/ Keep /\ (ok => Rec(p).state = "exited")
          \/ CanTransition(Rec(p).state, "exited") /\ SetsExited(p, ok)
      BY <1>3, <2>1, PersistsTerminal
    <3>2. CASE Keep /\ (ok => Rec(p).state = "exited")
      <4>1. Effect(NoProc, NoProc) /\ Steady
        BY <1>3, <3>2, KeepEffect
      <4> QED
        BY <3>2, <4>1 DEF Keep, Rec, Terminal
    <3>3. CASE CanTransition(Rec(p).state, "exited") /\ SetsExited(p, ok)
      <4>1. PICK s \in Record : /\ RecordPut(p, s, ok) /\ Quietly(Rec(p), s)
                                /\ s = [state |-> "exited", res |-> "terminal_unacknowledged",
                                        event |-> TRUE, acked |-> Rec(p).acked]
        BY <3>3 DEF SetsExited
      <4>2. Grows(Rec(p), s) /\ Rec(p).state # "absent" /\ Terminal(s.state)
        BY <3>3, <4>1 DEF Quietly, CanTransition, Terminal
      <4>3. Effect(NoProc, NoProc) /\ Steady
        BY <1>3, <4>1, <4>2, RecordEffect
      <4>4. Rec(p)' = s
        BY <4>1 DEF RecordPut, AuthorityPut, Rec
      <4> QED
        BY <4>2, <4>3, <4>4
    <3> QED
      BY <3>1, <3>2, <3>3
  <2>2. CASE lane.pc = "slot" /\ MoveSlot(p, "terminal_unacknowledged", ok)
    <3>1. Keep \/ SlotPut(p, "terminal_unacknowledged", ok)
      BY <1>3, <2>2, MovesSlot DEF SlotStates
    <3> QED
      BY <1>3, <2>2, <3>1, KeepEffect, SlotEffect
  <2>3. CASE lane.pc = "reservation" /\ PutReservation(p, "terminal_unacknowledged", ok)
    <3>0. Terminal(Rec(p).state)
      BY <1>1, <2>3 DEF WorkOK
    <3>1. Keep \/ (Rec(p).res # "none" /\ SetsReservation(p, "terminal_unacknowledged", ok))
      BY <1>3, <2>3, <3>0, PutsReservation DEF SlotStates, Terminal
    <3>2. CASE Rec(p).res # "none" /\ SetsReservation(p, "terminal_unacknowledged", ok)
      <4>1. PICK s \in Record : RecordPut(p, s, ok) /\ Quietly(Rec(p), s)
        BY <3>2 DEF SetsReservation
      <4>2. Grows(Rec(p), s) /\ Rec(p).state # "absent"
        BY <1>3, <3>2, <4>1, NoRecords DEF Quietly, Plausible
      <4> QED
        BY <1>3, <2>3, <4>1, <4>2, RecordEffect
    <3> QED
      BY <1>3, <2>3, <3>1, <3>2, KeepEffect
  <2> QED
    BY <2>1, <2>2, <2>3 DEF RecordTerminal
<1>5. /\ Ends(TerminalPlan, ok) => LetGo
      /\ ~ Ends(TerminalPlan, ok) => OnLane(TerminalPlan[lane.pc], lane.chosen)
      /\ ~ Ends(TerminalPlan, ok) => ok
  BY <1>1, Typed, FollowsTerminal
<1>6. lane' \in Lanes
  BY <1>5, FreeLanes DEF LetGo, OnLane
<1>7. \/ LetGo /\ sup' \in [Procs -> SupStates]
            /\ sup'[p] \in {"ended", "exited"} /\ \A q \in Procs \ {p} : sup'[q] = sup[q]
      \/ ok /\ sup' = sup /\ OnLane(TerminalPlan[lane.pc], lane.chosen)
  <2>1. CASE Ends(TerminalPlan, ok)
    <3>1. Sup(p, IF ok THEN "ended" ELSE "exited")
      BY <1>2, <2>1 DEF Sup
    <3>2. /\ sup' \in [Procs -> SupStates] /\ sup'[p] = IF ok THEN "ended" ELSE "exited"
          /\ \A q \in Procs \ {p} : sup'[q] = sup[q]
      BY <3>1, SupChanges DEF SupStates
    <3> QED
      BY <1>5, <2>1, <3>2
  <2> QED
    BY <1>2, <1>5, <2>1
<1>8. sup' \in [Procs -> SupStates]
  BY <1>7 DEF TypeOK
<1>9. TypeOK'
  BY <1>1, <1>4, <1>6, <1>8, StaysTyped DEF TypeOK
<1>10. LaneOK'
  <2>1. CASE LetGo /\ sup'[p] \in {"ended", "exited"} /\ \A q \in Procs \ {p} : sup'[q] = sup[q]
    BY <1>1, <2>1, FreeLanes DEF LaneOK, LetGo, Writers, At
  <2>2. CASE sup' = sup /\ OnLane(TerminalPlan[lane.pc], lane.chosen)
    BY <1>1, <2>2 DEF LaneOK, OnLane, Writers, At
  <2> QED
    BY <1>7, <2>1, <2>2
<1>11. OutboxOK'
  BY <1>1, <1>4, Typed, StaysInOutbox
<1>12. lane'.op \in {"none", "terminal"}
  BY <1>1, <1>5, FreeLanes DEF LetGo, OnLane
<1>13. AnnouncedOK'
  BY <1>1, <1>4, <1>12, Typed, StaysAnnounced DEF At
<1>14. WorkOK'
  <2>1. \A q \in Procs : Unknown(q) => Unknown(q)'
    BY <1>4, Typed DEF Effect
  <2>2. sup[p] = "recording" /\ p \in Procs
    BY <1>1 DEF LaneOK
  <2>3. \A q \in Procs : sup'[q] = "new" => Unknown(q)'
    <3>1. \A q \in Procs : sup'[q] = "new" => q # p /\ sup[q] = "new"
      BY <1>7, <2>2
    <3> QED
      BY <2>1, <3>1 DEF WorkOK
  <2>4. lane'.op = "terminal" /\ lane'.pc # "record" => lane'.proc = p /\ Terminal(Rec(p).state)'
    <3>1. CASE LetGo
      BY <3>1, FreeLanes DEF LetGo
    <3>2. CASE ok /\ OnLane(TerminalPlan[lane.pc], lane.chosen)
      <4>1. lane.pc # "record" => Terminal(Rec(p).state)'
        BY <1>1, <1>4 DEF WorkOK, Steady
      <4> QED
        BY <1>1, <1>4, <3>2, <4>1 DEF OnLane
    <3> QED
      BY <1>7, <3>1, <3>2
  <2>5. lane'.op = "terminal" /\ lane'.pc # "record" => Terminal(Rec(lane.proc).state)'
    <3>1. lane'.op = "terminal" => lane'.proc = lane.proc
      BY <1>7, FreeLanes DEF OnLane, LetGo
    <3> QED BY <1>1, <2>4, <3>1 DEF Rec
  <2>6. lane'.pc \notin {"remove", "delete"}
    <3>1. lane.pc \in DOMAIN TerminalPlan
      BY <1>1, Typed, StepSets
    <3> QED
      BY <1>7, <3>1, Plans, FreeLanes DEF LetGo, OnLane
  <2> QED
    BY <1>12, <2>3, <2>5, <2>6 DEF WorkOK, At
<1>15. LogsSafe
  BY <1>1, <1>4, LogsStaySafe
<1> QED
  BY <1>4, <1>9, <1>10, <1>11, <1>13, <1>14, <1>15 DEF Kept, Effect

-----------------------------------------------------------------------------
(* The steps of the outbox.                                                *)

LEMMA WorkStays ==
  ASSUME WritersInv, Effect(NoProc, NoProc), Steady, UNCHANGED <<lane, sup>>
  PROVE  WorkOK'
<1> USE DEF WritersInv
<1>1. \A q \in Procs : Unknown(q) => Unknown(q)'
  BY Typed DEF Effect
<1>2. lane.op \in Writers \/ At("boot", "release") => lane.proc \in Procs
  BY DEF LaneOK
<1>3. \A q \in Procs : Terminal(Rec(q).state) => Terminal(Rec(q).state)'
  BY DEF Steady
<1>4. \A q \in Procs : sup'[q] = "new" => Unknown(q)'
  BY <1>1 DEF WorkOK
<1>5. lane.op = "admit" /\ lane.pc \in BeforeCreation => Unknown(lane.proc)'
  BY <1>1, <1>2 DEF WorkOK, Writers
<1>6. /\ lane.op = "terminal" /\ lane.pc # "record" => Terminal(Rec(lane.proc).state)'
      /\ lane.op = "release" /\ lane.pc \notin DOMAIN RetentionPlan => Terminal(Rec(lane.proc).state)'
      /\ At("boot", "release") => Terminal(Rec(lane.proc).state)'
  BY <1>2, <1>3 DEF WorkOK, Writers
<1>7. lane.pc \in {"remove", "delete"} => lane.chosen \subseteq disk'.authority.tombstones
  BY DEF WorkOK, Steady
<1> QED
  BY <1>4, <1>5, <1>6, <1>7 DEF WorkOK, Rec, At

(* What a step of the outbox that writes no file has to keep.               *)
LEMMA OutboxStepKeeps ==
  ASSUME WritersInv, phase = "up", phase' \in {"up", "refused"}, phase' = "refused" => lane = FreeLane,
         UNCHANGED <<mem, disk, logs, lane, sup, cutShort, storage>>,
         outbox' \in [todo : SUBSET Procs, acking : Procs \cup {NoProc}],
         delivered' \in [Procs -> {"none", "exited", "interrupted"}],
         \A q \in Procs : Announced(q) => Announced(q)',
         lane.op = "release" => outbox'.acking = outbox.acking,
         OutboxOK',
         outbox'.acking # NoProc => Announced(outbox.acking)'
  PROVE  Kept
<1> USE DEF WritersInv
<1>1. StoresOK /\ Keep /\ PhaseStep(FALSE)
  BY Typed DEF Keep, PhaseStep
<1>2. Effect(NoProc, NoProc) /\ Steady
  BY <1>1, Typed, KeepEffect
<1>3. TypeOK'
  BY <1>2, StaysTyped DEF TypeOK, Phases
<1>4. LaneOK'
  BY FreeLanes, Typed DEF LaneOK, Writers, At
<1>5. AnnouncedOK'
  <2>1. \A q \in Procs : Says(mem', q) \/ Says(disk', q) => Announced(q)'
    BY DEF AnnouncedOK
  <2>2. lane.op = "release" \/ At("boot", "release") => lane.proc \in Procs
    BY DEF LaneOK, Writers
  <2>3. lane'.op = "release" \/ At("boot", "release")' => Announced(lane.proc)'
    BY <2>2 DEF AnnouncedOK, At
  <2> QED
    BY <2>1, <2>3 DEF AnnouncedOK, At
<1>6. WorkOK'
  BY <1>2, WorkStays
<1>7. LogsSafe
  BY <1>2, LogsStaySafe
<1> QED
  BY <1>2, <1>3, <1>4, <1>5, <1>6, <1>7 DEF Kept, Effect

LEMMA IdleOutboxes ==
  /\ IdleOutbox \in [todo : SUBSET Procs, acking : Procs \cup {NoProc}]
  /\ IdleOutbox.todo = {} /\ IdleOutbox.acking = NoProc
  BY DEF IdleOutbox

LEMMA CollectsEvents ==
  ASSUME WritersInv, CollectEvents PROVE Kept
<1> USE DEF WritersInv
<1> DEFINE pending == {p \in Procs : Rec(p).event}
<1>1. /\ phase = "up" /\ lane = FreeLane /\ outbox = IdleOutbox
      /\ UNCHANGED <<mem, disk, logs, lane, sup, delivered, cutShort, storage>>
  BY DEF CollectEvents
<1>2. \/ /\ \A p \in pending : ValidEvent(Rec(p))
         /\ outbox' = [outbox EXCEPT !.todo = pending] /\ phase' = phase
      \/ phase' = "refused" /\ outbox' = outbox
  BY DEF CollectEvents
<1>3. \/ /\ \A p \in pending : HasEvent(p)
         /\ outbox' = [todo |-> pending, acking |-> NoProc] /\ phase' = phase
      \/ phase' = "refused" /\ outbox' = outbox
  <2>1. outbox = [todo |-> {}, acking |-> NoProc]
    BY <1>1 DEF IdleOutbox
  <2>2. \A p \in pending : ValidEvent(Rec(p)) => HasEvent(p)
    BY DEF ValidEvent, HasEvent
  <2> HIDE DEF pending
  <2>3. [outbox EXCEPT !.todo = pending] = [todo |-> pending, acking |-> NoProc]
    BY <2>1
  <2> QED
    BY <1>2, <2>2, <2>3
<1>4. outbox'.acking = NoProc /\ outbox.acking = NoProc /\ outbox'.todo \in SUBSET Procs
      /\ outbox' \in [todo : SUBSET Procs, acking : Procs \cup {NoProc}]
  BY <1>1, <1>3, IdleOutboxes
<1>5. OutboxOK'
  <2>1. CASE /\ \A p \in pending : HasEvent(p)
             /\ outbox' = [todo |-> pending, acking |-> NoProc] /\ phase' = phase
    <3>1. \A p \in outbox'.todo : HasEvent(p)'
      BY <1>1, <2>1 DEF HasEvent, Rec
    <3> QED
      BY <1>1, <1>4, <2>1, <3>1 DEF OutboxOK, HasEvent
  <2>2. CASE phase' = "refused" /\ outbox' = outbox
    BY <1>4, <2>2 DEF OutboxOK
  <2> QED
    BY <1>3, <2>1, <2>2
<1>6. \A q \in Procs : Announced(q) => Announced(q)'
  BY <1>1 DEF Announced
<1>7. phase' \in {"up", "refused"} /\ lane.op # "release"
  BY <1>1, <1>3, FreeLanes
<1>8. delivered' \in [Procs -> {"none", "exited", "interrupted"}]
  BY <1>1 DEF TypeOK
<1> QED
  BY <1>1, <1>4, <1>5, <1>6, <1>7, <1>8, OutboxStepKeeps

LEMMA HandlesEvent ==
  ASSUME TypeOK, NEW p \in Procs, Handled(p)
  PROVE  /\ outbox' \in [todo : SUBSET Procs, acking : Procs \cup {NoProc}]
         /\ outbox'.todo = outbox.todo \ {p} /\ outbox'.acking = NoProc
  BY Typed DEF Handled

LEMMA Delivers ==
  ASSUME WritersInv, NEW p \in Procs, Deliver(p) PROVE Kept
<1> USE DEF WritersInv
<1>1. /\ phase = "up" /\ outbox.acking = NoProc /\ p \in outbox.todo
      /\ delivered' = [delivered EXCEPT ![p] = Rec(p).state]
      /\ outbox' = [outbox EXCEPT !.acking = p]
      /\ UNCHANGED <<mem, disk, logs, phase, lane, sup, cutShort, storage>>
  BY DEF Deliver
<1>2. HasEvent(p) /\ p # NoProc
  BY <1>1, Typed DEF OutboxOK, HasEvent
<1>3. outbox' = [todo |-> outbox.todo, acking |-> p]
  BY <1>1, Typed
<1>4. /\ outbox' \in [todo : SUBSET Procs, acking : Procs \cup {NoProc}]
      /\ outbox'.todo = outbox.todo /\ outbox'.acking = p
  BY <1>3, Typed
<1>5. /\ delivered' \in [Procs -> {"none", "exited", "interrupted"}]
      /\ delivered'[p] = Rec(p).state /\ Rec(p).state \in {"exited", "interrupted"}
      /\ \A q \in Procs \ {p} : delivered'[q] = delivered[q]
  BY <1>1, <1>2 DEF TypeOK, HasEvent, Terminal
<1>6. \A q \in Procs : (Announced(q) => Announced(q)') /\ (q = p => Announced(q)')
  BY <1>5 DEF Announced
<1>7. OutboxOK'
  BY <1>1, <1>4, Typed DEF OutboxOK, Rec
<1>8. lane.op # "release"
  BY <1>1, Typed DEF LaneOK, Writers
<1>9. Announced(outbox.acking)'
  BY <1>4, <1>5 DEF Announced
<1> QED
  BY <1>1, <1>4, <1>5, <1>6, <1>7, <1>8, <1>9, OutboxStepKeeps

LEMMA DeliveringFails ==
  ASSUME WritersInv, NEW p \in Procs, DeliveryFails(p) PROVE Kept
<1> USE DEF WritersInv
<1>1. /\ phase = "up" /\ outbox.acking = NoProc /\ p \in outbox.todo /\ Handled(p)
      /\ UNCHANGED <<mem, disk, logs, phase, lane, sup, delivered, cutShort, storage>>
  BY DEF DeliveryFails
<1>2. /\ outbox' \in [todo : SUBSET Procs, acking : Procs \cup {NoProc}]
      /\ outbox'.todo = outbox.todo \ {p} /\ outbox'.acking = NoProc
  BY <1>1, HandlesEvent
<1>3. OutboxOK'
  BY <1>1, <1>2, Typed DEF OutboxOK, Rec
<1>4. \A q \in Procs : Announced(q) => Announced(q)'
  BY <1>1 DEF Announced
<1>5. lane.op # "release"
  BY <1>1, Typed DEF LaneOK, Writers
<1>6. delivered' \in [Procs -> {"none", "exited", "interrupted"}]
  BY <1>1 DEF TypeOK
<1> QED
  BY <1>1, <1>2, <1>3, <1>4, <1>5, <1>6, OutboxStepKeeps

LEMMA AcknowledgesTerminal ==
  ASSUME WritersInv, NEW p \in Procs, AcknowledgeTerminal(p) PROVE Kept
<1> USE DEF WritersInv
<1>1. /\ phase = "up" /\ lane = FreeLane /\ outbox.acking = p
      /\ UNCHANGED <<mem, disk, logs, phase, sup, delivered, cutShort, storage>>
  BY DEF AcknowledgeTerminal
<1>2. \/ /\ MayAcknowledge(p)
         /\ \/ Take("release", p, "release_intent") \/ Take("release", p, "acknowledge")
         /\ outbox' = outbox
      \/ Handled(p) /\ lane' = lane
  BY DEF AcknowledgeTerminal
<1>3. CASE Handled(p) /\ lane' = lane
  <2>1. /\ outbox' \in [todo : SUBSET Procs, acking : Procs \cup {NoProc}]
        /\ outbox'.todo = outbox.todo \ {p} /\ outbox'.acking = NoProc
    BY <1>3, HandlesEvent
  <2>2. OutboxOK'
    BY <1>1, <2>1, Typed DEF OutboxOK, Rec
  <2>3. \A q \in Procs : Announced(q) => Announced(q)'
    BY <1>1 DEF Announced
  <2>4. lane.op # "release"
    BY <1>1, FreeLanes
  <2>5. delivered' \in [Procs -> {"none", "exited", "interrupted"}]
    BY <1>1 DEF TypeOK
  <2> QED
    BY <1>1, <1>3, <2>1, <2>2, <2>3, <2>4, <2>5, OutboxStepKeeps
<1>4. CASE /\ MayAcknowledge(p)
           /\ \/ Take("release", p, "release_intent") \/ Take("release", p, "acknowledge")
           /\ outbox' = outbox
  <2>1. /\ lane' \in Lanes /\ lane'.op = "release" /\ lane'.proc = p /\ lane'.chosen = {}
        /\ lane'.pc \in {"release_intent", "acknowledge"}
    BY <1>4, Takes, StepSets, Plans DEF Writers
  <2>2. Effect(NoProc, NoProc) /\ Steady
    BY <1>1, Typed, KeepEffect DEF PhaseStep, Keep
  <2>3. TypeOK'
    BY <1>1, <1>4, <2>1, <2>2, StaysTyped DEF TypeOK
  <2>4. LaneOK'
    BY <1>1, <1>4, <2>1, FreeLanes DEF LaneOK, Writers, At
  <2>5. OutboxOK'
    BY <1>1, <1>4, <2>2, Typed, StaysInOutbox
  <2>6. Announced(p)
    BY <1>1, Typed DEF AnnouncedOK
  <2>7. AnnouncedOK'
    BY <1>1, <1>4, <2>1, <2>2, <2>6, Typed, StaysAnnounced DEF At
  <2>8. WorkOK'
    <3>1. \A q \in Procs : Unknown(q) => Unknown(q)'
      BY <2>2, Typed DEF Effect
    <3>2. Terminal(Rec(p).state)
      BY <1>4 DEF MayAcknowledge
    <3> QED
      BY <1>1, <2>1, <3>1, <3>2 DEF WorkOK, At, Rec
  <2>9. LogsSafe
    BY <1>1, <2>2, LogsStaySafe
  <2> QED
    BY <2>2, <2>3, <2>4, <2>5, <2>7, <2>8, <2>9 DEF Kept, Effect
<1> QED
  BY <1>2, <1>3, <1>4

-----------------------------------------------------------------------------
(* Retention, at the end of a release and of a startup.                     *)

LEMMA LaneTurns ==
  ASSUME lane \in Lanes, NEW pc \in Steps(lane.op), NEW S \in SUBSET Procs,
         lane' = [lane EXCEPT !.pc = pc, !.chosen = S]
  PROVE  OnLane(pc, S)
<1>1. lane \in LaneRecord /\ pc \in AllSteps
  <2>1. lane.op \in Writers \cup {"none", "boot"}
    BY LaneTypes DEF LaneRecord
  <2> QED
    BY <2>1, LaneTypes, StepSets DEF AllSteps, Writers
<1>2. lane' \in LaneRecord /\ lane'.op = lane.op /\ lane'.proc = lane.proc /\ lane'.pc = pc /\ lane'.chosen = S
  BY <1>1 DEF LaneRecord
<1> QED
  BY <1>2, LaneTypes DEF OnLane

LEMMA RetentionLane ==
  ASSUME TypeOK, lane.op \in {"release", "boot"}, NEW ok \in BOOLEAN, Retain(ok)
  PROVE  /\ lane.pc \in DOMAIN RetentionPlan
         /\ \/ LetGo
            \/ ok /\ \E S \in SUBSET Procs : OnLane("remove", S) /\ SelectExpired(S, ok)
            \/ ok /\ lane.pc = "remove" /\ OnLane("delete", lane.chosen)
         /\ lane' \in Lanes
<1>1. lane \in Lanes /\ lane.chosen \in SUBSET Procs /\ NoProc \in Procs \cup {NoProc}
  BY Typed
<1>2. {"remove", "delete"} \subseteq Steps(lane.op) /\ DOMAIN RetentionPlan = {"select", "remove", "delete"}
  BY StepSets, Plans
<1>3. CASE \E S \in SUBSET Procs : SelectExpired(S, ok)
  <2>1. PICK S \in SUBSET Procs : SelectExpired(S, ok)
    BY <1>3
  <2>2. /\ lane.pc = "select"
        /\ lane' = IF ok THEN [lane EXCEPT !.pc = "remove", !.chosen = S] ELSE FreeLane
    BY <2>1 DEF SelectExpired
  <2>3. CASE ok
    <3>0. lane' = [lane EXCEPT !.pc = "remove", !.chosen = S]
      BY <2>2, <2>3
    <3>1. OnLane("remove", S)
      BY <1>1, <1>2, <3>0, LaneTurns
    <3> QED
      BY <1>2, <2>1, <2>2, <2>3, <3>1 DEF OnLane
  <2>4. CASE ~ ok
    BY <1>2, <2>2, <2>4, FreeLanes DEF LetGo
  <2> QED
    BY <2>3, <2>4
<1>4. CASE ok /\ RemoveLogs
  <2>1. lane.pc = "remove" /\ lane' = [lane EXCEPT !.pc = "delete"]
    BY <1>4 DEF RemoveLogs, Goto
  <2>2. OnLane("delete", lane.chosen)
    BY <1>1, <1>2, <2>1, LaneMoves DEF OnLane
  <2> QED
    BY <1>2, <1>4, <2>1, <2>2 DEF OnLane
<1>5. CASE DeleteExpired(ok)
  BY <1>2, <1>5, FreeLanes DEF DeleteExpired, LetGo
<1> QED
  BY <1>3, <1>4, <1>5 DEF Retain

LEMMA RetentionEffect ==
  ASSUME TypeOK, RecordsOK, WorkOK, lane.op \in {"release", "boot"}, NEW ok \in BOOLEAN, Retain(ok),
         PhaseStep(ok), NEW acker, NEW creator
  PROVE  /\ Effect(acker, creator) /\ LogsSafe /\ logs' \in SUBSET Procs
         /\ lane'.pc \in {"remove", "delete"} => lane'.chosen \subseteq disk'.authority.tombstones
<1>1. StoresOK /\ lane.chosen \in SUBSET Procs /\ logs \in SUBSET Procs
  BY Typed DEF TypeOK
<1>2. CASE \E S \in SUBSET Procs : SelectExpired(S, ok)
  <2>1. PICK S \in SUBSET Procs : SelectExpired(S, ok)
    BY <1>2
  <2>2. S \subseteq Retainable /\ logs' = logs /\ lane.pc = "select"
        /\ lane' = IF ok THEN [lane EXCEPT !.pc = "remove", !.chosen = S] ELSE FreeLane
    BY <2>1 DEF SelectExpired
  <2>3. Effect(acker, creator) /\ Steady /\ (ok => S \subseteq disk'.authority.tombstones)
    <3>1. CASE S = {}
      <4>1. Keep
        BY <2>1, <3>1 DEF SelectExpired
      <4> QED
        BY <1>1, <3>1, <4>1, KeepEffect
    <3>2. CASE S # {}
      <4>1. PutAuthority([mem.authority EXCEPT !.tombstones = @ \cup S], ok)
        BY <2>1, <3>2 DEF SelectExpired
      <4> QED
        BY <1>1, <2>2, <4>1, SelectEffect
    <3> QED
      BY <3>1, <3>2
  <2>4. LogsSafe
    BY <2>2, <2>3, LogsStaySafe
  <2>5. ok => lane'.chosen = S
    <3> SUFFICES ASSUME ok PROVE lane'.chosen = S
      OBVIOUS
    <3>1. lane \in Lanes /\ "remove" \in Steps(lane.op)
      BY Typed, StepSets, Plans
    <3>2. lane' = [lane EXCEPT !.pc = "remove", !.chosen = S]
      BY <2>2
    <3>3. OnLane("remove", S)
      BY <3>1, <3>2, LaneTurns
    <3> QED
      BY <3>3 DEF OnLane
  <2>6. ~ ok => lane'.pc \notin {"remove", "delete"}
    BY <2>2, FreeLanes
  <2> QED
    BY <1>1, <2>2, <2>3, <2>4, <2>5, <2>6
<1>3. CASE ok /\ RemoveLogs
  <2>1. lane.pc = "remove" /\ lane' = [lane EXCEPT !.pc = "delete"] /\ logs' = logs \ lane.chosen /\ Keep
    BY <1>3 DEF RemoveLogs, Goto
  <2>2. Effect(acker, creator) /\ Steady
    BY <1>1, <2>1, KeepEffect
  <2>3. lane.chosen \subseteq disk.authority.tombstones /\ disk' = disk
    BY <2>1 DEF WorkOK, Keep
  <2>4. LogsSafe
    BY <2>1, <2>3 DEF LogsSafe
  <2>5. lane'.chosen = lane.chosen
    <3>1. lane \in Lanes /\ "delete" \in Steps(lane.op)
      BY Typed, StepSets, Plans
    <3> QED
      BY <2>1, <3>1, LaneMoves
  <2> QED
    BY <1>1, <2>1, <2>2, <2>3, <2>4, <2>5
<1>4. CASE DeleteExpired(ok)
  <2> DEFINE a == [mem.authority EXCEPT !.records =
                     [p \in Procs |-> IF p \in lane.chosen THEN NoRecord ELSE @[p]]]
  <2>1. lane.pc = "delete" /\ lane' = FreeLane /\ logs' = logs /\ PutAuthority(a, ok)
    BY <1>4 DEF DeleteExpired
  <2>2. lane.chosen \subseteq disk.authority.tombstones
    BY <2>1 DEF WorkOK
  <2>3. /\ a \in AuthorityTable /\ a.tombstones = mem.authority.tombstones
        /\ \A q \in Procs : a.records[q] = IF q \in lane.chosen THEN NoRecord ELSE Rec(q)
    <3>1. mem.authority \in AuthorityTable /\ NoRecord \in Record
      BY <1>1, StoreFields, NoRecords DEF StoresOK
    <3> DEFINE r == [p \in Procs |-> IF p \in lane.chosen THEN NoRecord ELSE mem.authority.records[p]]
    <3>2. r \in [Procs -> Record]
      BY <3>1 DEF AuthorityTable
    <3>3. a = [mem.authority EXCEPT !.records = r]
      OBVIOUS
    <3>4. \A q \in Procs : r[q] = IF q \in lane.chosen THEN NoRecord ELSE Rec(q)
      BY DEF Rec
    <3> HIDE DEF r, a
    <3> QED
      BY <3>1, <3>2, <3>3, <3>4 DEF AuthorityTable
  <2> HIDE DEF a
  <2>4. /\ Effect(acker, creator)
        /\ \A q \in disk.authority.tombstones \ disk'.authority.tombstones :
             disk'.authority.records[q].state = "absent"
    <3> DEFINE S == lane.chosen
    <3>1. S \in SUBSET Procs /\ S \subseteq disk.authority.tombstones
      BY <1>1, <2>2
    <3>2. Deletes(a, S)
      BY <2>3 DEF Deletes
    <3>3. a \in AuthorityTable /\ a.tombstones = mem.authority.tombstones /\ PutAuthority(a, ok) /\ StoresOK
      BY <1>1, <2>1, <2>3
    <3> HIDE DEF S
    <3> QED
      BY <3>1, <3>2, <3>3, DeleteEffect
  <2>5. LogsSafe
    BY <2>1, <2>4 DEF LogsSafe
  <2> QED
    BY <1>1, <2>1, <2>4, <2>5, FreeLanes
<1> QED
  BY <1>2, <1>3, <1>4 DEF Retain

(* The writes of a release, and of its recovery.                            *)
ReleaseWrite(p, ok) ==
  \/ Acknowledge(p, ok)
  \/ MoveSlot(p, "releasing", ok)
  \/ PutReservation(p, "releasing", ok)
  \/ Detach(p, ok)
  \/ FreeSlot(p, ok)
  \/ PutAdmission(p, "none", ok)
  \/ \E st \in ReleaseStates : PutRelease(p, st, ok)

LEMMA ReleaseWrites ==
  ASSUME StoresOK, RecordsOK, NEW p \in Procs, NEW ok \in BOOLEAN, PhaseStep(ok),
         Terminal(Rec(p).state), ReleaseWrite(p, ok)
  PROVE  Effect(p, NoProc) /\ Steady
<1>1. Plausible(Rec(p)) /\ Rec(p) \in Record /\ Rec(p).state \notin {"absent", "starting", "running"}
  BY StoreFields DEF RecordsOK, Rec, StoresOK, Terminal
<1>2. CASE Keep
  BY <1>2, KeepEffect
<1>3. ASSUME NEW s \in Record, RecordPut(p, s, ok), Grows(Rec(p), s) PROVE Effect(p, NoProc) /\ Steady
  BY <1>1, <1>3, RecordEffect
<1>4. CASE Acknowledge(p, ok)
  <2>1. Keep \/ SetsAcknowledged(p, ok)
    BY <1>1, <1>4, Acknowledges
  <2> QED
    BY <1>2, <1>3, <2>1 DEF SetsAcknowledged
<1>5. CASE MoveSlot(p, "releasing", ok)
  <2>1. Keep \/ SlotPut(p, "releasing", ok)
    BY <1>5, MovesSlot DEF SlotStates
  <2> QED
    BY <1>2, <2>1, SlotEffect
<1>6. CASE PutReservation(p, "releasing", ok)
  <2>1. Keep \/ SetsReservation(p, "releasing", ok)
    BY <1>1, <1>6, PutsReservation DEF SlotStates
  <2> QED
    BY <1>2, <1>3, <2>1 DEF SetsReservation, Quietly
<1>7. CASE Detach(p, ok)
  <2>1. Keep \/ SetsDetached(p, ok)
    BY <1>1, <1>7, Detaches
  <2> QED
    BY <1>2, <1>3, <2>1 DEF SetsDetached, Quietly
<1>8. CASE FreeSlot(p, ok)
  <2>1. Keep \/ SlotPut(p, "none", ok)
    BY <1>8, FreesSlot
  <2> QED
    BY <1>2, <2>1, SlotEffect
<1>9. CASE PutAdmission(p, "none", ok)
  <2>1. JournalPut(p, "none", mem.journal[p].release, ok)
    BY <1>9, PutsAdmission DEF AdmitStates
  <2> QED
    BY <2>1, JournalEffect
<1>10. CASE \E st \in ReleaseStates : PutRelease(p, st, ok)
  <2>1. PICK st \in ReleaseStates : PutRelease(p, st, ok)
    BY <1>10
  <2>2. JournalPut(p, mem.journal[p].admit, st, ok)
    BY <2>1, PutsRelease
  <2> QED
    BY <2>2, JournalEffect
<1> QED
  BY <1>4, <1>5, <1>6, <1>7, <1>8, <1>9, <1>10 DEF ReleaseWrite

(* A release up to its retention.                                           *)
LEMMA ReleaseEffect ==
  ASSUME WritersInv, NEW p \in Procs, NEW ok \in BOOLEAN, lane.op = "release", lane.proc = p,
         ReleaseTerminal(p, ok), PhaseStep(ok)
  PROVE  Effect(p, NoProc) /\ Steady /\ lane.pc \notin DOMAIN RetentionPlan
<1> USE DEF WritersInv
<1>1. StoresOK /\ RecordsOK
  BY Typed
<1>2. lane.pc \in {"release_intent", "acknowledge", "release_marked", "slot", "reservation", "detach",
                   "authority_detached", "free", "forget_admission", "forget_release"}
  BY DEF ReleaseTerminal
<1>3. lane.pc \notin DOMAIN RetentionPlan
  BY <1>2, Plans
<1>4. Terminal(Rec(p).state)
  BY <1>3 DEF WorkOK
<1>5. ReleaseWrite(p, ok)
  BY DEF ReleaseTerminal, ReleaseWrite, ReleaseStates
<1> QED
  BY <1>1, <1>3, <1>4, <1>5, ReleaseWrites

LEMMA ReleasesTerminal ==
  ASSUME WritersInv, NEW p \in Procs, NEW ok \in BOOLEAN, ReleaseStep(p, ok) PROVE Kept
<1> USE DEF WritersInv
<1>1. /\ lane.op = "release" /\ lane.proc = p /\ phase = "up" /\ outbox.acking = p
      /\ Announced(p) /\ p # NoProc /\ p \in outbox.todo
      /\ UNCHANGED <<phase, sup, delivered, cutShort, storage>>
      /\ IF lane' = FreeLane THEN Handled(p) ELSE outbox' = outbox
  BY Typed DEF ReleaseStep, LaneOK, AnnouncedOK, OutboxOK, Writers
<1>2. PhaseStep(ok)
  BY <1>1 DEF PhaseStep
<1>3. /\ Effect(p, NoProc) /\ LogsSafe /\ logs' \in SUBSET Procs /\ lane' \in Lanes
      /\ \/ LetGo
         \/ /\ \E pc, S : OnLane(pc, S)
            /\ lane'.pc \notin DOMAIN RetentionPlan => Terminal(Rec(p).state)'
            /\ lane'.pc \in {"remove", "delete"} => lane'.chosen \subseteq disk'.authority.tombstones
  <2>1. CASE ReleaseTerminal(p, ok)
    <3>1. Effect(p, NoProc) /\ Steady /\ lane.pc \notin DOMAIN RetentionPlan
      BY <1>1, <1>2, <2>1, ReleaseEffect
    <3>2. logs' = logs /\ Follow(ReleasePlan, ok)
      BY <2>1 DEF ReleaseTerminal
    <3>3. (~ ok => LetGo) /\ (ok => OnLane(ReleasePlan[lane.pc], lane.chosen))
      BY <1>1, <3>1, <3>2, Typed, FollowsRelease
    <3>4. Terminal(Rec(p).state)'
      BY <1>1, <3>1 DEF WorkOK, Steady
    <3>5. ReleasePlan[lane.pc] \notin {"remove", "delete"}
      <4>1. lane.pc \in DOMAIN ReleasePlan
        BY <1>1, <3>1, Typed, StepSets
      <4> QED
        BY <4>1, Plans
    <3>6. LogsSafe
      BY <3>1, <3>2, LogsStaySafe
    <3>7. logs' \in SUBSET Procs /\ lane' \in Lanes
      BY <3>2, <3>3, FreeLanes DEF LetGo, OnLane, TypeOK
    <3> QED
      BY <3>1, <3>3, <3>4, <3>5, <3>6, <3>7 DEF OnLane
  <2>2. CASE Retain(ok)
    <3>1. /\ Effect(p, NoProc) /\ LogsSafe /\ logs' \in SUBSET Procs
          /\ lane'.pc \in {"remove", "delete"} => lane'.chosen \subseteq disk'.authority.tombstones
      BY <1>1, <1>2, <2>2, RetentionEffect
    <3>2. /\ \/ LetGo
             \/ \E S \in SUBSET Procs : OnLane("remove", S)
             \/ OnLane("delete", lane.chosen)
          /\ lane' \in Lanes
      BY <1>1, <2>2, RetentionLane
    <3>3. LetGo \/ (lane'.pc \in {"remove", "delete"} /\ \E pc, S : OnLane(pc, S))
      BY <3>2 DEF OnLane
    <3>4. {"remove", "delete"} \subseteq DOMAIN RetentionPlan
      BY Plans
    <3> QED
      BY <3>1, <3>2, <3>3, <3>4
  <2> QED
    BY <2>1, <2>2 DEF ReleaseStep
<1>4. /\ outbox' \in [todo : SUBSET Procs, acking : Procs \cup {NoProc}]
      /\ \/ LetGo /\ outbox'.todo = outbox.todo \ {p} /\ outbox'.acking = NoProc
         \/ lane' # FreeLane /\ outbox' = outbox
  BY <1>1, HandlesEvent DEF LetGo, TypeOK
<1>5. TypeOK'
  BY <1>1, <1>3, <1>4, StaysTyped DEF TypeOK
<1>6. \/ LetGo /\ lane'.op = "none"
      \/ lane'.op = "release" /\ lane'.proc = p /\ outbox' = outbox /\ lane' # FreeLane
  BY <1>1, <1>3, <1>4, FreeLanes DEF LetGo, OnLane
<1>7. LaneOK'
  <2>1. CASE LetGo /\ lane'.op = "none"
    BY <1>1, <2>1, FreeLanes DEF LaneOK, LetGo, Writers, At
  <2>2. CASE lane'.op = "release" /\ lane'.proc = p /\ outbox' = outbox
    BY <1>1, <2>2 DEF LaneOK, Writers, At
  <2> QED
    BY <1>6, <2>1, <2>2
<1>8. OutboxOK'
  <2>1. \A q \in outbox.todo : q # p => HasEvent(q)'
    <3>1. \A q \in outbox.todo : q # p => q \in Procs /\ HasEvent(q)
      BY <1>1, Typed DEF OutboxOK, HasEvent
    <3> QED
      BY <1>3, <3>1 DEF Effect
  <2> QED
    BY <1>1, <1>4, <2>1 DEF OutboxOK, HasEvent
<1>9. AnnouncedOK'
  <2>1. \A q \in Procs : Announced(q) => Announced(q)'
    BY <1>1 DEF Announced
  <2>2. \A q \in Procs : Says(mem', q) \/ Says(disk', q) => Announced(q)'
    BY <1>1, <1>3, <2>1 DEF AnnouncedOK, Effect
  <2>3. outbox'.acking # NoProc => outbox'.acking = p
    BY <1>1, <1>4
  <2>4. lane'.op = "release" \/ At("boot", "release")' => lane'.proc = p
    BY <1>6 DEF At
  <2>5. Announced(p)'
    BY <1>1, <2>1
  <2> QED
    BY <2>2, <2>3, <2>4, <2>5 DEF AnnouncedOK, Announced
<1>10. WorkOK'
  <2>1. \A q \in Procs : sup'[q] = "new" => Unknown(q)'
    BY <1>1, <1>3, Typed DEF WorkOK, Effect
  <2>2. lane'.op \in {"none", "release"}
    BY <1>6
  <2>3. lane'.op = "release" /\ lane'.pc \notin DOMAIN RetentionPlan => Terminal(Rec(lane.proc).state)'
    BY <1>1, <1>3, <1>6, FreeLanes DEF LetGo, Rec
  <2>4. lane'.pc \in {"remove", "delete"} => lane'.chosen \subseteq disk'.authority.tombstones
    BY <1>3, FreeLanes DEF LetGo
  <2> QED
    BY <2>1, <2>2, <2>3, <2>4 DEF WorkOK, At
<1> QED
  BY <1>3, <1>5, <1>7, <1>8, <1>9, <1>10 DEF Kept, Effect

-----------------------------------------------------------------------------
(* The steps of a startup.                                                  *)

LEMMA GoesOn ==
  ASSUME lane \in Lanes, lane.op = "boot", NEW pc \in Steps("boot"), NEW ok \in BOOLEAN, GoOn(pc, ok)
  PROVE  /\ ok => OnLane(pc, lane.chosen) /\ phase' = phase
         /\ ~ ok => LetGo /\ phase' = "stopped"
<1>1. ASSUME ok PROVE OnLane(pc, lane.chosen) /\ phase' = phase
  <2>1. lane' = [lane EXCEPT !.pc = pc] /\ phase' = phase
    BY <1>1 DEF GoOn, Goto
  <2>2. lane.proc \in Procs \cup {NoProc} /\ pc \in Steps(lane.op)
    BY LaneTypes DEF LaneRecord
  <2> QED
    BY <2>1, <2>2, LaneMoves DEF OnLane
<1> QED
  BY <1>1 DEF GoOn, LetGo

(* Where a startup may be after a step.                                     *)
BootGoesOn ==
  \/ /\ phase' \in {"up", "stopped", "refused"} /\ LetGo
  \/ /\ phase' = "recovering" /\ lane' \in Lanes /\ lane'.op = "boot"
     /\ lane'.pc = "admission" => lane'.proc \in Procs
     /\ lane'.pc = "release" =>
          \E q \in Procs : lane'.proc = q /\ Announced(q) /\ Terminal(Rec(q).state)'
     /\ lane'.pc \in {"remove", "delete"} => lane'.chosen \subseteq disk'.authority.tombstones

LEMMA BootStepKeeps ==
  ASSUME WritersInv, phase = "recovering", NEW acker \in Procs \cup {NoProc}, Effect(acker, NoProc),
         acker \in Procs => Announced(acker), BootGoesOn, LogsSafe, logs' \in SUBSET Procs,
         UNCHANGED <<sup, outbox, delivered, cutShort, storage>>
  PROVE  Kept
<1> USE DEF WritersInv
<1>1. lane.op = "boot" /\ outbox = IdleOutbox /\ NoProc \notin Procs
  BY Typed DEF LaneOK, OutboxOK
<1>2. /\ lane' \in Lanes /\ phase' \in Phases /\ lane'.op \in {"none", "boot"}
      /\ lane'.op = "boot" <=> phase' = "recovering"
      /\ lane'.op = "none" => lane' = FreeLane
  BY FreeLanes DEF BootGoesOn, LetGo, Phases
<1>3. TypeOK'
  BY <1>2, StaysTyped DEF TypeOK
<1>4. LaneOK'
  <2>1. \A q \in Procs : sup[q] # "admitting" /\ sup[q] # "recording"
    BY <1>1 DEF LaneOK
  <2>2. At("boot", "release")' \/ At("boot", "admission")' => lane'.proc \in Procs
    BY FreeLanes DEF BootGoesOn, LetGo, At
  <2> QED
    BY <1>2, <2>1, <2>2 DEF LaneOK, Writers
<1>5. OutboxOK'
  BY <1>1 DEF OutboxOK, IdleOutbox
<1>6. AnnouncedOK'
  <2>1. \A q \in Procs : Says(mem', q) \/ Says(disk', q) => Announced(q)'
    BY DEF AnnouncedOK, Announced, Effect
  <2>2. At("boot", "release")' => \E q \in Procs : lane'.proc = q /\ Announced(q)
    BY FreeLanes DEF BootGoesOn, LetGo, At
  <2>3. outbox'.acking = NoProc
    BY <1>1 DEF IdleOutbox
  <2> QED
    BY <1>2, <2>1, <2>2, <2>3 DEF AnnouncedOK, Announced
<1>7. WorkOK'
  <2>1. \A q \in Procs : sup'[q] = "new" => Unknown(q)'
    BY <1>1 DEF WorkOK, Effect
  <2>2. At("boot", "release")' => \E q \in Procs : lane'.proc = q /\ Terminal(Rec(q).state)'
    BY FreeLanes DEF BootGoesOn, LetGo, At
  <2>3. lane'.pc \in {"remove", "delete"} => lane'.chosen \subseteq disk'.authority.tombstones
    BY FreeLanes DEF BootGoesOn, LetGo
  <2> QED
    BY <1>2, <2>1, <2>2, <2>3 DEF WorkOK, Rec
<1> QED
  BY <1>3, <1>4, <1>5, <1>6, <1>7 DEF Kept, Effect

(* A step that writes nothing.                                              *)
LEMMA QuietBootStepKeeps ==
  ASSUME WritersInv, phase = "recovering", Keep, BootGoesOn, logs' = logs,
         UNCHANGED <<sup, outbox, delivered, cutShort, storage>>
  PROVE  Kept
<1> USE DEF WritersInv
<1>1. PhaseStep(TRUE)
  BY FreeLanes DEF PhaseStep, BootGoesOn
<1>2. Effect(NoProc, NoProc) /\ Steady
  BY <1>1, Typed, KeepEffect
<1>3. LogsSafe /\ logs' \in SUBSET Procs
  BY <1>2, LogsStaySafe DEF TypeOK
<1>4. NoProc \notin Procs
  BY Typed
<1> QED
  BY <1>2, <1>3, <1>4, BootStepKeeps

LEMMA RefusalKeeps ==
  ASSUME WritersInv, phase = "recovering", Refuse, logs' = logs,
         UNCHANGED <<sup, outbox, delivered, cutShort, storage>>
  PROVE  Kept
  BY QuietBootStepKeeps DEF Refuse, BootGoesOn, LetGo

LEMMA Loads ==
  ASSUME WritersInv, Load PROVE Kept
<1> USE DEF WritersInv
<1>1. /\ phase = "down" /\ mem' = disk
      /\ UNCHANGED <<disk, logs, sup, outbox, delivered, cutShort, storage>>
      /\ phase' = "recovering" /\ Take("boot", NoProc, "operations")
  BY DEF Load, RecordsOK
<1>2. lane' \in Lanes /\ lane'.op = "boot" /\ lane'.proc = NoProc /\ lane'.pc = "operations"
  BY <1>1, Takes, StepSets DEF BootSteps
<1>3. \A q \in Procs : sup[q] # "admitting" /\ sup[q] # "recording"
  BY <1>1 DEF LaneOK, Writers
<1>4. TypeOK'
  BY <1>1, <1>2 DEF TypeOK, Phases
<1>5. LaneOK'
  BY <1>1, <1>2, <1>3 DEF LaneOK, Writers, At
<1>6. OutboxOK'
  BY <1>1 DEF OutboxOK
<1>7. AnnouncedOK'
  <2>1. \A q \in Procs : Says(mem', q) \/ Says(disk', q) => Announced(q)'
    BY <1>1 DEF AnnouncedOK, Announced
  <2>2. outbox'.acking = NoProc
    BY <1>1 DEF OutboxOK, IdleOutbox
  <2> QED
    BY <1>2, <2>1, <2>2 DEF AnnouncedOK, At
<1>8. WorkOK'
  BY <1>1, <1>2 DEF WorkOK, Unknown, At
<1>9. RecordsOK'
  <2>1. \A q \in Procs : Behind(disk.authority.records[q], disk.authority.records[q],
                                q \in disk.authority.tombstones)
    <3> SUFFICES ASSUME NEW q \in Procs
                 PROVE  Behind(disk.authority.records[q], disk.authority.records[q],
                               q \in disk.authority.tombstones)
      OBVIOUS
    <3> DEFINE d == disk.authority.records[q]
    <3>1. d \in Record /\ ValidRecord(d)
      BY Typed, StoreFields DEF StoresOK, RecordsOK, ValidAuthority
    <3> HIDE DEF d
    <3>2. Rank(d) \in 0 .. 5 /\ Reached(d) = Rank(d) /\ (Rank(d) = 0 <=> d.state = "absent")
      BY <3>1, Reaches
    <3>3. Behind(d, d, q \in disk.authority.tombstones)
      BY <3>2 DEF Behind
    <3> QED
      BY <3>3 DEF d
  <2> QED
    BY <1>1, <2>1 DEF RecordsOK
<1>10. AllForward /\ LogsSafe
  <2>1. \A q \in Procs : Rank(disk.authority.records[q]) \in 0 .. 5
    BY Typed, StoreFields, Reaches DEF StoresOK
  <2> QED
    BY <1>1, <2>1 DEF AllForward, Forward, LogsSafe
<1> QED
  BY <1>4, <1>5, <1>6, <1>7, <1>8, <1>9, <1>10 DEF Kept

LEMMA RecoversOperation ==
  ASSUME WritersInv, NEW p \in Procs, RecoverOperation(p) PROVE Kept
<1> USE DEF WritersInv
<1>1. /\ phase = "recovering" /\ lane.op = "boot" /\ lane.pc = "operations"
      /\ UNCHANGED <<logs, sup, outbox, delivered, cutShort, storage>>
  BY DEF RecoverOperation, Booting, At
<1>2. CASE Refuse
  BY <1>1, <1>2, RefusalKeeps
<1>3. CASE /\ Release(p) # "none" /\ ReleaseIsRecoverable(p)
           /\ lane' = [lane EXCEPT !.pc = "release", !.proc = p] /\ UNCHANGED phase /\ Keep
  <2>1. /\ lane' \in Lanes /\ lane'.op = "boot" /\ lane'.proc = p /\ lane'.pc = "release"
    <3>1. lane \in LaneRecord /\ "release" \in AllSteps /\ "release" \in Steps("boot")
      BY <1>1, Typed, LaneTypes, StepSets DEF AllSteps, BootSteps
    <3>2. lane' = [lane EXCEPT !.pc = "release", !.proc = p]
      BY <1>3
    <3>3. /\ lane' \in LaneRecord /\ lane'.op = lane.op /\ lane'.proc = p /\ lane'.pc = "release"
      BY <3>1, <3>2 DEF LaneRecord
    <3> QED
      BY <1>1, <3>1, <3>3, LaneTypes
  <2>2. Announced(p)
    BY <1>3 DEF AnnouncedOK, Says, Release
  <2>3. Terminal(Rec(p).state)'
    BY <1>3 DEF ReleaseIsRecoverable, Keep, Rec
  <2>4. BootGoesOn
    BY <1>1, <1>3, <2>1, <2>2, <2>3 DEF BootGoesOn
  <2> QED
    BY <1>1, <1>3, <2>4, QuietBootStepKeeps
<1>4. CASE lane' = [lane EXCEPT !.pc = "admission", !.proc = p] /\ UNCHANGED phase /\ Keep
  <2>1. /\ lane' \in Lanes /\ lane'.op = "boot" /\ lane'.proc = p /\ lane'.pc = "admission"
    <3>1. lane \in LaneRecord /\ "admission" \in AllSteps /\ "admission" \in Steps("boot")
      BY <1>1, Typed, LaneTypes, StepSets DEF AllSteps, BootSteps
    <3>2. lane' = [lane EXCEPT !.pc = "admission", !.proc = p]
      BY <1>4
    <3>3. /\ lane' \in LaneRecord /\ lane'.op = lane.op /\ lane'.proc = p /\ lane'.pc = "admission"
      BY <3>1, <3>2 DEF LaneRecord
    <3> QED
      BY <1>1, <3>1, <3>3, LaneTypes
  <2>2. BootGoesOn
    BY <1>1, <1>4, <2>1 DEF BootGoesOn
  <2> QED
    BY <1>1, <1>4, <2>2, QuietBootStepKeeps
<1> QED
  BY <1>2, <1>3, <1>4, Zenon DEF RecoverOperation

LEMMA RecoversRelease ==
  ASSUME WritersInv, NEW p \in Procs, NEW ok \in BOOLEAN, RecoverRelease(p, ok) PROVE Kept
<1> USE DEF WritersInv
<1>1. /\ phase = "recovering" /\ lane.op = "boot" /\ lane.pc = "release" /\ lane.proc = p
      /\ UNCHANGED <<logs, sup, outbox, delivered, cutShort, storage>>
      /\ GoOn("release", ok) \/ GoOn("operations", ok)
      /\ ReleaseWrite(p, ok)
  BY DEF RecoverRelease, Booting, At, ReleaseWrite, ReleaseStates
<1>2. StoresOK /\ RecordsOK /\ Terminal(Rec(p).state) /\ Announced(p)
  BY <1>1, Typed DEF WorkOK, AnnouncedOK, At
<1>3. /\ ok => (OnLane("release", lane.chosen) \/ OnLane("operations", lane.chosen)) /\ phase' = phase
      /\ ~ ok => LetGo /\ phase' = "stopped"
  <2>1. {"release", "operations"} \subseteq Steps("boot") /\ lane \in Lanes
    BY Typed, StepSets DEF BootSteps
  <2> QED
    BY <1>1, <2>1, GoesOn
<1>4. PhaseStep(ok)
  BY <1>1, <1>3 DEF PhaseStep
<1>5. Effect(p, NoProc) /\ Steady
  BY <1>1, <1>2, <1>4, ReleaseWrites
<1>6. Terminal(Rec(p).state)'
  BY <1>2, <1>5 DEF Steady
<1>7. BootGoesOn
  BY <1>1, <1>2, <1>3, <1>6 DEF BootGoesOn, OnLane
<1> QED
  BY <1>1, <1>2, <1>5, <1>7, LogsStaySafe, BootStepKeeps DEF TypeOK

LEMMA RecoversAdmission ==
  ASSUME WritersInv, NEW p \in Procs, NEW ok \in BOOLEAN, RecoverAdmission(p, ok) PROVE Kept
<1> USE DEF WritersInv
<1>1. /\ phase = "recovering" /\ lane.op = "boot" /\ lane.pc = "admission" /\ lane.proc = p
      /\ UNCHANGED <<logs, sup, outbox, delivered, cutShort, storage>>
  BY DEF RecoverAdmission, Booting, At
<1>2. StoresOK /\ RecordsOK /\ Rec(p) \in Record /\ Plausible(Rec(p))
  BY Typed, StoreFields DEF RecordsOK, Rec, StoresOK
<1>3. ASSUME GoOn("admission", ok) \/ GoOn("operations", ok), PhaseStep(ok) => Effect(NoProc, NoProc) /\ Steady
      PROVE  Kept
  <2>1. /\ ok => (OnLane("admission", lane.chosen) \/ OnLane("operations", lane.chosen)) /\ phase' = phase
        /\ ~ ok => LetGo /\ phase' = "stopped"
    <3>1. {"admission", "operations"} \subseteq Steps("boot") /\ lane \in Lanes
      BY Typed, StepSets DEF BootSteps
    <3> QED
      BY <1>1, <1>3, <3>1, GoesOn
  <2>2. PhaseStep(ok)
    BY <1>1, <2>1 DEF PhaseStep
  <2>3. BootGoesOn
    BY <1>1, <2>1 DEF BootGoesOn, OnLane
  <2> QED
    BY <1>1, <1>3, <2>2, <2>3, Typed, LogsStaySafe, BootStepKeeps DEF TypeOK
<1>4. Target(p) \in SlotStates
  BY <1>2, Ranks DEF Target, SlotStates
<1>5. CASE PutSlot(p, "none", ok) /\ GoOn("admission", ok)
  <2>1. SlotPut(p, "none", ok)
    BY <1>2, <1>5, PutsSlot DEF SlotStates
  <2> QED
    BY <1>2, <1>3, <1>5, <2>1, SlotEffect
<1>6. CASE PutAdmission(p, "none", ok) /\ GoOn("operations", ok)
  <2>1. JournalPut(p, "none", mem.journal[p].release, ok)
    BY <1>2, <1>6, PutsAdmission DEF AdmitStates
  <2> QED
    BY <1>2, <1>3, <1>6, <2>1, JournalEffect
<1>7. CASE GoOn("admission", ok) /\ \E st \in {"active", "terminal_unacknowledged", Target(p)} : MoveSlot(p, st, ok)
  <2>1. PICK st \in SlotStates : MoveSlot(p, st, ok)
    BY <1>4, <1>7 DEF SlotStates
  <2>2. Keep \/ SlotPut(p, st, ok)
    BY <1>2, <2>1, MovesSlot
  <2> QED
    BY <1>2, <1>3, <1>7, <2>2, KeepEffect, SlotEffect
<1>8. CASE Rec(p).state # "absent" /\ Slot(p) = Target(p) /\ Rec(p).res # Slot(p) /\ PutReservation(p, Slot(p), ok) /\ GoOn("admission", ok)
  <2>1. Slot(p) = "active"
    BY <1>8 DEF Target
  <2>2. Keep \/ SetsReservation(p, "active", ok)
    BY <1>2, <1>8, <2>1, PutsReservation DEF SlotStates
  <2>3. CASE SetsReservation(p, "active", ok)
    <3>1. PICK s \in Record : RecordPut(p, s, ok) /\ Quietly(Rec(p), s)
      BY <2>3 DEF SetsReservation
    <3>2. Grows(Rec(p), s) /\ Rec(p).state # "absent"
      <4>1. Rec(p).state = "absent" => Rec(p) = NoRecord
        BY <1>2 DEF Plausible
      <4>2. s.state # "absent" /\ Grows(Rec(p), s)
        BY <3>1 DEF Quietly, Grows
      <4>3. Rec(p).state # "absent"
        BY <1>8
      <4> QED
        BY <4>2, <4>3
    <3> QED
      BY <1>2, <1>3, <1>8, <3>1, <3>2, RecordEffect
  <2> QED
    BY <1>2, <1>3, <1>8, <2>2, <2>3, KeepEffect
<1>9. CASE PutAdmission(p, "committed", ok) /\ GoOn("admission", ok)
  <2>1. JournalPut(p, "committed", mem.journal[p].release, ok)
    BY <1>2, <1>9, PutsAdmission DEF AdmitStates
  <2> QED
    BY <1>2, <1>3, <1>9, <2>1, JournalEffect
<1>10. CASE Keep /\ UNCHANGED phase /\ lane' = [lane EXCEPT !.pc = "operations", !.chosen = @ \cup {p}]
  <2>1. lane' = [lane EXCEPT !.pc = "operations", !.chosen = lane.chosen \cup {p}]
    BY <1>10
  <2>2. OnLane("operations", lane.chosen \cup {p})
    <3>1. lane \in Lanes /\ "operations" \in Steps(lane.op) /\ lane.chosen \cup {p} \in SUBSET Procs
      BY <1>1, Typed, StepSets DEF BootSteps
    <3> QED
      BY <2>1, <3>1, LaneTurns
  <2>3. BootGoesOn
    BY <1>1, <1>10, <2>2 DEF BootGoesOn, OnLane
  <2> QED
    BY <1>1, <1>10, <2>3, QuietBootStepKeeps
<1> DEFINE Writes ==
      \/ PutSlot(p, "none", ok) /\ GoOn("admission", ok)
      \/ PutAdmission(p, "none", ok) /\ GoOn("operations", ok)
      \/ GoOn("admission", ok) /\ \E st \in {"active", "terminal_unacknowledged", Target(p)} : MoveSlot(p, st, ok)
      \/ /\ Rec(p).state # "absent" /\ Slot(p) = Target(p) /\ Rec(p).res # Slot(p)
         /\ PutReservation(p, Slot(p), ok) /\ GoOn("admission", ok)
      \/ PutAdmission(p, "committed", ok) /\ GoOn("admission", ok)
      \/ Keep /\ UNCHANGED phase /\ lane' = [lane EXCEPT !.pc = "operations", !.chosen = @ \cup {p}]
<1>11. Writes
  BY Zenon DEF RecoverAdmission
<1> QED
  BY <1>5, <1>6, <1>7, <1>8, <1>9, <1>10, <1>11, Zenon

LEMMA RecoversOperations ==
  ASSUME WritersInv, OperationsRecovered \/ ProcessesInterrupted PROVE Kept
<1> USE DEF WritersInv
<1>1. /\ phase = "recovering" /\ lane.op = "boot"
      /\ UNCHANGED <<logs, sup, outbox, delivered, cutShort, storage>>
  BY DEF OperationsRecovered, ProcessesInterrupted, Booting, At
<1>2. CASE Refuse
  BY <1>1, <1>2, RefusalKeeps
<1>3. CASE lane' = [lane EXCEPT !.pc = "interrupt", !.chosen = {}] /\ UNCHANGED phase /\ Keep
  <2>1. lane' = [lane EXCEPT !.pc = "interrupt", !.chosen = {}]
    BY <1>3
  <2>2. lane \in Lanes /\ "interrupt" \in Steps(lane.op) /\ {} \in SUBSET Procs
    BY <1>1, Typed, StepSets DEF BootSteps
  <2>3. OnLane("interrupt", {})
    BY <2>1, <2>2, LaneTurns
  <2>4. BootGoesOn
    BY <1>1, <1>3, <2>3 DEF BootGoesOn, OnLane
  <2> QED
    BY <1>1, <1>3, <2>4, QuietBootStepKeeps
<1>4. CASE Goto("tombstones") /\ UNCHANGED phase /\ Keep
  <2>1. lane' = [lane EXCEPT !.pc = "tombstones"] /\ phase' = phase
    BY <1>4 DEF Goto
  <2>2. lane \in Lanes /\ "tombstones" \in Steps("boot")
    BY <1>1, Typed, StepSets DEF BootSteps
  <2>3. OnLane("tombstones", lane.chosen)
    BY <1>1, <1>4, <2>2, GoesOn DEF GoOn
  <2>4. BootGoesOn
    BY <1>1, <1>4, <2>3 DEF BootGoesOn, OnLane
  <2> QED
    BY <1>1, <1>4, <2>4, QuietBootStepKeeps
<1> QED
  BY <1>2, <1>3, <1>4, Zenon DEF OperationsRecovered, ProcessesInterrupted

LiveNow == {p \in Procs : Rec(p).state \in {"starting", "running"}}

LEMMA InterruptionWrites ==
  ASSUME WritersInv, NEW ok \in BOOLEAN, InterruptProcesses(ok)
  PROVE  \/ ~ ok /\ Refuse /\ \E p \in LiveNow : Rec(p).res # "active"
         \/ /\ \A p \in LiveNow : Rec(p).res = "active"
            /\ \/ LiveNow = {} /\ Keep /\ ok
               \/ \E a \in AuthorityTable : /\ PutAuthority(a, ok) /\ Interrupts(a, LiveNow)
                                            /\ a.tombstones = mem.authority.tombstones
            /\ ok => OnLane("slots", LiveNow) /\ phase' = phase
            /\ ~ ok => LetGo /\ phase' = "stopped"
<1> USE DEF WritersInv
<1> DEFINE live == {p \in Procs : Rec(p).state \in {"starting", "running"}}
           after == [p \in Procs |-> IF p \in live
                       THEN [Rec(p) EXCEPT !.state = "interrupted", !.res = "terminal_unacknowledged",
                                           !.event = TRUE]
                       ELSE Rec(p)]
<1>1. StoresOK /\ \A p \in Procs : Rec(p) \in Record
  BY Typed, StoreFields DEF Rec, StoresOK
<1>2. lane \in Lanes /\ "slots" \in Steps(lane.op)
  BY Typed, StepSets DEF BootSteps, InterruptProcesses, Booting, At
<1>3. \/ ~ ok /\ Refuse /\ \E p \in live : Rec(p).res # "active"
      \/ /\ ~ \E p \in live : Rec(p).res # "active"
         /\ \/ live = {} /\ Keep /\ ok
            \/ PutAuthority([mem.authority EXCEPT !.records = after], ok)
         /\ IF ok THEN lane' = [lane EXCEPT !.pc = "slots", !.chosen = live] /\ UNCHANGED phase
            ELSE lane' = FreeLane /\ phase' = "stopped"
  BY Zenon DEF InterruptProcesses
<1>4. \A p \in Procs : after[p] = IF p \in live THEN InterruptedRecord(Rec(p)) ELSE Rec(p)
  <2> SUFFICES ASSUME NEW p \in Procs
               PROVE  after[p] = IF p \in live THEN InterruptedRecord(Rec(p)) ELSE Rec(p)
    OBVIOUS
  <2>1. [Rec(p) EXCEPT !.state = "interrupted", !.res = "terminal_unacknowledged", !.event = TRUE]
          = InterruptedRecord(Rec(p))
    <3>1. "interrupted" \in ProcessStates /\ "terminal_unacknowledged" \in SlotStates /\ TRUE \in BOOLEAN
      BY DEF ProcessStates, SlotStates
    <3> QED
      BY <1>1, <3>1, Updated DEF InterruptedRecord
  <2>2. after[p] = IF p \in live THEN [Rec(p) EXCEPT !.state = "interrupted",
                                         !.res = "terminal_unacknowledged", !.event = TRUE]
                   ELSE Rec(p)
    BY Zenon
  <2> QED
    BY <2>1, <2>2, Zenon
<1>5. after \in [Procs -> Record]
  <2>1. \A p \in Procs : after[p] \in Record
    <3> SUFFICES ASSUME NEW p \in Procs PROVE after[p] \in Record
      OBVIOUS
    <3>1. p \in live => InterruptedRecord(Rec(p)) \in Record
      BY <1>1, InterruptionGrows DEF InterruptedRecord
    <3> HIDE DEF after
    <3> QED
      BY <1>1, <1>4, <3>1
  <2>2. after = [p \in Procs |-> after[p]]
    BY Zenon
  <2> HIDE DEF after
  <2> QED
    BY <2>1, <2>2
<1>6. live \in SUBSET Procs /\ LiveNow = live
  BY DEF LiveNow
<1> HIDE DEF after, live
<1>7. CASE ~ ok /\ Refuse /\ \E p \in live : Rec(p).res # "active"
  BY <1>6, <1>7
<1>8. CASE /\ ~ \E p \in live : Rec(p).res # "active"
           /\ \/ live = {} /\ Keep /\ ok
              \/ PutAuthority([mem.authority EXCEPT !.records = after], ok)
           /\ IF ok THEN lane' = [lane EXCEPT !.pc = "slots", !.chosen = live] /\ UNCHANGED phase
              ELSE lane' = FreeLane /\ phase' = "stopped"
  <2>1. \A p \in live : Rec(p).res = "active"
    BY <1>8
  <2>2. ASSUME ok PROVE OnLane("slots", live) /\ phase' = phase
    <3>1. lane' = [lane EXCEPT !.pc = "slots", !.chosen = live] /\ phase' = phase
      BY <1>8, <2>2
    <3> QED
      BY <1>2, <1>6, <3>1, LaneTurns
  <2>3. ASSUME ~ ok PROVE LetGo /\ phase' = "stopped"
    BY <1>8, <2>3 DEF LetGo
  <2>4. ASSUME PutAuthority([mem.authority EXCEPT !.records = after], ok)
        PROVE  \E a \in AuthorityTable : /\ PutAuthority(a, ok) /\ Interrupts(a, live)
                                         /\ a.tombstones = mem.authority.tombstones
    <3> DEFINE a == [mem.authority EXCEPT !.records = after]
    <3>1. mem.authority \in AuthorityTable
      BY <1>1, StoreFields DEF StoresOK
    <3>2. a \in AuthorityTable /\ a.records = after /\ a.tombstones = mem.authority.tombstones
      BY <1>5, <3>1 DEF AuthorityTable
    <3>3. PutAuthority(a, ok)
      BY <2>4
    <3> HIDE DEF a
    <3>4. Interrupts(a, live)
      BY <1>4, <3>2 DEF Interrupts
    <3> QED
      BY <3>2, <3>3, <3>4
  <2>5. (live = {} /\ Keep /\ ok) \/ PutAuthority([mem.authority EXCEPT !.records = after], ok)
    BY <1>8, Zenon
  <2> QED
    BY <1>6, <2>1, <2>2, <2>3, <2>4, <2>5
<1> QED
  BY <1>3, <1>7, <1>8

LEMMA InterruptsProcesses ==
  ASSUME WritersInv, NEW ok \in BOOLEAN, InterruptProcesses(ok) PROVE Kept
<1> USE DEF WritersInv
<1>1. /\ phase = "recovering" /\ lane.op = "boot"
      /\ UNCHANGED <<logs, sup, outbox, delivered, cutShort, storage>>
  BY DEF InterruptProcesses, Booting, At
<1>2. StoresOK /\ RecordsOK
  BY Typed
<1>3. CASE Refuse
  BY <1>1, <1>3, RefusalKeeps
<1>4. CASE ~ Refuse
  <2>1. /\ \/ LiveNow = {} /\ Keep /\ ok
           \/ \E a \in AuthorityTable : /\ PutAuthority(a, ok) /\ Interrupts(a, LiveNow)
                                        /\ a.tombstones = mem.authority.tombstones
        /\ ok => OnLane("slots", LiveNow) /\ phase' = phase
        /\ ~ ok => LetGo /\ phase' = "stopped"
    BY <1>4, InterruptionWrites
  <2>2. PhaseStep(ok)
    BY <1>1, <2>1 DEF PhaseStep
  <2>3. Effect(NoProc, NoProc) /\ Steady
    <3>1. CASE Keep
      BY <1>2, <2>2, <3>1, KeepEffect
    <3>2. ASSUME NEW a \in AuthorityTable, PutAuthority(a, ok), Interrupts(a, LiveNow),
                 a.tombstones = mem.authority.tombstones
          PROVE  Effect(NoProc, NoProc) /\ Steady
      <4>1. LiveNow \in SUBSET Procs /\ \A q \in LiveNow : Rec(q).state \in {"starting", "running"}
        BY DEF LiveNow
      <4> QED
        BY <1>2, <2>2, <3>2, <4>1, InterruptEffect
    <3> QED
      BY <2>1, <3>1, <3>2
  <2>4. BootGoesOn
    BY <1>1, <2>1 DEF BootGoesOn, OnLane
  <2> QED
    BY <1>1, <2>3, <2>4, Typed, LogsStaySafe, BootStepKeeps DEF TypeOK
<1> QED
  BY <1>3, <1>4

LEMMA InterruptsSlot ==
  ASSUME WritersInv, NEW p \in Procs, NEW ok \in BOOLEAN, InterruptSlot(p, ok) PROVE Kept
<1> USE DEF WritersInv
<1>1. /\ phase = "recovering" /\ lane.op = "boot" /\ lane.pc = "slots"
      /\ UNCHANGED <<logs, sup, outbox, delivered, cutShort, storage>>
      /\ MoveSlot(p, "terminal_unacknowledged", ok)
  BY DEF InterruptSlot, Booting, At
<1>2. /\ ok => lane' = [lane EXCEPT !.chosen = lane.chosen \ {p}] /\ phase' = phase
      /\ ~ ok => LetGo /\ phase' = "stopped"
  BY DEF InterruptSlot, LetGo
<1>3. ok => OnLane("slots", lane.chosen \ {p})
  <2> SUFFICES ASSUME ok PROVE OnLane("slots", lane.chosen \ {p})
    OBVIOUS
  <2>1. lane' = [lane EXCEPT !.chosen = lane.chosen \ {p}]
    BY <1>2
  <2>2. /\ lane \in Lanes /\ lane.pc \in Steps(lane.op) /\ lane.proc \in Procs \cup {NoProc}
        /\ lane.chosen \ {p} \in SUBSET Procs
    BY Typed
  <2> QED
    BY <1>1, <2>1, <2>2, LaneMoves DEF OnLane
<1>4. PhaseStep(ok)
  BY <1>1, <1>2 DEF PhaseStep
<1>5. Effect(NoProc, NoProc) /\ Steady
  <2>1. Keep \/ SlotPut(p, "terminal_unacknowledged", ok)
    BY <1>1, Typed, MovesSlot DEF SlotStates
  <2> QED
    BY <1>4, <2>1, Typed, KeepEffect, SlotEffect
<1>6. BootGoesOn
  BY <1>1, <1>2, <1>3 DEF BootGoesOn, OnLane
<1> QED
  BY <1>1, <1>5, <1>6, Typed, LogsStaySafe, BootStepKeeps DEF TypeOK

LEMMA RecoversTombstones ==
  ASSUME WritersInv, RecoverTombstones PROVE Kept
<1> USE DEF WritersInv
<1>1. /\ phase = "recovering" /\ lane.op = "boot" /\ phase' = phase
      /\ logs' = logs \ mem.authority.tombstones
      /\ UNCHANGED <<mem, disk, sup, outbox, delivered, cutShort, storage>>
      /\ Goto("expire")
  BY DEF RecoverTombstones, Booting, At
<1>2. OnLane("expire", lane.chosen)
  <2>1. lane \in Lanes /\ "expire" \in Steps("boot")
    BY Typed, StepSets DEF BootSteps
  <2> QED
    BY <1>1, <2>1, GoesOn DEF GoOn
<1>3. Effect(NoProc, NoProc) /\ Steady
  BY <1>1, Typed, KeepEffect DEF PhaseStep, Keep
<1>4. LogsSafe
  BY <1>1 DEF LogsSafe, RecordsOK
<1>5. BootGoesOn
  BY <1>1, <1>2 DEF BootGoesOn, OnLane
<1> QED
  BY <1>1, <1>3, <1>4, <1>5, Typed, BootStepKeeps DEF TypeOK

LEMMA ExpiresTombstones ==
  ASSUME WritersInv, NEW ok \in BOOLEAN, ExpireTombstones(ok) PROVE Kept
<1> USE DEF WritersInv
<1> DEFINE dead == mem.authority.tombstones
           r == [p \in Procs |-> IF p \in dead THEN NoRecord ELSE Rec(p)]
           a == [records |-> r, tombstones |-> {}]
<1>1. /\ phase = "recovering" /\ lane.op = "boot"
      /\ UNCHANGED <<logs, sup, outbox, delivered, cutShort, storage>>
      /\ GoOn("select", ok)
      /\ Keep \/ PutAuthority(a, ok)
  BY DEF ExpireTombstones, Booting, At
<1>2. StoresOK /\ mem = disk /\ \A p \in Procs : Rec(p) \in Record
  BY <1>1, Typed, StoreFields DEF Rec, StoresOK, RecordsOK
<1>3. dead \in SUBSET Procs /\ dead \subseteq disk.authority.tombstones
  BY <1>2, StoreFields DEF StoresOK
<1>4. /\ ok => OnLane("select", lane.chosen) /\ phase' = phase
      /\ ~ ok => LetGo /\ phase' = "stopped"
  <2>1. lane \in Lanes /\ "select" \in Steps("boot")
    BY Typed, StepSets, Plans
  <2> QED
    BY <1>1, <2>1, GoesOn
<1>5. PhaseStep(ok)
  BY <1>1, <1>4 DEF PhaseStep
<1>6. a \in AuthorityTable /\ a.tombstones = {} /\ Deletes(a, dead)
  <2> HIDE DEF dead
  <2>1. r \in [Procs -> Record] /\ \A q \in Procs : r[q] = IF q \in dead THEN NoRecord ELSE Rec(q)
    BY <1>2, NoRecords
  <2> HIDE DEF r
  <2> QED
    BY <2>1 DEF AuthorityTable, Deletes
<1> HIDE DEF a, r
<1>7. Effect(NoProc, NoProc) /\ LogsSafe
  <2>1. CASE Keep
    <3>1. Effect(NoProc, NoProc) /\ Steady
      BY <1>2, <1>5, <2>1, KeepEffect
    <3> QED
      BY <1>1, <3>1, LogsStaySafe
  <2>2. CASE PutAuthority(a, ok)
    <3>1. a.tombstones = {} /\ phase = "recovering" /\ dead = mem.authority.tombstones
      BY <1>1, <1>6
    <3> HIDE DEF dead
    <3>2. /\ Effect(NoProc, NoProc)
          /\ \A q \in disk.authority.tombstones \ disk'.authority.tombstones :
               disk'.authority.records[q].state = "absent"
      BY <1>2, <1>3, <1>5, <1>6, <2>2, <3>1, DeleteEffect
    <3> QED
      BY <1>1, <3>2 DEF LogsSafe
  <2> QED
    BY <1>1, <2>1, <2>2
<1>8. BootGoesOn
  BY <1>1, <1>4 DEF BootGoesOn, OnLane
<1> QED
  BY <1>1, <1>7, <1>8, Typed, BootStepKeeps DEF TypeOK

LEMMA BootRetains ==
  ASSUME WritersInv, NEW ok \in BOOLEAN, BootRetention(ok) PROVE Kept
<1> USE DEF WritersInv
<1>1. /\ phase = "recovering" /\ lane.op = "boot" /\ Retain(ok)
      /\ phase' = IF lane' # FreeLane THEN phase ELSE IF ok THEN "up" ELSE "stopped"
      /\ UNCHANGED <<sup, outbox, delivered, cutShort, storage>>
  BY DEF BootRetention
<1>2. /\ \/ LetGo
         \/ ok /\ \E S \in SUBSET Procs : OnLane("remove", S)
         \/ ok /\ OnLane("delete", lane.chosen)
      /\ lane' \in Lanes
  BY <1>1, RetentionLane
<1>3. \/ LetGo /\ phase' \in {"up", "stopped"} /\ (phase' = "up" => ok)
      \/ ok /\ phase' = "recovering" /\ lane'.op = "boot" /\ lane'.pc \in {"remove", "delete"}
  <2>1. CASE LetGo
    BY <1>1, <2>1 DEF LetGo
  <2>2. CASE ok /\ lane'.op = "boot" /\ lane'.pc \in {"remove", "delete"}
    BY <1>1, <2>2, FreeLanes
  <2> QED
    BY <1>1, <1>2, <2>1, <2>2 DEF OnLane
<1>4. PhaseStep(ok)
  BY <1>1, <1>3 DEF PhaseStep
<1>5. /\ Effect(NoProc, NoProc) /\ LogsSafe /\ logs' \in SUBSET Procs
      /\ lane'.pc \in {"remove", "delete"} => lane'.chosen \subseteq disk'.authority.tombstones
  BY <1>1, <1>4, RetentionEffect
<1>6. BootGoesOn
  BY <1>2, <1>3, <1>5 DEF BootGoesOn
<1> QED
  BY <1>1, <1>5, <1>6, Typed, BootStepKeeps

LEMMA Crashes ==
  ASSUME WritersInv, Crash PROVE Kept
<1> USE DEF WritersInv
<1>1. /\ phase' = "down" /\ mem' = EmptyStores /\ lane' = FreeLane
      /\ sup' = [p \in Procs |-> IF sup[p] = "new" THEN "new" ELSE "gone"]
      /\ outbox' = IdleOutbox
      /\ cutShort' = (cutShort \/ phase \in {"recovering", "stopped"})
      /\ UNCHANGED <<disk, logs, delivered, storage>>
  BY DEF Crash
<1>2. \A p \in Procs : sup'[p] \in {"new", "gone"} /\ (sup'[p] = "new" => sup[p] = "new")
  BY <1>1
<1>3. TypeOK'
  <2>1. sup' \in [Procs -> SupStates]
    BY <1>1 DEF TypeOK, SupStates
  <2>2. outbox' \in [todo : SUBSET Procs, acking : Procs \cup {NoProc}]
    BY <1>1 DEF IdleOutbox
  <2>3. cutShort' \in BOOLEAN
    BY <1>1
  <2> QED
    BY <1>1, <2>1, <2>2, <2>3, Empty, FreeLanes DEF TypeOK, Phases
<1>4. LaneOK'
  BY <1>1, <1>2, FreeLanes DEF LaneOK, Writers, At
<1>5. OutboxOK'
  BY <1>1 DEF OutboxOK, IdleOutbox
<1>6. AnnouncedOK'
  <2>1. \A q \in Procs : Says(mem', q) \/ Says(disk', q) => Announced(q)'
    BY <1>1, Empty, NoRecords DEF AnnouncedOK, Announced, Says
  <2> QED
    BY <1>1, <2>1, FreeLanes DEF AnnouncedOK, IdleOutbox, At
<1>7. WorkOK'
  <2>1. \A q \in Procs : sup'[q] = "new" => Unknown(q)'
    BY <1>1, <1>2, Empty DEF WorkOK, Unknown
  <2> QED
    BY <1>1, <2>1, FreeLanes DEF WorkOK, At
<1>8. RecordsOK'
  <2>1. Plausible(NoRecord)
    BY NoRecords, Ranks DEF Plausible
  <2> QED
    BY <1>1, <2>1, Empty DEF RecordsOK
<1>9. AllForward /\ LogsSafe
  <2>1. \A q \in Procs : Rank(disk.authority.records[q]) \in 0 .. 5
    BY Typed, StoreFields, Reaches DEF StoresOK
  <2> QED
    BY <1>1, <2>1 DEF AllForward, Forward, LogsSafe
<1> QED
  BY <1>3, <1>4, <1>5, <1>6, <1>7, <1>8, <1>9 DEF Kept

LEMMA Stutters ==
  ASSUME WritersInv, UNCHANGED vars PROVE Kept
<1> USE DEF WritersInv
<1>1. WritersInv'
  BY DEF vars, TypeOK, LaneOK, OutboxOK, AnnouncedOK, WorkOK, RecordsOK, At, Announced, Unknown, Rec
<1>2. \A q \in Procs : Rank(disk.authority.records[q]) \in 0 .. 5
  BY Typed, StoreFields, Reaches DEF StoresOK
<1>3. AllForward /\ LogsSafe
  BY <1>2 DEF vars, AllForward, Forward, LogsSafe
<1> QED
  BY <1>1, <1>3 DEF Kept

-----------------------------------------------------------------------------
LEMMA StartsWell ==
  ASSUME Init PROVE WritersInv
<1> USE DEF Init
<1>1. TypeOK
  BY Empty, FreeLanes DEF TypeOK, Phases, SupStates, IdleOutbox
<1>2. LaneOK
  BY FreeLanes DEF LaneOK, Writers, At
<1>3. OutboxOK
  BY DEF OutboxOK, IdleOutbox
<1>4. AnnouncedOK
  BY Empty, NoRecords, FreeLanes DEF AnnouncedOK, Says, IdleOutbox, At
<1>5. WorkOK
  BY Empty, FreeLanes DEF WorkOK, Unknown, At
<1>6. RecordsOK
  <2>1. Plausible(NoRecord) /\ Rank(NoRecord) = 0 /\ NoRecord.state = "absent"
    BY NoRecords, Ranks DEF Plausible
  <2>2. ValidRecord(NoRecord)
    BY <2>1 DEF ValidRecord
  <2>3. \A f : Behind(NoRecord, NoRecord, f)
    BY <2>1 DEF Behind
  <2> QED
    BY <2>1, <2>2, <2>3, Empty DEF RecordsOK, ValidAuthority
<1> QED
  BY <1>1, <1>2, <1>3, <1>4, <1>5, <1>6 DEF WritersInv

(* Every step keeps the invariant, moves the disk forward and is careful    *)
(* with the logs.                                                           *)
LEMMA StepsKeep ==
  ASSUME WritersInv, [Next]_vars PROVE Kept
<1>1. ASSUME NEW p \in Procs, SupervisorStep(p) PROVE Kept
  <2>1. CASE Reserve(p)
    BY <2>1, Reserves
  <2>2. CASE OpenLog(p)
    BY <2>2, OpensLog
  <2>3. CASE FailBeforeSpawn(p) \/ Exit(p)
    BY <2>3, FailsBeforeSpawn
  <2>4. CASE MarkTerminal(p)
    BY <2>4, MarksTerminal
  <2>5. ASSUME NEW ok \in BOOLEAN, AdmitProcess(p, ok) \/ MarkRunning(p, ok) \/ RecordTerminal(p, ok)
        PROVE  Kept
    BY <2>5, AdmitsProcess, MarksRunning, RecordsTerminal
  <2> QED
    BY <1>1, <2>1, <2>2, <2>3, <2>4, <2>5 DEF SupervisorStep
<1>2. ASSUME OutboxStep PROVE Kept
  <2>1. ASSUME NEW p \in Procs, Deliver(p) \/ DeliveryFails(p) \/ AcknowledgeTerminal(p) PROVE Kept
    BY <2>1, Delivers, DeliveringFails, AcknowledgesTerminal
  <2>2. ASSUME NEW p \in Procs, NEW ok \in BOOLEAN, ReleaseStep(p, ok) PROVE Kept
    BY <2>2, ReleasesTerminal
  <2> QED
    BY <1>2, <2>1, <2>2, CollectsEvents DEF OutboxStep
<1>3. ASSUME BootStep PROVE Kept
  <2>1. ASSUME NEW ok \in BOOLEAN, InterruptProcesses(ok) \/ ExpireTombstones(ok) \/ BootRetention(ok)
        PROVE  Kept
    BY <2>1, InterruptsProcesses, ExpiresTombstones, BootRetains
  <2>2. ASSUME NEW p \in Procs, NEW ok \in BOOLEAN,
               RecoverRelease(p, ok) \/ RecoverAdmission(p, ok) \/ InterruptSlot(p, ok)
        PROVE  Kept
    BY <2>2, RecoversRelease, RecoversAdmission, InterruptsSlot
  <2> QED
    BY <1>3, <2>1, <2>2, Loads, RecoversOperations, RecoversTombstones, RecoversOperation DEF BootStep
<1> QED
  BY <1>1, <1>2, <1>3, Crashes, Stutters DEF Next

(* The invariant of those who write the process files: on any storage, and  *)
(* however often the process dies between two writes.                       *)
THEOREM WritersKeepTheirInvariant == Spec => []WritersInv
<1>1. Init => WritersInv
  BY StartsWell
<1>2. WritersInv /\ [Next]_vars => WritersInv'
  BY StepsKeep DEF Kept
<1> QED
  BY <1>1, <1>2, PTL DEF Spec

(* MarkAcknowledged comes after the message (drainProcessTerminalOutbox),   *)
(* and a recovery acknowledges only what a release intent speaks of: no end *)
(* that is recorded as acknowledged was never announced.                    *)
THEOREM AcknowledgedEndsAreAlwaysDelivered == Spec => []AcknowledgedEndsWereDelivered
<1>1. WritersInv => AcknowledgedEndsWereDelivered
  BY DEF WritersInv, AnnouncedOK, Says, Announced, AcknowledgedEndsWereDelivered
<1> QED
  BY <1>1, WritersKeepTheirInvariant, PTL

(* On disk a process only goes forward until its record is deleted, which   *)
(* its tombstone precedes, and a log goes only after its tombstone:         *)
(* applyRetentionLocked, recoverTombstones and every save, failed ones too. *)
THEOREM NoStepUndoesTheDisk == Spec => DiskIsNeverUndone
<1>1. WritersInv /\ [Next]_vars =>
        \A p \in Procs :
          LET before == disk.authority.records[p]
              after == disk'.authority.records[p]
          IN  \/ Rank(before) <= Rank(after)
              \/ Rank(before) = 5 /\ Rank(after) = 0 /\ p \in disk.authority.tombstones
  BY StepsKeep DEF Kept, AllForward, Forward
<1>2. WritersInv /\ [Next]_vars =>
        \A p \in Procs :
          /\ p \in logs \ logs' => p \in disk.authority.tombstones
          /\ p \in disk.authority.tombstones \ disk'.authority.tombstones =>
               disk'.authority.records[p].state = "absent"
  BY StepsKeep DEF Kept, LogsSafe
<1>3. Spec => DiskOnlyAdvances
  BY <1>1, WritersKeepTheirInvariant, PTL DEF Spec, DiskOnlyAdvances
<1>4. Spec => LogsGoAfterTombstones
  BY <1>2, WritersKeepTheirInvariant, PTL DEF Spec, LogsGoAfterTombstones
<1> QED
  BY <1>3, <1>4 DEF DiskIsNeverUndone

-----------------------------------------------------------------------------
(* The second layer: storage is sound.                                      *)

Same(q) ==
  /\ disk'.journal[q] = disk.journal[q] /\ disk'.ledger[q] = disk.ledger[q]
  /\ OnDisk(q)' = OnDisk(q)

Elsewhere(p) == \A q \in Procs \ {p} : Same(q)

(* What a write has left on disk, and in memory.                            *)
Wrote(p, admit, release, slot, r) ==
  /\ mem' = disk' /\ Elsewhere(p)
  /\ disk'.journal[p].admit = admit /\ disk'.journal[p].release = release
  /\ disk'.ledger[p] = slot /\ OnDisk(p)' = r

LEMMA SoundJournal ==
  ASSUME storage = "sound", mem = disk, NEW ok \in BOOLEAN, NEW p \in Procs, NEW admit, NEW release,
         JournalPut(p, admit, release, ok)
  PROVE  ok /\ Wrote(p, admit, release, disk.ledger[p], OnDisk(p))
<1>1. ok /\ mem' = disk'
  BY DEF JournalPut
<1>2. \A q \in Procs \ {p} : disk'.journal[q] = disk.journal[q]
  BY <1>1 DEF JournalPut
<1> QED
  BY <1>1, <1>2 DEF JournalPut, JournalLeft, Wrote, Elsewhere, Same, OnDisk

LEMMA SoundSlot ==
  ASSUME storage = "sound", mem = disk, NEW ok \in BOOLEAN, NEW p \in Procs, NEW slot, SlotPut(p, slot, ok)
  PROVE  ok /\ Wrote(p, disk.journal[p].admit, disk.journal[p].release, slot, OnDisk(p))
<1>1. ok /\ mem' = disk'
  BY DEF SlotPut
<1>2. \A q \in Procs \ {p} : disk'.ledger[q] = disk.ledger[q]
  BY <1>1 DEF SlotPut
<1> QED
  BY <1>1, <1>2 DEF SlotPut, LedgerLeft, Wrote, Elsewhere, Same, OnDisk

LEMMA SoundAuthority ==
  ASSUME storage = "sound", mem = disk, NEW ok \in BOOLEAN, NEW a, AuthorityPut(a, ok),
         \A q \in Procs : ValidRecord(a.records[q])
  PROVE  /\ ok /\ mem' = disk' /\ disk'.authority = a
         /\ disk'.journal = disk.journal /\ disk'.ledger = disk.ledger
<1>1. ValidAuthority(a)
  BY DEF ValidAuthority
<1>2. ok /\ mem' = disk' /\ disk'.authority = a
  BY <1>1 DEF AuthorityPut
<1> QED
  BY <1>2 DEF AuthorityPut, AuthorityLeft

LEMMA SoundRecord ==
  ASSUME storage = "sound", mem = disk, ValidAuthority(disk.authority), NEW ok \in BOOLEAN,
         NEW p \in Procs, NEW r, ValidRecord(r), RecordPut(p, r, ok)
  PROVE  ok /\ Wrote(p, disk.journal[p].admit, disk.journal[p].release, disk.ledger[p], r)
<1>1. PICK a \in AuthorityTable : /\ AuthorityPut(a, ok) /\ a.records[p] = r
                                  /\ \A q \in Procs \ {p} : a.records[q] = Rec(q)
  BY DEF RecordPut
<1>2. \A q \in Procs : ValidRecord(a.records[q])
  BY <1>1 DEF ValidAuthority, Rec
<1>3. /\ ok /\ mem' = disk' /\ disk'.authority = a
      /\ disk'.journal = disk.journal /\ disk'.ledger = disk.ledger
  BY <1>1, <1>2, SoundAuthority
<1>4. \A q \in Procs \ {p} : OnDisk(q)' = OnDisk(q)
  BY <1>1, <1>3 DEF OnDisk, Rec
<1> QED
  BY <1>1, <1>3, <1>4 DEF Wrote, Elsewhere, Same, OnDisk

LEMMA NothingWritten ==
  ASSUME mem = disk, Keep
  PROVE  mem' = disk' /\ \A q \in Procs : Same(q)
  BY DEF Keep, Same, OnDisk

(* A process whose entries are the same has the same shape.                 *)
LEMMA SameShape ==
  ASSUME NEW q, Same(q)
  PROVE  /\ Nothing(q)' <=> Nothing(q)
         /\ NoSlotLeft(q)' <=> NoSlotLeft(q)
         /\ Live(q)' <=> Live(q)
         /\ Interrupted(q)' <=> Interrupted(q)
         /\ Ended(q)' <=> Ended(q)
         /\ Released(q)' <=> Released(q)
         /\ Missing(q)' <=> Missing(q)
         /\ HasEnded(q)' <=> HasEnded(q)
         /\ Runs(q)' <=> Runs(q)
         /\ \A res : Starting(q, res)' <=> Starting(q, res)
         /\ \A res : Acked(q, res)' <=> Acked(q, res)
         /\ \A admit, release, slot : Entry(q, admit, release, slot)' <=> Entry(q, admit, release, slot)
         /\ Terminal(OnDisk(q).state)' <=> Terminal(OnDisk(q).state)
<1>1. /\ Missing(q)' <=> Missing(q)
      /\ HasEnded(q)' <=> HasEnded(q)
      /\ Runs(q)' <=> Runs(q)
      /\ \A res : Starting(q, res)' <=> Starting(q, res)
      /\ \A res : Acked(q, res)' <=> Acked(q, res)
      /\ Terminal(OnDisk(q).state)' <=> Terminal(OnDisk(q).state)
  BY DEF Same, Missing, HasEnded, Runs, Starting, Acked
<1>2. \A admit, release, slot : Entry(q, admit, release, slot)' <=> Entry(q, admit, release, slot)
  BY DEF Same, Entry
<1> QED
  BY <1>1, <1>2 DEF Nothing, NoSlotLeft, Live, Interrupted, Ended, Released

LEMMA SameSteps ==
  ASSUME NEW q, Same(q)
  PROVE  /\ \A pc : AdmitShape(q, pc)' <=> AdmitShape(q, pc)
         /\ \A pc : TerminalShape(q, pc)' <=> TerminalShape(q, pc)
         /\ \A pc : ReleaseShape(q, pc)' <=> ReleaseShape(q, pc)
         /\ Settled(q)' <=> Settled(q)
         /\ Resting(q)' <=> Resting(q)
         /\ Safe(q)' <=> Safe(q)
         /\ Weak(q)' <=> Weak(q)
         /\ WeakAdmission(q)' <=> WeakAdmission(q)
         /\ WeakRelease(q)' <=> WeakRelease(q)
<1>1. \A pc : AdmitShape(q, pc)' <=> AdmitShape(q, pc)
  BY SameShape DEF AdmitShape
<1>2. \A pc : TerminalShape(q, pc)' <=> TerminalShape(q, pc)
  BY SameShape DEF TerminalShape
<1>3. \A pc : ReleaseShape(q, pc)' <=> ReleaseShape(q, pc)
  BY SameShape DEF ReleaseShape
<1>4. Settled(q)' <=> Settled(q)
  BY SameShape DEF Settled
<1>5. Resting(q)' <=> Resting(q)
  BY <1>4, SameShape DEF Resting
<1>6. WeakAdmission(q)' <=> WeakAdmission(q)
  BY SameShape DEF WeakAdmission, Same
<1>7. WeakRelease(q)' <=> WeakRelease(q)
  BY SameShape DEF WeakRelease, Same
<1>8. Weak(q)' <=> Weak(q)
  BY <1>6, <1>7, SameShape DEF Weak
<1>9. Safe(q)' <=> Safe(q)
  BY SameShape DEF Safe, SafeAdmission, SafeRelease
<1> QED
  BY <1>1, <1>2, <1>3, <1>4, <1>5, <1>6, <1>7, <1>8, <1>9

(* What a crash leaves is what a startup accepts.                           *)
LEMMA ShapesAreSafe ==
  ASSUME NEW p, UpShape(p)
  PROVE  Safe(p)
<1>1. \A pc : AdmitShape(p, pc) => Safe(p)
  BY DEF AdmitShape, Safe, SafeAdmission, NoSlotLeft
<1>2. \A pc : TerminalShape(p, pc) => Safe(p)
  BY DEF TerminalShape, Safe, SafeAdmission
<1>3. \A pc : ReleaseShape(p, pc) => Safe(p)
  BY DEF ReleaseShape, Safe, SafeAdmission, SafeRelease
<1>4. Resting(p) => Safe(p)
  BY DEF Resting, Settled, Safe, SafeAdmission
<1> QED
  BY <1>1, <1>2, <1>3, <1>4 DEF UpShape

LEMMA SafeIsWeak ==
  ASSUME NEW p, Safe(p)
  PROVE  Weak(p)
<1>1. SafeAdmission(p) => WeakAdmission(p)
  BY DEF SafeAdmission, WeakAdmission, Entry, NoSlotLeft, Live, Interrupted, Ended
<1>2. SafeRelease(p) => WeakRelease(p)
  BY DEF SafeRelease, WeakRelease, Entry
<1> QED
  BY <1>1, <1>2 DEF Safe, Weak

LEMMA SettledIsSafe ==
  ASSUME NEW p, Settled(p) \/ Live(p) \/ Interrupted(p)
  PROVE  Safe(p) /\ Weak(p)
<1>1. Safe(p)
  BY DEF Settled, Safe, SafeAdmission
<1> QED
  BY <1>1, SafeIsWeak

LEMMA Order ==
  \A p \in Procs : /\ UpShape(p) => Safe(p) /\ Weak(p)
                   /\ Safe(p) => Weak(p)
                   /\ Settled(p) \/ Live(p) \/ Interrupted(p) => Safe(p) /\ Weak(p)
  BY ShapesAreSafe, SafeIsWeak, SettledIsSafe

LEMMA OrderNext ==
  \A p \in Procs : /\ UpShape(p)' => Safe(p)' /\ Weak(p)'
                   /\ Safe(p)' => Weak(p)'
                   /\ Settled(p)' \/ Live(p)' \/ Interrupted(p)' => Safe(p)' /\ Weak(p)'
<1>1. (\A p \in Procs : /\ UpShape(p) => Safe(p) /\ Weak(p)
                        /\ Safe(p) => Weak(p)
                        /\ Settled(p) \/ Live(p) \/ Interrupted(p) => Safe(p) /\ Weak(p))'
  BY Order, PTL
<1> QED
  BY <1>1

(* The records tell the shapes apart.                                       *)
LEMMA Tells ==
  ASSUME NEW p
  PROVE  /\ Nothing(p) \/ NoSlotLeft(p) \/ Missing(p) => OnDisk(p).state = "absent" /\ ~ OnDisk(p).event
                                                        /\ ~ OnDisk(p).acked
         /\ Live(p) => Runs(p)
         /\ Runs(p) => OnDisk(p).state \in {"starting", "running"} /\ OnDisk(p).res = "active" /\ ~ OnDisk(p).event
         /\ Ended(p) \/ Interrupted(p) => HasEnded(p)
         /\ HasEnded(p) => /\ Terminal(OnDisk(p).state) /\ OnDisk(p).event
                           /\ OnDisk(p).res = "terminal_unacknowledged"
         /\ Released(p) => Acked(p, "none")
         /\ \A res : Acked(p, res) => Terminal(OnDisk(p).state) /\ OnDisk(p).res = res /\ ~ OnDisk(p).event
         /\ \A res : Starting(p, res) => OnDisk(p).state = "starting" /\ OnDisk(p).res = res
         /\ Terminal(OnDisk(p).state) => OnDisk(p).state \notin {"absent", "starting", "running"}
  BY NoRecords DEF Nothing, NoSlotLeft, Missing, Live, Runs, Ended, Interrupted, HasEnded, Released, Acked,
                   Starting, Terminal

-----------------------------------------------------------------------------
(* The steps of a project that is up, on sound storage.                     *)

SoundNow == storage = "sound" /\ SoundOK
Spawned == {"admitted", "opened", "running", "exited"}
Holds(p) == lane.op \in Writers /\ lane.proc = p

(* What has been announced has ended.                                       *)
Told(p) == Announced(p) => \/ Terminal(OnDisk(p).state)
                           \/ Missing(p) /\ sup[p] \notin {"new", "admitting"}

LEMMA UpIsSound ==
  ASSUME phase' = "up", mem' = disk', \A q \in Procs : UpShape(q)',
         \A q \in Procs : /\ sup'[q] = "new" => Nothing(q)'
                          /\ sup'[q] \in Spawned => Live(q)'
                          /\ Told(q)',
         lane'.pc \in {"remove", "delete"} => \A q \in lane'.chosen : Released(q)'
  PROVE  SoundOK'
<1>1. \A q \in Procs : Weak(q)'
  BY OrderNext
<1> QED
  BY <1>1 DEF SoundOK, Told, Spawned

(* Of all processes, one moves.                                             *)
LEMMA OneMoves ==
  ASSUME WritersInv, SoundNow, phase = "up", phase' = "up", mem' = disk', NEW p \in Procs, Elsewhere(p),
         \A q \in Procs \ {p} : /\ lane' = lane \/ (~ Holds(q) /\ ~ Holds(q)')
                                /\ sup'[q] = sup[q] /\ delivered'[q] = delivered[q],
         UpShape(p)',
         sup'[p] = "new" => Nothing(p)',
         sup'[p] \in Spawned => Live(p)',
         Told(p)',
         lane'.pc \in {"remove", "delete"} => \A q \in lane'.chosen : Released(q)'
  PROVE  SoundOK'
<1>1. ASSUME NEW q \in Procs, q # p
      PROVE  /\ UpShape(q)'
             /\ sup'[q] = "new" => Nothing(q)'
             /\ sup'[q] \in Spawned => Live(q)'
             /\ Told(q)'
  <2>1. Same(q) /\ sup'[q] = sup[q] /\ delivered'[q] = delivered[q]
        /\ (lane' = lane \/ (~ Holds(q) /\ ~ Holds(q)'))
    BY <1>1 DEF Elsewhere
  <2>2. UpShape(q) /\ (sup[q] = "new" => Nothing(q)) /\ (sup[q] \in Spawned => Live(q)) /\ Told(q)
    BY DEF SoundNow, SoundOK, Spawned, Told
  <2>3. UpShape(q)'
    <3>1. CASE lane' = lane
      BY <2>1, <2>2, <3>1, SameSteps DEF UpShape
    <3>2. CASE ~ Holds(q) /\ ~ Holds(q)'
      BY <2>1, <2>2, <3>2, SameSteps DEF UpShape, Holds, Writers
    <3> QED
      BY <2>1, <3>1, <3>2
  <2>4. Told(q)'
    BY <2>1, <2>2, SameShape DEF Told, Announced
  <2> QED
    BY <2>1, <2>2, <2>3, <2>4, SameShape
<1>2. \A q \in Procs : /\ UpShape(q)'
                       /\ sup'[q] = "new" => Nothing(q)'
                       /\ sup'[q] \in Spawned => Live(q)'
                       /\ Told(q)'
  BY <1>1
<1> QED
  BY <1>2, UpIsSound

(* What is known of a process that holds no lane.                           *)
LEMMA AtRest ==
  ASSUME WritersInv, SoundNow, phase = "up", NEW p \in Procs
  PROVE  /\ mem = disk /\ Rec(p) = OnDisk(p)
         /\ ~ Holds(p) => Resting(p)
         /\ sup[p] \in Spawned => Live(p) /\ ~ Holds(p)
         /\ sup[p] = "new" => Nothing(p) /\ ~ Holds(p)
         /\ Told(p)
         /\ lane.pc \in {"remove", "delete"} => \A q \in lane.chosen : Released(q)
<1>1. /\ mem = disk /\ UpShape(p) /\ Told(p) /\ (sup[p] \in Spawned => Live(p))
      /\ sup[p] = "new" => Nothing(p)
      /\ lane.pc \in {"remove", "delete"} => \A q \in lane.chosen : Released(q)
  BY DEF SoundNow, SoundOK, Spawned, Told
<1>2. ~ Holds(p) => Resting(p)
  BY <1>1 DEF UpShape, Holds, Writers
<1>3. lane.op \in {"admit", "terminal"} /\ lane.proc = p => sup[p] \in {"admitting", "recording"}
  BY DEF WritersInv, LaneOK
<1>4. lane.op = "release" /\ lane.proc = p => Terminal(OnDisk(p).state)
  <2>1. ReleaseShape(p, lane.pc) => HasEnded(p) \/ \E res : Acked(p, res)
    BY DEF ReleaseShape, Ended, Released
  <2> QED
    BY <1>1, <2>1, Tells DEF UpShape, Writers
<1>5. sup[p] \in Spawned \/ sup[p] = "new" => ~ Holds(p)
  BY <1>1, <1>3, <1>4, Tells DEF Holds, Writers, Spawned
<1> QED
  BY <1>1, <1>2, <1>5 DEF Rec, OnDisk

LEMMA SoundReserve ==
  ASSUME WritersInv, SoundNow, NEW p \in Procs, Reserve(p) PROVE SoundOK'
<1>1. /\ phase = "up" /\ phase' = "up" /\ lane = FreeLane /\ sup[p] = "new"
      /\ Take("admit", p, "intent") /\ Sup(p, "admitting") /\ Keep /\ delivered' = delivered
  BY DEF Reserve, Keep
<1>2. lane'.op = "admit" /\ lane'.proc = p /\ lane'.pc = "intent" /\ lane.op = "none"
  BY <1>1, Takes, StepSets, Plans, FreeLanes DEF Writers, BeforeCreation
<1>3. sup'[p] = "admitting" /\ \A q \in Procs \ {p} : sup'[q] = sup[q]
  BY <1>1, SupChanges DEF SupStates, WritersInv
<1>4. mem' = disk' /\ \A q \in Procs : Same(q)
  BY <1>1, AtRest, NothingWritten
<1>5. Nothing(p) /\ ~ Announced(p)
  BY <1>1, AtRest, Tells DEF Told, Terminal
<1>6. UpShape(p)' /\ Told(p)'
  BY <1>1, <1>2, <1>4, <1>5, SameShape DEF UpShape, AdmitShape, Told, Announced
<1>7. \A q \in Procs \ {p} : ~ Holds(q) /\ ~ Holds(q)'
  BY <1>2 DEF Holds, Writers
<1> QED
  BY <1>1, <1>2, <1>3, <1>4, <1>6, <1>7, OneMoves DEF Elsewhere, Spawned

(* The supervisor moves a process that is live, or gives it up.             *)
LEMMA SoundSupervisor ==
  ASSUME WritersInv, SoundNow, NEW p \in Procs, NEW st, sup[p] \in Spawned, SupervisorMoves(p, st),
         st \in Spawned,
         \/ Keep
         \/ \E s : /\ Wrote(p, disk.journal[p].admit, disk.journal[p].release, disk.ledger[p], s)
                   /\ s.state \in {"starting", "running"} /\ s.res = "active" /\ ~ s.event /\ ~ s.acked
  PROVE  SoundOK'
<1>1. /\ phase = "up" /\ phase' = "up" /\ lane' = lane /\ delivered' = delivered
      /\ sup'[p] = st /\ \A q \in Procs \ {p} : sup'[q] = sup[q]
  BY SupChanges DEF SupervisorMoves, WritersInv
<1>2. /\ mem = disk /\ Live(p) /\ ~ Holds(p) /\ Told(p)
      /\ lane.pc \in {"remove", "delete"} => \A q \in lane.chosen : Released(q)
  BY <1>1, AtRest
<1>3. mem' = disk' /\ Elsewhere(p) /\ Live(p)'
  <2>1. CASE Keep
    BY <1>2, <2>1, NothingWritten, SameShape DEF Elsewhere
  <2>2. CASE \E s : /\ Wrote(p, disk.journal[p].admit, disk.journal[p].release, disk.ledger[p], s)
                    /\ s.state \in {"starting", "running"} /\ s.res = "active" /\ ~ s.event /\ ~ s.acked
    BY <1>2, <2>2 DEF Wrote, Live, Entry, Runs
  <2> QED
    BY <2>1, <2>2
<1>4. UpShape(p)'
  BY <1>1, <1>2, <1>3 DEF UpShape, Holds, Resting
<1>5. ~ Announced(p)
  BY <1>2, Tells DEF Told, Terminal
<1>6. \A q \in lane.chosen : Released(q) => q # p
  BY <1>2, Tells DEF Terminal
<1>7. lane'.pc \in {"remove", "delete"} => \A q \in lane'.chosen : Released(q)'
  <2> SUFFICES ASSUME lane.pc \in {"remove", "delete"}, NEW q \in lane.chosen PROVE Released(q)'
    BY <1>1
  <2>1. Released(q) /\ q # p /\ q \in Procs
    BY <1>2, <1>6, Typed DEF WritersInv
  <2> QED
    BY <1>3, <2>1, SameShape DEF Elsewhere
<1>8. Told(p)'
  BY <1>1, <1>5 DEF Told, Announced
<1> QED
  BY <1>1, <1>3, <1>4, <1>7, <1>8, OneMoves DEF Spawned

LEMMA SoundQuietSupervisor ==
  ASSUME WritersInv, SoundNow, NEW p \in Procs, OpenLog(p) \/ FailBeforeSpawn(p) \/ Exit(p) PROVE SoundOK'
<1>1. OpenLog(p) => SupervisorMoves(p, "opened") /\ Keep /\ sup[p] \in Spawned
  BY DEF OpenLog, SupervisorMoves, SupStates, TypeOK, Keep, Spawned, WritersInv
<1>2. FailBeforeSpawn(p) \/ Exit(p) => SupervisorMoves(p, "exited") /\ Keep /\ sup[p] \in Spawned
  BY DEF FailBeforeSpawn, Exit, SupervisorMoves, SupStates, TypeOK, Keep, Spawned, WritersInv
<1> QED
  BY <1>1, <1>2, SoundSupervisor DEF Spawned

LEMMA SoundMarkRunning ==
  ASSUME WritersInv, SoundNow, NEW p \in Procs, NEW ok \in BOOLEAN, MarkRunning(p, ok) PROVE SoundOK'
<1>1. /\ SupervisorMoves(p, IF ok THEN "running" ELSE "exited") /\ RunningRecorded(p, ok)
      /\ phase = "up" /\ sup[p] \in Spawned
  BY DEF MarkRunning, RunningRecorded, SupervisorMoves, SupStates, TypeOK, Spawned, WritersInv
<1>2. StoresOK /\ Plausible(Rec(p)) /\ ValidAuthority(disk.authority)
  BY Typed DEF RecordsOK, Rec, WritersInv
<1>3. mem = disk /\ Rec(p) = OnDisk(p) /\ Live(p)
  BY <1>1, AtRest
<1>4. CASE SetsRunning(p, ok)
  <2>1. PICK s \in Record : /\ RecordPut(p, s, ok)
                            /\ s = [state |-> "running", res |-> Rec(p).res, event |-> Rec(p).event,
                                    acked |-> Rec(p).acked]
    BY <1>4 DEF SetsRunning
  <2>2. s.state = "running" /\ s.res = "active" /\ ~ s.event /\ ~ s.acked
    BY <1>3, <2>1 DEF Live, Runs
  <2>3. ValidRecord(s)
    BY <2>2 DEF ValidRecord, Terminal
  <2>4. Wrote(p, disk.journal[p].admit, disk.journal[p].release, disk.ledger[p], s)
    BY <1>2, <1>3, <2>1, <2>3, SoundRecord DEF SoundNow
  <2> QED
    BY <1>1, <2>2, <2>4, SoundSupervisor DEF Spawned
<1>5. CASE Keep
  BY <1>1, <1>5, SoundSupervisor DEF Spawned
<1> QED
  BY <1>1, <1>2, <1>4, <1>5, RecordsRunning

LEMMA SoundMarkTerminal ==
  ASSUME WritersInv, SoundNow, NEW p \in Procs, MarkTerminal(p) PROVE SoundOK'
<1>1. /\ phase = "up" /\ phase' = "up" /\ lane = FreeLane /\ sup[p] = "exited"
      /\ Take("terminal", p, "record") /\ Sup(p, "recording") /\ Keep /\ delivered' = delivered
  BY DEF MarkTerminal, Keep
<1>2. lane'.op = "terminal" /\ lane'.proc = p /\ lane'.pc = "record" /\ lane.op = "none"
  BY <1>1, Takes, StepSets, Plans, FreeLanes DEF Writers
<1>3. sup'[p] = "recording" /\ \A q \in Procs \ {p} : sup'[q] = sup[q]
  BY <1>1, SupChanges DEF SupStates, WritersInv
<1>4. mem' = disk' /\ \A q \in Procs : Same(q)
  BY <1>1, AtRest, NothingWritten
<1>5. Live(p) /\ ~ Announced(p)
  BY <1>1, AtRest, Tells DEF Told, Terminal, Spawned
<1>6. UpShape(p)' /\ Told(p)'
  BY <1>1, <1>2, <1>4, <1>5, SameShape DEF UpShape, TerminalShape, Told, Announced
<1>7. \A q \in Procs \ {p} : ~ Holds(q) /\ ~ Holds(q)'
  BY <1>2 DEF Holds, Writers
<1> QED
  BY <1>1, <1>2, <1>3, <1>4, <1>6, <1>7, OneMoves DEF Elsewhere, Spawned

(* An admission: each write takes the entries of the process from one shape *)
(* to the next.                                                             *)
LEMMA AdmissionWrites ==
  ASSUME WritersInv, SoundNow, NEW p \in Procs, NEW ok \in BOOLEAN, AdmitProcess(p, ok), AdmitShape(p, lane.pc),
         mem = disk
  PROVE  /\ mem' = disk' /\ Elsewhere(p)
         /\ \/ ok /\ lane.pc # "committed" /\ \E pc : pc = AdmitPlan[lane.pc] /\ AdmitShape(p, pc)'
            \/ ok /\ lane.pc = "committed" /\ Live(p)'
            \/ ~ ok /\ NoSlotLeft(p)'
<1> USE DEF SoundNow
<1>1. StoresOK /\ ValidAuthority(disk.authority) /\ Plausible(Rec(p)) /\ Rec(p) = OnDisk(p)
  BY Typed DEF WritersInv, RecordsOK, Rec, OnDisk
<1>2. lane.pc \in {"intent", "token_selected", "allocate", "allocated", "create", "authority_saved",
                   "activate", "active", "reservation", "committed"}
  BY DEF AdmitProcess
<1>3. ASSUME PutAdmission(p, lane.pc, ok), lane.pc \in AdmitStates
      PROVE  ok /\ Wrote(p, lane.pc, disk.journal[p].release, disk.ledger[p], OnDisk(p))
  <2>1. JournalPut(p, lane.pc, disk.journal[p].release, ok)
    BY <1>1, <1>3, PutsAdmission
  <2> QED
    BY <2>1, SoundJournal
<1>4. CASE lane.pc = "intent"
  <2>1. ok /\ Wrote(p, "intent", disk.journal[p].release, disk.ledger[p], OnDisk(p))
    BY <1>3, <1>4 DEF AdmitProcess, AdmitStates
  <2>2. AdmitShape(p, "token_selected")'
    BY <1>4, <2>1 DEF AdmitShape, Nothing, Entry, Missing, Wrote
  <2> QED
    BY <1>4, <2>1, <2>2, Plans DEF Wrote
<1>5. CASE lane.pc = "token_selected"
  <2>1. ok /\ Wrote(p, "token_selected", disk.journal[p].release, disk.ledger[p], OnDisk(p))
    BY <1>3, <1>5 DEF AdmitProcess, AdmitStates
  <2>2. AdmitShape(p, "allocate")'
    BY <1>5, <2>1 DEF AdmitShape, Entry, Missing, Wrote
  <2> QED
    BY <1>5, <2>1, <2>2, Plans DEF Wrote
<1>6. CASE lane.pc = "allocate"
  <2>1. Entry(p, "token_selected", "none", "none") /\ Missing(p)
    BY <1>6 DEF AdmitShape
  <2>2. Allocate(p, ok)
    BY <1>6 DEF AdmitProcess
  <2>3. CASE Keep /\ ~ ok
    <3>1. mem' = disk' /\ \A q \in Procs : Same(q)
      BY <2>3, NothingWritten
    <3> QED
      BY <2>1, <2>3, <3>1, SameShape DEF NoSlotLeft, Elsewhere
  <2>4. CASE SlotPut(p, "allocating", ok)
    <3>1. ok /\ Wrote(p, disk.journal[p].admit, disk.journal[p].release, "allocating", OnDisk(p))
      BY <2>4, SoundSlot
    <3>2. AdmitShape(p, "allocated")'
      BY <2>1, <3>1 DEF AdmitShape, Entry, Missing, Wrote
    <3> QED
      BY <1>6, <3>1, <3>2, Plans DEF Wrote
  <2> QED
    BY <1>1, <2>2, <2>3, <2>4, Allocates
<1>7. CASE lane.pc = "allocated"
  <2>1. ok /\ Wrote(p, "allocated", disk.journal[p].release, disk.ledger[p], OnDisk(p))
    BY <1>3, <1>7 DEF AdmitProcess, AdmitStates
  <2>2. AdmitShape(p, "create")'
    BY <1>7, <2>1 DEF AdmitShape, Entry, Missing, Wrote
  <2> QED
    BY <1>7, <2>1, <2>2, Plans DEF Wrote
<1>8. CASE lane.pc = "create"
  <2>1. Entry(p, "allocated", "none", "allocating") /\ Missing(p)
    BY <1>8 DEF AdmitShape
  <2>2. CreateRecord(p, ok) /\ Rec(p).state = "absent"
    BY <1>1, <1>8, <2>1, NoRecords DEF AdmitProcess, Missing
  <2>3. ValidRecord(NewRecord)
    BY NewRecords DEF ValidRecord, Terminal
  <2>4. ok /\ Wrote(p, disk.journal[p].admit, disk.journal[p].release, disk.ledger[p], NewRecord)
    <3>1. RecordPut(p, NewRecord, ok)
      BY <1>1, <2>2, CreatesRecord
    <3> QED
      BY <1>1, <2>3, <3>1, SoundRecord
  <2>5. AdmitShape(p, "authority_saved")'
    BY <2>1, <2>4 DEF AdmitShape, Entry, Starting, Wrote, NewRecord
  <2> QED
    BY <1>8, <2>4, <2>5, Plans DEF Wrote
<1>9. CASE lane.pc = "authority_saved"
  <2>1. ok /\ Wrote(p, "authority_saved", disk.journal[p].release, disk.ledger[p], OnDisk(p))
    BY <1>3, <1>9 DEF AdmitProcess, AdmitStates
  <2>2. AdmitShape(p, "activate")'
    BY <1>9, <2>1 DEF AdmitShape, Entry, Starting, Wrote
  <2> QED
    BY <1>9, <2>1, <2>2, Plans DEF Wrote
<1>10. CASE lane.pc = "activate"
  <2>1. Entry(p, "authority_saved", "none", "allocating") /\ Starting(p, "allocating")
    BY <1>10 DEF AdmitShape
  <2>2. MoveSlot(p, "active", ok) /\ Slot(p) = "allocating"
    BY <1>10, <2>1 DEF AdmitProcess, Entry, Slot
  <2>3. SlotPut(p, "active", ok)
    BY <1>1, <2>2, MovesSlot DEF SlotStates, CanMove
  <2>4. ok /\ Wrote(p, disk.journal[p].admit, disk.journal[p].release, "active", OnDisk(p))
    BY <2>3, SoundSlot
  <2>5. AdmitShape(p, "active")'
    BY <2>1, <2>4 DEF AdmitShape, Entry, Starting, Wrote
  <2> QED
    BY <1>10, <2>4, <2>5, Plans DEF Wrote
<1>11. CASE lane.pc = "active"
  <2>1. ok /\ Wrote(p, "active", disk.journal[p].release, disk.ledger[p], OnDisk(p))
    BY <1>3, <1>11 DEF AdmitProcess, AdmitStates
  <2>2. AdmitShape(p, "reservation")'
    BY <1>11, <2>1 DEF AdmitShape, Entry, Starting, Wrote
  <2> QED
    BY <1>11, <2>1, <2>2, Plans DEF Wrote
<1>12. CASE lane.pc = "reservation"
  <2>1. Entry(p, "active", "none", "active") /\ Starting(p, "allocating")
    BY <1>12 DEF AdmitShape
  <2>2. PutReservation(p, "active", ok) /\ Rec(p).res = "allocating"
    BY <1>1, <1>12, <2>1 DEF AdmitProcess, Starting
  <2>3. SetsReservation(p, "active", ok)
    BY <1>1, <2>2, PutsReservation DEF SlotStates
  <2>4. PICK s \in Record : RecordPut(p, s, ok) /\ s = [state |-> "starting", res |-> "active",
                                                        event |-> FALSE, acked |-> FALSE]
    BY <1>1, <2>1, <2>3 DEF SetsReservation, Starting
  <2>5. ValidRecord(s)
    BY <2>4 DEF ValidRecord, Terminal
  <2>6. ok /\ Wrote(p, disk.journal[p].admit, disk.journal[p].release, disk.ledger[p], s)
    BY <1>1, <2>4, <2>5, SoundRecord
  <2>7. AdmitShape(p, "committed")'
    BY <2>1, <2>4, <2>6 DEF AdmitShape, Entry, Starting, Wrote
  <2> QED
    BY <1>12, <2>6, <2>7, Plans DEF Wrote
<1>13. CASE lane.pc = "committed"
  <2>1. ok /\ Wrote(p, "committed", disk.journal[p].release, disk.ledger[p], OnDisk(p))
    BY <1>3, <1>13 DEF AdmitProcess, AdmitStates
  <2>2. Live(p)'
    BY <1>13, <2>1 DEF AdmitShape, Entry, Starting, Wrote, Live, Runs
  <2> QED
    BY <1>13, <2>1, <2>2 DEF Wrote
<1> QED
  BY <1>2, <1>4, <1>5, <1>6, <1>7, <1>8, <1>9, <1>10, <1>11, <1>12, <1>13

LEMMA SoundAdmission ==
  ASSUME WritersInv, SoundNow, NEW p \in Procs, NEW ok \in BOOLEAN, AdmitProcess(p, ok) PROVE SoundOK'
<1>1. /\ lane.op = "admit" /\ lane.proc = p /\ phase = "up" /\ phase' = "up" /\ sup[p] = "admitting"
      /\ delivered' = delivered /\ lane \in Lanes
      /\ Follow(AdmitPlan, ok)
      /\ sup' = IF Ends(AdmitPlan, ok) THEN [sup EXCEPT ![p] = IF ok THEN "admitted" ELSE "rejected"] ELSE sup
  BY Typed DEF AdmitProcess, WritersInv, LaneOK, Writers
<1>2. mem = disk /\ Told(p) /\ UpShape(p)
  BY <1>1, AtRest DEF SoundNow, SoundOK
<1>3. AdmitShape(p, lane.pc)
  BY <1>1, <1>2 DEF UpShape, Writers
<1>4. ~ Announced(p)
  <2>1. ~ Terminal(OnDisk(p).state)
    BY <1>3, Tells DEF AdmitShape, Terminal
  <2> QED
    BY <1>1, <1>2, <2>1 DEF Told
<1>5. /\ mem' = disk' /\ Elsewhere(p)
      /\ \/ ok /\ lane.pc # "committed" /\ \E pc : pc = AdmitPlan[lane.pc] /\ AdmitShape(p, pc)'
         \/ ok /\ lane.pc = "committed" /\ Live(p)'
         \/ ~ ok /\ NoSlotLeft(p)'
  BY <1>2, <1>3, AdmissionWrites
<1>6. /\ Ends(AdmitPlan, ok) <=> ~ ok \/ lane.pc = "committed"
      /\ Ends(AdmitPlan, ok) => LetGo
      /\ ~ Ends(AdmitPlan, ok) => OnLane(AdmitPlan[lane.pc], lane.chosen)
  BY <1>1, FollowsAdmit
<1>7. /\ \A q \in Procs \ {p} : sup'[q] = sup[q]
      /\ sup'[p] = IF Ends(AdmitPlan, ok) THEN IF ok THEN "admitted" ELSE "rejected" ELSE "admitting"
  BY <1>1 DEF WritersInv, TypeOK
<1>8. \A q \in Procs \ {p} : ~ Holds(q) /\ ~ Holds(q)'
  BY <1>1, <1>6, FreeLanes DEF Holds, LetGo, OnLane, Writers
<1>9. UpShape(p)' /\ (sup'[p] \in Spawned => Live(p)') /\ lane'.pc \notin {"remove", "delete"} /\ sup'[p] # "new"
  <2>1. CASE ok /\ lane.pc # "committed"
    <3>1. OnLane(AdmitPlan[lane.pc], lane.chosen) /\ sup'[p] = "admitting"
      BY <1>6, <1>7, <2>1
    <3>2. PICK pc : pc = AdmitPlan[lane.pc] /\ AdmitShape(p, pc)'
      BY <1>5, <2>1
    <3>3. lane'.op = "admit" /\ lane'.proc = p /\ lane'.pc = pc
      BY <1>1, <3>1, <3>2 DEF OnLane
    <3>4. pc \notin {"remove", "delete"}
      BY <3>2 DEF AdmitShape
    <3> QED
      BY <3>1, <3>2, <3>3, <3>4 DEF UpShape, Spawned
  <2>2. CASE ok /\ lane.pc = "committed"
    BY <1>5, <1>6, <1>7, <2>2, FreeLanes DEF LetGo, UpShape, Resting, Writers, Spawned
  <2>3. CASE ~ ok
    BY <1>5, <1>6, <1>7, <2>3, FreeLanes DEF LetGo, UpShape, Resting, Writers, Spawned
  <2> QED
    BY <2>1, <2>2, <2>3
<1>10. Told(p)'
  BY <1>1, <1>4 DEF Told, Announced
<1> QED
  BY <1>1, <1>5, <1>7, <1>8, <1>9, <1>10, OneMoves

(* The end of a process.                                                    *)
LEMMA TerminalWrites ==
  ASSUME WritersInv, SoundNow, NEW p \in Procs, NEW ok \in BOOLEAN, RecordTerminal(p, ok),
         TerminalShape(p, lane.pc), mem = disk
  PROVE  /\ mem' = disk' /\ Elsewhere(p) /\ ok
         /\ \/ lane.pc # "reservation" /\ \E pc : pc = TerminalPlan[lane.pc] /\ TerminalShape(p, pc)'
            \/ lane.pc = "reservation" /\ Ended(p)'
         /\ OnDisk(p).state \in {"starting", "running", OnDisk(p).state'}
<1> USE DEF SoundNow
<1>1. StoresOK /\ ValidAuthority(disk.authority) /\ Plausible(Rec(p)) /\ Rec(p) = OnDisk(p)
  BY Typed DEF WritersInv, RecordsOK, Rec, OnDisk
<1>2. CASE lane.pc = "record"
  <2>1. Live(p) /\ PersistTerminal(p, ok)
    BY <1>2 DEF TerminalShape, RecordTerminal
  <2>2. CanTransition(Rec(p).state, "exited") /\ ~ Rec(p).event /\ Rec(p).res = "active" /\ ~ Rec(p).acked
    BY <1>1, <2>1 DEF Live, Runs, CanTransition
  <2>3. SetsExited(p, ok)
    BY <1>1, <2>1, <2>2, PersistsTerminal
  <2>4. PICK s \in Record : RecordPut(p, s, ok) /\ s = [state |-> "exited", res |-> "terminal_unacknowledged",
                                                        event |-> TRUE, acked |-> Rec(p).acked]
    BY <2>3 DEF SetsExited
  <2>5. ValidRecord(s)
    BY <2>2, <2>4 DEF ValidRecord, ValidEvent, Terminal
  <2>6. ok /\ Wrote(p, disk.journal[p].admit, disk.journal[p].release, disk.ledger[p], s)
    BY <1>1, <2>4, <2>5, SoundRecord
  <2>7. TerminalShape(p, "slot")'
    BY <2>1, <2>2, <2>4, <2>6 DEF TerminalShape, Interrupted, Live, Entry, HasEnded, Wrote, Terminal
  <2> QED
    BY <1>2, <2>1, <2>6, <2>7, Plans, Tells DEF Wrote
<1>3. CASE lane.pc = "slot"
  <2>1. Interrupted(p) /\ MoveSlot(p, "terminal_unacknowledged", ok)
    BY <1>3 DEF TerminalShape, RecordTerminal
  <2>2. Slot(p) = "active"
    BY <2>1 DEF Interrupted, Entry, Slot
  <2>3. SlotPut(p, "terminal_unacknowledged", ok)
    BY <1>1, <2>1, <2>2, MovesSlot DEF SlotStates, CanMove
  <2>4. ok /\ Wrote(p, disk.journal[p].admit, disk.journal[p].release, "terminal_unacknowledged", OnDisk(p))
    BY <2>3, SoundSlot
  <2>5. TerminalShape(p, "reservation")'
    BY <2>1, <2>4 DEF TerminalShape, Interrupted, Ended, Entry, HasEnded, Wrote
  <2> QED
    BY <1>3, <2>4, <2>5, Plans DEF Wrote
<1>4. CASE lane.pc = "reservation"
  <2>1. Ended(p) /\ PutReservation(p, "terminal_unacknowledged", ok)
    BY <1>4 DEF TerminalShape, RecordTerminal
  <2>2. Rec(p).res = "terminal_unacknowledged" /\ Terminal(Rec(p).state) /\ Rec(p).event /\ ~ Rec(p).acked
    BY <1>1, <2>1 DEF Ended, HasEnded
  <2>3. SetsReservation(p, "terminal_unacknowledged", ok)
    BY <1>1, <2>1, <2>2, PutsReservation DEF SlotStates, Terminal
  <2>4. PICK s \in Record : RecordPut(p, s, ok) /\ s = [state |-> Rec(p).state, res |-> "terminal_unacknowledged",
                                                        event |-> Rec(p).event, acked |-> Rec(p).acked]
    BY <2>3 DEF SetsReservation
  <2>5. ValidRecord(s)
    BY <2>2, <2>4 DEF ValidRecord, ValidEvent, Terminal
  <2>6. ok /\ Wrote(p, disk.journal[p].admit, disk.journal[p].release, disk.ledger[p], s)
    BY <1>1, <2>4, <2>5, SoundRecord
  <2>7. Ended(p)'
    BY <2>1, <2>2, <2>4, <2>6 DEF Ended, Entry, HasEnded, Wrote
  <2> QED
    BY <1>1, <1>4, <2>4, <2>6, <2>7 DEF Wrote
<1> QED
  BY <1>2, <1>3, <1>4 DEF RecordTerminal

LEMMA SoundTerminal ==
  ASSUME WritersInv, SoundNow, NEW p \in Procs, NEW ok \in BOOLEAN, RecordTerminal(p, ok) PROVE SoundOK'
<1>1. /\ lane.op = "terminal" /\ lane.proc = p /\ phase = "up" /\ phase' = "up" /\ sup[p] = "recording"
      /\ delivered' = delivered /\ lane \in Lanes
      /\ Follow(TerminalPlan, ok)
      /\ sup' = IF Ends(TerminalPlan, ok) THEN [sup EXCEPT ![p] = IF ok THEN "ended" ELSE "exited"] ELSE sup
  BY Typed DEF RecordTerminal, WritersInv, LaneOK, Writers
<1>2. mem = disk /\ UpShape(p)
  BY <1>1, AtRest DEF SoundNow, SoundOK
<1>3. TerminalShape(p, lane.pc)
  BY <1>1, <1>2 DEF UpShape, Writers
<1>4. /\ mem' = disk' /\ Elsewhere(p) /\ ok
      /\ \/ lane.pc # "reservation" /\ \E pc : pc = TerminalPlan[lane.pc] /\ TerminalShape(p, pc)'
         \/ lane.pc = "reservation" /\ Ended(p)'
  BY <1>2, <1>3, TerminalWrites
<1>5. /\ Ends(TerminalPlan, ok) <=> lane.pc = "reservation"
      /\ Ends(TerminalPlan, ok) => LetGo
      /\ ~ Ends(TerminalPlan, ok) => OnLane(TerminalPlan[lane.pc], lane.chosen)
  BY <1>1, <1>4, FollowsTerminal
<1>6. /\ \A q \in Procs \ {p} : sup'[q] = sup[q]
      /\ sup'[p] = IF Ends(TerminalPlan, ok) THEN "ended" ELSE "recording"
  BY <1>1, <1>4 DEF WritersInv, TypeOK
<1>7. \A q \in Procs \ {p} : ~ Holds(q) /\ ~ Holds(q)'
  BY <1>1, <1>5, FreeLanes DEF Holds, LetGo, OnLane, Writers
<1>8. UpShape(p)' /\ lane'.pc \notin {"remove", "delete"} /\ (HasEnded(p)' \/ Live(p)')
  <2>1. CASE lane.pc # "reservation"
    <3>1. OnLane(TerminalPlan[lane.pc], lane.chosen)
      BY <1>5, <2>1
    <3>2. PICK pc : pc = TerminalPlan[lane.pc] /\ TerminalShape(p, pc)'
      BY <1>4, <2>1
    <3>3. lane'.op = "terminal" /\ lane'.proc = p /\ lane'.pc = pc
      BY <1>1, <3>1, <3>2 DEF OnLane
    <3>4. pc \notin {"remove", "delete"} /\ (HasEnded(p)' \/ Live(p)')
      BY <3>2 DEF TerminalShape, Interrupted, Ended
    <3> QED
      BY <3>1, <3>2, <3>3, <3>4 DEF UpShape
  <2>2. CASE lane.pc = "reservation"
    BY <1>4, <1>5, <2>2, FreeLanes DEF LetGo, UpShape, Resting, Settled, Ended, Writers
  <2> QED
    BY <2>1, <2>2
<1>9. Told(p)'
  <2>1. CASE HasEnded(p)'
    BY <2>1 DEF Told, HasEnded
  <2>2. CASE Live(p)'
    <3>1. Told(p) /\ sup[p] \notin {"new", "admitting"}
      BY <1>1, AtRest
    <3>2. CASE lane.pc = "record"
      BY <1>1, <1>3, <1>4, <2>2, <3>2, Plans DEF Told, Announced, TerminalShape, Interrupted, HasEnded, Live, Runs, Terminal
    <3>3. CASE lane.pc # "record"
      BY <1>3, <1>4, <2>2, <3>3, Plans DEF TerminalShape, Interrupted, Ended, HasEnded, Live, Runs, Terminal
    <3> QED
      BY <3>2, <3>3
  <2> QED
    BY <1>8, <2>1, <2>2
<1>10. sup'[p] \notin Spawned /\ sup'[p] # "new"
  BY <1>6 DEF Spawned
<1> QED
  BY <1>1, <1>4, <1>6, <1>7, <1>8, <1>9, <1>10, OneMoves

(* The outbox.                                                              *)
LEMMA SoundCollect ==
  ASSUME WritersInv, SoundNow, CollectEvents PROVE SoundOK' /\ phase' = "up"
<1>1. /\ phase = "up" /\ lane = FreeLane /\ Keep
      /\ lane' = lane /\ sup' = sup /\ delivered' = delivered
  BY DEF CollectEvents, Keep
<1>2. \A q \in Procs : Rec(q).event => ValidEvent(Rec(q))
  <2> SUFFICES ASSUME NEW q \in Procs, Rec(q).event PROVE ValidEvent(Rec(q))
    OBVIOUS
  <2>1. Resting(q) /\ Rec(q) = OnDisk(q)
    BY <1>1, AtRest, FreeLanes DEF Holds, Writers
  <2> QED
    BY <2>1, Tells DEF Resting, Settled, ValidEvent
<1>3. phase' = "up"
  BY <1>1, <1>2 DEF CollectEvents
<1>4. mem' = disk' /\ \A q \in Procs : Same(q)
  BY <1>1, NothingWritten DEF SoundNow, SoundOK
<1>5. \A q \in Procs : UpShape(q) /\ (sup[q] = "new" => Nothing(q)) /\ (sup[q] \in Spawned => Live(q)) /\ Told(q)
  BY <1>1 DEF SoundNow, SoundOK, Told, Spawned
<1>6. \A q \in Procs : /\ UpShape(q)'
                       /\ sup'[q] = "new" => Nothing(q)'
                       /\ sup'[q] \in Spawned => Live(q)'
                       /\ Told(q)'
  BY <1>1, <1>4, <1>5, SameShape, SameSteps DEF UpShape, Told, Announced
<1> QED
  BY <1>1, <1>3, <1>4, <1>6, UpIsSound, FreeLanes

(* Steps that leave the files alone.                                        *)
LEMMA SoundOutboxStep ==
  ASSUME WritersInv, SoundNow, phase = "up", phase' = "up", Keep, lane' = lane, sup' = sup,
         \A q \in Procs : Announced(q)' => Announced(q) \/ HasEvent(q)
  PROVE  SoundOK'
<1>1. mem = disk /\ mem' = disk' /\ \A q \in Procs : Same(q)
  BY NothingWritten DEF SoundNow, SoundOK
<1>2. \A q \in Procs : UpShape(q) /\ (sup[q] = "new" => Nothing(q)) /\ (sup[q] \in Spawned => Live(q)) /\ Told(q)
  BY DEF SoundNow, SoundOK, Told, Spawned
<1>3. \A q \in Procs : UpShape(q)'
  BY <1>1, <1>2, SameSteps DEF UpShape
<1>4. \A q \in Procs : Told(q)'
  <2> SUFFICES ASSUME NEW q \in Procs, Announced(q)' PROVE Told(q)'
    BY DEF Told
  <2>1. Announced(q) \/ Terminal(OnDisk(q).state)
    BY <1>1 DEF HasEvent, Rec, OnDisk
  <2> QED
    BY <1>1, <1>2, <2>1, SameShape DEF Told
<1>5. lane'.pc \in {"remove", "delete"} => \A q \in lane'.chosen : Released(q)'
  <2> SUFFICES ASSUME lane.pc \in {"remove", "delete"}, NEW q \in lane.chosen PROVE Released(q)'
    OBVIOUS
  <2>1. q \in Procs /\ Released(q)
    BY Typed DEF SoundNow, SoundOK, WritersInv
  <2> QED
    BY <1>1, <2>1, SameShape
<1> QED
  BY <1>1, <1>2, <1>3, <1>4, <1>5, SameShape, UpIsSound

LEMMA SoundDelivery ==
  ASSUME WritersInv, SoundNow, NEW p \in Procs, Deliver(p) \/ DeliveryFails(p) PROVE SoundOK'
<1>1. /\ phase = "up" /\ phase' = "up" /\ Keep /\ lane' = lane /\ sup' = sup
      /\ p \in outbox.todo /\ outbox.acking = NoProc
  BY DEF Deliver, DeliveryFails, Keep
<1>2. \A q \in Procs : Announced(q)' => Announced(q) \/ q = p
  BY DEF Deliver, DeliveryFails, Announced, WritersInv, TypeOK
<1>3. HasEvent(p)
  BY <1>1, Typed DEF WritersInv, OutboxOK, HasEvent
<1> QED
  BY <1>1, <1>2, <1>3, SoundOutboxStep

LEMMA SoundAcknowledgement ==
  ASSUME WritersInv, SoundNow, NEW p \in Procs, AcknowledgeTerminal(p) PROVE SoundOK'
<1>1. /\ phase = "up" /\ phase' = "up" /\ Keep /\ lane = FreeLane /\ sup' = sup /\ delivered' = delivered
      /\ outbox.acking = p
  BY DEF AcknowledgeTerminal, Keep
<1>2. CASE lane' = lane
  BY <1>1, <1>2, SoundOutboxStep DEF Announced
<1>3. CASE /\ MayAcknowledge(p) /\ Rec(p).res # "none"
           /\ Take("release", p, IF Release(p) = "none" THEN "release_intent" ELSE "acknowledge")
  <2>1. mem = disk /\ Rec(p) = OnDisk(p) /\ Resting(p)
    BY <1>1, AtRest, FreeLanes DEF Holds, Writers
  <2>2. Ended(p)
    BY <1>3, <2>1, Tells DEF MayAcknowledge, Resting, Settled, Terminal
  <2>3. Release(p) = "none"
    BY <2>1, <2>2 DEF Ended, Entry, Release
  <2>4. Take("release", p, "release_intent")
    BY <1>3, <2>3
  <2>5. lane'.op = "release" /\ lane'.proc = p /\ lane'.pc = "release_intent"
    BY <2>4, Takes, StepSets, Plans DEF Writers
  <2>6. mem' = disk' /\ \A q \in Procs : Same(q)
    BY <1>1, <2>1, NothingWritten
  <2>7. UpShape(p)'
    BY <2>2, <2>5, <2>6, SameShape DEF UpShape, ReleaseShape
  <2>8. Told(p)'
    BY <2>2, <2>6, SameShape, Tells DEF Told
  <2>9. \A q \in Procs \ {p} : ~ Holds(q) /\ ~ Holds(q)'
    BY <1>1, <2>5, FreeLanes DEF Holds, Writers
  <2>10. sup[p] \notin Spawned /\ sup[p] # "new"
    BY <1>1, <2>2, AtRest, Tells DEF Terminal
  <2> QED
    BY <1>1, <2>5, <2>6, <2>7, <2>8, <2>9, <2>10, OneMoves DEF Elsewhere
<1> QED
  BY <1>2, <1>3 DEF AcknowledgeTerminal

(* A release.                                                               *)
LEMMA ReleaseShapes ==
  ASSUME WritersInv, SoundNow, NEW p \in Procs, NEW ok \in BOOLEAN, ReleaseTerminal(p, ok),
         ReleaseShape(p, lane.pc), mem = disk
  PROVE  /\ mem' = disk' /\ Elsewhere(p) /\ ok
         /\ \E pc : pc = ReleasePlan[lane.pc] /\ ReleaseShape(p, pc)'
<1> USE DEF SoundNow
<1>1. StoresOK /\ ValidAuthority(disk.authority) /\ Plausible(Rec(p)) /\ Rec(p) = OnDisk(p)
  BY Typed DEF WritersInv, RecordsOK, Rec, OnDisk
<1>2. lane.pc \in {"release_intent", "acknowledge", "release_marked", "slot", "reservation", "detach",
                   "authority_detached", "free", "forget_admission", "forget_release"}
  BY DEF ReleaseTerminal
<1>3. ASSUME PutRelease(p, lane.pc, ok), lane.pc \in ReleaseStates
      PROVE  ok /\ Wrote(p, disk.journal[p].admit, lane.pc, disk.ledger[p], OnDisk(p))
  <2>1. JournalPut(p, disk.journal[p].admit, lane.pc, ok)
    BY <1>1, <1>3, PutsRelease
  <2> QED
    BY <2>1, SoundJournal
<1>4. ASSUME NEW s \in Record, RecordPut(p, s, ok), Terminal(s.state), ~ s.event, s.acked,
             s.res \in {"none", "terminal_unacknowledged", "releasing"}
      PROVE  ok /\ Wrote(p, disk.journal[p].admit, disk.journal[p].release, disk.ledger[p], s)
  <2>1. ValidRecord(s)
    BY <1>4 DEF ValidRecord
  <2> QED
    BY <1>1, <1>4, <2>1, SoundRecord
<1>5. CASE lane.pc = "release_intent"
  <2>1. Ended(p) /\ ok /\ Wrote(p, disk.journal[p].admit, "release_intent", disk.ledger[p], OnDisk(p))
    BY <1>3, <1>5, Plans DEF ReleaseTerminal, ReleaseStates, ReleaseShape
  <2>2. ReleaseShape(p, "acknowledge")'
    BY <2>1 DEF ReleaseShape, Ended, HasEnded, Entry, Wrote
  <2> QED
    BY <1>5, <2>1, <2>2, Plans DEF Wrote
<1>6. CASE lane.pc = "acknowledge"
  <2>1. HasEnded(p) /\ Entry(p, "committed", "release_intent", "terminal_unacknowledged")
    BY <1>6, Plans DEF ReleaseShape
  <2>2. Rec(p).event /\ ValidEvent(Rec(p)) /\ Acknowledge(p, ok)
    BY <1>1, <1>6, <2>1 DEF HasEnded, ValidEvent, ReleaseTerminal
  <2>3. PICK s \in Record : RecordPut(p, s, ok) /\ s = [state |-> Rec(p).state, res |-> Rec(p).res,
                                                        event |-> FALSE, acked |-> TRUE]
    BY <1>1, <2>2, Acknowledges DEF SetsAcknowledged
  <2>4. Terminal(s.state) /\ ~ s.event /\ s.acked /\ s.res = "terminal_unacknowledged"
    BY <1>1, <2>1, <2>3 DEF HasEnded
  <2>5. ok /\ Wrote(p, disk.journal[p].admit, disk.journal[p].release, disk.ledger[p], s)
    BY <1>4, <2>3, <2>4
  <2>6. ReleaseShape(p, "release_marked")'
    BY <2>1, <2>4, <2>5 DEF ReleaseShape, Acked, Entry, Wrote
  <2> QED
    BY <1>6, <2>5, <2>6, Plans DEF Wrote
<1>7. CASE lane.pc = "release_marked"
  <2>1. ok /\ Wrote(p, disk.journal[p].admit, "release_marked", disk.ledger[p], OnDisk(p))
    BY <1>3, <1>7 DEF ReleaseTerminal, ReleaseStates
  <2>2. Acked(p, "terminal_unacknowledged") /\ Entry(p, "committed", "release_intent", "terminal_unacknowledged")
    BY <1>7, Plans DEF ReleaseShape
  <2>3. ReleaseShape(p, "slot")'
    BY <2>1, <2>2 DEF ReleaseShape, Acked, Entry, Wrote
  <2> QED
    BY <1>7, <2>1, <2>3, Plans DEF Wrote
<1>8. CASE lane.pc = "slot"
  <2>1. Acked(p, "terminal_unacknowledged") /\ Entry(p, "committed", "release_marked", "terminal_unacknowledged")
    BY <1>8, Plans DEF ReleaseShape
  <2>2. MoveSlot(p, "releasing", ok) /\ Slot(p) = "terminal_unacknowledged"
    BY <1>8, <2>1 DEF ReleaseTerminal, Entry, Slot
  <2>3. SlotPut(p, "releasing", ok)
    BY <1>1, <2>2, MovesSlot DEF SlotStates, CanMove
  <2>4. ok /\ Wrote(p, disk.journal[p].admit, disk.journal[p].release, "releasing", OnDisk(p))
    BY <2>3, SoundSlot
  <2>5. ReleaseShape(p, "reservation")'
    BY <2>1, <2>4 DEF ReleaseShape, Acked, Entry, Wrote
  <2> QED
    BY <1>8, <2>4, <2>5, Plans DEF Wrote
<1>9. CASE lane.pc = "reservation"
  <2>1. Acked(p, "terminal_unacknowledged") /\ Entry(p, "committed", "release_marked", "releasing")
    BY <1>9, Plans DEF ReleaseShape
  <2>2. PutReservation(p, "releasing", ok) /\ Rec(p).res = "terminal_unacknowledged" /\ Terminal(Rec(p).state)
        /\ ~ Rec(p).event /\ Rec(p).acked
    BY <1>1, <1>9, <2>1 DEF ReleaseTerminal, Acked
  <2>3. PICK s \in Record : RecordPut(p, s, ok) /\ s = [state |-> Rec(p).state, res |-> "releasing",
                                                        event |-> Rec(p).event, acked |-> Rec(p).acked]
    BY <1>1, <2>2, PutsReservation DEF SlotStates, SetsReservation, Terminal
  <2>4. Terminal(s.state) /\ ~ s.event /\ s.acked /\ s.res = "releasing"
    BY <2>2, <2>3
  <2>5. ok /\ Wrote(p, disk.journal[p].admit, disk.journal[p].release, disk.ledger[p], s)
    BY <1>4, <2>3, <2>4
  <2>6. ReleaseShape(p, "detach")'
    BY <2>1, <2>4, <2>5 DEF ReleaseShape, Acked, Entry, Wrote
  <2> QED
    BY <1>9, <2>5, <2>6, Plans DEF Wrote
<1>10. CASE lane.pc = "detach"
  <2>1. Acked(p, "releasing") /\ Entry(p, "committed", "release_marked", "releasing")
    BY <1>10, Plans DEF ReleaseShape
  <2>2. Detach(p, ok) /\ Rec(p).res = "releasing" /\ Terminal(Rec(p).state) /\ ~ Rec(p).event /\ Rec(p).acked
    BY <1>1, <1>10, <2>1 DEF ReleaseTerminal, Acked
  <2>3. PICK s \in Record : RecordPut(p, s, ok) /\ s = [state |-> Rec(p).state, res |-> "none",
                                                        event |-> Rec(p).event, acked |-> Rec(p).acked]
    BY <1>1, <2>2, Detaches DEF SetsDetached
  <2>4. Terminal(s.state) /\ ~ s.event /\ s.acked /\ s.res = "none"
    BY <2>2, <2>3
  <2>5. ok /\ Wrote(p, disk.journal[p].admit, disk.journal[p].release, disk.ledger[p], s)
    BY <1>4, <2>3, <2>4
  <2>6. ReleaseShape(p, "authority_detached")'
    BY <2>1, <2>4, <2>5 DEF ReleaseShape, Acked, Entry, Wrote
  <2> QED
    BY <1>10, <2>5, <2>6, Plans DEF Wrote
<1>11. CASE lane.pc = "authority_detached"
  <2>1. ok /\ Wrote(p, disk.journal[p].admit, "authority_detached", disk.ledger[p], OnDisk(p))
    BY <1>3, <1>11 DEF ReleaseTerminal, ReleaseStates
  <2>2. Acked(p, "none") /\ Entry(p, "committed", "release_marked", "releasing")
    BY <1>11, Plans DEF ReleaseShape
  <2>3. ReleaseShape(p, "free")'
    BY <2>1, <2>2 DEF ReleaseShape, Acked, Entry, Wrote
  <2> QED
    BY <1>11, <2>1, <2>3, Plans DEF Wrote
<1>12. CASE lane.pc = "free"
  <2>1. Acked(p, "none") /\ Entry(p, "committed", "authority_detached", "releasing")
    BY <1>12, Plans DEF ReleaseShape
  <2>2. FreeSlot(p, ok) /\ Slot(p) = "releasing"
    BY <1>12, <2>1 DEF ReleaseTerminal, Entry, Slot
  <2>3. SlotPut(p, "none", ok)
    BY <1>1, <2>2, FreesSlot
  <2>4. ok /\ Wrote(p, disk.journal[p].admit, disk.journal[p].release, "none", OnDisk(p))
    BY <2>3, SoundSlot
  <2>5. ReleaseShape(p, "forget_admission")'
    BY <2>1, <2>4 DEF ReleaseShape, Acked, Entry, Wrote
  <2> QED
    BY <1>12, <2>4, <2>5, Plans DEF Wrote
<1>13. CASE lane.pc = "forget_admission"
  <2>1. Acked(p, "none") /\ Entry(p, "committed", "authority_detached", "none")
    BY <1>13, Plans DEF ReleaseShape
  <2>2. PutAdmission(p, "none", ok)
    BY <1>13 DEF ReleaseTerminal
  <2>3. JournalPut(p, "none", disk.journal[p].release, ok)
    BY <1>1, <2>2, PutsAdmission DEF AdmitStates
  <2>4. ok /\ Wrote(p, "none", disk.journal[p].release, disk.ledger[p], OnDisk(p))
    BY <2>3, SoundJournal
  <2>5. ReleaseShape(p, "forget_release")'
    BY <2>1, <2>4 DEF ReleaseShape, Acked, Entry, Wrote
  <2> QED
    BY <1>13, <2>4, <2>5, Plans DEF Wrote
<1>14. CASE lane.pc = "forget_release"
  <2>1. Acked(p, "none") /\ Entry(p, "none", "authority_detached", "none")
    BY <1>14, Plans DEF ReleaseShape
  <2>2. PutRelease(p, "none", ok)
    BY <1>14 DEF ReleaseTerminal
  <2>3. JournalPut(p, disk.journal[p].admit, "none", ok)
    BY <1>1, <2>2, PutsRelease DEF ReleaseStates
  <2>4. ok /\ Wrote(p, disk.journal[p].admit, "none", disk.ledger[p], OnDisk(p))
    BY <2>3, SoundJournal
  <2>5. Released(p)'
    BY <2>1, <2>4 DEF Released, Acked, Entry, Wrote
  <2>6. ReleaseShape(p, "select")'
    BY <2>5, Plans DEF ReleaseShape
  <2> QED
    BY <1>14, <2>4, <2>6, Plans DEF Wrote
<1> QED
  BY <1>2, <1>5, <1>6, <1>7, <1>8, <1>9, <1>10, <1>11, <1>12, <1>13, <1>14

(* Retention deletes what is released, and nothing else.                    *)
LEMMA RetentionWrites ==
  ASSUME WritersInv, SoundNow, mem = disk, lane.op \in {"release", "boot"}, NEW ok \in BOOLEAN, Retain(ok),
         lane.pc = "select" => \A q \in Retainable : Released(q)
  PROVE  /\ ok /\ mem' = disk'
         /\ \A q \in Procs : Same(q) \/ (Released(q) /\ Nothing(q)')
         /\ LetGo \/ \A q \in Procs : Same(q)
         /\ lane'.pc \in {"remove", "delete"} => \A q \in lane'.chosen : Released(q)'
<1> USE DEF SoundNow
<1>1. /\ StoresOK /\ ValidAuthority(disk.authority) /\ lane.chosen \in SUBSET Procs
      /\ \A q \in Procs : Rec(q) = OnDisk(q) /\ ValidRecord(Rec(q))
      /\ {"remove", "delete"} \subseteq Steps(lane.op) /\ lane \in Lanes
  BY Typed, StepSets, Plans DEF WritersInv, RecordsOK, Rec, OnDisk, ValidAuthority
<1>2. CASE \E S \in SUBSET Procs : SelectExpired(S, ok)
  <2>1. PICK S \in SUBSET Procs : SelectExpired(S, ok)
    BY <1>2
  <2>2. /\ S \subseteq Retainable /\ lane.pc = "select"
        /\ lane' = IF ok THEN [lane EXCEPT !.pc = "remove", !.chosen = S] ELSE FreeLane
    BY <2>1 DEF SelectExpired
  <2>3. ok /\ mem' = disk' /\ \A q \in Procs : Same(q)
    <3>1. CASE S = {}
      BY <2>1, <3>1, NothingWritten DEF SelectExpired
    <3>2. CASE S # {}
      <4> DEFINE a == [mem.authority EXCEPT !.tombstones = @ \cup S]
      <4>1. mem.authority \in AuthorityTable
        BY <1>1, StoreFields DEF StoresOK
      <4>2. a \in AuthorityTable /\ a.records = mem.authority.records
        BY <4>1 DEF AuthorityTable
      <4>3. PutAuthority(a, ok)
        BY <2>1, <3>2 DEF SelectExpired
      <4> HIDE DEF a
      <4>4. AuthorityPut(a, ok) /\ \A q \in Procs : ValidRecord(a.records[q])
        BY <1>1, <4>2, <4>3, PutsAuthority DEF Rec
      <4>5. /\ ok /\ mem' = disk' /\ disk'.authority = a
            /\ disk'.journal = disk.journal /\ disk'.ledger = disk.ledger
        BY <4>4, SoundAuthority
      <4> QED
        BY <4>2, <4>5 DEF Same, OnDisk
    <3> QED
      BY <3>1, <3>2
  <2>4. OnLane("remove", S)
    <3>1. lane' = [lane EXCEPT !.pc = "remove", !.chosen = S]
      BY <2>2, <2>3
    <3> QED
      BY <1>1, <3>1, LaneTurns
  <2>5. \A q \in S : Released(q)'
    BY <2>2, <2>3, SameShape
  <2> QED
    BY <2>3, <2>4, <2>5 DEF OnLane
<1>3. CASE ok /\ RemoveLogs
  <2>1. lane.pc = "remove" /\ lane' = [lane EXCEPT !.pc = "delete"] /\ Keep
    BY <1>3 DEF RemoveLogs, Goto
  <2>2. OnLane("delete", lane.chosen)
    <3>1. lane.proc \in Procs \cup {NoProc} /\ "delete" \in Steps(lane.op)
      BY <1>1, Typed DEF WritersInv
    <3> QED
      BY <1>1, <2>1, <3>1, LaneMoves DEF OnLane
  <2>3. mem' = disk' /\ \A q \in Procs : Same(q)
    BY <2>1, NothingWritten
  <2>4. \A q \in lane.chosen : Released(q)'
    BY <1>1, <2>1, <2>3, SameShape DEF SoundOK
  <2> QED
    BY <1>3, <2>2, <2>3, <2>4 DEF OnLane
<1>4. CASE DeleteExpired(ok)
  <2> DEFINE r == [p \in Procs |-> IF p \in lane.chosen THEN NoRecord ELSE mem.authority.records[p]]
             a == [mem.authority EXCEPT !.records = r]
  <2>1. lane.pc = "delete" /\ lane' = FreeLane /\ PutAuthority(a, ok)
    BY <1>4 DEF DeleteExpired
  <2>2. mem.authority \in AuthorityTable /\ NoRecord \in Record
    BY <1>1, StoreFields, NoRecords DEF StoresOK
  <2>3. r \in [Procs -> Record] /\ \A q \in Procs : r[q] = IF q \in lane.chosen THEN NoRecord ELSE Rec(q)
    BY <2>2 DEF AuthorityTable, Rec
  <2> HIDE DEF r
  <2>4. a \in AuthorityTable /\ a.records = r
    BY <2>2, <2>3 DEF AuthorityTable
  <2> HIDE DEF a
  <2>5. \A q \in Procs : ValidRecord(a.records[q])
    BY <1>1, <2>3, <2>4, NoRecords DEF ValidRecord
  <2>6. /\ ok /\ mem' = disk' /\ disk'.authority = a
        /\ disk'.journal = disk.journal /\ disk'.ledger = disk.ledger
    BY <1>1, <2>1, <2>4, <2>5, PutsAuthority, SoundAuthority
  <2>7. ASSUME NEW q \in Procs PROVE Same(q) \/ (Released(q) /\ Nothing(q)')
    <3>1. CASE q \in lane.chosen
      <4>1. Released(q) /\ OnDisk(q)' = NoRecord
        BY <2>1, <2>3, <2>4, <2>6, <3>1 DEF SoundOK, OnDisk
      <4> QED
        BY <2>6, <4>1 DEF Released, Nothing, Missing, Entry
    <3>2. CASE q \notin lane.chosen
      BY <1>1, <2>3, <2>4, <2>6, <3>2 DEF Same, OnDisk, Rec
    <3> QED
      BY <3>1, <3>2
  <2> QED
    BY <2>1, <2>6, <2>7, FreeLanes DEF LetGo
<1> QED
  BY <1>2, <1>3, <1>4 DEF Retain

LEMMA RetentionKeeps ==
  ASSUME WritersInv, SoundNow, NEW q \in Procs, Same(q) \/ (Released(q) /\ Nothing(q)'),
         sup' = sup, delivered' = delivered, sup[q] # "admitting"
  PROVE  /\ Resting(q) => Resting(q)'
         /\ Settled(q) => Settled(q)'
         /\ sup'[q] = "new" => Nothing(q)'
         /\ sup[q] \in Spawned /\ Live(q) => Live(q)'
         /\ Told(q)'
<1>1. (sup[q] = "new" => Nothing(q)) /\ Told(q)
  BY DEF SoundNow, SoundOK, Told
<1>2. CASE Same(q)
  BY <1>1, <1>2, SameShape, SameSteps DEF Told, Announced
<1>3. CASE Released(q) /\ Nothing(q)'
  <2>1. ~ Nothing(q) /\ ~ Live(q)
    BY <1>3, Tells DEF Terminal
  <2>2. Missing(q)'
    BY <1>3 DEF Nothing
  <2> QED
    BY <1>1, <1>3, <2>1, <2>2 DEF Resting, Settled, Told
<1> QED
  BY <1>2, <1>3

LEMMA SoundRelease ==
  ASSUME WritersInv, SoundNow, NEW p \in Procs, NEW ok \in BOOLEAN, ReleaseStep(p, ok) PROVE SoundOK'
<1>1. /\ lane.op = "release" /\ lane.proc = p /\ phase = "up" /\ phase' = "up"
      /\ sup' = sup /\ delivered' = delivered
      /\ ReleaseTerminal(p, ok) \/ Retain(ok)
      /\ lane \in Lanes
  BY Typed DEF ReleaseStep, WritersInv, LaneOK, Writers
<1>2. mem = disk /\ UpShape(p)
  BY <1>1, AtRest DEF SoundNow, SoundOK
<1>3. ReleaseShape(p, lane.pc)
  BY <1>1, <1>2 DEF UpShape, Writers
<1>4. Terminal(OnDisk(p).state)
  BY <1>3, Tells DEF ReleaseShape, Ended, Released
<1>5. sup[p] \notin Spawned /\ sup[p] # "new"
  BY <1>1, AtRest DEF Holds, Writers
<1>6. CASE ReleaseTerminal(p, ok)
  <2>1. mem' = disk' /\ Elsewhere(p) /\ ok /\ Follow(ReleasePlan, ok)
    BY <1>2, <1>3, <1>6, ReleaseShapes DEF ReleaseTerminal
  <2>2. PICK pc : pc = ReleasePlan[lane.pc] /\ ReleaseShape(p, pc)'
    BY <1>2, <1>3, <1>6, ReleaseShapes
  <2>3. OnLane(pc, lane.chosen)
    <3>1. lane.pc \notin DOMAIN RetentionPlan
      BY <1>6, Plans DEF ReleaseTerminal
    <3> QED
      BY <1>1, <2>1, <2>2, <3>1, FollowsRelease
  <2>4. UpShape(p)'
    BY <1>1, <2>2, <2>3 DEF UpShape, OnLane
  <2>5. Told(p)' /\ pc \notin {"remove", "delete"}
    <3>1. Terminal(OnDisk(p).state)'
      BY <2>2, Tells DEF ReleaseShape, Ended, Released, HasEnded, Acked
    <3>2. pc \notin {"remove", "delete"}
      <4>1. lane.pc \in DOMAIN ReleasePlan
        BY <1>6, Plans DEF ReleaseTerminal
      <4> QED
        BY <2>2, <4>1, Plans
    <3> QED
      BY <3>1, <3>2 DEF Told
  <2>6. \A q \in Procs \ {p} : ~ Holds(q) /\ ~ Holds(q)'
    BY <1>1, <2>3 DEF Holds, OnLane
  <2> QED
    BY <1>1, <1>5, <2>1, <2>3, <2>4, <2>5, <2>6, OneMoves DEF OnLane
<1>7. CASE Retain(ok)
  <2>1. lane.pc \in DOMAIN RetentionPlan
    BY <1>1, <1>7, RetentionLane DEF WritersInv
  <2>2. Released(p)
    BY <1>3, <2>1, Plans DEF ReleaseShape
  <2>3. \A q \in Procs \ {p} : Resting(q)
    BY <1>1, AtRest DEF Holds
  <2>4. \A q \in Retainable : Released(q)
    <3> SUFFICES ASSUME NEW q \in Retainable PROVE Released(q)
      OBVIOUS
    <3>1. /\ q \in Procs /\ OnDisk(q).state # "absent" /\ OnDisk(q).res = "none" /\ ~ OnDisk(q).event
      BY <1>2 DEF Retainable, Rec, OnDisk
    <3> QED
      BY <2>2, <2>3, <3>1, Tells DEF Resting, Settled
  <2>5. /\ ok /\ mem' = disk'
        /\ \A q \in Procs : Same(q) \/ (Released(q) /\ Nothing(q)')
        /\ LetGo \/ \A q \in Procs : Same(q)
        /\ lane'.pc \in {"remove", "delete"} => \A q \in lane'.chosen : Released(q)'
    BY <1>1, <1>2, <1>7, <2>4, RetentionWrites
  <2>6. /\ LetGo \/ (OnLane(lane'.pc, lane'.chosen) /\ lane'.pc \in {"remove", "delete"})
    BY <1>1, <1>7, RetentionLane DEF WritersInv, OnLane
  <2>7. \A q \in Procs : sup[q] # "admitting"
    BY <1>1 DEF WritersInv, LaneOK
  <2>8. ASSUME NEW q \in Procs
        PROVE  /\ UpShape(q)'
               /\ sup'[q] = "new" => Nothing(q)'
               /\ sup'[q] \in Spawned => Live(q)'
               /\ Told(q)'
    <3>1. Same(q) \/ (Released(q) /\ Nothing(q)')
      BY <2>5
    <3>2. /\ Resting(q) => Resting(q)'
          /\ sup'[q] = "new" => Nothing(q)'
          /\ sup[q] \in Spawned /\ Live(q) => Live(q)'
          /\ Told(q)'
      BY <1>1, <2>7, <3>1, RetentionKeeps
    <3>3. Resting(q) /\ (sup[q] \in Spawned => Live(q))
      BY <1>1, <2>2, <2>3, AtRest DEF Resting, Settled
    <3>4. UpShape(q)'
      <4>1. CASE LetGo
        BY <3>2, <3>3, <4>1, FreeLanes DEF LetGo, UpShape, Writers
      <4>2. CASE OnLane(lane'.pc, lane'.chosen) /\ lane'.pc \in {"remove", "delete"} /\ ~ LetGo
        <5>1. lane'.op = "release" /\ lane'.proc = p /\ lane'.pc \in DOMAIN RetentionPlan
          BY <1>1, <4>2, Plans DEF OnLane
        <5>2. CASE q = p
          <6>1. Released(p)'
            BY <2>2, <2>5, <4>2, SameShape
          <6> QED
            BY <5>1, <5>2, <6>1 DEF UpShape, ReleaseShape
        <5>3. CASE q # p
          BY <3>2, <3>3, <5>1, <5>3 DEF UpShape
        <5> QED
          BY <5>2, <5>3
      <4> QED
        BY <2>6, <4>1, <4>2
    <3> QED
      BY <1>1, <3>2, <3>3, <3>4
  <2> QED
    BY <1>1, <2>5, <2>8, UpIsSound
<1> QED
  BY <1>1, <1>6, <1>7

-----------------------------------------------------------------------------
(* The steps of a startup, on sound storage.                                *)

LEMMA RestingIsBijective ==
  ASSUME \A p \in Procs : Resting(p)
  PROVE  Bijective(disk)
<1> SUFFICES ASSUME NEW p \in Procs
    PROVE  LET r == disk.authority.records[p]
           IN  /\ r.state # "absent" /\ r.res = "none" => Terminal(r.state) /\ ~ r.event
               /\ r.res # "none" =>
                    /\ disk.journal[p].admit = "committed"
                    /\ disk.ledger[p] = r.res
                    /\ ~ r.event /\ r.acked => disk.journal[p].release # "none"
               /\ disk.ledger[p] # "none" => r.res # "none"
  BY DEF Bijective
<1>1. CASE Nothing(p) \/ NoSlotLeft(p)
  BY <1>1, NoRecords DEF Nothing, NoSlotLeft, Entry, Missing, OnDisk
<1>2. CASE Live(p)
  BY <1>2 DEF Live, Entry, Runs, OnDisk
<1>3. CASE Ended(p) \/ Released(p)
  BY <1>3 DEF Ended, Released, HasEnded, Acked, Entry, OnDisk
<1> QED
  BY <1>1, <1>2, <1>3 DEF Resting, Settled

(* While a startup recovers, no supervisor is at work.                      *)
LEMMA NobodyWorks ==
  ASSUME SoundNow, phase = "recovering", NEW p \in Procs
  PROVE  /\ mem = disk /\ sup[p] \in {"new", "gone"} /\ Weak(p) /\ BootShape(p) /\ Told(p)
         /\ sup[p] = "new" => Nothing(p)
         /\ ~ cutShort => Safe(p) \/ Recovered(p)
  BY DEF SoundNow, SoundOK, Told

LEMMA RefusalIsSound ==
  ASSUME SoundNow, phase = "recovering", Refuse, UNCHANGED <<sup, delivered, cutShort>>, cutShort
  PROVE  SoundOK'
<1>1. mem' = disk' /\ phase' = "refused" /\ lane'.pc = "idle" /\ \A q \in Procs : Same(q)
  BY NothingWritten, FreeLanes DEF SoundNow, SoundOK, Refuse
<1>2. ASSUME NEW q \in Procs
      PROVE  Weak(q)' /\ (sup'[q] = "new" => Nothing(q)') /\ Told(q)'
  BY <1>1, NobodyWorks, SameShape, SameSteps DEF Told, Announced
<1> QED
  BY <1>1, <1>2 DEF SoundOK, Told

LEMMA BootIsSound ==
  ASSUME mem' = disk', phase' = "recovering",
         \A q \in Procs : /\ sup'[q] \in {"new", "gone"} /\ Weak(q)' /\ BootShape(q)' /\ Told(q)'
                          /\ sup'[q] = "new" => Nothing(q)'
                          /\ ~ cutShort' => Safe(q)' \/ Recovered(q)',
         lane'.pc \in {"remove", "delete"} => \A q \in lane'.chosen : Released(q)'
  PROVE  SoundOK'
  BY DEF SoundOK, Told

(* The recovery of the operation of one process.                            *)
Recoveries == {"operations", "release", "admission"}

LEMMA RecoveryIsSound ==
  ASSUME SoundNow, phase = "recovering", phase' = "recovering", mem' = disk',
         UNCHANGED <<sup, delivered, cutShort>>,
         NEW p \in Procs, Elsewhere(p),
         lane.pc \in Recoveries, lane.pc = "operations" \/ lane.proc = p,
         lane'.pc \in Recoveries, lane'.pc = "operations" \/ lane'.proc = p,
         \A q \in Procs \ {p} : q \in lane'.chosen => q \in lane.chosen,
         lane'.pc = "admission" => \A q \in Procs : disk.journal[q].release = "none",
         sup[p] # "new", Weak(p)', BootShape(p)', Told(p)',
         ~ cutShort => Safe(p)' \/ Recovered(p)'
  PROVE  SoundOK'
<1>1. ASSUME NEW q \in Procs, q # p
      PROVE  /\ Weak(q)' /\ BootShape(q)' /\ Told(q)'
             /\ sup'[q] = "new" => Nothing(q)'
             /\ ~ cutShort' => Safe(q)'
  <2>1. Same(q) /\ (q \in lane'.chosen => q \in lane.chosen)
    BY <1>1 DEF Elsewhere
  <2>2. /\ Weak(q) /\ BootShape(q) /\ Told(q) /\ (sup[q] = "new" => Nothing(q))
        /\ ~ cutShort => Safe(q) \/ Recovered(q)
    BY NobodyWorks
  <2>3. ~ Recovered(q) /\ (q \in lane.chosen => Live(q) \/ Ended(q))
    BY <1>1, <2>2 DEF Recovered, Recoveries, BootShape
  <2>4. BootShape(q)'
    <3>1. q \in lane'.chosen => Live(q)' \/ Ended(q)'
      BY <2>1, <2>3, SameShape
    <3>2. lane'.pc = "admission" => disk'.journal[q].release = "none"
      BY <2>1 DEF Same
    <3> QED
      BY <1>1, <3>1, <3>2 DEF BootShape, Recoveries
  <2> QED
    BY <2>1, <2>2, <2>3, <2>4, SameShape, SameSteps DEF Told, Announced
<1>2. lane'.pc \notin {"remove", "delete"}
  BY DEF Recoveries
<1>3. \A q \in Procs : sup'[q] \in {"new", "gone"}
  BY NobodyWorks
<1>4. \A q \in Procs : /\ sup'[q] \in {"new", "gone"} /\ Weak(q)' /\ BootShape(q)' /\ Told(q)'
                       /\ sup'[q] = "new" => Nothing(q)'
                       /\ ~ cutShort' => Safe(q)' \/ Recovered(q)'
  BY <1>1, <1>3
<1> QED
  BY <1>2, <1>4, BootIsSound

LEMMA SoundLoad ==
  ASSUME WritersInv, SoundNow, Load PROVE SoundOK'
<1>1. /\ phase = "down" /\ mem' = disk /\ disk' = disk /\ phase' = "recovering"
      /\ Take("boot", NoProc, "operations") /\ UNCHANGED <<sup, delivered, cutShort>>
  BY DEF Load, WritersInv, RecordsOK
<1>2. lane'.pc = "operations" /\ lane'.chosen = {}
  BY <1>1 DEF Take
<1>3. ASSUME NEW q \in Procs
      PROVE  /\ sup'[q] \in {"new", "gone"} /\ Weak(q)' /\ BootShape(q)' /\ Told(q)'
             /\ sup'[q] = "new" => Nothing(q)'
             /\ ~ cutShort' => Safe(q)'
  <2>1. /\ sup[q] \in {"new", "gone"} /\ Weak(q) /\ Told(q) /\ (sup[q] = "new" => Nothing(q))
        /\ ~ cutShort => Safe(q)
    BY <1>1 DEF SoundNow, SoundOK, Told
  <2>2. Same(q)
    BY <1>1 DEF Same, OnDisk
  <2>3. BootShape(q)'
    BY <1>2 DEF BootShape
  <2> QED
    BY <1>1, <2>1, <2>2, <2>3, SameShape, SameSteps DEF Told, Announced
<1> QED
  BY <1>1, <1>2, <1>3, BootIsSound

LEMMA SoundOperation ==
  ASSUME WritersInv, SoundNow, NEW p \in Procs, RecoverOperation(p) PROVE SoundOK'
<1>1. /\ phase = "recovering" /\ lane.op = "boot" /\ lane.pc = "operations"
      /\ UNCHANGED <<sup, delivered, cutShort>> /\ mem = disk /\ lane \in LaneRecord
  BY Typed, LaneTypes DEF RecoverOperation, Booting, At, SoundNow, SoundOK, WritersInv
<1>2. Weak(p) /\ BootShape(p) /\ Told(p) /\ (sup[p] = "new" => Nothing(p)) /\ (~ cutShort => Safe(p))
  BY <1>1, NobodyWorks DEF Recovered
<1>3. p \in lane.chosen => disk.journal[p].release = "none"
  BY <1>1, <1>2 DEF BootShape, Live, Ended, Entry
<1>4. ASSUME Release(p) # "none",
             IF ReleaseIsRecoverable(p) THEN lane' = [lane EXCEPT !.pc = "release", !.proc = p]
                                             /\ UNCHANGED phase /\ Keep
             ELSE Refuse
      PROVE SoundOK'
  <2>1. disk.journal[p].release # "none" /\ p \notin lane.chosen
    BY <1>1, <1>3, <1>4 DEF Release
  <2>2. WeakRelease(p) /\ sup[p] # "new" /\ (~ cutShort => SafeRelease(p))
    BY <1>2, <2>1 DEF Weak, Nothing, Released, Entry, WeakAdmission, Safe, SafeAdmission, NoSlotLeft,
                      Live, Interrupted, Ended
  <2>3. CASE ReleaseIsRecoverable(p)
    <3>1. lane' = [lane EXCEPT !.pc = "release", !.proc = p] /\ phase' = phase /\ Keep
      BY <1>4, <2>3
    <3>2. lane'.pc = "release" /\ lane'.proc = p /\ lane'.chosen = lane.chosen
      BY <1>1, <3>1 DEF LaneRecord
    <3>3. mem' = disk' /\ \A q \in Procs : Same(q)
      BY <1>1, <3>1, NothingWritten
    <3>4. Weak(p)' /\ BootShape(p)' /\ Told(p)' /\ Recovered(p)'
      <4>1. WeakRelease(p)'
        BY <2>2, <3>3, SameSteps
      <4>2. BootShape(p)' /\ Recovered(p)'
        BY <2>1, <3>2, <4>1 DEF BootShape, Recovered
      <4> QED
        BY <1>1, <1>2, <3>3, <4>2, SameShape, SameSteps DEF Told, Announced
    <3> QED
      BY <1>1, <2>2, <3>1, <3>2, <3>3, <3>4, RecoveryIsSound DEF Elsewhere, Recoveries
  <2>4. CASE ~ ReleaseIsRecoverable(p)
    <3>1. SafeRelease(p) => ReleaseIsRecoverable(p)
      BY <1>1 DEF SafeRelease, Entry, HasEnded, Acked, ReleaseIsRecoverable, Rec, OnDisk, Release, Slot
    <3> QED
      BY <1>1, <1>4, <2>2, <2>4, <3>1, RefusalIsSound
  <2> QED
    BY <2>3, <2>4
<1>5. ASSUME ~ Releasing, Admission(p) # "none", p \notin lane.chosen,
             IF AdmissionIsRecoverable(p) THEN lane' = [lane EXCEPT !.pc = "admission", !.proc = p]
                                               /\ UNCHANGED phase /\ Keep
             ELSE Refuse
      PROVE SoundOK'
  <2>1. disk.journal[p].admit # "none" /\ \A q \in Procs : disk.journal[q].release = "none"
    BY <1>1, <1>5 DEF Admission, Releasing, Release
  <2>2. WeakAdmission(p) /\ sup[p] # "new" /\ (~ cutShort => SafeAdmission(p))
    BY <1>2, <2>1 DEF Weak, Nothing, Released, Entry, WeakRelease, Safe, SafeRelease
  <2>3. CASE AdmissionIsRecoverable(p)
    <3>1. lane' = [lane EXCEPT !.pc = "admission", !.proc = p] /\ phase' = phase /\ Keep
      BY <1>5, <2>3
    <3>2. lane'.pc = "admission" /\ lane'.proc = p /\ lane'.chosen = lane.chosen
      BY <1>1, <3>1 DEF LaneRecord
    <3>3. mem' = disk' /\ \A q \in Procs : Same(q)
      BY <1>1, <3>1, NothingWritten
    <3>4. Weak(p)' /\ BootShape(p)' /\ Told(p)' /\ Recovered(p)'
      <4>1. WeakAdmission(p)' /\ disk'.journal[p].release = "none"
        BY <2>1, <2>2, <3>3, SameSteps DEF Same
      <4>2. BootShape(p)' /\ Recovered(p)'
        BY <1>5, <3>2, <4>1 DEF BootShape, Recovered
      <4> QED
        BY <1>1, <1>2, <3>3, <4>2, SameShape, SameSteps DEF Told, Announced
    <3> QED
      BY <1>1, <2>1, <2>2, <3>1, <3>2, <3>3, <3>4, RecoveryIsSound DEF Elsewhere, Recoveries
  <2>4. CASE ~ AdmissionIsRecoverable(p)
    <3>1. SafeAdmission(p) => AdmissionIsRecoverable(p)
      <4>1. Missing(p) => Rec(p).state = "absent"
        BY <1>1, NoRecords DEF Missing, Rec, OnDisk
      <4>2. \A res : Starting(p, res) => Rec(p).state = "starting" /\ Rec(p).res = res
        BY <1>1 DEF Starting, Rec, OnDisk
      <4>3. Live(p) \/ Interrupted(p) \/ Ended(p) => AdmissionIsRecoverable(p)
        BY <1>1, Tells DEF Live, Interrupted, Ended, Entry, HasEnded, Runs, AdmissionIsRecoverable, Rec, OnDisk,
                           Admission, Slot, Terminal
      <4> QED
        BY <1>1, <4>1, <4>2, <4>3 DEF SafeAdmission, NoSlotLeft, Entry, AdmissionIsRecoverable,
                                      Admission, Slot, Terminal
    <3> QED
      BY <1>1, <1>5, <2>2, <2>4, <3>1, RefusalIsSound
  <2> QED
    BY <2>3, <2>4
<1> QED
  BY <1>4, <1>5, Zenon DEF RecoverOperation

(* One write of the recovery of p, after which the recovery goes on.        *)
LEMMA RecoveryWriteIsSound ==
  ASSUME WritersInv, SoundNow, NEW p \in Procs, NEW ok \in BOOLEAN, NEW pc \in Recoveries,
         phase = "recovering", lane.op = "boot", lane.pc \in {"release", "admission"}, lane.proc = p,
         ok, GoOn(pc, ok), UNCHANGED <<sup, delivered, cutShort>>,
         mem' = disk', Elsewhere(p), sup[p] # "new", p \notin lane.chosen,
         \/ pc = "release" /\ WeakRelease(p)'
         \/ pc = "admission" /\ WeakAdmission(p)' /\ \A q \in Procs : disk.journal[q].release = "none"
         \/ pc = "operations" /\ (Nothing(p)' \/ Released(p)'),
         Terminal(OnDisk(p).state)' \/ Missing(p)' \/ ~ Announced(p)
  PROVE  SoundOK'
<1>1. lane' \in Lanes /\ lane'.pc = pc /\ lane'.chosen = lane.chosen /\ lane'.proc = p /\ phase' = "recovering"
  <2>1. lane \in Lanes /\ pc \in Steps("boot")
    BY Typed, StepSets DEF WritersInv, Recoveries, BootSteps
  <2> QED
    BY <2>1, GoesOn DEF OnLane
<1>2. sup[p] = "gone"
  BY NobodyWorks
<1>3. Told(p)'
  BY <1>2 DEF Told, Announced
<1>4. Weak(p)' /\ (~ cutShort => Safe(p)' \/ Recovered(p)')
  <2>1. CASE pc = "operations"
    <3>1. Settled(p)'
      BY <2>1 DEF Settled
    <3> QED
      BY <3>1, OrderNext
  <2>2. CASE pc # "operations"
    BY <1>1, <2>2 DEF Weak, Recovered
  <2> QED
    BY <2>1, <2>2
<1>5. BootShape(p)'
  <2>1. pc = "admission" => disk'.journal[p].release = "none"
    BY DEF WeakAdmission
  <2> QED
    BY <1>1, <2>1 DEF BootShape
<1>6. lane'.pc \in Recoveries /\ lane.pc \in Recoveries
  BY <1>1 DEF Recoveries
<1> QED
  BY <1>1, <1>3, <1>4, <1>5, <1>6, RecoveryIsSound

LEMMA SoundReleaseRecovery ==
  ASSUME WritersInv, SoundNow, NEW p \in Procs, NEW ok \in BOOLEAN, RecoverRelease(p, ok) PROVE SoundOK'
<1> USE DEF SoundNow
<1>1. /\ phase = "recovering" /\ lane.op = "boot" /\ lane.pc = "release" /\ lane.proc = p
      /\ UNCHANGED <<sup, delivered, cutShort>>
  BY DEF RecoverRelease, Booting, At
<1>2. /\ StoresOK /\ ValidAuthority(disk.authority) /\ Plausible(Rec(p)) /\ Rec(p) = OnDisk(p) /\ mem = disk
  BY <1>1, NobodyWorks, Typed DEF WritersInv, RecordsOK, Rec, OnDisk
<1>3. WeakRelease(p) /\ p \notin lane.chosen
  BY <1>1, NobodyWorks DEF BootShape
<1>4. sup[p] # "new"
  BY <1>1, <1>3, NobodyWorks DEF Nothing, Entry, WeakRelease
<1>5. ASSUME ok, GoOn("release", ok), mem' = disk', Elsewhere(p), WeakRelease(p)' PROVE SoundOK'
  <2>1. Terminal(OnDisk(p).state)'
    BY <1>5 DEF WeakRelease, HasEnded, Acked
  <2> QED
    BY <1>1, <1>3, <1>4, <1>5, <2>1, RecoveryWriteIsSound DEF Recoveries
<1>6. ASSUME NEW s \in Record, RecordPut(p, s, ok), Terminal(s.state), ~ s.event, s.acked,
             s.res \in {"none", "terminal_unacknowledged", "releasing"}
      PROVE  ok /\ Wrote(p, disk.journal[p].admit, disk.journal[p].release, disk.ledger[p], s)
  <2>1. ValidRecord(s)
    BY <1>6 DEF ValidRecord
  <2> QED
    BY <1>2, <1>6, <2>1, SoundRecord
<1>7. CASE Rec(p).event /\ Acknowledge(p, ok) /\ GoOn("release", ok)
  <2>1. HasEnded(p) /\ disk.ledger[p] = "terminal_unacknowledged" /\ disk.journal[p].admit = "committed"
        /\ disk.journal[p].release # "none"
    BY <1>2, <1>3, <1>7 DEF WeakRelease, Acked
  <2>2. ValidEvent(Rec(p))
    BY <1>2, <2>1 DEF HasEnded, ValidEvent
  <2>3. PICK s \in Record : RecordPut(p, s, ok) /\ s = [state |-> Rec(p).state, res |-> Rec(p).res,
                                                        event |-> FALSE, acked |-> TRUE]
    BY <1>2, <1>7, <2>2, Acknowledges DEF SetsAcknowledged
  <2>4. Terminal(s.state) /\ ~ s.event /\ s.acked /\ s.res = "terminal_unacknowledged"
    BY <1>2, <2>1, <2>3 DEF HasEnded
  <2>5. ok /\ Wrote(p, disk.journal[p].admit, disk.journal[p].release, disk.ledger[p], s)
    BY <1>6, <2>3, <2>4
  <2>6. WeakRelease(p)'
    BY <2>1, <2>4, <2>5 DEF WeakRelease, Acked, Wrote
  <2> QED
    BY <1>5, <1>7, <2>5, <2>6 DEF Wrote
<1>8. CASE /\ ~ Rec(p).event /\ GoOn("release", ok) /\ MoveSlot(p, "releasing", ok)
           /\ "terminal_unacknowledged" \in {Rec(p).res, Slot(p)} /\ Slot(p) # "releasing"
  <2>1. /\ Acked(p, "terminal_unacknowledged") /\ disk.ledger[p] = "terminal_unacknowledged"
        /\ disk.journal[p].admit = "committed" /\ disk.journal[p].release # "none"
    BY <1>2, <1>3, <1>8 DEF WeakRelease, HasEnded, Acked, Slot
  <2>2. SlotPut(p, "releasing", ok)
    BY <1>2, <1>8, <2>1, MovesSlot DEF SlotStates, CanMove, Slot
  <2>3. ok /\ Wrote(p, disk.journal[p].admit, disk.journal[p].release, "releasing", OnDisk(p))
    BY <1>2, <2>2, SoundSlot
  <2>4. WeakRelease(p)'
    BY <2>1, <2>3 DEF WeakRelease, Acked, Wrote
  <2> QED
    BY <1>5, <1>8, <2>3, <2>4 DEF Wrote
<1>9. CASE /\ ~ Rec(p).event /\ GoOn("release", ok) /\ PutReservation(p, "releasing", ok)
           /\ Rec(p).res = "terminal_unacknowledged" /\ Slot(p) = "releasing"
  <2>1. /\ Acked(p, "terminal_unacknowledged") /\ disk.ledger[p] = "releasing"
        /\ disk.journal[p].admit = "committed" /\ disk.journal[p].release # "none"
    BY <1>2, <1>3, <1>9 DEF WeakRelease, HasEnded, Acked, Slot
  <2>2. Terminal(Rec(p).state) /\ ~ Rec(p).event /\ Rec(p).acked /\ Rec(p).res # "none"
    BY <1>2, <2>1 DEF Acked
  <2>3. PICK s \in Record : RecordPut(p, s, ok) /\ s = [state |-> Rec(p).state, res |-> "releasing",
                                                        event |-> Rec(p).event, acked |-> Rec(p).acked]
    BY <1>2, <1>9, <2>2, PutsReservation DEF SlotStates, SetsReservation, Terminal
  <2>4. Terminal(s.state) /\ ~ s.event /\ s.acked /\ s.res = "releasing"
    BY <2>2, <2>3
  <2>5. ok /\ Wrote(p, disk.journal[p].admit, disk.journal[p].release, disk.ledger[p], s)
    BY <1>6, <2>3, <2>4
  <2>6. WeakRelease(p)'
    BY <2>1, <2>4, <2>5 DEF WeakRelease, Acked, Wrote
  <2> QED
    BY <1>5, <1>9, <2>5, <2>6 DEF Wrote
<1>10. CASE ~ Rec(p).event /\ GoOn("release", ok) /\ Rec(p).res = "releasing" /\ Detach(p, ok)
  <2>1. /\ Acked(p, "releasing") /\ disk.ledger[p] = "releasing"
        /\ disk.journal[p].admit = "committed" /\ disk.journal[p].release # "none"
    BY <1>2, <1>3, <1>10 DEF WeakRelease, HasEnded, Acked
  <2>2. Terminal(Rec(p).state) /\ ~ Rec(p).event /\ Rec(p).acked
    BY <1>2, <2>1 DEF Acked
  <2>3. PICK s \in Record : RecordPut(p, s, ok) /\ s = [state |-> Rec(p).state, res |-> "none",
                                                        event |-> Rec(p).event, acked |-> Rec(p).acked]
    BY <1>2, <1>10, <2>2, Detaches DEF SetsDetached
  <2>4. Terminal(s.state) /\ ~ s.event /\ s.acked /\ s.res = "none"
    BY <2>2, <2>3
  <2>5. ok /\ Wrote(p, disk.journal[p].admit, disk.journal[p].release, disk.ledger[p], s)
    BY <1>6, <2>3, <2>4
  <2>6. WeakRelease(p)'
    BY <2>1, <2>4, <2>5 DEF WeakRelease, Acked, Wrote
  <2> QED
    BY <1>5, <1>10, <2>5, <2>6 DEF Wrote
<1>11. CASE ~ Rec(p).event /\ GoOn("release", ok) /\ Rec(p).res = "none" /\ Slot(p) = "releasing" /\ FreeSlot(p, ok)
  <2>1. /\ Acked(p, "none") /\ disk.journal[p].admit = "committed" /\ disk.journal[p].release # "none"
    BY <1>2, <1>3, <1>11 DEF WeakRelease, HasEnded, Acked, Slot
  <2>2. SlotPut(p, "none", ok)
    BY <1>2, <1>11, FreesSlot
  <2>3. ok /\ Wrote(p, disk.journal[p].admit, disk.journal[p].release, "none", OnDisk(p))
    BY <1>2, <2>2, SoundSlot
  <2>4. WeakRelease(p)'
    BY <2>1, <2>3 DEF WeakRelease, Acked, Wrote
  <2> QED
    BY <1>5, <1>11, <2>3, <2>4 DEF Wrote
<1>12. CASE /\ ~ Rec(p).event /\ GoOn("release", ok) /\ Rec(p).res = "none" /\ Slot(p) = "none"
            /\ PutAdmission(p, "none", ok)
  <2>1. Acked(p, "none") /\ disk.ledger[p] = "none" /\ disk.journal[p].release # "none"
    BY <1>2, <1>3, <1>12 DEF WeakRelease, HasEnded, Acked, Slot
  <2>2. JournalPut(p, "none", disk.journal[p].release, ok)
    BY <1>2, <1>12, PutsAdmission DEF AdmitStates
  <2>3. ok /\ Wrote(p, "none", disk.journal[p].release, disk.ledger[p], OnDisk(p))
    BY <1>2, <2>2, SoundJournal
  <2>4. WeakRelease(p)'
    BY <2>1, <2>3 DEF WeakRelease, Acked, Wrote
  <2> QED
    BY <1>5, <1>12, <2>3, <2>4 DEF Wrote
<1>13. CASE /\ ~ Rec(p).event /\ Rec(p).res = "none" /\ Slot(p) = "none" /\ Admission(p) = "none"
            /\ PutRelease(p, "none", ok) /\ GoOn("operations", ok)
  <2>1. Acked(p, "none") /\ disk.ledger[p] = "none" /\ disk.journal[p].admit = "none"
    BY <1>2, <1>3, <1>13 DEF WeakRelease, HasEnded, Acked, Slot, Admission
  <2>2. JournalPut(p, disk.journal[p].admit, "none", ok)
    BY <1>2, <1>13, PutsRelease DEF ReleaseStates
  <2>3. ok /\ Wrote(p, disk.journal[p].admit, "none", disk.ledger[p], OnDisk(p))
    BY <1>2, <2>2, SoundJournal
  <2>4. Released(p)' /\ Terminal(OnDisk(p).state)'
    BY <2>1, <2>3 DEF Released, Acked, Entry, Wrote
  <2> QED
    BY <1>1, <1>3, <1>4, <1>13, <2>3, <2>4, RecoveryWriteIsSound DEF Wrote, Recoveries
<1> QED
  BY <1>7, <1>8, <1>9, <1>10, <1>11, <1>12, <1>13, Zenon DEF RecoverRelease

LEMMA SoundAdmissionRecovery ==
  ASSUME WritersInv, SoundNow, NEW p \in Procs, NEW ok \in BOOLEAN, RecoverAdmission(p, ok) PROVE SoundOK'
<1> USE DEF SoundNow
<1>1. /\ phase = "recovering" /\ lane.op = "boot" /\ lane.pc = "admission" /\ lane.proc = p
      /\ UNCHANGED <<sup, delivered, cutShort>>
  BY DEF RecoverAdmission, Booting, At
<1>2. /\ StoresOK /\ ValidAuthority(disk.authority) /\ Plausible(Rec(p)) /\ Rec(p) = OnDisk(p) /\ mem = disk
  BY <1>1, NobodyWorks, Typed DEF WritersInv, RecordsOK, Rec, OnDisk
<1>3. WeakAdmission(p) /\ p \notin lane.chosen /\ \A q \in Procs : BootShape(q)
  BY <1>1, NobodyWorks DEF BootShape
<1>4. sup[p] # "new" /\ sup[p] = "gone"
  <2>1. ~ Nothing(p)
    BY <1>3 DEF Nothing, Entry, WeakAdmission, Missing, Starting, Live, Interrupted, Ended, NoRecord
  <2> QED
    BY <1>1, <2>1, NobodyWorks
<1>5. \A q \in Procs : disk.journal[q].release = "none"
  BY <1>1, <1>3 DEF BootShape
<1>6. /\ Missing(p) => Rec(p).state = "absent"
      /\ Rec(p).state = "absent" => Missing(p)
      /\ Rec(p).state # "absent" => \/ Starting(p, "allocating") \/ Starting(p, "active")
                                    \/ Live(p) \/ Interrupted(p) \/ Ended(p)
  <2>1. Missing(p) => Rec(p).state = "absent"
    BY <1>2, NoRecords DEF Missing
  <2>2. \/ Missing(p) \/ Starting(p, "allocating") \/ Starting(p, "active")
        \/ Live(p) \/ Interrupted(p) \/ Ended(p)
    BY <1>3 DEF WeakAdmission
  <2>3. Rec(p).state = "absent" => Missing(p)
    BY <1>2, <2>2, Tells
  <2> QED
    BY <2>1, <2>2, <2>3
<1>7. ~ Terminal(OnDisk(p).state) /\ ~ Missing(p) => ~ Announced(p)
  BY <1>1, NobodyWorks DEF Told
<1>8. ASSUME ok, GoOn("admission", ok), mem' = disk', Elsewhere(p), WeakAdmission(p)',
             Terminal(OnDisk(p).state)' \/ Missing(p)' \/ ~ Announced(p)
      PROVE  SoundOK'
  BY <1>1, <1>3, <1>4, <1>5, <1>8, RecoveryWriteIsSound DEF Recoveries
<1>9. CASE Rec(p).state = "absent" /\ Slot(p) # "none" /\ PutSlot(p, "none", ok) /\ GoOn("admission", ok)
  <2>1. Missing(p) /\ disk.journal[p].release = "none"
        /\ disk.journal[p].admit \in {"intent", "token_selected", "allocated"}
    BY <1>2, <1>3, <1>6, <1>9, Tells DEF WeakAdmission
  <2>2. SlotPut(p, "none", ok)
    BY <1>2, <1>9, PutsSlot DEF SlotStates
  <2>3. ok /\ Wrote(p, disk.journal[p].admit, disk.journal[p].release, "none", OnDisk(p))
    BY <1>2, <2>2, SoundSlot
  <2>4. WeakAdmission(p)' /\ Missing(p)'
    BY <2>1, <2>3 DEF WeakAdmission, Missing, Wrote
  <2> QED
    BY <1>8, <1>9, <2>3, <2>4 DEF Wrote
<1>10. CASE Rec(p).state = "absent" /\ Slot(p) = "none" /\ PutAdmission(p, "none", ok) /\ GoOn("operations", ok)
  <2>1. Missing(p) /\ disk.journal[p].release = "none" /\ disk.ledger[p] = "none"
    BY <1>2, <1>3, <1>5, <1>6, <1>10 DEF Slot
  <2>2. JournalPut(p, "none", disk.journal[p].release, ok)
    BY <1>2, <1>10, PutsAdmission DEF AdmitStates
  <2>3. ok /\ Wrote(p, "none", disk.journal[p].release, disk.ledger[p], OnDisk(p))
    BY <1>2, <2>2, SoundJournal
  <2>4. Nothing(p)' /\ Missing(p)'
    BY <2>1, <2>3 DEF Nothing, Entry, Missing, Wrote
  <2> QED
    BY <1>1, <1>3, <1>4, <1>10, <2>3, <2>4, RecoveryWriteIsSound DEF Wrote, Recoveries
<1>11. CASE /\ Rec(p).state # "absent" /\ GoOn("admission", ok)
            /\ Slot(p) = "allocating" /\ MoveSlot(p, "active", ok)
  <2>1. /\ Starting(p, "allocating") /\ disk.journal[p].release = "none"
        /\ disk.journal[p].admit \in {"allocated", "authority_saved", "active"}
    BY <1>2, <1>3, <1>6, <1>11 DEF WeakAdmission, Slot, Live, Interrupted, Ended, Entry
  <2>2. SlotPut(p, "active", ok)
    BY <1>2, <1>11, MovesSlot DEF SlotStates, CanMove
  <2>3. ok /\ Wrote(p, disk.journal[p].admit, disk.journal[p].release, "active", OnDisk(p))
    BY <1>2, <2>2, SoundSlot
  <2>4. WeakAdmission(p)'
    BY <2>1, <2>3 DEF WeakAdmission, Starting, Wrote
  <2>5. ~ Announced(p)
    BY <1>7, <2>1, Tells, NoRecords DEF Terminal, Missing
  <2> QED
    BY <1>8, <1>11, <2>3, <2>4, <2>5 DEF Wrote
<1>12. CASE /\ Rec(p).state # "absent" /\ GoOn("admission", ok)
            /\ Slot(p) \in {"active", "terminal_unacknowledged"} /\ Slot(p) # Target(p)
            /\ MoveSlot(p, IF Slot(p) = "active" THEN "terminal_unacknowledged" ELSE Target(p), ok)
  <2>1. Interrupted(p)
    <3>1. Ended(p) => Target(p) = "terminal_unacknowledged" /\ Slot(p) = "terminal_unacknowledged"
      BY <1>2, Tells DEF Ended, Entry, Target, Slot
    <3>2. \A res : Starting(p, res) => Target(p) = "active"
      BY <1>2, Tells DEF Target, Terminal
    <3>3. Live(p) => Target(p) = "active" /\ Slot(p) = "active"
      BY <1>2, Tells DEF Live, Entry, Target, Slot, Terminal
    <3>4. \A res : Starting(p, res) => Slot(p) # "terminal_unacknowledged"
      BY <1>2, <1>3, Tells DEF WeakAdmission, Slot, Live, Interrupted, Ended, Entry, Missing, NoRecord, Terminal
    <3> QED
      BY <1>6, <1>12, <3>1, <3>2, <3>3, <3>4
  <2>2. disk.ledger[p] = "active" /\ HasEnded(p) /\ disk.journal[p].admit = "committed"
        /\ disk.journal[p].release = "none"
    BY <2>1 DEF Interrupted, Entry
  <2>3. SlotPut(p, "terminal_unacknowledged", ok)
    <3>1. MoveSlot(p, "terminal_unacknowledged", ok) /\ Slot(p) = "active"
      BY <1>2, <1>12, <2>2 DEF Slot
    <3> QED
      BY <1>2, <3>1, MovesSlot DEF SlotStates, CanMove
  <2>4. ok /\ Wrote(p, disk.journal[p].admit, disk.journal[p].release, "terminal_unacknowledged", OnDisk(p))
    BY <1>2, <2>3, SoundSlot
  <2>5. HasEnded(p)' /\ Ended(p)'
    BY <2>2, <2>4 DEF Ended, Entry, HasEnded, Wrote
  <2>6. WeakAdmission(p)' /\ Terminal(OnDisk(p).state)'
    BY <2>2, <2>4, <2>5 DEF WeakAdmission, HasEnded, Wrote
  <2> QED
    BY <1>8, <1>12, <2>4, <2>6 DEF Wrote
<1>13. CASE /\ Rec(p).state # "absent" /\ GoOn("admission", ok)
            /\ Slot(p) = Target(p) /\ Rec(p).res # Slot(p) /\ PutReservation(p, Slot(p), ok)
  <2>1. Starting(p, "allocating")
    <3>1. Ended(p) \/ Interrupted(p) => Target(p) = Rec(p).res
      BY <1>2, Tells DEF Target
    <3>2. Live(p) \/ Starting(p, "active") => Target(p) = Rec(p).res
      BY <1>2, Tells DEF Target, Terminal
    <3> QED
      BY <1>6, <1>13, <3>1, <3>2
  <2>2. /\ disk.journal[p].release = "none" /\ disk.ledger[p] = "active" /\ Slot(p) = "active"
        /\ disk.journal[p].admit \in {"allocated", "authority_saved", "active"}
        /\ Rec(p).state = "starting" /\ Rec(p).res = "allocating" /\ ~ Rec(p).event /\ ~ Rec(p).acked
    <3>1. Rec(p) = [state |-> "starting", res |-> "allocating", event |-> FALSE, acked |-> FALSE]
      BY <1>2, <2>1 DEF Starting
    <3>2. Rec(p).state = "starting" /\ Rec(p).res = "allocating" /\ ~ Rec(p).event /\ ~ Rec(p).acked
      BY <3>1
    <3>3. Slot(p) = "active"
      BY <1>13, <3>2 DEF Target, Terminal
    <3>4. ~ (Live(p) \/ Interrupted(p) \/ Ended(p) \/ Missing(p) \/ Starting(p, "active"))
      BY <1>2, <3>2, Tells DEF Terminal
    <3> QED
      BY <1>2, <1>3, <3>2, <3>3, <3>4 DEF WeakAdmission, Slot
  <2>3. PICK s \in Record : RecordPut(p, s, ok) /\ s = [state |-> Rec(p).state, res |-> "active",
                                                        event |-> Rec(p).event, acked |-> Rec(p).acked]
    BY <1>2, <1>13, <2>2, PutsReservation DEF SlotStates, SetsReservation
  <2>4. s = [state |-> "starting", res |-> "active", event |-> FALSE, acked |-> FALSE]
    <3>1. Rec(p).event = FALSE /\ Rec(p).acked = FALSE
      BY <1>2, <2>1 DEF Starting
    <3> QED
      BY <2>2, <2>3, <3>1
  <2>5. ValidRecord(s)
    BY <2>4 DEF ValidRecord, Terminal
  <2>6. ok /\ Wrote(p, disk.journal[p].admit, disk.journal[p].release, disk.ledger[p], s)
    BY <1>2, <2>3, <2>5, SoundRecord
  <2>7. WeakAdmission(p)'
    BY <2>2, <2>4, <2>6 DEF WeakAdmission, Starting, Wrote
  <2>8. ~ Announced(p)
    BY <1>7, <2>1, Tells, NoRecords DEF Terminal, Missing
  <2> QED
    BY <1>8, <1>13, <2>6, <2>7, <2>8 DEF Wrote
<1>14. CASE /\ Rec(p).state # "absent" /\ GoOn("admission", ok)
            /\ Slot(p) = Target(p) /\ Rec(p).res = Slot(p) /\ Admission(p) # "committed"
            /\ PutAdmission(p, "committed", ok)
  <2>1. Starting(p, "active") /\ disk.ledger[p] = "active" /\ disk.journal[p].release = "none"
    <3>1. Live(p) \/ Interrupted(p) \/ Ended(p) => Admission(p) = "committed"
      BY <1>2 DEF Live, Interrupted, Ended, Entry, Admission
    <3>2. Starting(p, "allocating") => Target(p) # Rec(p).res
      BY <1>2, Tells DEF Target, Terminal
    <3>3. Starting(p, "active")
      BY <1>6, <1>14, <3>1, <3>2
    <3>4. Rec(p).res = "active"
      BY <1>2, <3>3, Tells
    <3> QED
      BY <1>2, <1>5, <1>14, <3>3, <3>4 DEF Slot
  <2>2. JournalPut(p, "committed", disk.journal[p].release, ok)
    BY <1>2, <1>14, PutsAdmission DEF AdmitStates
  <2>3. ok /\ Wrote(p, "committed", disk.journal[p].release, disk.ledger[p], OnDisk(p))
    BY <1>2, <2>2, SoundJournal
  <2>4. Live(p)' /\ disk'.journal[p].release = "none"
    BY <2>1, <2>3 DEF Live, Runs, Entry, Starting, Wrote
  <2>5. WeakAdmission(p)' /\ ~ Announced(p)
    BY <1>7, <2>1, <2>4, Tells, NoRecords DEF WeakAdmission, Terminal, Missing
  <2> QED
    BY <1>8, <1>14, <2>3, <2>5 DEF Wrote
<1>15. CASE /\ Rec(p).state # "absent" /\ Slot(p) = Target(p) /\ Rec(p).res = Slot(p)
            /\ Admission(p) = "committed" /\ ok /\ Keep /\ UNCHANGED phase
            /\ lane' = [lane EXCEPT !.pc = "operations", !.chosen = @ \cup {p}]
  <2>1. Live(p) \/ Ended(p)
    <3>1. Interrupted(p) => Rec(p).res # Slot(p)
      BY <1>2, Tells DEF Interrupted, Entry, Slot
    <3>2. \A res : Starting(p, res) /\ Admission(p) = "committed" => Live(p) \/ Ended(p) \/ Interrupted(p)
      BY <1>2, <1>3, Tells, NoRecords DEF WeakAdmission, Admission, Missing
    <3> QED
      BY <1>6, <1>15, <3>1, <3>2
  <2>2. lane'.pc = "operations" /\ lane'.chosen = lane.chosen \cup {p} /\ lane'.proc = p
    <3>1. lane' = [lane EXCEPT !.pc = "operations", !.chosen = lane.chosen \cup {p}]
      BY <1>15
    <3>2. lane \in Lanes /\ "operations" \in Steps(lane.op) /\ lane.chosen \cup {p} \in SUBSET Procs
      BY <1>1, Typed, StepSets DEF BootSteps, WritersInv
    <3> QED
      BY <1>1, <3>1, <3>2, LaneTurns DEF OnLane
  <2>3. mem' = disk' /\ (\A q \in Procs : Same(q)) /\ phase' = phase
    BY <1>2, <1>15, NothingWritten
  <2>4. Live(p)' \/ Ended(p)'
    BY <2>1, <2>3, SameShape
  <2>5. BootShape(p)' /\ Weak(p)' /\ Safe(p)'
    <3>1. Safe(p)' /\ Weak(p)'
      BY <2>4, OrderNext DEF Settled
    <3> QED
      BY <2>2, <2>4, <3>1 DEF BootShape
  <2>6. Told(p)'
    BY <1>1, <2>3, NobodyWorks, SameShape DEF Told, Announced
  <2> QED
    BY <1>1, <1>4, <2>2, <2>3, <2>5, <2>6, RecoveryIsSound DEF Elsewhere, Recoveries
<1> QED
  BY <1>9, <1>10, <1>11, <1>12, <1>13, <1>14, <1>15, Zenon DEF RecoverAdmission

LEMMA SoundOperations ==
  ASSUME WritersInv, SoundNow, OperationsRecovered PROVE SoundOK'
<1>1. /\ phase = "recovering" /\ lane.op = "boot" /\ lane.pc = "operations" /\ mem = disk
      /\ UNCHANGED <<sup, delivered, cutShort>>
  BY DEF OperationsRecovered, Booting, At, SoundNow, SoundOK
<1>2. ASSUME NEW q \in Procs PROVE Settled(q) \/ Live(q)
  <2>1. disk.journal[q].release = "none" /\ (disk.journal[q].admit # "none" => q \in lane.chosen)
    BY <1>1 DEF OperationsRecovered, Releasing, Release, Admission
  <2>2. Weak(q) /\ BootShape(q)
    BY <1>1, NobodyWorks
  <2>3. CASE q \in lane.chosen
    BY <1>1, <2>2, <2>3 DEF BootShape, Settled
  <2>4. CASE disk.journal[q].admit = "none"
    BY <2>1, <2>2, <2>4 DEF Weak, WeakRelease, WeakAdmission, Live, Interrupted, Ended, Entry, Settled
  <2> QED
    BY <2>1, <2>3, <2>4
<1>3. Bijective(mem)
  BY <1>1, <1>2, RestingIsBijective DEF Resting
<1>4. lane' = [lane EXCEPT !.pc = "interrupt", !.chosen = {}] /\ phase' = phase /\ Keep
  BY <1>3 DEF OperationsRecovered
<1>5. lane'.pc = "interrupt"
  <2>1. lane \in Lanes /\ "interrupt" \in Steps(lane.op) /\ {} \in SUBSET Procs
    BY <1>1, Typed, StepSets DEF BootSteps, WritersInv
  <2> QED
    BY <1>4, <2>1, LaneTurns DEF OnLane
<1>6. mem' = disk' /\ \A q \in Procs : Same(q)
  BY <1>1, <1>4, NothingWritten
<1>7. ASSUME NEW q \in Procs
      PROVE  /\ sup'[q] \in {"new", "gone"} /\ Weak(q)' /\ BootShape(q)' /\ Told(q)'
             /\ sup'[q] = "new" => Nothing(q)'
             /\ Safe(q)'
  <2>1. Settled(q)' \/ Live(q)'
    BY <1>2, <1>6, SameShape, SameSteps
  <2>2. Weak(q)' /\ Safe(q)' /\ BootShape(q)'
    BY <1>5, <2>1, OrderNext DEF BootShape
  <2> QED
    BY <1>1, <1>6, <2>2, NobodyWorks, SameShape DEF Told, Announced
<1> QED
  BY <1>1, <1>4, <1>5, <1>6, <1>7, BootIsSound

(* Of all processes, those that are live are recorded as interrupted.       *)
LEMMA SoundInterruptionWrites ==
  ASSUME WritersInv, SoundNow, NEW ok \in BOOLEAN, InterruptProcesses(ok)
  PROVE  /\ phase = "recovering" /\ UNCHANGED <<sup, delivered, cutShort>>
         /\ ok => OnLane("slots", LiveNow) /\ phase' = phase
         /\ ok /\ mem' = disk' /\ disk'.journal = disk.journal /\ disk'.ledger = disk.ledger
         /\ \A q \in Procs : OnDisk(q)' = IF q \in LiveNow THEN InterruptedRecord(Rec(q)) ELSE OnDisk(q)
         /\ \A q \in LiveNow : q \in Procs /\ Live(q) /\ ~ Rec(q).acked
         /\ \A q \in Procs \ LiveNow : Settled(q)
<1> USE DEF SoundNow
<1>1. /\ phase = "recovering" /\ lane.op = "boot" /\ lane.pc = "interrupt" /\ mem = disk
      /\ UNCHANGED <<sup, delivered, cutShort>>
  BY DEF InterruptProcesses, Booting, At, SoundOK
<1>2. \A q \in Procs : Settled(q) \/ Live(q)
  BY <1>1, NobodyWorks DEF BootShape
<1>3. /\ StoresOK /\ ValidAuthority(disk.authority)
      /\ \A q \in Procs : Rec(q) = OnDisk(q) /\ ValidRecord(Rec(q)) /\ Rec(q) \in Record
  BY <1>1, Typed, StoreFields DEF WritersInv, RecordsOK, Rec, OnDisk, ValidAuthority, StoresOK
<1>4. /\ \A q \in LiveNow : q \in Procs /\ Live(q) /\ Rec(q).res = "active" /\ ~ Rec(q).acked
      /\ \A q \in Procs \ LiveNow : Settled(q)
  <2>1. ASSUME NEW q \in LiveNow PROVE q \in Procs /\ Live(q) /\ Rec(q).res = "active" /\ ~ Rec(q).acked
    <3>1. q \in Procs /\ Rec(q).state \in {"starting", "running"}
      BY DEF LiveNow
    <3>2. Live(q)
      BY <1>2, <1>3, <3>1, Tells DEF Settled
    <3> QED
      BY <1>3, <3>1, <3>2 DEF Live, Runs
  <2>2. ASSUME NEW q \in Procs \ LiveNow PROVE Settled(q)
    BY <1>2, <1>3, Tells DEF LiveNow
  <2> QED
    BY <2>1, <2>2
<1>5. /\ \/ LiveNow = {} /\ Keep /\ ok
         \/ \E a \in AuthorityTable : /\ PutAuthority(a, ok) /\ Interrupts(a, LiveNow)
                                      /\ a.tombstones = mem.authority.tombstones
      /\ ok => OnLane("slots", LiveNow) /\ phase' = phase
  BY <1>4, InterruptionWrites
<1>6. /\ ok /\ mem' = disk' /\ disk'.journal = disk.journal /\ disk'.ledger = disk.ledger
      /\ \A q \in Procs : OnDisk(q)' = IF q \in LiveNow THEN InterruptedRecord(Rec(q)) ELSE OnDisk(q)
  <2>1. CASE LiveNow = {} /\ Keep /\ ok
    BY <1>1, <2>1 DEF Keep, OnDisk
  <2>2. ASSUME NEW a \in AuthorityTable, PutAuthority(a, ok), Interrupts(a, LiveNow)
        PROVE  /\ ok /\ mem' = disk' /\ disk'.journal = disk.journal /\ disk'.ledger = disk.ledger
               /\ \A q \in Procs : OnDisk(q)' = IF q \in LiveNow THEN InterruptedRecord(Rec(q)) ELSE OnDisk(q)
    <3>1. AuthorityPut(a, ok)
      BY <1>3, <2>2, PutsAuthority
    <3>2. \A q \in Procs : ValidRecord(a.records[q])
      <4> SUFFICES ASSUME NEW q \in Procs PROVE ValidRecord(a.records[q])
        OBVIOUS
      <4>1. a.records[q] = IF q \in LiveNow THEN InterruptedRecord(Rec(q)) ELSE Rec(q)
        BY <2>2 DEF Interrupts
      <4>2. q \in LiveNow => ValidRecord(InterruptedRecord(Rec(q)))
        BY <1>4 DEF InterruptedRecord, ValidRecord, ValidEvent, Terminal
      <4> QED
        BY <1>3, <4>1, <4>2
    <3>3. /\ ok /\ mem' = disk' /\ disk'.authority = a
          /\ disk'.journal = disk.journal /\ disk'.ledger = disk.ledger
      BY <1>1, <3>1, <3>2, SoundAuthority
    <3> QED
      BY <1>3, <2>2, <3>3 DEF Interrupts, OnDisk
  <2> QED
    BY <1>5, <2>1, <2>2
<1> QED
  BY <1>1, <1>4, <1>5, <1>6

LEMMA SoundInterruption ==
  ASSUME WritersInv, SoundNow, NEW ok \in BOOLEAN, InterruptProcesses(ok) PROVE SoundOK'
<1>1. /\ phase = "recovering" /\ UNCHANGED <<sup, delivered, cutShort>>
      /\ mem' = disk' /\ disk'.journal = disk.journal /\ disk'.ledger = disk.ledger
  BY SoundInterruptionWrites
<1>2. /\ \A q \in LiveNow : q \in Procs /\ Live(q) /\ ~ Rec(q).acked
      /\ \A q \in Procs \ LiveNow : Settled(q)
  BY SoundInterruptionWrites
<1>3. \A q \in Procs : OnDisk(q)' = IF q \in LiveNow THEN InterruptedRecord(Rec(q)) ELSE OnDisk(q)
  BY SoundInterruptionWrites
<1>4. OnLane("slots", LiveNow) /\ phase' = "recovering"
  BY SoundInterruptionWrites
<1>5. ASSUME NEW q \in Procs
      PROVE  /\ sup'[q] \in {"new", "gone"} /\ Weak(q)' /\ BootShape(q)' /\ Told(q)'
             /\ sup'[q] = "new" => Nothing(q)'
             /\ Safe(q)'
  <2>1. CASE q \in LiveNow
    <3>1. Live(q) /\ ~ Rec(q).acked /\ OnDisk(q)' = InterruptedRecord(Rec(q))
      BY <1>2, <1>3, <2>1
    <3>2. HasEnded(q)'
      BY <3>1 DEF HasEnded, InterruptedRecord, Terminal
    <3>3. Interrupted(q)'
      BY <1>1, <3>1, <3>2 DEF Live, Entry, Interrupted
    <3>4. Weak(q)' /\ Safe(q)' /\ BootShape(q)'
      BY <1>4, <2>1, <3>3, OrderNext DEF OnLane, BootShape
    <3>5. sup[q] # "new"
      BY <1>1, <3>1, NobodyWorks, Tells
    <3> QED
      BY <1>1, <3>2, <3>4, <3>5, NobodyWorks DEF HasEnded, Told
  <2>2. CASE q \notin LiveNow
    <3>1. Same(q) /\ Settled(q)
      BY <1>1, <1>2, <1>3, <2>2 DEF Same
    <3>2. Settled(q)'
      BY <3>1, SameSteps
    <3>3. Weak(q)' /\ Safe(q)' /\ BootShape(q)'
      BY <1>4, <2>2, <3>2, OrderNext DEF OnLane, BootShape
    <3> QED
      BY <1>1, <3>1, <3>3, NobodyWorks, SameShape DEF Told, Announced
  <2> QED
    BY <2>1, <2>2
<1> QED
  BY <1>1, <1>3, <1>4, <1>5, BootIsSound DEF OnLane

LEMMA SoundInterruptedSlot ==
  ASSUME WritersInv, SoundNow, NEW p \in Procs, NEW ok \in BOOLEAN, InterruptSlot(p, ok) PROVE SoundOK'
<1> USE DEF SoundNow
<1>1. /\ phase = "recovering" /\ lane.op = "boot" /\ lane.pc = "slots" /\ mem = disk /\ p \in lane.chosen
      /\ UNCHANGED <<sup, delivered, cutShort>> /\ MoveSlot(p, "terminal_unacknowledged", ok) /\ StoresOK
  BY Typed DEF InterruptSlot, Booting, At, SoundOK, WritersInv
<1>2. \A q \in Procs : (q \in lane.chosen => Interrupted(q)) /\ (q \notin lane.chosen => Settled(q))
  BY <1>1, NobodyWorks DEF BootShape
<1>3. Interrupted(p) /\ disk.ledger[p] = "active"
  BY <1>1, <1>2 DEF Interrupted, Entry
<1>4. SlotPut(p, "terminal_unacknowledged", ok)
  BY <1>1, <1>3, MovesSlot DEF SlotStates, CanMove, Slot
<1>5. ok /\ Wrote(p, disk.journal[p].admit, disk.journal[p].release, "terminal_unacknowledged", OnDisk(p))
  BY <1>1, <1>4, SoundSlot
<1>6. /\ lane'.pc = "slots" /\ lane'.chosen = lane.chosen \ {p} /\ phase' = phase
  <2>1. lane' = [lane EXCEPT !.chosen = lane.chosen \ {p}] /\ phase' = phase
    BY <1>5 DEF InterruptSlot
  <2>2. /\ lane \in Lanes /\ lane.pc \in Steps(lane.op) /\ lane.proc \in Procs \cup {NoProc}
        /\ lane.chosen \ {p} \in SUBSET Procs
    BY Typed DEF WritersInv
  <2> QED
    BY <1>1, <2>1, <2>2, LaneMoves
<1>7. Ended(p)' /\ HasEnded(p)'
  BY <1>3, <1>5 DEF Interrupted, Ended, HasEnded, Entry, Wrote
<1>8. ASSUME NEW q \in Procs
      PROVE  /\ sup'[q] \in {"new", "gone"} /\ Weak(q)' /\ BootShape(q)' /\ Told(q)'
             /\ sup'[q] = "new" => Nothing(q)'
             /\ Safe(q)'
  <2>1. CASE q = p
    <3>1. Settled(q)'
      BY <1>7, <2>1 DEF Settled
    <3>2. Weak(q)' /\ Safe(q)' /\ BootShape(q)'
      BY <1>6, <2>1, <3>1, OrderNext DEF BootShape
    <3>3. sup[q] # "new"
      BY <1>1, <1>3, <2>1, NobodyWorks, Tells DEF Terminal
    <3> QED
      BY <1>1, <1>7, <2>1, <3>2, <3>3, NobodyWorks DEF HasEnded, Told
  <2>2. CASE q # p
    <3>1. Same(q)
      BY <1>5, <2>2 DEF Wrote, Elsewhere
    <3>2. (q \in lane'.chosen => Interrupted(q)') /\ (q \notin lane'.chosen => Settled(q)')
      BY <1>2, <1>6, <2>2, <3>1, SameShape, SameSteps
    <3>3. Weak(q)' /\ Safe(q)' /\ BootShape(q)'
      BY <1>6, <3>2, OrderNext DEF BootShape
    <3> QED
      BY <1>1, <3>1, <3>3, NobodyWorks, SameShape DEF Told, Announced
  <2> QED
    BY <2>1, <2>2
<1> QED
  BY <1>1, <1>5, <1>6, <1>8, BootIsSound DEF Wrote

(* The last part of a startup: every process is settled.                    *)
LEMMA SettlingIsSound ==
  ASSUME SoundNow, phase = "recovering", phase' = "recovering", mem' = disk',
         UNCHANGED <<sup, delivered, cutShort>>,
         \A q \in Procs : Settled(q) /\ (Same(q) \/ (Released(q) /\ Nothing(q)')),
         WritersInv,
         lane'.pc \in {"tombstones", "expire", "select", "remove", "delete"},
         lane'.pc \in {"remove", "delete"} => \A q \in lane'.chosen : Released(q)'
  PROVE  SoundOK'
<1>1. ASSUME NEW q \in Procs
      PROVE  /\ sup'[q] \in {"new", "gone"} /\ Weak(q)' /\ BootShape(q)' /\ Told(q)'
             /\ sup'[q] = "new" => Nothing(q)'
             /\ Safe(q)'
  <2>1. sup[q] \in {"new", "gone"}
    BY NobodyWorks
  <2>2. Settled(q)' /\ (sup'[q] = "new" => Nothing(q)') /\ Told(q)'
    BY <2>1, RetentionKeeps
  <2> QED
    BY <2>1, <2>2, OrderNext DEF BootShape
<1> QED
  BY <1>1, BootIsSound

LEMMA SoundInterruptions ==
  ASSUME WritersInv, SoundNow, ProcessesInterrupted PROVE SoundOK'
<1>1. /\ phase = "recovering" /\ lane.op = "boot" /\ lane.pc = "slots" /\ lane.chosen = {} /\ mem = disk
      /\ UNCHANGED <<sup, delivered, cutShort>>
  BY DEF ProcessesInterrupted, Booting, At, SoundNow, SoundOK
<1>2. \A q \in Procs : Settled(q)
  BY <1>1, NobodyWorks DEF BootShape
<1>3. Bijective(mem)
  BY <1>1, <1>2, RestingIsBijective DEF Resting
<1>4. Goto("tombstones") /\ phase' = phase /\ Keep
  BY <1>3 DEF ProcessesInterrupted
<1>5. lane'.pc = "tombstones"
  <2>1. lane \in Lanes /\ "tombstones" \in Steps("boot")
    BY Typed, StepSets DEF BootSteps, WritersInv
  <2> QED
    BY <1>1, <1>4, <2>1, GoesOn DEF GoOn, OnLane
<1>6. mem' = disk' /\ \A q \in Procs : Same(q)
  BY <1>1, <1>4, NothingWritten
<1> QED
  BY <1>1, <1>2, <1>4, <1>5, <1>6, SettlingIsSound

LEMMA SoundTombstones ==
  ASSUME WritersInv, SoundNow, RecoverTombstones PROVE SoundOK'
<1>1. /\ phase = "recovering" /\ lane.op = "boot" /\ lane.pc = "tombstones" /\ mem = disk
      /\ UNCHANGED <<sup, delivered, cutShort>> /\ Keep /\ Goto("expire") /\ phase' = phase
  BY DEF RecoverTombstones, Booting, At, SoundNow, SoundOK, Keep
<1>2. lane'.pc = "expire"
  <2>1. lane \in Lanes /\ "expire" \in Steps("boot")
    BY Typed, StepSets DEF BootSteps, WritersInv
  <2> QED
    BY <1>1, <2>1, GoesOn DEF GoOn, OnLane
<1>3. \A q \in Procs : Settled(q)
  BY <1>1, NobodyWorks DEF BootShape
<1>4. mem' = disk' /\ \A q \in Procs : Same(q)
  BY <1>1, NothingWritten
<1> QED
  BY <1>1, <1>2, <1>3, <1>4, SettlingIsSound

LEMMA SoundExpiryWrites ==
  ASSUME WritersInv, SoundNow, NEW ok \in BOOLEAN, ExpireTombstones(ok)
  PROVE  /\ phase = "recovering" /\ lane.op = "boot" /\ GoOn("select", ok) /\ UNCHANGED <<sup, delivered, cutShort>>
         /\ ok /\ mem' = disk'
         /\ \A q \in Procs : Settled(q) /\ (Same(q) \/ (Released(q) /\ Nothing(q)'))
<1> USE DEF SoundNow
<1> DEFINE dead == mem.authority.tombstones
           r == [p \in Procs |-> IF p \in dead THEN NoRecord ELSE Rec(p)]
           a == [records |-> r, tombstones |-> {}]
<1>1. /\ phase = "recovering" /\ lane.op = "boot" /\ lane.pc = "expire" /\ mem = disk
      /\ UNCHANGED <<sup, delivered, cutShort>> /\ GoOn("select", ok)
      /\ (Keep /\ ok) \/ PutAuthority(a, ok)
  BY DEF ExpireTombstones, Booting, At, SoundOK
<1>2. /\ StoresOK /\ \A q \in Procs : /\ Rec(q) = OnDisk(q) /\ ValidRecord(Rec(q)) /\ Rec(q) \in Record
                                      /\ q \in dead => Rank(OnDisk(q)) \in {0, 5}
  BY <1>1, Typed, StoreFields DEF WritersInv, RecordsOK, Rec, OnDisk, ValidAuthority, StoresOK
<1>3. \A q \in Procs : Settled(q)
  BY <1>1, NobodyWorks DEF BootShape
<1>4. \A q \in Procs : q \in dead => Nothing(q) \/ Released(q)
  <2> SUFFICES ASSUME NEW q \in Procs, q \in dead PROVE Nothing(q) \/ Released(q)
    OBVIOUS
  <2>1. Rank(OnDisk(q)) \in {0, 5} /\ OnDisk(q) \in Record
    BY <1>2
  <2>2. Ended(q) => Rank(OnDisk(q)) = 3
    BY <2>1, Ranks, Tells
  <2> QED
    BY <1>3, <2>1, <2>2 DEF Settled
<1>5. /\ ok /\ mem' = disk'
      /\ \A q \in Procs : Same(q) \/ (Released(q) /\ Nothing(q)')
  <2>1. CASE Keep /\ ok
    BY <1>1, <2>1, NothingWritten
  <2>2. CASE PutAuthority(a, ok)
    <3>1. r \in [Procs -> Record] /\ \A q \in Procs : r[q] = IF q \in dead THEN NoRecord ELSE Rec(q)
      BY <1>2, NoRecords
    <3> HIDE DEF r
    <3>2. a \in AuthorityTable /\ a.records = r
      BY <3>1 DEF AuthorityTable
    <3> HIDE DEF a
    <3>3. \A q \in Procs : ValidRecord(a.records[q])
      BY <1>2, <3>1, <3>2, NoRecords DEF ValidRecord
    <3>4. /\ ok /\ mem' = disk' /\ disk'.authority = a
          /\ disk'.journal = disk.journal /\ disk'.ledger = disk.ledger
      BY <1>1, <1>2, <2>2, <3>2, <3>3, PutsAuthority, SoundAuthority
    <3>5. ASSUME NEW q \in Procs PROVE Same(q) \/ (Released(q) /\ Nothing(q)')
      <4>1. OnDisk(q)' = IF q \in dead THEN NoRecord ELSE OnDisk(q)
        BY <1>2, <3>1, <3>2, <3>4 DEF OnDisk
      <4>2. CASE q \notin dead
        BY <3>4, <4>1, <4>2 DEF Same
      <4>3. CASE q \in dead /\ Nothing(q)
        BY <3>4, <4>1, <4>3 DEF Same, Nothing, Missing
      <4>4. CASE q \in dead /\ Released(q)
        BY <3>4, <4>1, <4>4 DEF Released, Nothing, Missing, Entry
      <4> QED
        BY <1>4, <4>2, <4>3, <4>4
    <3> QED
      BY <3>4, <3>5
  <2> QED
    BY <1>1, <2>1, <2>2
<1> HIDE DEF a, r, dead
<1> QED
  BY <1>1, <1>3, <1>5

LEMMA SoundExpiry ==
  ASSUME WritersInv, SoundNow, NEW ok \in BOOLEAN, ExpireTombstones(ok) PROVE SoundOK'
<1>1. /\ phase = "recovering" /\ lane.op = "boot" /\ GoOn("select", ok) /\ UNCHANGED <<sup, delivered, cutShort>>
      /\ ok /\ mem' = disk'
      /\ \A q \in Procs : Settled(q) /\ (Same(q) \/ (Released(q) /\ Nothing(q)'))
  BY SoundExpiryWrites
<1>2. lane'.pc = "select" /\ phase' = "recovering"
  <2>1. lane \in Lanes /\ "select" \in Steps("boot")
    BY Typed, StepSets, Plans DEF WritersInv
  <2> QED
    BY <1>1, <2>1, GoesOn DEF OnLane
<1> QED
  BY <1>1, <1>2, SettlingIsSound

LEMMA SoundBootRetention ==
  ASSUME WritersInv, SoundNow, NEW ok \in BOOLEAN, BootRetention(ok) PROVE SoundOK'
<1>1. /\ phase = "recovering" /\ lane.op = "boot" /\ Retain(ok) /\ UNCHANGED <<sup, delivered, cutShort>>
      /\ phase' = IF lane' # FreeLane THEN phase ELSE IF ok THEN "up" ELSE "stopped"
      /\ mem = disk
  BY DEF BootRetention, SoundNow, SoundOK
<1>2. /\ lane.pc \in DOMAIN RetentionPlan
      /\ LetGo \/ (OnLane(lane'.pc, lane'.chosen) /\ lane'.pc \in {"remove", "delete"})
  BY <1>1, RetentionLane DEF WritersInv, OnLane
<1>3. \A q \in Procs : Settled(q) /\ sup[q] \in {"new", "gone"}
  BY <1>1, <1>2, NobodyWorks, Plans DEF BootShape
<1>4. \A q \in Retainable : Released(q)
  <2> SUFFICES ASSUME NEW q \in Retainable PROVE Released(q)
    OBVIOUS
  <2>1. /\ q \in Procs /\ OnDisk(q).state # "absent" /\ OnDisk(q).res = "none" /\ ~ OnDisk(q).event
    BY <1>1 DEF Retainable, Rec, OnDisk
  <2> QED
    BY <1>3, <2>1, Tells DEF Settled
<1>5. /\ ok /\ mem' = disk'
      /\ \A q \in Procs : Same(q) \/ (Released(q) /\ Nothing(q)')
      /\ lane'.pc \in {"remove", "delete"} => \A q \in lane'.chosen : Released(q)'
  BY <1>1, <1>4, RetentionWrites
<1>6. CASE LetGo
  <2>1. phase' = "up" /\ lane'.op = "none" /\ lane'.pc = "idle"
    BY <1>1, <1>5, <1>6, FreeLanes DEF LetGo
  <2>2. ASSUME NEW q \in Procs
        PROVE  /\ UpShape(q)'
               /\ sup'[q] = "new" => Nothing(q)'
               /\ sup'[q] \in Spawned => Live(q)'
               /\ Told(q)'
    <3>1. Settled(q)' /\ (sup'[q] = "new" => Nothing(q)') /\ Told(q)'
      BY <1>1, <1>3, <1>5, RetentionKeeps
    <3>2. UpShape(q)'
      BY <2>1, <3>1 DEF UpShape, Resting, Writers
    <3> QED
      BY <1>1, <1>3, <3>1, <3>2 DEF Spawned
  <2> QED
    BY <1>5, <2>1, <2>2, UpIsSound
<1>7. CASE ~ LetGo
  <2>1. phase' = "recovering" /\ lane'.pc \in {"remove", "delete"}
    BY <1>1, <1>2, <1>7 DEF LetGo
  <2> QED
    BY <1>1, <1>3, <1>5, <2>1, SettlingIsSound
<1> QED
  BY <1>6, <1>7

LEMMA SoundCrash ==
  ASSUME WritersInv, SoundNow, Crash PROVE SoundOK'
<1>1. /\ phase # "down" /\ phase' = "down" /\ mem' = EmptyStores /\ lane' = FreeLane /\ disk' = disk
      /\ sup' = [p \in Procs |-> IF sup[p] = "new" THEN "new" ELSE "gone"]
      /\ cutShort' = (cutShort \/ phase \in {"recovering", "stopped"})
      /\ delivered' = delivered
  BY DEF Crash
<1>2. lane'.pc = "idle" /\ phase \in Phases
  BY <1>1, FreeLanes DEF WritersInv, TypeOK
<1>3. ASSUME NEW q \in Procs
      PROVE  /\ sup'[q] \in {"new", "gone"} /\ Weak(q)' /\ Told(q)'
             /\ sup'[q] = "new" => Nothing(q)'
             /\ ~ cutShort' => Safe(q)'
  <2>1. Same(q) /\ sup'[q] \in {"new", "gone"} /\ (sup'[q] = "new" <=> sup[q] = "new")
    BY <1>1 DEF Same, OnDisk
  <2>2. Weak(q) /\ Told(q) /\ (sup[q] = "new" => Nothing(q))
    BY DEF SoundNow, SoundOK, Told
  <2>3. ~ cutShort' => Safe(q)
    <3>1. ~ cutShort' => phase = "up"
      BY <1>1, <1>2 DEF Phases, SoundNow, SoundOK
    <3>2. phase = "up" => UpShape(q)
      BY DEF SoundNow, SoundOK
    <3> QED
      BY <3>1, <3>2, Order
  <2> QED
    BY <1>1, <2>1, <2>2, <2>3, SameShape, SameSteps DEF Told, Announced
<1> QED
  BY <1>1, <1>2, <1>3 DEF SoundOK, Told

LEMMA SoundStutter ==
  ASSUME SoundNow, UNCHANGED vars PROVE SoundOK'
<1>1. /\ mem' = mem /\ disk' = disk /\ phase' = phase /\ lane' = lane /\ sup' = sup
      /\ delivered' = delivered /\ cutShort' = cutShort
  BY DEF vars
<1>2. ASSUME NEW q \in Procs
      PROVE  /\ Weak(q)' <=> Weak(q)
             /\ Safe(q)' <=> Safe(q)
             /\ Nothing(q)' <=> Nothing(q)
             /\ Live(q)' <=> Live(q)
             /\ Released(q)' <=> Released(q)
             /\ UpShape(q)' <=> UpShape(q)
             /\ BootShape(q)' <=> BootShape(q)
             /\ Recovered(q)' <=> Recovered(q)
             /\ Told(q)' <=> Told(q)
  <2>1. Same(q)
    BY <1>1 DEF Same, OnDisk
  <2>2. UpShape(q)' <=> UpShape(q)
    BY <1>1, <2>1, SameSteps DEF UpShape
  <2>3. BootShape(q)' <=> BootShape(q)
    BY <1>1, <2>1, SameShape, SameSteps DEF BootShape
  <2>4. Told(q)' <=> Told(q)
    BY <1>1, <2>1, SameShape DEF Told, Announced
  <2> QED
    BY <1>1, <2>1, <2>2, <2>3, <2>4, SameShape, SameSteps DEF Recovered
<1>3. lane.pc \in {"remove", "delete"} => \A q \in lane'.chosen : Released(q)'
  <2> SUFFICES ASSUME lane.pc \in {"remove", "delete"}, NEW q \in lane.chosen PROVE Released(q)'
    BY <1>1
  <2>1. Released(q) /\ Same(q)
    BY <1>1 DEF SoundNow, SoundOK, Same, OnDisk
  <2> QED
    BY <2>1, SameShape
<1> QED
  BY <1>1, <1>2, <1>3 DEF SoundNow, SoundOK, Told

-----------------------------------------------------------------------------
LEMMA StartsSound ==
  ASSUME Init PROVE SoundOK
<1>1. /\ mem = EmptyStores /\ disk = EmptyStores /\ phase = "up" /\ lane.pc = "idle" /\ lane.op = "none"
      /\ \A p \in Procs : sup[p] = "new" /\ delivered[p] = "none"
  BY FreeLanes DEF Init
<1>2. \A p \in Procs : Nothing(p)
  BY <1>1, Empty DEF Nothing, Entry, Missing, OnDisk
<1>3. \A p \in Procs : UpShape(p) /\ Weak(p)
  <2>1. \A p \in Procs : UpShape(p)
    BY <1>1, <1>2 DEF UpShape, Resting, Settled, Writers
  <2> QED
    BY <2>1, Order
<1> QED
  BY <1>1, <1>2, <1>3 DEF SoundOK, Announced

LEMMA StepsAreSound ==
  ASSUME WritersInv, SoundNow, [Next]_vars PROVE SoundOK'
<1>1. ASSUME NEW p \in Procs, SupervisorStep(p) PROVE SoundOK'
  <2>1. CASE Reserve(p)
    BY <2>1, SoundReserve
  <2>2. CASE OpenLog(p) \/ FailBeforeSpawn(p) \/ Exit(p)
    BY <2>2, SoundQuietSupervisor
  <2>3. CASE MarkTerminal(p)
    BY <2>3, SoundMarkTerminal
  <2>4. ASSUME NEW ok \in BOOLEAN, AdmitProcess(p, ok) \/ MarkRunning(p, ok) \/ RecordTerminal(p, ok)
        PROVE  SoundOK'
    BY <2>4, SoundAdmission, SoundMarkRunning, SoundTerminal
  <2> QED
    BY <1>1, <2>1, <2>2, <2>3, <2>4 DEF SupervisorStep
<1>2. ASSUME OutboxStep PROVE SoundOK'
  <2>1. ASSUME NEW p \in Procs, Deliver(p) \/ DeliveryFails(p) \/ AcknowledgeTerminal(p) PROVE SoundOK'
    BY <2>1, SoundDelivery, SoundAcknowledgement
  <2>2. ASSUME NEW p \in Procs, NEW ok \in BOOLEAN, ReleaseStep(p, ok) PROVE SoundOK'
    BY <2>2, SoundRelease
  <2> QED
    BY <1>2, <2>1, <2>2, SoundCollect DEF OutboxStep
<1>3. ASSUME BootStep PROVE SoundOK'
  <2>1. ASSUME NEW ok \in BOOLEAN, InterruptProcesses(ok) \/ ExpireTombstones(ok) \/ BootRetention(ok)
        PROVE  SoundOK'
    BY <2>1, SoundInterruption, SoundExpiry, SoundBootRetention
  <2>2. ASSUME NEW p \in Procs, NEW ok \in BOOLEAN,
               RecoverRelease(p, ok) \/ RecoverAdmission(p, ok) \/ InterruptSlot(p, ok)
        PROVE  SoundOK'
    BY <2>2, SoundReleaseRecovery, SoundAdmissionRecovery, SoundInterruptedSlot
  <2> QED
    BY <1>3, <2>1, <2>2, SoundLoad, SoundOperations, SoundInterruptions, SoundTombstones, SoundOperation
       DEF BootStep
<1> QED
  BY <1>1, <1>2, <1>3, SoundCrash, SoundStutter DEF Next

LEMMA StorageStays ==
  ASSUME [Next]_vars PROVE storage' = storage
<1>1. ASSUME NEW p \in Procs, SupervisorStep(p) PROVE storage' = storage
  BY <1>1 DEF SupervisorStep, Reserve, OpenLog, FailBeforeSpawn, Exit, MarkTerminal, AdmitProcess, MarkRunning,
              RecordTerminal
<1>2. OutboxStep => storage' = storage
  BY DEF OutboxStep, CollectEvents, Deliver, DeliveryFails, AcknowledgeTerminal, ReleaseStep
<1>3. BootStep => storage' = storage
  BY ZenonT(60) DEF BootStep, Load, OperationsRecovered, ProcessesInterrupted, RecoverTombstones, InterruptProcesses,
         ExpireTombstones, BootRetention, RecoverOperation, RecoverRelease, RecoverAdmission, InterruptSlot
<1>4. Crash \/ UNCHANGED vars => storage' = storage
  BY DEF Crash, vars
<1> QED
  BY <1>1, <1>2, <1>3, <1>4 DEF Next

(* The invariant of the process files where saves succeed: between any two  *)
(* writes, of an operation or of a recovery, the three entries of a process *)
(* are a combination that the next startup completes or knows to refuse.    *)
THEOREM ProcessFilesKeepTheirInvariant == Spec => []ProcessInv
<1>1. Init => ProcessInv
  BY StartsWell, StartsSound DEF ProcessInv, SoundInv
<1>2. ProcessInv /\ [Next]_vars => ProcessInv'
  BY StepsKeep, StepsAreSound, StorageStays DEF ProcessInv, SoundInv, SoundNow, Kept
<1> QED
  BY <1>1, <1>2, PTL DEF Spec

(* validateProjectBijection holds whenever the lane is free, no save of the *)
(* authority is ever refused, and recoverProjectLocked refuses the files    *)
(* only if an earlier startup was itself cut short, wherever else the       *)
(* process died: where saves succeed.                                       *)
THEOREM RecordsAlwaysAgree == Spec => []RecordsAgree
<1>1. ProcessInv => RecordsAgree
  <2> SUFFICES ASSUME ProcessInv, storage = "sound" PROVE RecordsAgree
    BY DEF RecordsAgree, RefusedOnlyAfterCutShort, FilesAgreeAtRest, MemoryStaysValid
  <2>1. SoundOK /\ WritersInv
    BY DEF ProcessInv, SoundInv
  <2>2. RefusedOnlyAfterCutShort
    BY <2>1 DEF SoundOK, RefusedOnlyAfterCutShort
  <2>3. FilesAgreeAtRest
    <3> SUFFICES ASSUME phase = "up", lane = FreeLane PROVE Bijective(mem) /\ mem = disk
      BY DEF FilesAgreeAtRest
    <3>1. mem = disk /\ \A p \in Procs : Resting(p)
      BY <2>1, FreeLanes DEF SoundOK, UpShape, Writers
    <3> QED
      BY <3>1, RestingIsBijective
  <2>4. MemoryStaysValid
    <3>1. CASE phase = "down"
      BY <2>1, <3>1, Empty, NoRecords DEF SoundOK, MemoryStaysValid, ValidAuthority, ValidRecord
    <3>2. CASE phase # "down"
      BY <2>1, <3>2 DEF SoundOK, MemoryStaysValid, WritersInv, RecordsOK
    <3> QED
      BY <3>1, <3>2
  <2> QED
    BY <2>2, <2>3, <2>4 DEF RecordsAgree
<1> QED
  BY <1>1, ProcessFilesKeepTheirInvariant, PTL

-----------------------------------------------------------------------------
(* Where saves succeed, the files implement ProcessLife.                    *)

Lives == [p \in Procs |-> IF storage = "sound" THEN LifeOf(p) ELSE "unknown"]

LEMMA LifeValues ==
  ASSUME NEW p
  PROVE  /\ OnDisk(p).state = "absent" /\ ~ Announced(p) => LifeOf(p) = "unknown"
         /\ OnDisk(p).state = "absent" /\ Announced(p) => LifeOf(p) = "released"
         /\ OnDisk(p).state \in {"starting", "running"} => LifeOf(p) = "live"
         /\ Terminal(OnDisk(p).state) /\ OnDisk(p).res # "none" /\ ~ Announced(p) => LifeOf(p) = "ended"
         /\ Terminal(OnDisk(p).state) /\ OnDisk(p).res # "none" /\ Announced(p) => LifeOf(p) = "announced"
         /\ Terminal(OnDisk(p).state) /\ OnDisk(p).res = "none" => LifeOf(p) = "released"
<1>1. Terminal(OnDisk(p).state) => OnDisk(p).state \notin {"absent", "starting", "running"}
  BY Tells
<1> QED
  BY <1>1 DEF LifeOf, OnDisk, Announced

LEMMA LifeValuesNext ==
  \A p : /\ (OnDisk(p).state)' = "absent" /\ ~ Announced(p)' => LifeOf(p)' = "unknown"
         /\ (OnDisk(p).state)' = "absent" /\ Announced(p)' => LifeOf(p)' = "released"
         /\ (OnDisk(p).state)' \in {"starting", "running"} => LifeOf(p)' = "live"
         /\ Terminal(OnDisk(p).state)' /\ (OnDisk(p).res)' # "none" /\ ~ Announced(p)' => LifeOf(p)' = "ended"
         /\ Terminal(OnDisk(p).state)' /\ (OnDisk(p).res)' # "none" /\ Announced(p)' => LifeOf(p)' = "announced"
         /\ Terminal(OnDisk(p).state)' /\ (OnDisk(p).res)' = "none" => LifeOf(p)' = "released"
<1>1. \A p : /\ OnDisk(p).state = "absent" /\ ~ Announced(p) => LifeOf(p) = "unknown"
             /\ OnDisk(p).state = "absent" /\ Announced(p) => LifeOf(p) = "released"
             /\ OnDisk(p).state \in {"starting", "running"} => LifeOf(p) = "live"
             /\ Terminal(OnDisk(p).state) /\ OnDisk(p).res # "none" /\ ~ Announced(p) => LifeOf(p) = "ended"
             /\ Terminal(OnDisk(p).state) /\ OnDisk(p).res # "none" /\ Announced(p) => LifeOf(p) = "announced"
             /\ Terminal(OnDisk(p).state) /\ OnDisk(p).res = "none" => LifeOf(p) = "released"
  BY LifeValues
<1>2. (\A p : /\ OnDisk(p).state = "absent" /\ ~ Announced(p) => LifeOf(p) = "unknown"
              /\ OnDisk(p).state = "absent" /\ Announced(p) => LifeOf(p) = "released"
              /\ OnDisk(p).state \in {"starting", "running"} => LifeOf(p) = "live"
              /\ Terminal(OnDisk(p).state) /\ OnDisk(p).res # "none" /\ ~ Announced(p) => LifeOf(p) = "ended"
              /\ Terminal(OnDisk(p).state) /\ OnDisk(p).res # "none" /\ Announced(p) => LifeOf(p) = "announced"
              /\ Terminal(OnDisk(p).state) /\ OnDisk(p).res = "none" => LifeOf(p) = "released")'
  BY <1>1, PTL
<1> QED
  BY <1>2

(* What a step does to the lives.                                           *)
Goes(p, from, to) == LifeOf(p) = from /\ LifeOf(p)' = to
Moved(p) ==
  \/ LifeOf(p)' = LifeOf(p)
  \/ Goes(p, "unknown", "live") \/ Goes(p, "live", "ended")
  \/ Goes(p, "ended", "announced") \/ Goes(p, "announced", "released")
Restarted(p) == LifeOf(p)' = IF LifeOf(p) = "live" THEN "ended" ELSE LifeOf(p)

LifeStep ==
  \/ \A q \in Procs : Restarted(q)
  \/ \E p \in Procs : Moved(p) /\ \A q \in Procs \ {p} : LifeOf(q)' = LifeOf(q)
  \/ \A q \in Procs : LifeOf(q)' = LifeOf(q)

LEMMA LifeStays ==
  ASSUME NEW q \in Procs, OnDisk(q)' = OnDisk(q), delivered'[q] = delivered[q]
  PROVE  LifeOf(q)' = LifeOf(q)
  BY DEF LifeOf, OnDisk

LEMMA LivesStay ==
  ASSUME disk'.authority = disk.authority, delivered' = delivered
  PROVE  LifeStep
  BY LifeStays DEF OnDisk, LifeStep

(* How the record of a process may change, on a step that is its own.       *)
Succeeds(r, s) ==
  \/ s = r
  \/ r.state = "absent" /\ s.state = "starting"
  \/ r.state \in {"starting", "running"} /\ s.state \in {"starting", "running"}
  \/ r.state \in {"starting", "running"} /\ Terminal(s.state) /\ s.res # "none"
  \/ Terminal(r.state) /\ Terminal(s.state) /\ r.res # "none" /\ (s.res # "none" \/ r.acked)

LEMMA RecordsSucceed ==
  ASSUME WritersInv, SoundNow, mem = disk, NEW p \in Procs, NEW s \in Record, NEW ok \in BOOLEAN,
         RecordPut(p, s, ok), Succeeds(OnDisk(p), s), delivered' = delivered,
         OnDisk(p).state = "absent" => ~ Announced(p)
  PROVE  LifeStep
<1>1. CASE disk' = disk
  BY <1>1, LivesStay
<1>2. CASE disk' # disk
  <2>1. OnDisk(p)' = s /\ \A q \in Procs \ {p} : OnDisk(q)' = OnDisk(q)
    BY <1>2 DEF RecordPut, AuthorityPut, OnDisk, Rec
  <2>2. \A q \in Procs \ {p} : LifeOf(q)' = LifeOf(q)
    BY <2>1, LifeStays
  <2>3. Moved(p)
    <3>1. CASE s = OnDisk(p)
      BY <2>1, <3>1, LifeStays DEF Moved
    <3>2. Announced(p)' <=> Announced(p)
      BY DEF Announced
    <3>3. Told(p) /\ Terminal(OnDisk(p).state)' = Terminal(s.state) /\ (OnDisk(p).state)' = s.state
          /\ (OnDisk(p).res)' = s.res
      BY <2>1 DEF SoundNow, SoundOK, Told
    <3>4. CASE OnDisk(p).state = "absent" /\ s.state = "starting"
      BY <3>2, <3>3, <3>4, LifeValues, LifeValuesNext DEF Moved, Goes
    <3>5. CASE OnDisk(p).state \in {"starting", "running"} /\ s.state \in {"starting", "running"}
      BY <3>2, <3>3, <3>5, LifeValues, LifeValuesNext DEF Moved
    <3>6. CASE OnDisk(p).state \in {"starting", "running"} /\ Terminal(s.state) /\ s.res # "none"
      <4>1. ~ Announced(p)
        BY <3>3, <3>6, NoRecords DEF Told, Missing, Terminal
      <4> QED
        BY <3>2, <3>3, <3>6, <4>1, LifeValues, LifeValuesNext DEF Moved, Goes
    <3>7. CASE /\ Terminal(OnDisk(p).state) /\ Terminal(s.state) /\ OnDisk(p).res # "none"
               /\ s.res # "none" \/ OnDisk(p).acked
      <4>1. OnDisk(p).acked => Announced(p)
        BY DEF WritersInv, AnnouncedOK, Says, OnDisk
      <4>2. CASE s.res # "none"
        BY <3>2, <3>3, <3>7, <4>2, LifeValues, LifeValuesNext DEF Moved, Goes
      <4>3. CASE s.res = "none"
        BY <3>2, <3>3, <3>7, <4>1, <4>3, LifeValues, LifeValuesNext DEF Moved, Goes
      <4> QED
        BY <4>2, <4>3
    <3> QED
      BY <3>1, <3>4, <3>5, <3>6, <3>7 DEF Succeeds
  <2> QED
    BY <2>2, <2>3 DEF LifeStep
<1> QED
  BY <1>1, <1>2

(* A write to the journal or to the ledger moves no record.                 *)
LEMMA OtherWrites ==
  ASSUME NEW p, NEW a, NEW b, NEW ok, JournalPut(p, a, b, ok) \/ SlotPut(p, a, ok) \/ Keep,
         delivered' = delivered
  PROVE  LifeStep
<1>1. disk'.authority = disk.authority
  BY DEF JournalPut, JournalLeft, SlotPut, LedgerLeft, Keep
<1> QED
  BY <1>1, LivesStay

(* What the steps that write one record need to know.                       *)
LEMMA BeforeAWrite ==
  ASSUME WritersInv, SoundNow, phase # "down"
  PROVE  /\ StoresOK /\ mem = disk
         /\ \A q \in Procs : Plausible(Rec(q)) /\ Rec(q) = OnDisk(q) /\ Told(q) /\ Rec(q) \in Record
         /\ \A q \in Procs : Terminal(OnDisk(q).state) => OnDisk(q).event \/ OnDisk(q).acked
<1>1. StoresOK /\ mem = disk /\ \A q \in Procs : Plausible(Rec(q)) /\ Rec(q) = OnDisk(q) /\ Told(q)
  BY Typed DEF WritersInv, RecordsOK, SoundNow, SoundOK, Rec, OnDisk, Told
<1>2. \A q \in Procs : Rec(q) \in Record
  BY <1>1, StoreFields DEF Rec, StoresOK
<1> QED
  BY <1>1, <1>2 DEF Plausible

LEMMA ReservationLives ==
  ASSUME WritersInv, SoundNow, phase # "down", NEW p \in Procs, NEW slot \in SlotStates \ {"none"},
         NEW ok \in BOOLEAN, Rec(p).state \in {"starting", "running"} => slot \in {"allocating", "active"},
         PutReservation(p, slot, ok), delivered' = delivered
  PROVE  LifeStep
<1>1. /\ StoresOK /\ mem = disk /\ Plausible(Rec(p)) /\ Rec(p) = OnDisk(p) /\ Told(p) /\ Rec(p) \in Record
  BY BeforeAWrite
<1>2. CASE Keep
  BY <1>2, OtherWrites
<1>3. CASE Rec(p).res # "none" /\ SetsReservation(p, slot, ok)
  <2>1. PICK s \in Record : RecordPut(p, s, ok) /\ s = [state |-> Rec(p).state, res |-> slot,
                                                        event |-> Rec(p).event, acked |-> Rec(p).acked]
    BY <1>3 DEF SetsReservation
  <2>2. OnDisk(p).state # "absent"
    BY <1>1, <1>3, NoRecords DEF Plausible
  <2>3. s.state = OnDisk(p).state /\ s.res # "none"
    BY <1>1, <2>1
  <2>4. OnDisk(p).state \in {"starting", "running"} \/ Terminal(OnDisk(p).state)
    BY <1>1, <2>2, Ranks
  <2>5. Succeeds(OnDisk(p), s)
    BY <1>1, <1>3, <2>3, <2>4 DEF Succeeds
  <2> QED
    BY <1>1, <2>1, <2>2, <2>5, RecordsSucceed
<1> QED
  BY <1>1, <1>2, <1>3, PutsReservation

LEMMA SlotLives ==
  ASSUME WritersInv, SoundNow, phase # "down", NEW p \in Procs, NEW slot \in SlotStates, NEW ok \in BOOLEAN,
         delivered' = delivered, MoveSlot(p, slot, ok) \/ PutSlot(p, slot, ok) \/ FreeSlot(p, ok) \/ Allocate(p, ok)
  PROVE  LifeStep
<1>1. StoresOK
  BY BeforeAWrite
<1>2. Keep \/ \E st : SlotPut(p, st, ok)
  BY <1>1, MovesSlot, PutsSlot, FreesSlot, Allocates
<1> QED
  BY <1>2, OtherWrites

LEMMA JournalLives ==
  ASSUME WritersInv, SoundNow, phase # "down", NEW p \in Procs, NEW ok \in BOOLEAN, delivered' = delivered,
         \/ \E st \in AdmitStates : PutAdmission(p, st, ok)
         \/ \E st \in ReleaseStates : PutRelease(p, st, ok)
  PROVE  LifeStep
<1>1. StoresOK
  BY BeforeAWrite
<1>2. \E a, b : JournalPut(p, a, b, ok)
  BY <1>1, PutsAdmission, PutsRelease
<1> QED
  BY <1>2, OtherWrites

LEMMA AdmissionLives ==
  ASSUME WritersInv, SoundNow, NEW p \in Procs, NEW ok \in BOOLEAN, AdmitProcess(p, ok) PROVE LifeStep
<1>1. lane.op = "admit" /\ lane.proc = p /\ phase = "up" /\ delivered' = delivered /\ sup[p] = "admitting"
  BY DEF AdmitProcess, WritersInv, LaneOK, Writers
<1>2. /\ StoresOK /\ mem = disk /\ Plausible(Rec(p)) /\ Rec(p) = OnDisk(p) /\ Told(p) /\ Rec(p) \in Record
  BY <1>1, BeforeAWrite
<1>3. CASE /\ lane.pc \in {"intent", "token_selected", "allocated", "authority_saved", "active", "committed"}
           /\ PutAdmission(p, lane.pc, ok)
  BY <1>1, <1>3, JournalLives DEF AdmitStates
<1>4. CASE Allocate(p, ok) \/ MoveSlot(p, "active", ok)
  BY <1>1, <1>4, SlotLives DEF SlotStates
<1>5. CASE PutReservation(p, "active", ok)
  BY <1>1, <1>5, ReservationLives DEF SlotStates
<1>6. CASE CreateRecord(p, ok)
  <2>1. CASE Rec(p).state = "absent"
    <3>1. RecordPut(p, NewRecord, ok)
      BY <1>2, <1>6, <2>1, CreatesRecord
    <3>2. Succeeds(OnDisk(p), NewRecord) /\ NewRecord \in Record
      BY <1>2, <2>1, NewRecords DEF Succeeds
    <3>3. ~ Announced(p)
      BY <1>1, <1>2, <2>1 DEF Told, Terminal
    <3> QED
      BY <1>1, <1>2, <3>1, <3>2, <3>3, RecordsSucceed
  <2>2. CASE Rec(p).state # "absent"
    BY <1>1, <1>6, <2>2, OtherWrites DEF CreateRecord
  <2> QED
    BY <2>1, <2>2
<1> QED
  BY <1>3, <1>4, <1>5, <1>6 DEF AdmitProcess

LEMMA RunningLives ==
  ASSUME WritersInv, SoundNow, NEW p \in Procs, NEW ok \in BOOLEAN, MarkRunning(p, ok) PROVE LifeStep
<1>1. RunningRecorded(p, ok) /\ phase = "up" /\ delivered' = delivered
  BY DEF MarkRunning, RunningRecorded
<1>2. /\ StoresOK /\ mem = disk /\ Plausible(Rec(p)) /\ Rec(p) = OnDisk(p)
  BY <1>1, BeforeAWrite
<1>3. CASE Rec(p).state \in {"starting", "running"} /\ SetsRunning(p, ok)
  <2>1. PICK s \in Record : RecordPut(p, s, ok) /\ s = [state |-> "running", res |-> Rec(p).res,
                                                        event |-> Rec(p).event, acked |-> Rec(p).acked]
    BY <1>3 DEF SetsRunning
  <2>2. Succeeds(OnDisk(p), s)
    BY <1>2, <1>3, <2>1 DEF Succeeds
  <2> QED
    BY <1>1, <1>2, <1>3, <2>1, <2>2, RecordsSucceed
<1>4. CASE Keep
  BY <1>1, <1>4, OtherWrites
<1> QED
  BY <1>1, <1>2, <1>3, <1>4, RecordsRunning

LEMMA TerminalLives ==
  ASSUME WritersInv, SoundNow, NEW p \in Procs, NEW ok \in BOOLEAN, RecordTerminal(p, ok) PROVE LifeStep
<1>1. lane.op = "terminal" /\ lane.proc = p /\ phase = "up" /\ delivered' = delivered
  BY DEF RecordTerminal, WritersInv, LaneOK, Writers
<1>2. /\ StoresOK /\ mem = disk /\ Plausible(Rec(p)) /\ Rec(p) = OnDisk(p)
  BY <1>1, BeforeAWrite
<1>3. CASE lane.pc = "record" /\ PersistTerminal(p, ok)
  <2>1. OnDisk(p).state \in {"starting", "running"}
    <3>1. UpShape(p)
      BY <1>1 DEF SoundNow, SoundOK
    <3>2. Live(p)
      BY <1>1, <1>3, <3>1 DEF UpShape, TerminalShape, Writers
    <3> QED
      BY <3>2, Tells
  <2>2. CASE SetsExited(p, ok)
    <3>1. PICK s \in Record : RecordPut(p, s, ok) /\ s = [state |-> "exited", res |-> "terminal_unacknowledged",
                                                          event |-> TRUE, acked |-> Rec(p).acked]
      BY <2>2 DEF SetsExited
    <3>2. Succeeds(OnDisk(p), s)
      BY <2>1, <3>1 DEF Succeeds, Terminal
    <3> QED
      BY <1>1, <1>2, <2>1, <3>1, <3>2, RecordsSucceed
  <2>3. CASE Keep
    BY <1>1, <2>3, OtherWrites
  <2> QED
    BY <1>2, <1>3, <2>2, <2>3, PersistsTerminal
<1>4. CASE MoveSlot(p, "terminal_unacknowledged", ok)
  BY <1>1, <1>4, SlotLives DEF SlotStates
<1>5. CASE lane.pc = "reservation" /\ PutReservation(p, "terminal_unacknowledged", ok)
  <2>1. Terminal(Rec(p).state)
    BY <1>1, <1>5 DEF WritersInv, WorkOK
  <2> QED
    BY <1>1, <1>5, <2>1, ReservationLives DEF SlotStates, Terminal
<1> QED
  BY <1>3, <1>4, <1>5 DEF RecordTerminal

LEMMA ReleaseWriteLives ==
  ASSUME WritersInv, SoundNow, phase # "down", NEW p \in Procs, NEW ok \in BOOLEAN, delivered' = delivered,
         Terminal(Rec(p).state), ReleaseWrite(p, ok)
  PROVE  LifeStep
<1>1. /\ StoresOK /\ mem = disk /\ Plausible(Rec(p)) /\ Rec(p) = OnDisk(p) /\ Rec(p) \in Record
      /\ OnDisk(p).state # "absent" /\ (OnDisk(p).event \/ OnDisk(p).acked)
  BY BeforeAWrite, Tells
<1>2. CASE Acknowledge(p, ok)
  <2>1. CASE Rec(p).event /\ ValidEvent(Rec(p)) /\ SetsAcknowledged(p, ok)
    <3>1. PICK s \in Record : RecordPut(p, s, ok) /\ s = [state |-> Rec(p).state, res |-> Rec(p).res,
                                                          event |-> FALSE, acked |-> TRUE]
      BY <2>1 DEF SetsAcknowledged
    <3>2. Rec(p).res = "terminal_unacknowledged"
      BY <2>1 DEF ValidEvent
    <3>3. Succeeds(OnDisk(p), s)
      BY <1>1, <3>1, <3>2 DEF Succeeds
    <3> QED
      BY <1>1, <3>1, <3>3, RecordsSucceed
  <2>2. CASE Keep
    BY <2>2, OtherWrites
  <2> QED
    BY <1>1, <1>2, <2>1, <2>2, Acknowledges
<1>3. CASE Detach(p, ok)
  <2>1. CASE Rec(p).res = "releasing" /\ ~ Rec(p).event /\ SetsDetached(p, ok)
    <3>1. PICK s \in Record : RecordPut(p, s, ok) /\ s = [state |-> Rec(p).state, res |-> "none",
                                                          event |-> Rec(p).event, acked |-> Rec(p).acked]
      BY <2>1 DEF SetsDetached
    <3>2. Succeeds(OnDisk(p), s)
      BY <1>1, <2>1, <3>1 DEF Succeeds
    <3> QED
      BY <1>1, <3>1, <3>2, RecordsSucceed
  <2>2. CASE Keep
    BY <2>2, OtherWrites
  <2> QED
    BY <1>1, <1>3, <2>1, <2>2, Detaches
<1>4. CASE PutReservation(p, "releasing", ok)
  BY <1>4, ReservationLives DEF SlotStates, Terminal
<1>5. CASE MoveSlot(p, "releasing", ok) \/ FreeSlot(p, ok)
  BY <1>5, SlotLives DEF SlotStates
<1>6. CASE PutAdmission(p, "none", ok) \/ \E st \in ReleaseStates : PutRelease(p, st, ok)
  BY <1>6, JournalLives DEF AdmitStates
<1> QED
  BY <1>2, <1>3, <1>4, <1>5, <1>6 DEF ReleaseWrite

LEMMA RecoveryLives ==
  ASSUME WritersInv, SoundNow, NEW p \in Procs, NEW ok \in BOOLEAN,
         RecoverRelease(p, ok) \/ RecoverAdmission(p, ok) \/ InterruptSlot(p, ok)
  PROVE  LifeStep
<1>1. phase = "recovering" /\ phase # "down" /\ delivered' = delivered
  BY DEF RecoverRelease, RecoverAdmission, InterruptSlot, Booting
<1>2. CASE RecoverRelease(p, ok)
  <2>1. Terminal(Rec(p).state)
    BY <1>2 DEF RecoverRelease, Booting, At, WritersInv, WorkOK
  <2>2. ReleaseWrite(p, ok)
    BY <1>2 DEF RecoverRelease, ReleaseWrite, ReleaseStates
  <2> QED
    BY <1>1, <2>1, <2>2, ReleaseWriteLives
<1>3. CASE RecoverAdmission(p, ok)
  <2>1. StoresOK /\ Rec(p) \in Record /\ Plausible(Rec(p))
    BY <1>1, BeforeAWrite
  <2>2. Target(p) \in SlotStates
    BY <2>1, Ranks DEF Target, SlotStates
  <2>3. CASE \E st \in {"active", "terminal_unacknowledged", Target(p)} : MoveSlot(p, st, ok)
    <3>1. PICK st \in SlotStates : MoveSlot(p, st, ok)
      BY <2>2, <2>3 DEF SlotStates
    <3> QED
      BY <1>1, <3>1, SlotLives
  <2>4. CASE PutSlot(p, "none", ok)
    BY <1>1, <2>4, SlotLives DEF SlotStates
  <2>5. CASE PutAdmission(p, "none", ok) \/ PutAdmission(p, "committed", ok)
    BY <1>1, <2>5, JournalLives DEF AdmitStates
  <2>6. CASE Slot(p) = Target(p) /\ Rec(p).res # Slot(p) /\ PutReservation(p, Slot(p), ok)
    <3>1. Slot(p) = "active"
      BY <2>6 DEF Target
    <3> QED
      BY <1>1, <2>6, <3>1, ReservationLives DEF SlotStates
  <2>7. CASE Keep
    BY <1>1, <2>7, OtherWrites
  <2> DEFINE Writes ==
        \/ \E st \in {"active", "terminal_unacknowledged", Target(p)} : MoveSlot(p, st, ok)
        \/ PutSlot(p, "none", ok)
        \/ PutAdmission(p, "none", ok) \/ PutAdmission(p, "committed", ok)
        \/ Slot(p) = Target(p) /\ Rec(p).res # Slot(p) /\ PutReservation(p, Slot(p), ok)
        \/ Keep
  <2>8. Writes
    BY <1>3, Zenon DEF RecoverAdmission
  <2> QED
    BY <2>3, <2>4, <2>5, <2>6, <2>7, <2>8, Zenon
<1>4. CASE InterruptSlot(p, ok)
  BY <1>1, <1>4, SlotLives DEF InterruptSlot, SlotStates
<1> QED
  BY <1>2, <1>3, <1>4

(* A record that is deleted has been released.                              *)
LEMMA DeletedLives ==
  ASSUME WritersInv, delivered' = delivered,
         \A q \in Procs : Same(q) \/ (Released(q) /\ Nothing(q)')
  PROVE  LifeStep
<1>1. ASSUME NEW q \in Procs PROVE LifeOf(q)' = LifeOf(q)
  <2>1. CASE Same(q)
    BY <2>1, LifeStays DEF Same
  <2>2. CASE Released(q) /\ Nothing(q)'
    <3>1. Terminal(OnDisk(q).state) /\ OnDisk(q).res = "none" /\ OnDisk(q).acked
      BY <2>2 DEF Released, Acked
    <3>2. Announced(q) /\ Announced(q)'
      BY <3>1 DEF WritersInv, AnnouncedOK, Says, Announced, OnDisk
    <3>3. (OnDisk(q).state)' = "absent"
      BY <2>2, NoRecords DEF Nothing, Missing
    <3> QED
      BY <3>1, <3>2, <3>3, LifeValues, LifeValuesNext
  <2> QED
    BY <2>1, <2>2
<1> QED
  BY <1>1 DEF LifeStep

LEMMA RetentionLives ==
  ASSUME WritersInv, SoundNow, NEW ok \in BOOLEAN, Retain(ok), lane.op \in {"release", "boot"},
         delivered' = delivered, \A q \in Procs : Resting(q), mem = disk
  PROVE  LifeStep
<1>1. \A q \in Retainable : Released(q)
  <2> SUFFICES ASSUME NEW q \in Retainable PROVE Released(q)
    OBVIOUS
  <2>1. /\ q \in Procs /\ OnDisk(q).state # "absent" /\ OnDisk(q).res = "none" /\ ~ OnDisk(q).event
    BY DEF Retainable, Rec, OnDisk
  <2> QED
    BY <2>1, Tells DEF Resting, Settled
<1> QED
  BY <1>1, RetentionWrites, DeletedLives

LEMMA ReleaseLives ==
  ASSUME WritersInv, SoundNow, NEW p \in Procs, NEW ok \in BOOLEAN, ReleaseStep(p, ok) PROVE LifeStep
<1>1. lane.op = "release" /\ lane.proc = p /\ phase = "up" /\ delivered' = delivered
  BY DEF ReleaseStep, WritersInv, LaneOK, Writers
<1>2. CASE ReleaseTerminal(p, ok)
  <2>1. lane.pc \notin DOMAIN RetentionPlan
    BY <1>2, Plans DEF ReleaseTerminal
  <2>2. Terminal(Rec(p).state)
    BY <1>1, <2>1 DEF WritersInv, WorkOK
  <2>3. ReleaseWrite(p, ok)
    BY <1>2 DEF ReleaseTerminal, ReleaseWrite, ReleaseStates
  <2> QED
    BY <1>1, <2>2, <2>3, ReleaseWriteLives
<1>3. CASE Retain(ok)
  <2>1. lane.pc \in DOMAIN RetentionPlan
    BY <1>1, <1>3, RetentionLane DEF WritersInv
  <2>2. mem = disk /\ UpShape(p) /\ \A q \in Procs \ {p} : Resting(q)
    BY <1>1, AtRest DEF Holds, SoundNow, SoundOK
  <2>3. Released(p)
    BY <1>1, <2>1, <2>2, Plans DEF UpShape, Writers, ReleaseShape
  <2> QED
    BY <1>1, <1>3, <2>2, <2>3, RetentionLives DEF Resting, Settled
<1> QED
  BY <1>2, <1>3 DEF ReleaseStep

LEMMA BootRetentionLives ==
  ASSUME WritersInv, SoundNow, NEW ok \in BOOLEAN, BootRetention(ok) PROVE LifeStep
<1>1. phase = "recovering" /\ lane.op = "boot" /\ Retain(ok) /\ delivered' = delivered /\ mem = disk
  BY DEF BootRetention, SoundNow, SoundOK
<1>2. lane.pc \in DOMAIN RetentionPlan
  BY <1>1, RetentionLane DEF WritersInv
<1>3. \A q \in Procs : Resting(q)
  BY <1>1, <1>2, NobodyWorks, Plans DEF BootShape, Resting
<1> QED
  BY <1>1, <1>3, RetentionLives

LEMMA InterruptionLives ==
  ASSUME WritersInv, SoundNow, NEW ok \in BOOLEAN, InterruptProcesses(ok) PROVE LifeStep
<1>1. /\ phase = "recovering" /\ delivered' = delivered
      /\ \A q \in Procs : OnDisk(q)' = IF q \in LiveNow THEN InterruptedRecord(Rec(q)) ELSE OnDisk(q)
      /\ \A q \in LiveNow : q \in Procs /\ Live(q) /\ ~ Rec(q).acked
      /\ \A q \in Procs \ LiveNow : Settled(q)
  BY SoundInterruptionWrites
<1>2. ASSUME NEW q \in Procs PROVE Restarted(q)
  <2>1. CASE q \in LiveNow
    <3>1. OnDisk(q).state \in {"starting", "running"} /\ Told(q)
      BY <1>1, <2>1, Tells, NobodyWorks
    <3>2. ~ Announced(q)
      BY <3>1, NoRecords DEF Told, Missing, Terminal
    <3>3. OnDisk(q)' = InterruptedRecord(Rec(q))
      BY <1>1, <2>1
    <3>4. Terminal(OnDisk(q).state)' /\ (OnDisk(q).res)' # "none" /\ ~ Announced(q)'
      BY <1>1, <3>2, <3>3 DEF InterruptedRecord, Terminal, Announced
    <3> QED
      BY <3>1, <3>4, LifeValues, LifeValuesNext DEF Restarted
  <2>2. CASE q \notin LiveNow
    <3>1. Settled(q) /\ LifeOf(q)' = LifeOf(q)
      BY <1>1, <2>2, LifeStays
    <3>2. LifeOf(q) # "live"
      <4>1. \/ OnDisk(q).state = "absent"
            \/ Terminal(OnDisk(q).state) /\ OnDisk(q).res # "none"
            \/ Terminal(OnDisk(q).state) /\ OnDisk(q).res = "none"
        BY <3>1, Tells DEF Settled
      <4> QED
        BY <4>1, LifeValues
    <3> QED
      BY <3>1, <3>2 DEF Restarted
  <2> QED
    BY <2>1, <2>2
<1> QED
  BY <1>2 DEF LifeStep

LEMMA DeliveryLives ==
  ASSUME WritersInv, SoundNow, NEW p \in Procs, Deliver(p) PROVE LifeStep
<1>1. /\ phase = "up" /\ disk' = disk /\ p \in outbox.todo /\ outbox.acking = NoProc
      /\ delivered' = [delivered EXCEPT ![p] = Rec(p).state] /\ NoProc \notin Procs
      /\ delivered \in [Procs -> {"none", "exited", "interrupted"}]
  BY Typed DEF Deliver, WritersInv, TypeOK
<1>2. mem = disk /\ Rec(p) = OnDisk(p) /\ ValidRecord(OnDisk(p))
  BY <1>1, BeforeAWrite DEF WritersInv, RecordsOK, ValidAuthority, OnDisk
<1>3. Terminal(OnDisk(p).state) /\ OnDisk(p).event
  BY <1>1, <1>2 DEF WritersInv, OutboxOK
<1>4. OnDisk(p).res # "none"
  BY <1>2, <1>3, Tells DEF ValidRecord, ValidEvent
<1>5. \A q \in Procs : OnDisk(q)' = OnDisk(q)
  BY <1>1 DEF OnDisk
<1>6. Announced(p)'
  BY <1>1, <1>2, <1>3 DEF Announced, Terminal
<1>7. \A q \in Procs \ {p} : LifeOf(q)' = LifeOf(q)
  BY <1>1, <1>5, LifeStays
<1>8. Moved(p)
  BY <1>3, <1>4, <1>5, <1>6, LifeValues, LifeValuesNext DEF Moved, Goes
<1> QED
  BY <1>7, <1>8 DEF LifeStep

(* Every step of the files is a step, or none, of the lives.                *)
LEMMA StepsLive ==
  ASSUME WritersInv, SoundNow, [Next]_vars PROVE LifeStep
<1>1. ASSUME NEW p \in Procs, SupervisorStep(p) PROVE LifeStep
  <2>1. CASE Reserve(p) \/ OpenLog(p) \/ FailBeforeSpawn(p) \/ Exit(p) \/ MarkTerminal(p)
    BY <2>1, LivesStay DEF Reserve, OpenLog, FailBeforeSpawn, Exit, MarkTerminal
  <2>2. ASSUME NEW ok \in BOOLEAN, AdmitProcess(p, ok) \/ MarkRunning(p, ok) \/ RecordTerminal(p, ok)
        PROVE  LifeStep
    BY <2>2, AdmissionLives, RunningLives, TerminalLives
  <2> QED
    BY <1>1, <2>1, <2>2 DEF SupervisorStep
<1>2. ASSUME OutboxStep PROVE LifeStep
  <2>1. ASSUME NEW p \in Procs, CollectEvents \/ DeliveryFails(p) \/ AcknowledgeTerminal(p) PROVE LifeStep
    BY <2>1, LivesStay DEF CollectEvents, DeliveryFails, AcknowledgeTerminal
  <2>2. ASSUME NEW p \in Procs, NEW ok \in BOOLEAN, ReleaseStep(p, ok) PROVE LifeStep
    BY <2>2, ReleaseLives
  <2>3. CASE CollectEvents
    BY <2>3, LivesStay DEF CollectEvents
  <2> QED
    BY <1>2, <2>1, <2>2, <2>3, DeliveryLives DEF OutboxStep
<1>3. ASSUME BootStep PROVE LifeStep
  <2>1. CASE Load \/ OperationsRecovered \/ ProcessesInterrupted \/ RecoverTombstones
             \/ \E p \in Procs : RecoverOperation(p)
    <3>1. disk' = disk /\ delivered' = delivered
      BY <2>1 DEF Load, OperationsRecovered, ProcessesInterrupted, RecoverTombstones, RecoverOperation, Refuse, Keep
    <3> QED
      BY <3>1, LivesStay
  <2>2. ASSUME NEW ok \in BOOLEAN, ExpireTombstones(ok) PROVE LifeStep
    <3>1. delivered' = delivered /\ \A q \in Procs : Same(q) \/ (Released(q) /\ Nothing(q)')
      BY <2>2, SoundExpiryWrites
    <3> QED
      BY <3>1, DeletedLives
  <2>3. ASSUME NEW ok \in BOOLEAN, InterruptProcesses(ok) \/ BootRetention(ok) PROVE LifeStep
    BY <2>3, InterruptionLives, BootRetentionLives
  <2>4. ASSUME NEW p \in Procs, NEW ok \in BOOLEAN,
               RecoverRelease(p, ok) \/ RecoverAdmission(p, ok) \/ InterruptSlot(p, ok)
        PROVE  LifeStep
    BY <2>4, RecoveryLives
  <2> QED
    BY <1>3, <2>1, <2>2, <2>3, <2>4 DEF BootStep
<1>4. CASE Crash \/ UNCHANGED vars
  <2>1. disk' = disk /\ delivered' = delivered
    BY <1>4 DEF Crash, vars
  <2> QED
    BY <2>1, LivesStay
<1> QED
  BY <1>1, <1>2, <1>3, <1>4 DEF Next

LEMMA LifeStepsAreSteps ==
  ASSUME storage = "sound" => LifeStep, storage' = storage
  PROVE  [Life!Next]_Lives
<1>1. CASE storage # "sound"
  BY <1>1 DEF Lives
<1>2. CASE storage = "sound" /\ \A q \in Procs : Restarted(q)
  <2>1. Lives' = [q \in Procs |-> IF Lives[q] = "live" THEN "ended" ELSE Lives[q]]
    BY <1>2 DEF Lives, Restarted
  <2>2. Life!Restart
    BY <2>1 DEF Life!Restart, Lives
  <2> QED
    BY <2>2 DEF Life!Next
<1>3. CASE storage = "sound" /\ \A q \in Procs : LifeOf(q)' = LifeOf(q)
  BY <1>3 DEF Lives
<1>4. CASE storage = "sound" /\ \E p \in Procs : Moved(p) /\ \A q \in Procs \ {p} : LifeOf(q)' = LifeOf(q)
  <2>1. PICK p \in Procs : Moved(p) /\ \A q \in Procs \ {p} : LifeOf(q)' = LifeOf(q)
    BY <1>4
  <2>2. CASE LifeOf(p)' = LifeOf(p)
    BY <1>4, <2>1, <2>2 DEF Lives
  <2>3. ASSUME NEW from, NEW to, Goes(p, from, to) PROVE Life!Move(p, from, to)
    <3>1. Lives[p] = from /\ Lives' = [Lives EXCEPT ![p] = to]
      BY <1>4, <2>1, <2>3 DEF Lives, Goes
    <3> QED
      BY <3>1 DEF Life!Move, Lives
  <2> QED
    BY <2>1, <2>2, <2>3 DEF Moved, Life!Next
<1> QED
  BY <1>1, <1>2, <1>3, <1>4 DEF LifeStep

(* Where saves succeed, the process files implement the life of a process:  *)
(* live once, ended once, announced before it is released, and nothing      *)
(* undone, whatever crashes between two writes of an operation or of a      *)
(* recovery.                                                                *)
THEOREM FilesImplementTheLife == Spec => LifeSpec
<1>1. Init => Life!Init
  <2> SUFFICES ASSUME Init PROVE Life!Init
    OBVIOUS
  <2>1. \A p \in Procs : OnDisk(p).state = "absent" /\ ~ Announced(p)
    BY Empty, NoRecords DEF Init, OnDisk, Announced
  <2>2. \A p \in Procs : LifeOf(p) = "unknown"
    BY <2>1, LifeValues
  <2> QED
    BY <2>2 DEF Life!Init
<1>2. ProcessInv /\ [Next]_vars => [Life!Next]_Lives
  BY StepsLive, StorageStays, LifeStepsAreSteps DEF ProcessInv, SoundInv, SoundNow
<1> QED
  BY <1>1, <1>2, ProcessFilesKeepTheirInvariant, PTL DEF Spec, LifeSpec, Life!Spec, Lives

=============================================================================
