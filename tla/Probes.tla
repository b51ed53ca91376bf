------------------------------- MODULE Probes -------------------------------
(***************************************************************************)
(* One script probe: the approval of its source, the claim that installs   *)
(* it as the next revision of a monitor's trigger, and the checks that run *)
(* it. Reservation, challenge, receipt and monitor live in one file,       *)
(* monitors.json; the approved source is a snapshot, in a file of its own. *)
(* Approvals, claims and edits hold backgroundOwnerMu from end to end, and *)
(* release a.mu while the snapshot is written; the checks take neither     *)
(* while the source runs.                                                  *)
(*                                                                         *)
(* An ask is one request for approval. Its source, interval and revision   *)
(* are copied unchanged from challenge to receipt to trigger, so the ask   *)
(* stands for them. Reservation, challenge and receipt of an ask expire    *)
(* together.                                                               *)
(***************************************************************************)
EXTENDS Naturals, FiniteSets

CONSTANTS
  MaxAsks,    \* bound: the requests for approval
  AgentAsks,  \* those the agent's tool made; the others come from the interface
  Mutations,  \* the identifiers clients give their claims
  Checkers,   \* the goroutines that run checks: timer loops and dry runs
  NoMutation,
  MaxErrors,  \* the consecutive errors that end a probe
  MaxEdits,   \* bound: edits, dry runs, and slots taken by other probes
  MaxFailures \* bound: saves that fail and crashes

ASSUME ProbeAssumption ==
  /\ MaxAsks \in Nat \ {0} /\ AgentAsks \subseteq 1 .. MaxAsks
  /\ NoMutation \notin Mutations
  /\ MaxErrors \in Nat \ {0} /\ MaxEdits \in Nat /\ MaxFailures \in Nat

Asks == 1 .. MaxAsks
NoAsk == 0
Snapshots == 0 .. 3

VARIABLES
  mem,      \* monitors, reservations, challenges and receipts in memory
  stored,     \* monitors.json
  files,    \* the snapshot files by ask: which writing of it is there (its inode), 0 for none
  subject,  \* the revision an ask is for, 0 before it is made
  expired,  \* the asks whose ten minutes are over
  approver, \* the approval or claim that holds backgroundOwnerMu
  checks,   \* the goroutines that check
  armed,    \* the checker whose cancel function is registered
  up,       \* the server runs
  owner,    \* the agent: here, deleted in memory ("leaving"), deleted on disk
  installs, \* history: how often an ask's source was installed
  refused,  \* history: the asks whose denial was acknowledged
  fires,    \* history: what was installed and what had run, at a fire just made
  orphans,  \* history: the asks the owner's deletion dropped while staged
  edits,    \* bounds: what the user did,
  failures  \* and what went wrong

registryVars == <<mem, stored>>
historyVars == <<installs, refused, fires, orphans>>
bounds == <<edits, failures>>
probeVars == <<registryVars, files, subject, expired, approver, checks,
          armed, up, owner, historyVars, bounds>>

MonitorRecord == [state : {"none", "active", "disabled", "error"},
                  code : {"", "authorization", "errors", "suppressed", "owner_deleted"},
                  rev : 0 .. MaxAsks, ask : Asks \cup {NoAsk},
                  errs : 0 .. MaxErrors, running : BOOLEAN]
ReceiptRecord == [state : {"none", "live", "revoked"}, snapshot : Snapshots,
                  claim : Mutations \cup {NoMutation}]
Registry == [monitor : MonitorRecord, reserved : SUBSET Asks,
             challenge : [Asks -> {"none", "pending", "staging", "consumed"}],
             receipt : [Asks -> ReceiptRecord]]
CheckerStates == {"off", "wait", "begin", "authorize", "execute",
                  "commit", "unauthorized", "suppress", "clear"}
Outcomes == {"none", "match", "miss", "error"}

NoMonitor == [state |-> "none", code |-> "", rev |-> 0, ask |-> NoAsk, errs |-> 0, running |-> FALSE]
NoReceipt == [state |-> "none", snapshot |-> 0, claim |-> NoMutation]
Empty == [monitor |-> NoMonitor, reserved |-> {},
          challenge |-> [c \in Asks |-> "none"], receipt |-> [c \in Asks |-> NoReceipt]]
NoCheck == [pc |-> "off", dry |-> FALSE, cancelled |-> FALSE, ask |-> NoAsk,
        snapshot |-> 0, outcome |-> "none"]
Free == [pc |-> "idle", ask |-> NoAsk]

ProbeTypeOK ==
  /\ mem \in Registry /\ stored \in Registry
  /\ files \in [Asks -> Snapshots]
  /\ subject \in [Asks -> 0 .. MaxAsks]
  /\ expired \subseteq Asks
  /\ approver \in [pc : {"idle", "write", "mint", "arm", "disarm", "deleting"},
                   ask : Asks \cup {NoAsk}]
  /\ checks \in [Checkers -> [pc : CheckerStates, dry : BOOLEAN, cancelled : BOOLEAN,
                              ask : Asks \cup {NoAsk}, snapshot : Snapshots,
                              outcome : Outcomes]]
  /\ armed \subseteq Checkers
  /\ up \in BOOLEAN /\ owner \in {"here", "leaving", "gone"}
  /\ installs \in [Asks -> Nat] /\ refused \subseteq Asks
  /\ fires \subseteq Asks \X Asks /\ orphans \subseteq Asks
  /\ edits \in 0 .. MaxEdits /\ failures \in 0 .. MaxFailures

ProbeInit ==
  /\ mem = Empty /\ stored = Empty
  /\ files = [c \in Asks |-> 0]
  /\ subject = [c \in Asks |-> 0]
  /\ expired = {} /\ approver = Free
  /\ checks = [g \in Checkers |-> NoCheck] /\ armed = {}
  /\ up = TRUE /\ owner = "here"
  /\ installs = [c \in Asks |-> 0] /\ refused = {} /\ fires = {} /\ orphans = {}
  /\ edits = 0 /\ failures = 0

-----------------------------------------------------------------------------
(* The registry.                                                           *)

\* ProbeRunning is not part of the JSON: a copy of the list loses it.
Cloned(registry) == [registry EXCEPT !.monitor.running = FALSE]

Spend == edits < MaxEdits /\ edits' = edits + 1 /\ UNCHANGED failures
Trouble == failures < MaxFailures /\ failures' = failures + 1 /\ UNCHANGED edits

SaveWorks(registry) ==
  mem' = registry /\ stored' = Cloned(registry) /\ UNCHANGED bounds

SaveFails(before) ==
  /\ Trouble
  /\ mem' = before /\ UNCHANGED stored

\* What ProbeAuthorized compares: the receipt is the one the trigger names, is
\* claimed and not revoked, and the file is the one that was approved.
Usable(receipt) == receipt.state = "live" /\ receipt.claim # NoMutation

ProbeAuthorized(ask, receipt) ==
  Usable(receipt) /\ files[ask] # 0 /\ files[ask] = receipt.snapshot

\* The reservations, challenges and receipts that are over are dropped; an
\* unfinished challenge and a receipt take their snapshot with them.
Reserved(registry) == IF owner = "here" THEN registry.reserved \ expired ELSE {}

OverChallenges(registry) ==
  {c \in Asks : /\ registry.challenge[c] # "none"
                /\ c \in expired \/ (c \notin Reserved(registry) /\ registry.challenge[c] # "consumed")}

OverReceipts(registry) ==
  {c \in Asks : \/ registry.receipt[c].state = "revoked" /\ registry.monitor.ask # c
                \/ /\ registry.receipt[c].state # "none" /\ c \in expired
                   /\ registry.receipt[c].claim = NoMutation}

pruneApprovals(registry) ==
  [registry EXCEPT
    !.reserved = Reserved(registry),
    !.challenge = [c \in Asks |-> IF c \in OverChallenges(registry) THEN "none" ELSE @[c]],
    !.receipt = [c \in Asks |-> IF c \in OverReceipts(registry) THEN NoReceipt ELSE @[c]]]

pruneFiles(registry) ==
  LET removed == OverReceipts(registry)
                   \cup {c \in OverChallenges(registry) : registry.challenge[c] = "staging"}
  IN [c \in Asks |-> IF c \in removed THEN 0 ELSE files[c]]

-----------------------------------------------------------------------------
(* Approval.                                                               *)

OwnerFree == up /\ approver = Free

NextRevision(registry) == registry.monitor.rev + 1
Unasked == {c \in Asks : subject[c] = 0}

\* A request by the interface or by the agent's tool. What is over is pruned,
\* in memory, even when the request is then refused.
prepareApproval ==
  LET pruned == pruneApprovals(mem)
      c == CHOOSE c \in Unasked : \A d \in Unasked : c <= d
      asked == [pruned EXCEPT !.reserved = @ \cup {c}, !.challenge[c] = "pending"]
  IN /\ OwnerFree /\ owner = "here" /\ Unasked # {}
     /\ NextRevision(mem) <= MaxAsks
     /\ pruned.reserved = {}
     /\ files' = pruneFiles(mem)
     /\ \/ /\ SaveWorks(asked)
           /\ subject' = [subject EXCEPT ![c] = NextRevision(mem)]
        \/ SaveFails(pruned) /\ UNCHANGED subject
     /\ UNCHANGED <<expired, approver, checks, armed, up, owner, historyVars>>

prepareRefused ==
  /\ OwnerFree
  /\ mem' = pruneApprovals(mem) /\ mem' # mem
  /\ files' = pruneFiles(mem)
  /\ UNCHANGED <<stored, subject, expired, approver, checks, armed, up, owner,
                 historyVars, bounds>>

Open(c, states) ==
  /\ mem.challenge[c] \in states
  /\ c \notin expired /\ c \in mem.reserved /\ owner = "here"

\* The user confirms: the challenge is staged, and saved, before its file.
confirmStage(c) ==
  LET staged == [mem EXCEPT !.challenge[c] = "staging"]
  IN /\ OwnerFree /\ Open(c, {"pending", "staging"})
     /\ \/ /\ IF mem.challenge[c] = "pending" THEN SaveWorks(staged)
                                              ELSE UNCHANGED <<registryVars, bounds>>
           /\ approver' = [pc |-> "write", ask |-> c]
        \/ /\ mem.challenge[c] = "pending"
           /\ SaveFails(mem) /\ UNCHANGED approver
     /\ UNCHANGED <<files, subject, expired, checks, armed, up, owner, historyVars>>

\* A file of its own: not one that a receipt of this ask knows.
NewFile(c) ==
  CHOOSE n \in Snapshots \ {0} : n \notin {mem.receipt[c].snapshot, stored.receipt[c].snapshot}

writeSnapshot ==
  /\ up /\ approver.pc = "write"
  /\ \/ /\ files' = [files EXCEPT ![approver.ask] = NewFile(approver.ask)]
        /\ approver' = [approver EXCEPT !.pc = "mint"] /\ UNCHANGED bounds
     \/ /\ Trouble
        /\ approver' = Free /\ UNCHANGED files
  /\ UNCHANGED <<registryVars, subject, expired, checks, armed, up, owner, historyVars>>

confirmMint ==
  LET c == approver.ask
      minted == [mem EXCEPT !.challenge[c] = "consumed",
                   !.receipt[c] = [state |-> "live", snapshot |-> files[c], claim |-> NoMutation]]
  IN /\ up /\ approver.pc = "mint" /\ approver' = Free
     /\ \/ /\ mem.challenge[c] = "staging" /\ SaveWorks(minted) /\ UNCHANGED files
        \/ /\ mem.challenge[c] = "staging" /\ SaveFails(mem)
           /\ files' = [files EXCEPT ![c] = 0]
        \/ /\ mem.challenge[c] # "staging"
           /\ files' = [files EXCEPT ![c] = 0] /\ UNCHANGED <<registryVars, bounds>>
     /\ UNCHANGED <<subject, expired, checks, armed, up, owner, historyVars>>

\* The user declines what the agent asked for. A save that fails is reported,
\* and the challenge is gone from memory all the same.
denyChoice(c) ==
  LET denied == [mem EXCEPT !.challenge[c] = "none", !.reserved = @ \ {c}]
  IN /\ OwnerFree /\ c \in AgentAsks /\ Open(c, {"pending"})
     /\ \/ SaveWorks(denied) /\ refused' = refused \cup {c}
        \/ SaveFails(denied) /\ UNCHANGED refused
     /\ UNCHANGED <<files, subject, expired, approver, checks, armed, up, owner,
                    installs, fires, orphans>>

\* What was asked first expires first; of no more consequence when its
\* challenge is gone.
Expire(c) ==
  /\ c \notin expired /\ mem.challenge[c] # "none"
  /\ \A d \in Asks : d < c => d \in expired \/ mem.challenge[d] = "none"
  /\ expired' = expired \cup {c}
  /\ UNCHANGED <<registryVars, files, subject, approver, checks, armed, up, owner,
                 historyVars, bounds>>

-----------------------------------------------------------------------------
(* Claim and edits.                                                        *)

\* ClaimProbeApproval: not revoked, and not claimed by anybody else; an
\* unclaimed receipt must not have expired.
Claimable(c, mutation) ==
  /\ mem.receipt[c].state = "live"
  /\ \/ mem.receipt[c].claim = mutation
     \/ mem.receipt[c].claim = NoMutation /\ c \notin expired

Installed(c) == mem.monitor.state # "none" /\ mem.monitor.ask = c

\* The claim installs the approved source as the next revision, revokes the
\* receipt of the one before and ends the reservation, in one save. The
\* monitor is a new record. What is installed already is returned as it is.
claimProbe(c, mutation, state) ==
  LET old == mem.monitor
      claimed == [mem.receipt[c] EXCEPT !.claim = mutation]
      revoked == [mem.receipt EXCEPT ![c] = claimed]
      receipts == [d \in Asks |-> IF Installed(d) /\ d # c /\ revoked[d].state # "none"
                                  THEN [revoked[d] EXCEPT !.state = "revoked"] ELSE revoked[d]]
      installed == [mem EXCEPT
        !.monitor = [NoMonitor EXCEPT !.state = state, !.rev = subject[c], !.ask = c],
        !.receipt = receipts,
        !.reserved = {d \in @ : subject[d] # subject[c]}]
  IN /\ OwnerFree /\ owner = "here"
     /\ Claimable(c, mutation) /\ ~(mem.receipt[c].claim = mutation /\ Installed(c))
     /\ subject[c] = NextRevision(mem)
     /\ ProbeAuthorized(c, claimed)
     /\ \/ /\ SaveWorks(installed) /\ installs' = [installs EXCEPT ![c] = @ + 1]
           /\ approver' = IF state = "active" THEN [Free EXCEPT !.pc = "arm"] ELSE Free
        \/ SaveFails([mem EXCEPT !.monitor.running = FALSE]) /\ UNCHANGED <<installs, approver>>
     /\ UNCHANGED <<files, subject, expired, checks, armed, up, owner,
                    refused, fires, orphans>>

Cancelled(goroutines) ==
  [g \in Checkers |-> IF g \in goroutines THEN [checks[g] EXCEPT !.cancelled = TRUE] ELSE checks[g]]

\* The loop before is cancelled and a new one started.
armProbe ==
  /\ up /\ approver.pc = "arm" /\ approver' = Free
  /\ \E g \in Checkers :
       /\ checks[g].pc = "off"
       /\ checks' = [Cancelled(armed) EXCEPT ![g] = [NoCheck EXCEPT !.pc = "wait"]]
       /\ armed' = {g}
  /\ UNCHANGED <<registryVars, files, subject, expired, up, owner, historyVars, bounds>>

cancelProbe ==
  /\ up /\ approver.pc = "disarm" /\ approver' = Free
  /\ checks' = Cancelled(armed) /\ armed' = {}
  /\ UNCHANGED <<registryVars, files, subject, expired, up, owner, historyVars, bounds>>

\* Resuming authorizes the snapshot again, and never what lost its approval.
Resumable ==
  /\ mem.monitor.code \notin {"owner_deleted", "authorization"}
  /\ ProbeAuthorized(mem.monitor.ask, mem.receipt[mem.monitor.ask])

\* An edit whose save fails is undone, and changes nothing.
Edit(registry, next) ==
  Spend /\ mem' = registry /\ stored' = Cloned(registry) /\ approver' = next

resumeMonitor ==
  /\ OwnerFree /\ mem.monitor.state # "none" /\ Resumable
  /\ Edit([mem EXCEPT !.monitor = [@ EXCEPT !.state = "active", !.code = "", !.errs = 0]],
          [Free EXCEPT !.pc = "arm"])
  /\ UNCHANGED <<files, subject, expired, checks, armed, up, owner, historyVars>>

pauseMonitor ==
  /\ OwnerFree /\ mem.monitor.state # "none"
  /\ Edit([mem EXCEPT !.monitor.state = "disabled"], [Free EXCEPT !.pc = "disarm"])
  /\ UNCHANGED <<files, subject, expired, checks, armed, up, owner, historyVars>>

Revoked(receipts, gone) ==
  [c \in Asks |-> IF c \in gone /\ receipts[c].state = "live"
                  THEN [receipts[c] EXCEPT !.state = "revoked"] ELSE receipts[c]]

deleteMonitor ==
  /\ OwnerFree /\ mem.monitor.state # "none"
  /\ Edit([mem EXCEPT !.monitor = NoMonitor, !.reserved = {},
                      !.receipt = Revoked(@, {mem.monitor.ask})],
          [Free EXCEPT !.pc = "disarm"])
  /\ UNCHANGED <<files, subject, expired, checks, armed, up, owner, historyVars>>

\* The owner's deletion drops the unconsumed challenges, and leaves the
\* snapshot of a staged one behind; memory first, the save after it.
deleteOwner ==
  /\ OwnerFree /\ owner = "here" /\ Spend
  /\ mem' = [mem EXCEPT
       !.reserved = {},
       !.challenge = [c \in Asks |-> IF @[c] = "consumed" THEN @[c] ELSE "none"],
       !.receipt = Revoked(@, Asks),
       !.monitor = IF @.state = "none" THEN @
                   ELSE [@ EXCEPT !.state = "disabled", !.code = "owner_deleted"]]
  /\ orphans' = orphans \cup {c \in Asks : mem.challenge[c] = "staging"}
  /\ checks' = Cancelled(armed) /\ armed' = {}
  /\ owner' = "leaving" /\ approver' = [Free EXCEPT !.pc = "deleting"]
  /\ UNCHANGED <<stored, files, subject, expired, up, installs, refused, fires>>

deleteOwnerSaved ==
  /\ up /\ approver.pc = "deleting" /\ approver' = Free
  /\ \/ SaveWorks(mem) /\ owner' = "gone"
     \/ SaveFails(mem) /\ UNCHANGED owner
  /\ UNCHANGED <<files, subject, expired, checks, armed, up, historyVars>>

-----------------------------------------------------------------------------
(* The checks.                                                             *)

\* Where a check goes when it is over.
Rest(g) == IF checks[g].dry THEN NoCheck ELSE [NoCheck EXCEPT !.pc = "wait", !.cancelled = checks[g].cancelled]

\* The loop ends when the monitor is not active or it is cancelled; else its
\* timer fires. The project's slots may be taken by the checks of others.
loopWait(g) ==
  LET over == mem.monitor.state # "active" \/ checks[g].cancelled
  IN /\ up /\ checks[g].pc = "wait"
     /\ \/ over /\ checks' = [checks EXCEPT ![g] = NoCheck] /\ UNCHANGED bounds
        \/ ~over /\ checks' = [checks EXCEPT ![g].pc = "begin"] /\ UNCHANGED bounds
        \/ ~over /\ checks' = [checks EXCEPT ![g].pc = "suppress"] /\ Spend
     /\ UNCHANGED <<registryVars, files, subject, expired, approver, armed, up, owner,
                    historyVars>>

\* POST check: a check that reports to its caller and commits nothing.
dryRun(g) ==
  /\ up /\ Spend /\ checks[g].pc = "off" /\ mem.monitor.state # "none"
  /\ checks' = [checks EXCEPT ![g] = [NoCheck EXCEPT !.pc = "begin", !.dry = TRUE]]
  /\ UNCHANGED <<registryVars, files, subject, expired, approver, armed, up, owner,
                 historyVars>>

\* The notes a check leaves on the monitor, whatever the monitor is by now.
Note(g, noted, next) ==
  /\ \/ mem.monitor.state = "none" /\ UNCHANGED <<registryVars, bounds>>
     \/ mem.monitor.state # "none" /\ (SaveWorks(noted) \/ SaveFails(Cloned(mem)))
  /\ checks' = [checks EXCEPT ![g] = next]
  /\ UNCHANGED <<files, subject, expired, approver, armed, up, owner, historyVars>>

resourceSuppressed(g) ==
  /\ up /\ checks[g].pc = "suppress"
  /\ Note(g, [mem EXCEPT !.monitor.code = "suppressed"], Rest(g))

\* The check marks the monitor and takes its trigger and receipt with it.
beginCheck(g) ==
  LET m == mem.monitor
      receipt == mem.receipt[m.ask]
  IN /\ up /\ checks[g].pc = "begin"
     /\ IF m.state = "none" \/ m.running
        THEN checks' = [checks EXCEPT ![g] = Rest(g)] /\ UNCHANGED mem
        ELSE IF receipt.state = "none"
        THEN /\ checks' = [checks EXCEPT ![g] = IF @.dry THEN NoCheck ELSE [@ EXCEPT !.pc = "unauthorized"]]
             /\ UNCHANGED mem
        ELSE /\ mem' = [mem EXCEPT !.monitor.running = TRUE]
             /\ checks' = [checks EXCEPT ![g] = [@ EXCEPT !.pc = "authorize", !.ask = m.ask,
                                  !.snapshot = IF Usable(receipt) THEN receipt.snapshot ELSE 0]]
     /\ UNCHANGED <<stored, files, subject, expired, approver, armed, up, owner,
                    historyVars, bounds>>

authorizeSnapshot(g) ==
  /\ up /\ checks[g].pc = "authorize"
  /\ checks' = [checks EXCEPT ![g] =
       IF @.snapshot # 0 /\ files[@.ask] = @.snapshot THEN [@ EXCEPT !.pc = "execute", !.snapshot = 0]
       ELSE IF @.dry THEN [@ EXCEPT !.pc = "clear", !.snapshot = 0, !.ask = NoAsk]
       ELSE [@ EXCEPT !.pc = "unauthorized", !.snapshot = 0]]
  /\ UNCHANGED <<registryVars, files, subject, expired, approver, armed, up, owner,
                 historyVars, bounds>>

\* The monitor of that name goes to error, be it of another revision by now.
failAuthorization(g) ==
  /\ up /\ checks[g].pc = "unauthorized"
  /\ Note(g, [mem EXCEPT !.monitor.state = "error", !.monitor.code = "authorization"],
          IF checks[g].ask = NoAsk THEN Rest(g) ELSE [checks[g] EXCEPT !.pc = "clear", !.ask = NoAsk])

\* The source runs; a cancelled check is killed, unless it had ended already.
executeProbe(g) ==
  /\ up /\ checks[g].pc = "execute"
  /\ \E outcome \in Outcomes \ {"none"} :
       checks' = [checks EXCEPT ![g] = IF @.dry THEN [@ EXCEPT !.pc = "clear", !.ask = NoAsk]
                                       ELSE [@ EXCEPT !.pc = "commit", !.outcome = outcome]]
  /\ UNCHANGED <<registryVars, files, subject, expired, approver, armed, up, owner,
                 historyVars, bounds>>

\* MatchProbe: too many errors in a row end it; a success clears the count.
MatchProbe(m, outcome) ==
  IF outcome = "error"
  THEN IF m.errs + 1 >= MaxErrors THEN [m EXCEPT !.errs = MaxErrors, !.state = "error", !.code = "errors"]
                          ELSE [m EXCEPT !.errs = @ + 1]
  ELSE [m EXCEPT !.errs = 0, !.code = IF @ = "suppressed" THEN "" ELSE @]

\* The result of a revision that is not installed any more, and of a monitor
\* that is not active, is dropped.
CurrentByState(check) == mem.monitor.state = "active"

Current(check) == mem.monitor.state = "active" /\ mem.monitor.rev = subject[check.ask]

commitResult(g) ==
  LET check == checks[g]
      m == mem.monitor
      committed == [mem EXCEPT !.monitor = MatchProbe(m, check.outcome)]
  IN /\ up /\ check.pc = "commit"
     /\ checks' = [checks EXCEPT ![g] = [@ EXCEPT !.pc = "clear", !.outcome = "none", !.ask = NoAsk]]
     /\ IF ~Current(check)
        THEN UNCHANGED <<registryVars, fires, bounds>>
        ELSE \/ /\ SaveWorks(committed)
                /\ fires' = IF check.outcome = "match" THEN fires \cup {<<m.ask, check.ask>>} ELSE fires
             \/ SaveFails(Cloned(mem)) /\ UNCHANGED fires
     /\ UNCHANGED <<files, subject, expired, approver, armed, up, owner,
                    installs, refused, orphans>>

clearRunningNot(g) ==
  /\ up /\ checks[g].pc = "clear"
  /\ checks' = [checks EXCEPT ![g] = Rest(g)]
  /\ fires' = {}
  /\ UNCHANGED <<mem, stored, files, subject, expired, approver, armed, up, owner,
                 installs, refused, orphans, bounds>>

\* The mark is cleared by name: it may be the mark of another check.
clearRunning(g) ==
  /\ up /\ checks[g].pc = "clear"
  /\ mem' = Cloned(mem)
  /\ checks' = [checks EXCEPT ![g] = Rest(g)]
  /\ fires' = {}
  /\ UNCHANGED <<stored, files, subject, expired, approver, armed, up, owner,
                 installs, refused, orphans, bounds>>

-----------------------------------------------------------------------------
(* Crash and start.                                                        *)

ServerCrash ==
  /\ up /\ Trouble
  /\ up' = FALSE /\ approver' = Free /\ armed' = {}
  /\ checks' = [g \in Checkers |-> NoCheck]
  /\ mem' = stored
  /\ owner' = IF owner = "leaving" THEN "here" ELSE owner
  /\ UNCHANGED <<stored, files, subject, expired, historyVars>>

\* loadMonitors prunes, authorizes every active probe again and saves; the
\* active ones are armed when everything is loaded.
Restart ==
  LET pruned == pruneApprovals(mem)
      kept == pruneFiles(mem)
      m == pruned.monitor
      fit == m.state # "active" \/
               /\ ProbeAuthorized(m.ask, pruned.receipt[m.ask]) /\ kept[m.ask] = files[m.ask]
      loaded == IF fit THEN pruned
                ELSE [pruned EXCEPT !.monitor = [@ EXCEPT !.state = "error", !.code = "authorization"]]
  IN /\ ~up /\ up' = TRUE
     /\ SaveWorks(loaded) /\ files' = kept
     /\ approver' = IF loaded.monitor.state = "active" THEN [Free EXCEPT !.pc = "arm"] ELSE Free
     /\ UNCHANGED <<subject, expired, checks, armed, owner, historyVars>>

-----------------------------------------------------------------------------
CheckStep(g) ==
  \/ loopWait(g) \/ resourceSuppressed(g) \/ beginCheck(g)
  \/ authorizeSnapshot(g) \/ failAuthorization(g) \/ executeProbe(g) \/ commitResult(g)
  \/ clearRunning(g)

ApproverStep ==
  writeSnapshot \/ confirmMint \/ armProbe \/ cancelProbe \/ deleteOwnerSaved

ProbeNext ==
  \/ prepareApproval \/ prepareRefused
  \/ \E c \in Asks : confirmStage(c) \/ denyChoice(c) \/ Expire(c)
  \/ \E c \in Asks, u \in Mutations, s \in {"active", "disabled"} : claimProbe(c, u, s)
  \/ resumeMonitor \/ pauseMonitor \/ deleteMonitor \/ deleteOwner
  \/ ApproverStep
  \/ \E g \in Checkers : dryRun(g) \/ CheckStep(g)
  \/ ServerCrash \/ Restart

ProbeSpec ==
  /\ ProbeInit /\ [][ProbeNext]_probeVars
  /\ WF_probeVars(ApproverStep) /\ WF_probeVars(Restart)
  /\ \A g \in Checkers : WF_probeVars(CheckStep(g))

-----------------------------------------------------------------------------
(* Properties.                                                             *)

\* A monitor that is active, in memory or in what a restart will load, has a
\* receipt for the revision it is at, claimed and not revoked, whose snapshot
\* is on disk as it was approved: no crash, failed save, retry of a
\* confirmation or sweep of what expired takes it away.
InstalledIsApproved ==
  \A registry \in {mem, stored} :
    registry.monitor.state = "active" =>
      /\ ProbeAuthorized(registry.monitor.ask, registry.receipt[registry.monitor.ask])
      /\ registry.monitor.rev = subject[registry.monitor.ask]

\* An approval installs its source once, whatever is retried, restored or
\* loaded again, and never after the user was told that it was denied.
ApprovedOnce ==
  \A c \in Asks :
    /\ installs[c] <= 1
    /\ c \in refused => installs[c] = 0 /\ mem.receipt[c].state = "none" /\ stored.receipt[c].state = "none"

\* A check that fires ran a source approved for the revision the monitor is
\* at when it fires, however long the source ran and whatever was claimed,
\* paused or deleted meanwhile.
FiresMatchTheRevision ==
  \A f \in fires : subject[f[1]] = subject[f[2]] /\ installs[f[2]] > 0

\* Every snapshot on disk has a record that will remove it, except those the
\* owner's deletion left.
SnapshotsHaveARecord ==
  \A c \in Asks :
    files[c] # 0 => \/ mem.challenge[c] = "staging"
                   \/ mem.receipt[c].state # "none"
                   \/ c \in orphans

\* Challenge, receipt, snapshot and revision never part: what runs is what was
\* approved, once, and every file belongs to somebody.
ApprovalsHold ==
  InstalledIsApproved /\ ApprovedOnce /\ FiresMatchTheRevision /\ SnapshotsHaveARecord

\* A probe that stays active is checked again and again: no claim, resumption,
\* crash, failed save or overlapping check leaves it without a loop or marked
\* as running.
ActiveProbesAreChecked ==
  []<>(\/ mem.monitor.state # "active"
       \/ \E g \in Checkers : checks[g].pc = "commit")

\* At most one invocation per probe runs.
OneCheckAtATime == Cardinality({g \in Checkers : checks[g].pc = "execute"}) <= 1
=============================================================================
