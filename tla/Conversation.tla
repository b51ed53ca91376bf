---------------------------- MODULE Conversation ----------------------------
(***************************************************************************)
(* The conversation of a resident agent: one append-only log of session    *)
(* events, the messages, model transcript and session state projected from *)
(* it, the checkpoints that move older messages into a summary, the turns  *)
(* that read both, and the receipts of ended processes, which are admitted *)
(* as messages before the process outbox lets go of them.                  *)
(*                                                                         *)
(* The conversation modelled in full is the one of Owner; Karoz takes the  *)
(* receipts of an owner who is gone. A message is its sequence number and  *)
(* whose it is, and a summary is the set of messages it tells about. The   *)
(* prompt a summary is asked for with has a limit: what it has no room for *)
(* the summary does not tell, although the window leaves it behind (cut).  *)
(***************************************************************************)
EXTENDS Naturals, FiniteSets, FiniteSetsExt, Sequences, SequencesExt

CONSTANTS Owner, Karoz,   \* the two agents
          Writers,        \* goroutines that append to the owner's conversation
          Turns,          \* runs with a turn of the model
          Receipts,       \* terminal events of the owner's processes
          Workers,        \* goroutines of runAgentCheckpoint
          Anyone,         \* the author of a message that nobody asks about
          Window, Batch,  \* shortWindowLimit, summaryLimit
          MaxSeq, MaxTries, MaxFaults, MaxCrashes   \* bounds

ASSUME ConversationAssumption ==
  /\ Owner # Karoz
  /\ Receipts \cap Turns = {} /\ Anyone \notin Receipts \cup Turns
  /\ Window \in Nat \ {0} /\ Batch \in Nat \ {0}
  /\ \A bound \in {MaxSeq, MaxTries, MaxFaults, MaxCrashes} : bound \in Nat

VARIABLES events,       \* [agent -> conversationService.events]
          messages,     \* [agent -> the visible messages, projected]
          transcripts,  \* [agent -> what the model sees: messages and hidden inputs, projected]
          session,      \* the owner's AgentSessionState
          disk,         \* agent-session-events.json
          claim,        \* checkpointClaims of the owner's session
          retry,        \* checkpointRetryNotBefore is still ahead
          worker,       \* [Workers -> the goroutine and its claim]
          writer,       \* [Writers \cup Turns -> what it has left to do after an append]
          turn,         \* [Turns -> the turn of the run]
          outbox,       \* [Receipts -> the delivery of the terminal event]
          gone,         \* the owner is deleted or being deleted
          stalled,      \* history: nobody has looked at the window since a failed look
          faults, crashes

log == <<events, messages, transcripts, session, disk>>
conversationVars == <<log, claim, retry, worker, writer, turn, outbox, gone, stalled, faults, crashes>>

Agents == {Owner, Karoz}
Items == [seq : 1 .. MaxSeq, id : Receipts \cup Turns \cup {Anyone}, hidden : BOOLEAN]
Sessions == [summary : SUBSET (1 .. MaxSeq), cut : SUBSET (1 .. MaxSeq), start : 1 .. MaxSeq + 1, covered : 0 .. MaxSeq,
             version : 0 .. MaxSeq]
Claims == [summary : SUBSET (1 .. MaxSeq), cut : SUBSET (1 .. MaxSeq), batch : SUBSET (1 .. MaxSeq),
           covered : 0 .. MaxSeq, version : 0 .. MaxSeq]
NewSession == [summary |-> {}, cut |-> {}, start |-> 1, covered |-> 0, version |-> 0]
NoClaim == [summary |-> {}, cut |-> {}, batch |-> {}, covered |-> 0, version |-> 0]
NewTurn(tries) == [pc |-> "new", seq |-> 0, told |-> {}, version |-> 0, missed |-> {},
                   moved |-> FALSE, tries |-> tries]

ItemEvent(i) == [kind |-> "item", item |-> i]
CheckpointEvent(s) == [kind |-> "checkpoint", session |-> s]
Events == {ItemEvent(i) : i \in Items} \cup {CheckpointEvent(s) : s \in Sessions}

(* applyAgentSessionEventProjectionLocked, and what the events of a log come *)
(* to when they are applied in order.                                       *)
Blank == [transcript |-> <<>>, messages |-> <<>>, session |-> NewSession]
Applied(p, e) ==
  IF e.kind = "checkpoint" THEN [p EXCEPT !.session = e.session]
  ELSE [p EXCEPT !.transcript = Append(@, e.item),
                 !.messages = IF e.item.hidden THEN @ ELSE Append(@, e.item)]
Replayed(l) ==
  LET p[n \in 0 .. Len(l)] == IF n = 0 THEN Blank ELSE Applied(p[n - 1], l[n])
  IN p[Len(l)]

SeqsOf(items) == {i.seq : i \in Range(items)}
IdsOf(items) == {i.id : i \in Range(items)}

ConversationTypeOK ==
  /\ \A a \in Agents : /\ messages[a] \in Seq(Items) /\ transcripts[a] \in Seq(Items)
                       /\ Range(events[a]) \cup Range(disk[a]) \subseteq Events
  /\ session \in Sessions
  /\ claim \in Claims
  /\ worker \in [Workers -> [pc : {"idle", "asking", "again"}, claim : Claims]]
  /\ writer \in [Writers \cup Turns -> {"idle", "save", "note", "check"}]
  /\ turn \in [Turns -> [pc : {"new", "input", "prompt", "state", "told", "talking", "over"},
                         seq : 0 .. MaxSeq, told : SUBSET (1 .. MaxSeq), version : 0 .. MaxSeq,
                         missed : SUBSET (1 .. MaxSeq), moved : BOOLEAN, tries : 0 .. MaxTries]]
  /\ outbox \in [Receipts -> {"pending", "admitted", "acknowledged"}]
  /\ retry \in BOOLEAN /\ gone \in BOOLEAN /\ stalled \in BOOLEAN
  /\ faults \in 0 .. MaxFaults /\ crashes \in 0 .. MaxCrashes

ConversationInit ==
  /\ events = [a \in Agents |-> <<>>] /\ disk = events
  /\ messages = [a \in Agents |-> <<>>] /\ transcripts = messages
  /\ session = NewSession
  /\ claim = NoClaim /\ retry = FALSE
  /\ worker = [k \in Workers |-> [pc |-> "idle", claim |-> NoClaim]]
  /\ writer = [x \in Writers \cup Turns |-> "idle"]
  /\ turn = [t \in Turns |-> NewTurn(0)]
  /\ outbox = [r \in Receipts |-> "pending"]
  /\ gone = FALSE /\ stalled = FALSE /\ faults = 0 /\ crashes = 0

-----------------------------------------------------------------------------
(* The log *)

(* Visible messages and hidden inputs share one order.                      *)
(* Mutant: the number follows the visible messages alone. *)
NextVisibleSeq(a) == 1 + Max({0} \cup SeqsOf(messages[a]))
NextSeq(a) == 1 + Max({0} \cup SeqsOf(messages[a]) \cup SeqsOf(transcripts[a]))

(* appendAgentSessionEventLocked: the event and its projections, in memory. *)
AppendEvent(a, id, hidden) ==
  LET i == [seq |-> NextSeq(a), id |-> id, hidden |-> hidden]
  IN /\ NextSeq(a) <= MaxSeq
     /\ events' = [events EXCEPT ![a] = Append(@, ItemEvent(i))]
     /\ transcripts' = [transcripts EXCEPT ![a] = Append(@, i)]
     /\ messages' = IF hidden THEN messages ELSE [messages EXCEPT ![a] = Append(@, i)]

Fail == faults < MaxFaults /\ faults' = faults + 1

(* saveAgentSessionEvents: the whole file, as the memory is now.            *)
Save(ok) ==
  IF ok THEN disk' = events /\ UNCHANGED faults
        ELSE Fail /\ UNCHANGED disk

-----------------------------------------------------------------------------
(* Checkpoints *)

Boundary == Last(messages[Owner]).seq - Window

(* The messages the next summary takes: the oldest Batch of those behind    *)
(* the window that no summary covers.                                       *)
Uncovered == {n \in SeqsOf(messages[Owner]) : n > session.covered /\ n <= Boundary}
NextBatch == {n \in Uncovered : Cardinality({p \in Uncovered : p <= n}) <= Batch}

Due ==
  /\ messages[Owner] # <<>>
  /\ Last(messages[Owner]).seq + 1 > session.start + Window
  /\ Boundary > session.covered
  /\ NextBatch # {}

(* maybeCheckpointAgentSession, by somebody whose own goroutine is among    *)
(* the free ones: one claim per session, and none while a retry is delayed. *)
MaybeCheckpoint(free) ==
  IF Due /\ claim = NoClaim /\ ~ retry
  THEN LET c == [summary |-> session.summary, cut |-> session.cut, batch |-> NextBatch,
                 covered |-> session.covered, version |-> session.version]
       IN /\ claim' = c
          /\ \E k \in free :
                worker' = [j \in Workers |->
                             IF j = k THEN [pc |-> "asking", claim |-> c]
                             ELSE IF j \in free THEN [pc |-> "idle", claim |-> NoClaim]
                             ELSE worker[j]]
          /\ stalled' = FALSE
  ELSE /\ worker' = [j \in Workers |->
                       IF j \in free THEN [pc |-> "idle", claim |-> NoClaim] ELSE worker[j]]
       /\ UNCHANGED <<claim, stalled>>
FreeWorkers == {k \in Workers : worker[k].pc = "idle"}

(* releaseAgentCheckpoint: the provider failed, timed out, or said nothing. *)
ReleaseClaim(c) ==
  IF claim = c THEN claim' = NoClaim /\ retry' = TRUE /\ stalled' = TRUE
               ELSE UNCHANGED <<claim, retry, stalled>>
Release(k) ==
  /\ worker[k].pc = "asking" /\ Fail
  /\ ReleaseClaim(worker[k].claim)
  /\ worker' = [worker EXCEPT ![k] = [pc |-> "idle", claim |-> NoClaim]]
  /\ UNCHANGED <<log, writer, turn, outbox, gone, crashes>>

(* The messages a summary was made from: those it tells about, and those    *)
(* that were to be told and for which there was no room.                    *)
MadeFrom(s) == s.summary \cup s.cut

(* buildAgentCheckpointPrompt: the beginning of the summary before, which   *)
(* may be longer than what a prompt takes of it, and the batch in order as  *)
(* far as the prompt has room, which the first message always has. The      *)
(* provider answers with a summary that tells of what it was given.         *)
Summaries(c) ==
  {told \cup {n \in c.batch : n <= last} : told \in SUBSET c.summary, last \in c.batch}

(* The session after the checkpoint: the whole batch is behind the window,  *)
(* whatever of it the summary tells.                                        *)
(* Mutant: the window starts behind everything that was due. *)
CheckpointedToBoundary(c, summary) ==
  [summary |-> summary, cut |-> (MadeFrom(c) \cup c.batch) \ summary,
   start |-> Boundary + 1, covered |-> Boundary, version |-> session.version + 1]
Checkpointed(c, summary) ==
  [summary |-> summary, cut |-> (MadeFrom(c) \cup c.batch) \ summary,
   start |-> Max(c.batch) + 1, covered |-> Max(c.batch), version |-> session.version + 1]

(* commitAgentCheckpoint, under one lock. The event is projected before it  *)
(* is saved; a failed save takes the event back and not the projection. A   *)
(* claim that is not the active one, or of a session that has moved on, is  *)
(* dropped.                                                                 *)
Commit(k, ok) ==
  LET c == worker[k].claim
      With(next) == [events EXCEPT ![Owner] = Append(@, CheckpointEvent(next))]
      current == session.version = c.version /\ session.covered = c.covered
      To(pc) == worker' = [worker EXCEPT ![k] = [pc |-> pc, claim |-> NoClaim]]
  IN /\ worker[k].pc = "asking"
     /\ claim' = IF claim = c THEN NoClaim ELSE claim
     /\ IF claim = c /\ current
        THEN /\ \E summary \in Summaries(c) : session' = Checkpointed(c, summary)
             /\ \/ /\ ok /\ To("again")
                   /\ events' = With(session') /\ disk' = events' /\ retry' = FALSE
                   /\ UNCHANGED <<stalled, faults>>
                \/ /\ ~ ok /\ Fail /\ To("idle")
                   /\ retry' = TRUE /\ stalled' = TRUE
                   /\ UNCHANGED <<events, disk>>
        ELSE To("idle") /\ UNCHANGED <<session, events, disk, retry, stalled, faults>>
     /\ UNCHANGED <<messages, transcripts, writer, turn, outbox, gone, crashes>>

(* A checkpoint that was saved looks for the next batch.                    *)
LookAgain(k) ==
  /\ worker[k].pc = "again"
  /\ MaybeCheckpoint({k})
  /\ UNCHANGED <<log, retry, writer, turn, outbox, gone, faults, crashes>>

RetryElapses ==
  /\ retry /\ retry' = FALSE
  /\ UNCHANGED <<log, claim, worker, writer, turn, outbox, gone, stalled, faults, crashes>>

-----------------------------------------------------------------------------
(* Messages and notes: appended under the lock, saved in a section of their *)
(* own, and followed by a look at the window.                               *)

(* appendAgentMessage.                                                      *)
WriterAppends(x) ==
  /\ writer[x] = "idle"
  /\ AppendEvent(Owner, Anyone, FALSE)
  /\ writer' = [writer EXCEPT ![x] = "save"]
  /\ UNCHANGED <<session, disk, claim, retry, worker, turn, outbox, gone, stalled, faults, crashes>>

(* The state of a run, of a handoff or of an approval: an event without a   *)
(* sequence number, which no projection shows. What it does to the          *)
(* conversation is the save that follows it.                                *)
WriterNotes(x) ==
  /\ writer[x] = "idle"
  /\ writer' = [writer EXCEPT ![x] = "note"]
  /\ UNCHANGED <<log, claim, retry, worker, turn, outbox, gone, stalled, faults, crashes>>

(* persistAppendedAgentMessage: a failed save is only logged.               *)
Persist(x, ok) ==
  /\ writer[x] \in {"save", "note"}
  /\ Save(ok)
  /\ writer' = [writer EXCEPT ![x] = IF ok /\ @ = "save" THEN "check" ELSE "idle"]
  /\ stalled' = (stalled \/ (writer[x] = "save" /\ ~ ok))
  /\ UNCHANGED <<events, messages, transcripts, session, claim, retry, worker, turn, outbox, gone,
                 crashes>>

Check(x) ==
  /\ writer[x] = "check"
  /\ MaybeCheckpoint(FreeWorkers)
  /\ writer' = [writer EXCEPT ![x] = "idle"]
  /\ UNCHANGED <<log, retry, turn, outbox, gone, faults, crashes>>

-----------------------------------------------------------------------------
(* Turns *)

Goes(t, pc) == turn' = [turn EXCEPT ![t].pc = pc]
Over(s) == [NewTurn(s.tries) EXCEPT !.pc = "over"]

(* A message to an agent starts a direct run with the message as its input. *)
StartDirect(t) ==
  /\ turn[t].pc = "new" /\ turn[t].tries = 0
  /\ AppendEvent(Owner, t, FALSE)
  /\ turn' = [turn EXCEPT ![t].pc = "prompt", ![t].seq = NextSeq(Owner)]
  /\ writer' = [writer EXCEPT ![t] = "save"]
  /\ UNCHANGED <<session, disk, claim, retry, worker, outbox, gone, stalled, faults, crashes>>

(* appendAgentModelOnlyTranscriptForRun: the input of a scheduled run, once *)
(* for the run.                                                             *)
InputOf(t) == {i \in Range(transcripts[Owner]) : i.hidden /\ i.id = t}
StartScheduled(t) ==
  /\ turn[t].pc = "new"
  /\ \/ /\ InputOf(t) = {}
        /\ AppendEvent(Owner, t, TRUE)
        /\ turn' = [turn EXCEPT ![t].pc = "input", ![t].seq = NextSeq(Owner)]
     \/ \E i \in InputOf(t) :
          /\ turn' = [turn EXCEPT ![t].pc = "input", ![t].seq = i.seq]
          /\ UNCHANGED <<events, messages, transcripts>>
  /\ UNCHANGED <<session, disk, claim, retry, worker, writer, outbox, gone, stalled, faults, crashes>>

(* The run fails with a save that fails; it may be tried again.             *)
SaveInput(t, ok) ==
  /\ turn[t].pc = "input"
  /\ Save(ok)
  /\ turn' = [turn EXCEPT ![t] = IF ok THEN [@ EXCEPT !.pc = "prompt"] ELSE Over(@)]
  /\ UNCHANGED <<events, messages, transcripts, session, claim, retry, worker, writer, outbox, gone,
                 stalled, crashes>>

(* A run keeps its ID when it is retried.                                   *)
Retry(t) ==
  /\ turn[t].pc = "over" /\ InputOf(t) # {} /\ writer[t] = "idle"
  /\ turn[t].tries < MaxTries
  /\ turn' = [turn EXCEPT ![t] = NewTurn(@.tries + 1)]
  /\ UNCHANGED <<log, claim, retry, worker, writer, outbox, gone, stalled, faults, crashes>>

(* buildResidentAgentPromptWithMemoryQuery looks at the window, and reads   *)
(* the session for its summary; told is what that was made from.            *)
Prompt(t) ==
  /\ turn[t].pc = "prompt" /\ writer[t] = "idle"
  /\ MaybeCheckpoint(FreeWorkers)
  /\ Goes(t, "state")
  /\ UNCHANGED <<log, retry, writer, outbox, gone, faults, crashes>>

ReadSummary(t) ==
  /\ turn[t].pc = "state"
  /\ turn' = [turn EXCEPT ![t].pc = "told", ![t].told = MadeFrom(session), ![t].version = session.version]
  /\ UNCHANGED <<log, claim, retry, worker, writer, outbox, gone, stalled, faults, crashes>>

(* The history is read later, with the window of then; the turn fails when  *)
(* its own input is not in it. What the run itself has appended before the  *)
(* input is no part of it.                                                  *)
Delta == {n \in SeqsOf(transcripts[Owner]) : n >= session.start}
ReadHistory(t) ==
  LET before == {i.seq : i \in {j \in Range(messages[Owner]) : j.id # t /\ j.seq < turn[t].seq}}
  IN /\ turn[t].pc = "told"
     /\ turn' = IF turn[t].seq \in Delta
                THEN [turn EXCEPT ![t].pc = "talking", ![t].missed = before \ (turn[t].told \cup Delta),
                                  ![t].told = {}, ![t].version = 0, ![t].moved = session.version # turn[t].version]
                ELSE [turn EXCEPT ![t] = Over(@)]
     /\ UNCHANGED <<log, claim, retry, worker, writer, outbox, gone, stalled, faults, crashes>>

(* appendAgentMessageForRun: tool calls, results and the answer.            *)
TurnSpeaks(t) ==
  /\ turn[t].pc = "talking" /\ writer[t] = "idle"
  /\ AppendEvent(Owner, t, FALSE)
  /\ writer' = [writer EXCEPT ![t] = "save"]
  /\ UNCHANGED <<session, disk, claim, retry, worker, turn, outbox, gone, stalled, faults, crashes>>

TurnEnds(t) ==
  /\ turn[t].pc \in {"prompt", "talking"} /\ writer[t] = "idle"
  /\ turn' = [turn EXCEPT ![t] = Over(@)]
  /\ UNCHANGED <<log, claim, retry, worker, writer, outbox, gone, stalled, faults, crashes>>

-----------------------------------------------------------------------------
(* Receipts of ended processes *)

OwnerComesAndGoes ==
  /\ gone' = ~ gone
  /\ UNCHANGED <<log, claim, retry, worker, writer, turn, outbox, stalled, faults, crashes>>

Recipient == IF gone THEN Karoz ELSE Owner
Received(r) == \E a \in Agents : r \in IdsOf(messages[a])

(* admitProcessTerminalMessage, under one lock. A receipt that is there     *)
(* already, for whichever agent, is delivered; a failed save takes the      *)
(* message back.                                                            *)
Admit(r, ok) ==
  /\ outbox[r] = "pending"
  /\ \/ /\ Received(r) /\ ok
        /\ outbox' = [outbox EXCEPT ![r] = "admitted"]
        /\ UNCHANGED <<log, stalled, faults>>
     \/ /\ ~ Received(r) /\ ok
        /\ AppendEvent(Recipient, r, FALSE)
        /\ disk' = events'
        /\ outbox' = [outbox EXCEPT ![r] = "admitted"]
        /\ stalled' = (stalled \/ Recipient = Owner)
        /\ UNCHANGED <<session, faults>>
     \/ ~ Received(r) /\ ~ ok /\ Fail /\ UNCHANGED <<log, outbox, stalled>>
  /\ UNCHANGED <<claim, retry, worker, writer, turn, gone, crashes>>

(* The acknowledgement in the process files, or its failure: the next drain *)
(* delivers the receipt again.                                              *)
Acknowledge(r, ok) ==
  /\ outbox[r] = "admitted"
  /\ outbox' = [outbox EXCEPT ![r] = IF ok THEN "acknowledged" ELSE "pending"]
  /\ IF ok THEN UNCHANGED faults ELSE Fail
  /\ UNCHANGED <<log, claim, retry, worker, writer, turn, gone, stalled, crashes>>

-----------------------------------------------------------------------------
(* A crash and loadAgentSessionEvents: memory is what the file replays to.  *)
Restart ==
  /\ crashes < MaxCrashes /\ crashes' = crashes + 1
  /\ events' = disk /\ UNCHANGED disk
  /\ transcripts' = [a \in Agents |-> Replayed(disk[a]).transcript]
  /\ messages' = [a \in Agents |-> Replayed(disk[a]).messages]
  /\ session' = Replayed(disk[Owner]).session
  /\ claim' = NoClaim /\ retry' = FALSE
  /\ worker' = [k \in Workers |-> [pc |-> "idle", claim |-> NoClaim]]
  /\ writer' = [x \in Writers \cup Turns |-> "idle"]
  /\ turn' = [t \in Turns |-> IF turn[t].pc = "new" THEN turn[t] ELSE Over(turn[t])]
  /\ outbox' = [r \in Receipts |-> IF outbox[r] = "admitted" THEN "pending" ELSE outbox[r]]
  /\ stalled' = TRUE
  /\ UNCHANGED <<gone, faults>>

ConversationNext ==
  \/ \E k \in Workers : Release(k) \/ LookAgain(k) \/ \E ok \in BOOLEAN : Commit(k, ok)
  \/ RetryElapses
  \/ \E x \in Writers : WriterAppends(x) \/ WriterNotes(x)
  \/ \E x \in Writers \cup Turns : Check(x) \/ \E ok \in BOOLEAN : Persist(x, ok)
  \/ \E t \in Turns : \/ StartDirect(t) \/ StartScheduled(t) \/ Retry(t) \/ Prompt(t)
                      \/ ReadSummary(t) \/ ReadHistory(t) \/ TurnSpeaks(t) \/ TurnEnds(t)
                      \/ \E ok \in BOOLEAN : SaveInput(t, ok)
  \/ OwnerComesAndGoes
  \/ \E r \in Receipts, ok \in BOOLEAN : Admit(r, ok) \/ Acknowledge(r, ok)
  \/ Restart

ConversationSpec == ConversationInit /\ [][ConversationNext]_conversationVars

-----------------------------------------------------------------------------
(* ArchivedMessagesFor.                                                     *)
Archive == {n \in SeqsOf(messages[Owner]) : n <= session.covered}

(* Nothing falls between the summary and the window: the messages that have *)
(* left the window are the archived ones, and they are those that the       *)
(* batches of the committed checkpoints handed over to be summarised; the   *)
(* last Window numbers are always in the window. What a prompt had no room  *)
(* for is in neither (cut): that is the exception the code has.             *)
ContextIsWhole ==
  /\ Archive = {n \in SeqsOf(messages[Owner]) : n < session.start}
  /\ Archive = MadeFrom(session)
  /\ session.start + Window <= Max({Window} \cup SeqsOf(messages[Owner])) + 1

(* A turn is given every earlier message of the others, in the history or   *)
(* in a summary that was made from it, unless a checkpoint was committed    *)
(* between its reading the one and the other.                               *)
TurnsMissNothing == \A t \in Turns : turn[t].missed # {} => turn[t].moved

(* A window past its limit is being worked on, or there is a reason why     *)
(* not: the last look failed, the server restarted, or the last message     *)
(* came from the process outbox, which does not look.                       *)
LongWindowsAreWorkedOn ==
  Due => \/ \E k \in Workers : worker[k].pc \in {"asking", "again"}
         \/ \E x \in Writers \cup Turns : writer[x] \in {"save", "check"}
         \/ stalled

(* No message is in neither the window nor a batch that was summarised, for  *)
(* every turn, and the window is kept short.                                *)
NothingFallsBetween == ContextIsWhole /\ TurnsMissNothing /\ LongWindowsAreWorkedOn

(* A receipt the process files have let go of is in the file, for one       *)
(* agent, once.                                                             *)
ReceiptsAreKept ==
  \A r \in Receipts :
    /\ outbox[r] = "acknowledged" => \E a \in Agents : r \in IdsOf(Replayed(disk[a]).transcript)
    /\ Cardinality({p \in Agents \X (1 .. MaxSeq) :
                       p[2] \in DOMAIN messages[p[1]] /\ messages[p[1]][p[2]].id = r}) <= 1

(* What a restart would read is a conversation the load accepts, with       *)
(* strictly increasing numbers, and the projections are the log's. The      *)
(* session may be ahead of the log by a checkpoint that could not be saved, *)
(* never behind it.                                                         *)
Increasing(items) == \A n \in 2 .. Len(items) : items[n - 1].seq < items[n].seq
ReplayIsFaithful ==
  /\ \A a \in Agents :
       /\ Increasing(Replayed(disk[a]).transcript)
       /\ transcripts[a] = Replayed(events[a]).transcript
       /\ messages[a] = Replayed(events[a]).messages
  /\ LET replayed == Replayed(events[Owner]).session
     IN session # replayed => session.version > replayed.version

(* The input of a scheduled run is in the conversation once, however often  *)
(* the run is tried.                                                        *)
InputsAreGivenOnce == \A t \in Turns : Cardinality(InputOf(t)) <= 1

(* The event log is the conversation: it replays to what was in memory, and *)
(* receipts and inputs are in it once, whatever is tried again.             *)
LogIsTheConversation == ReceiptsAreKept /\ ReplayIsFaithful /\ InputsAreGivenOnce
=============================================================================
