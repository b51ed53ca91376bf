-------------------------------- MODULE Page --------------------------------
(***************************************************************************)
(* The page a user watches an agent on (cmd/karoz/static/js: agents.js,    *)
(* chat-stream.js, panels.js) and what the server tells it: the stream of  *)
(* runtime events, the answers about the active run, the agents and the    *)
(* history, and the streams of runs.  Between two awaits the page's code   *)
(* is one step; an answer is what the server held when it was asked, the   *)
(* oldest it can be, and arrives when it likes.                            *)
(*                                                                         *)
(* A message is counted, not spelled: the history of an agent is as long   *)
(* as what was appended to it.  The order of a run's events and the page's *)
(* place in them are module RunLedger's business; here a stream is open or *)
(* not, and names its run.  PageAgents stay as they are, the page stays on the *)
(* chat of a project, and no request fails; streams break.                 *)
(***************************************************************************)
EXTENDS Naturals

CONSTANTS PageAgents,        \* the agents of the project
          RunIDs, Serves,    \* the runs there may be, and the agent each is of
          Nobody,            \* no run, no agent
          Watch,             \* the buffer of a watcher of runtime events
          MaxPosts,          \* bound on the messages the user sends
          MaxActs            \* bound on what the user does, the polls and the breaks

ASSUME PageAssumption ==
  /\ PageAgents # {}
  /\ Serves \in [RunIDs -> PageAgents]
  /\ Nobody \notin RunIDs \cup PageAgents
  /\ Watch \in Nat \ {0}
  /\ {MaxPosts, MaxActs} \subseteq Nat

VARIABLES
  server,   \* the active run of each agent, the runs begun, the length of each history
  runtime,  \* the stream of runtime events and the events in its channel
  view,     \* the agent shown, what of each history is, which agents seem to work or to stop
  run,      \* the run the page follows, its agent; the open EventSource, its key, its timers
  sync,     \* the probe of the active run, its answer, and whether another is wanted
  fetches,  \* the answers to requests for a history on their way: [kind, agent, n]
  lists,    \* the answers to requests for the agents on their way: those that work
  refresh,  \* is the timer of a chat refresh set?
  history,  \* are earlier messages being loaded?
  posts,    \* [1..MaxPosts -> the sending of a message]
  stops,    \* the agents whose run is asked to be cancelled
  used,     \* of MaxActs
  overtaken \* history: did a refresh get lost, or an old history replace a newer one?

pageVars == <<server, runtime, view, run, sync, fetches, lists, refresh, history, posts, stops, used, overtaken>>

Idle == [pc |-> "idle", agent |-> Nobody, run |-> Nobody, again |-> FALSE]
NoPost == [pc |-> "none", agent |-> Nobody, direct |-> FALSE, run |-> Nobody]

PageInit ==
  /\ server = [active |-> [a \in PageAgents |-> Nobody], begun |-> {}, said |-> [a \in PageAgents |-> 0]]
  /\ runtime = [pc |-> "connecting", channel |-> 0]
  /\ view = [agent |-> CHOOSE a \in PageAgents : TRUE, shown |-> [a \in PageAgents |-> 0],
             working |-> {}, listed |-> {}, stopping |-> {}, streaming |-> FALSE]
  /\ run = [id |-> Nobody, agent |-> Nobody, source |-> Nobody, key |-> Nobody, timers |-> {}]
  /\ sync = Idle
  /\ fetches = {} /\ lists = {} /\ refresh = FALSE /\ history = FALSE
  /\ posts = [p \in 1..MaxPosts |-> NoPost]
  /\ stops = {}
  /\ used = 0
  /\ overtaken = FALSE

-----------------------------------------------------------------------------
(* The server *)

Working == {a \in PageAgents : server.active[a] # Nobody}

Began(s, r) == [s EXCEPT !.active[Serves[r]] = r, !.begun = @ \cup {r}]

(* broadcastRuntimeEvent, right after the change: the event is dropped if   *)
(* the channel is full.                                                     *)
Broadcast == runtime' = IF runtime.pc = "open" /\ runtime.channel < Watch
                        THEN [runtime EXCEPT !.channel = @ + 1] ELSE runtime

(* A run of the scheduler begins.                                           *)
BeginRun(r) ==
  /\ r \notin server.begun /\ server.active[Serves[r]] = Nobody
  /\ server' = Began(server, r)
  /\ Broadcast
  /\ UNCHANGED <<view, run, sync, fetches, lists, refresh, history, posts, stops, used, overtaken>>

(* A run ends, with its result appended in the same critical section or a   *)
(* message on its failure before.                                           *)
FinishRun(r) ==
  LET a == Serves[r] IN
  /\ server.active[a] = r
  /\ server' = [server EXCEPT !.active[a] = Nobody, !.said[a] = @ + 1]
  /\ Broadcast
  /\ UNCHANGED <<view, run, sync, fetches, lists, refresh, history, posts, stops, used, overtaken>>

-----------------------------------------------------------------------------
(* The pieces the handlers of the page share *)

AgentWorks(v, a) == a \in v.working \cup v.listed

(* renderAgentWorkingState takes "Stopping" back once nothing works.        *)
Rendered(v) == IF AgentWorks(v, v.agent) THEN v ELSE [v EXCEPT !.stopping = @ \ {v.agent}]

(* The loop of requestActiveRunSync goes round: syncActiveRunEvents asks    *)
(* for the active run of the agent shown, unless a message is being sent.   *)
Probe(v) == IF v.streaming THEN Idle
            ELSE [Idle EXCEPT !.pc = "asked", !.agent = v.agent, !.run = server.active[v.agent]]
RequestSync(v) == sync' = IF sync.pc = "idle" THEN Probe(v) ELSE [sync EXCEPT !.again = TRUE]
NextProbe(v) == sync' = IF sync.again THEN Probe(v) ELSE Idle

Fetch(kind, agent) == [kind |-> kind, agent |-> agent, n |-> server.said[agent]]
NoRunFollowed(agent) == [run EXCEPT !.id = Nobody, !.agent = agent, !.source = Nobody, !.key = Nobody]

-----------------------------------------------------------------------------
(* Runtime events *)

(* What the page makes of a snapshot or an event: the agents are replaced,  *)
(* the run is probed and a refresh of the chat is scheduled.  The mutant    *)
(* refreshes the chat of an agent that works.                               *)
ToldOfWorking ==
  /\ view' = Rendered([view EXCEPT !.listed = Working])
  /\ RequestSync(view)
  /\ refresh' = (refresh \/ AgentWorks(view', view.agent))

Told ==
  /\ view' = Rendered([view EXCEPT !.listed = Working])
  /\ RequestSync(view)
  /\ refresh' = TRUE

(* handleRuntimeEvents watches first and then writes its snapshot; it adds  *)
(* the agents as they are to every event it takes from the channel.         *)
Connected ==
  /\ runtime.pc = "connecting"
  /\ runtime' = [pc |-> "open", channel |-> 0]
  /\ Told
  /\ UNCHANGED <<server, run, fetches, lists, history, posts, stops, used, overtaken>>

RuntimeEvent ==
  /\ runtime.channel > 0
  /\ runtime' = [runtime EXCEPT !.channel = @ - 1]
  /\ Told
  /\ UNCHANGED <<server, run, fetches, lists, history, posts, stops, used, overtaken>>

RuntimeBreaks ==
  /\ runtime.pc = "open" /\ used < MaxActs
  /\ runtime' = [pc |-> "broken", channel |-> 0]
  /\ used' = used + 1
  /\ UNCHANGED <<server, view, run, sync, fetches, lists, refresh, history, posts, stops, overtaken>>

RuntimeReconnects ==
  /\ runtime.pc = "broken"
  /\ runtime' = [runtime EXCEPT !.pc = "connecting"]
  /\ UNCHANGED <<server, view, run, sync, fetches, lists, refresh, history, posts, stops, used, overtaken>>

-----------------------------------------------------------------------------
(* syncActiveRunEvents *)

(* No run: the page stops following one.                                    *)
Unfollow(a) ==
  /\ view' = Rendered([view EXCEPT !.working = @ \ {a}, !.listed = @ \ {a}])
  /\ LET keyed == run.key # Nobody /\ Serves[run.key] = a
     IN  run' = [run EXCEPT !.source = IF keyed THEN Nobody ELSE @, !.key = IF keyed THEN Nobody ELSE @,
                            !.id = IF run.agent = a THEN Nobody ELSE @]

(* A run: the page follows it, on the EventSource it has or a new one.      *)
Follow(a, r) ==
  /\ view' = Rendered([view EXCEPT !.working = @ \cup {a}])
  /\ run' = IF run.key = r /\ run.source # Nobody THEN run
            ELSE [run EXCEPT !.id = r, !.agent = a, !.source = r, !.key = r]

(* An answer about an agent that is no longer shown is dropped.  The mutant *)
(* looks at the agent only before it asks.                                  *)
SyncAnyAgent ==
  /\ sync.pc = "asked"
  /\ IF sync.run = Nobody THEN Unfollow(sync.agent) ELSE Follow(sync.agent, sync.run)
  /\ NextProbe(view)
  /\ UNCHANGED <<server, runtime, fetches, lists, refresh, history, posts, stops, used, overtaken>>

SyncRun ==
  /\ sync.pc = "asked"
  /\ IF sync.agent # view.agent THEN UNCHANGED <<view, run>>
     ELSE IF sync.run = Nobody THEN Unfollow(sync.agent) ELSE Follow(sync.agent, sync.run)
  /\ NextProbe(view)
  /\ UNCHANGED <<server, runtime, fetches, lists, refresh, history, posts, stops, used, overtaken>>

(* The EventSource breaks, or its run is over: closed now, and a second     *)
(* later the run is probed again if the page still follows it.              *)
SourceEnds ==
  /\ run.source # Nobody
  /\ \/ server.active[Serves[run.source]] # run.source /\ UNCHANGED used
     \/ used < MaxActs /\ used' = used + 1
  /\ run.key = run.source
  /\ run' = [run EXCEPT !.source = Nobody, !.timers = @ \cup {run.key}]
  /\ UNCHANGED <<server, runtime, view, sync, fetches, lists, refresh, history, posts, stops, overtaken>>

SourceTimer(r) ==
  /\ r \in run.timers
  /\ IF run.key = r /\ Serves[r] = view.agent
     THEN run' = [run EXCEPT !.timers = @ \ {r}, !.key = Nobody] /\ RequestSync(view)
     ELSE run' = [run EXCEPT !.timers = @ \ {r}] /\ UNCHANGED sync
  /\ UNCHANGED <<server, runtime, view, fetches, lists, refresh, history, posts, stops, used, overtaken>>

-----------------------------------------------------------------------------
(* refreshAgentStates, every ten seconds and after what the user does *)

Poll ==
  /\ used < MaxActs
  /\ used' = used + 1
  /\ lists' = lists \cup {Working}
  /\ UNCHANGED <<server, runtime, view, run, sync, fetches, refresh, history, posts, stops, overtaken>>

ListArrives(l) ==
  /\ l \in lists
  /\ lists' = lists \ {l}
  /\ view' = Rendered([view EXCEPT !.listed = l])
  /\ IF view.streaming THEN UNCHANGED <<sync, refresh>>
     ELSE RequestSync(view) /\ refresh' = (refresh \/ AgentWorks(view', view.agent))
  /\ UNCHANGED <<server, runtime, run, fetches, history, posts, stops, used, overtaken>>

-----------------------------------------------------------------------------
(* The history *)

(* refreshActiveAgentChat asks unless a message is being sent or earlier    *)
(* messages are on their way.                                               *)
MayRefresh(v) == ~ v.streaming /\ ~ history

RefreshTimer ==
  /\ refresh /\ ~ \E f \in fetches : f.kind = "refresh"
  /\ refresh' = FALSE
  /\ IF MayRefresh(view) THEN fetches' = fetches \cup {Fetch("refresh", view.agent)} ELSE UNCHANGED fetches
  /\ overtaken' = (overtaken \/ history)
  /\ UNCHANGED <<server, runtime, view, run, sync, lists, history, posts, stops, used>>

(* loadAgentMessages replaces what the chat shows, and the page probes the  *)
(* run; an answer about another agent ends the selection.                   *)
HistoryLoaded(f) ==
  /\ f \in fetches /\ f.kind = "load"
  /\ fetches' = fetches \ {f}
  /\ IF f.agent # view.agent THEN UNCHANGED <<view, sync, overtaken>>
     ELSE /\ view' = [view EXCEPT !.shown = [a \in PageAgents |-> IF a = f.agent THEN f.n ELSE 0]]
          /\ overtaken' = (overtaken \/ f.n < view.shown[f.agent])
          /\ RequestSync(view)
  /\ UNCHANGED <<server, runtime, run, lists, refresh, history, posts, stops, used>>

(* refreshActiveAgentChat merges; after a message was sent, the agents are  *)
(* asked for next.                                                          *)
HistoryMerged(f) ==
  /\ f \in fetches /\ f.kind # "load"
  /\ fetches' = fetches \ {f}
  /\ view' = IF f.agent = view.agent /\ MayRefresh(view) /\ f.n > view.shown[f.agent]
             THEN [view EXCEPT !.shown[f.agent] = f.n] ELSE view
  /\ overtaken' = (overtaken \/ history)
  /\ lists' = IF f.kind = "post" THEN lists \cup {Working} ELSE lists
  /\ UNCHANGED <<server, runtime, run, sync, refresh, history, posts, stops, used>>

(* loadEarlierAgentMessages: what it brings is older than what is shown.    *)
LoadEarlier ==
  /\ ~ history /\ used < MaxActs
  /\ history' = TRUE
  /\ used' = used + 1
  /\ UNCHANGED <<server, runtime, view, run, sync, fetches, lists, refresh, posts, stops, overtaken>>

EarlierLoaded ==
  /\ history
  /\ history' = FALSE
  /\ UNCHANGED <<server, runtime, view, run, sync, fetches, lists, refresh, posts, stops, used, overtaken>>

-----------------------------------------------------------------------------
(* The user *)

SelectAgent(a) ==
  /\ a # view.agent /\ used < MaxActs
  /\ used' = used + 1
  /\ run' = IF run.agent = a THEN run ELSE NoRunFollowed(a)
  /\ view' = Rendered([view EXCEPT !.agent = a])
  /\ fetches' = fetches \cup {Fetch("load", a)}
  /\ UNCHANGED <<server, runtime, sync, lists, refresh, history, posts, stops, overtaken>>

(* sendAgentMessage: a message to an agent that seems to work is an         *)
(* interrupt; another one is watched until its run ends.                    *)
Send(p) ==
  LET a == view.agent
      direct == ~ AgentWorks(view, a)
  IN
  /\ posts[p].pc = "none" /\ a \notin view.stopping /\ used < MaxActs
  /\ used' = used + 1
  /\ posts' = [posts EXCEPT ![p] = [NoPost EXCEPT !.pc = "sent", !.agent = a, !.direct = direct]]
  /\ IF direct
     THEN /\ view' = [view EXCEPT !.working = @ \cup {a}, !.listed = @ \cup {a}, !.streaming = TRUE]
          /\ run' = [run EXCEPT !.id = Nobody, !.agent = a]
     ELSE UNCHANGED <<view, run>>
  /\ UNCHANGED <<server, runtime, sync, fetches, lists, refresh, history, stops, overtaken>>

(* The handler of POST messages: the active run is interrupted, or a direct *)
(* run begins and is streamed.  Either way the message is in the history.   *)
TakeMessage(p) ==
  LET a == posts[p].agent
      heard == [server EXCEPT !.said[a] = @ + 1]
  IN
  /\ posts[p].pc = "sent"
  /\ \/ /\ server.active[a] # Nobody
        /\ server' = heard /\ UNCHANGED runtime
        /\ posts' = [posts EXCEPT ![p].pc = "closed"]
     \/ /\ server.active[a] = Nobody
        /\ \E r \in RunIDs \ server.begun :
             /\ Serves[r] = a
             /\ server' = Began(heard, r) /\ Broadcast
             /\ posts' = [posts EXCEPT ![p].pc = "open", ![p].run = r]
  /\ UNCHANGED <<view, run, sync, fetches, lists, refresh, history, stops, used, overtaken>>

(* accept: the first event of a stream names the run the page follows.      *)
StreamEvent(p) ==
  /\ posts[p].pc = "open" /\ run.id = Nobody
  /\ run' = [run EXCEPT !.id = posts[p].run]
  /\ UNCHANGED <<server, runtime, view, sync, fetches, lists, refresh, history, posts, stops, used, overtaken>>

PostStreamEnds(p) ==
  /\ posts[p].pc = "open"
  /\ \/ server.active[posts[p].agent] # posts[p].run /\ UNCHANGED used
     \/ used < MaxActs /\ used' = used + 1
  /\ posts' = [posts EXCEPT ![p].pc = "closed"]
  /\ UNCHANGED <<server, runtime, view, run, sync, fetches, lists, refresh, history, stops, overtaken>>

(* The end of sendAgentMessage: the chat is refreshed and then the agents,  *)
(* what else it loads after a success included.                             *)
PostReturns(p) ==
  LET v == IF posts[p].direct
           THEN [view EXCEPT !.streaming = FALSE, !.working = @ \ {posts[p].agent}] ELSE view
  IN
  /\ posts[p].pc = "closed"
  /\ posts' = [posts EXCEPT ![p] = [NoPost EXCEPT !.pc = "done"]]
  /\ view' = v
  /\ IF MayRefresh(v)
     THEN fetches' = fetches \cup {Fetch("post", v.agent)} /\ UNCHANGED lists
     ELSE lists' = lists \cup {Working} /\ UNCHANGED fetches
  /\ overtaken' = (overtaken \/ history)
  /\ UNCHANGED <<server, runtime, run, sync, refresh, history, stops, used>>

(* stopActiveAgentRun.  The cancelled run ends later.                       *)
Stop ==
  LET a == view.agent IN
  /\ AgentWorks(view, a) /\ a \notin view.stopping /\ used < MaxActs
  /\ used' = used + 1
  /\ view' = [view EXCEPT !.stopping = @ \cup {a}]
  /\ stops' = stops \cup {a}
  /\ UNCHANGED <<server, runtime, run, sync, fetches, lists, refresh, history, posts, overtaken>>

StopReturns(a) ==
  /\ a \in stops
  /\ stops' = stops \ {a}
  /\ view' = IF server.active[a] = Nobody THEN [view EXCEPT !.stopping = @ \ {a}] ELSE view
  /\ lists' = lists \cup {Working}
  /\ UNCHANGED <<server, runtime, run, sync, fetches, refresh, history, posts, used, overtaken>>

-----------------------------------------------------------------------------
PageNext ==
  \/ \E r \in RunIDs : BeginRun(r) \/ FinishRun(r) \/ SourceTimer(r)
  \/ Connected \/ RuntimeEvent \/ RuntimeBreaks \/ RuntimeReconnects
  \/ SyncRun \/ SourceEnds
  \/ Poll \/ (\E l \in lists : ListArrives(l))
  \/ RefreshTimer \/ LoadEarlier \/ EarlierLoaded
  \/ \E f \in fetches : HistoryLoaded(f) \/ HistoryMerged(f)
  \/ \E a \in PageAgents : SelectAgent(a) \/ StopReturns(a)
  \/ \E p \in 1..MaxPosts : Send(p) \/ TakeMessage(p) \/ StreamEvent(p) \/ PostStreamEnds(p) \/ PostReturns(p)
  \/ Stop

PageSpec == PageInit /\ [][PageNext]_pageVars

-----------------------------------------------------------------------------
(* Properties *)

(* The run the page listens to is a run of the agent it shows, however      *)
(* selections, answers, timers and messages that are sent overlap.          *)
PageFollowsItsAgent ==
  /\ run.source # Nobody => Serves[run.source] = view.agent
  /\ run.agent \in {Nobody, view.agent}

(* Nothing more will happen unless somebody acts or the page polls.         *)
AtRest ==
  /\ runtime = [pc |-> "open", channel |-> 0]
  /\ sync = Idle /\ fetches = {} /\ lists = {} /\ ~ refresh /\ ~ history /\ stops = {} /\ run.timers = {}
  /\ \A p \in 1..MaxPosts : posts[p].pc \in {"none", "done"}

(* A page at rest is up to date: it shows the whole history of the agent    *)
(* and of no other agent, the agent works on the page exactly if it works,  *)
(* and "Stopping" stays only while it does.  Excused are the refresh that   *)
(* was dropped because earlier messages were on their way, and the history  *)
(* that arrived after a newer one and replaced it.                          *)
RestingPageIsCurrent ==
  AtRest =>
    /\ AgentWorks(view, view.agent) <=> view.agent \in Working
    /\ view.agent \in view.stopping => view.agent \in Working
    /\ ~ view.streaming
    /\ ~ overtaken /\ view.agent \notin Working =>
         view.shown = [a \in PageAgents |-> IF a = view.agent THEN server.said[a] ELSE 0]

(* Not satisfied: the page follows the run it has just started.  An answer  *)
(* that was asked for before the message was sent names the run before, and *)
(* what the stream brings is then refused.                                  *)
StartedRunIsFollowed ==
  \A p \in 1..MaxPosts :
    posts[p].pc = "open" /\ posts[p].direct /\ posts[p].agent = view.agent => run.id \in {Nobody, posts[p].run}

=============================================================================
