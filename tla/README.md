# A verification project for karoz

karoz is a multi-agent workbench: one Go process that serves a web front end, keeps projects of
agents, and lets every agent work in turns of a language model. This directory holds TLA+ models
of its core logic, the TLC runs that check them on small instances, and proofs, checked by TLAPS,
for every value of the constants. `PROJECT.json` lists the components, the runs, the mutants that
show that a run can fail, the source lines behind every definition, the hazards and the theorems.

Paths below are relative to `src/`; those without a directory are in `src/cmd/karoz/`.

1. [Inventory](#1-inventory)
2. [The modules](#2-the-modules)
3. [Scheduler](#3-the-scheduler)
4. [Run control](#4-run-control)
5. [Background processes: the files](#5-background-processes-the-files)
6. [Background processes: the supervisor](#6-background-processes-the-supervisor)
7. [Event ledgers](#7-event-ledgers)
8. [Handoffs](#8-handoffs)
9. [Tasks](#9-tasks)
10. [Plans](#10-plans)
11. [Monitors and probes](#11-monitors-and-probes)
12. [Conversation, page and idle hook](#12-conversation-page-and-idle-hook)
13. [What the code does not satisfy](#13-what-the-code-does-not-satisfy)
14. [What is proved and how](#14-what-is-proved-and-how)
15. [Only model-checked, and not modelled](#15-only-model-checked-and-not-modelled)

## 1. Inventory

One `App` (`application.go`) owns everything. Its state is guarded by a few mutexes: `app.mu` (run
registry, directory, ledgers' map), the mutexes inside the queue, the process registry and the
persistence coordinator, and mutexes that only serialise one kind of file write
(`schedulerPersistMu`, `handoffOpsMu`, ...). Almost every operation is a short critical section
followed by a save of a whole JSON file, so the hard behaviours are: what happens between two
critical sections of one operation, between a critical section and its save, between the saves of
two files that belong together, and when the process stops there.

| Component | State it keeps | Operations | Talks to | Hard behaviours | Correct when | Module |
| --- | --- | --- | --- | --- | --- | --- |
| Scheduled run queue (`internal/runtime/scheduler_queue.go`) | queues per agent, job table, active workers, dedup keys, proofs of completed monitor fires | Enqueue, RollbackEnqueue, Claim, Complete, MarkEffectsStarted, CancelAgent, Load, Resume, Confirm... | everybody that schedules | several goroutines, rollback of what already runs | dedup exact, no stranded queue, order of arrival | `SchedulerQueue` |
| Scheduler (`internal/runtime/scheduler_worker.go`, `scheduler.go`) | worker goroutines, `agent-run-queue.json` | scheduleAgentRun, Run, persist, load, resume | queue, run control, executors | crash between two saves, overlapping saves, retry | accepted runs are durable, effects neither unmarked nor repeated, every run settles | `Scheduler` |
| Run lifecycle and control (`internal/runtime/lifecycle.go`, `control.go`, `run_controller.go`, `agent_run_worker.go`) | the active run of each agent, its context, its cancelling marker, its interrupts, finished-watchers | Begin, Claim, Bind, RequestCancel, CommitResult, FinishRun, Interrupt | API, scheduler, ledger | post against scheduler against cancel, deadline against answer | one turn at a time; cancelled or answered, never both; one terminal event | `RunControl` |
| Run event ledger (`agent_run_ledger.go`) | bounded event list per run, subscribers | publish, subscribe, stream, evict | run control, clients | slow and reconnecting observers, eviction | an observer misses nothing without being told | `RunLedger` |
| Handoffs and inbox (`internal/collaboration`, `handoffs.go`, `agent_handoffs.go`) | handoff items and their status | queue, transition, claim, reply, fail, retry | scheduler, executors, notifications | stale copies, restart, reply against retry | every handoff ends answered or its sender is told | `Handoff` |
| Executors (`scheduler_jobs.go`) | none of their own | one per kind of run | all domains | order of mark, commit and effect | effects at most once | in those of their domains |
| Runtime events and idle hook (`runtime_hooks.go`) | watchers' channels; a flag per project | broadcast, subscribe; look, take the hook, schedule, give it back | browser, scheduler, default agent | a channel that is full; a flag and a scheduled run that do not end together | the watcher catches up; a taken hook has somebody to give it back | `Page`, `IdleHook` |
| Tasks (`internal/task`, `task_*.go`) | task records, run handles, integration lock, completion hooks, worktrees | create, claim, run, cancel, integrate, retry the merge, clean up, recover | git, scheduler, plans | every actor writes a whole copy back; cancel against merge | one run of a task, one merge of a commit, done only when merged | `TaskLifecycle` |
| Background processes (`process_supervisor.go`) | supervised handles, retained ownerships, admission gate | start, register, roll back, exit, lifetime, stop, shutdown | process files, guards | exit against stop against shutdown, failures half-way | nothing alive is without an owner; success is true | `Supervisor` |
| Process persistence (`process_persistence*.go`, `internal/monitor/terminal_ledger.go`) | three files: journal, reservation ledger, authority | admit, mark running, mark terminal, acknowledge, recover, retain | supervisor, outbox | crash between any two of a dozen saves | recovery keeps the files one-to-one | `ProcessPersistence` |
| Terminal outbox (`process_terminal_outbox.go`) | none (reads the authority) | drain: deliver, then acknowledge | monitors, conversation | crash between delivery and acknowledgement | each end is announced before it is let go | `ProcessPersistence`, `Conversation` |
| Monitors (`internal/monitor`, `monitor_runtime.go`, `monitor_patch.go`) | monitors, windows, pending fires | evaluate, claim, admit, settle, confirm, edit, delete | scheduler, processes | two files, crash between them, capacities | a fire is admitted once and not lost | `Monitors` |
| Monitor probes and approvals (`monitor_probe_approval.go`, `monitor_probe_runtime.go`) | challenges, receipts, snapshots, check loops | prepare, confirm, deny, claim, check, prune | monitors, execution | approval against edit against deletion, long checks | what runs was approved, once, for this revision | `Probes` |
| Plans and groups (`internal/plan`, `plans.go`, `group_plan_types.go`) | plans, steps, versions, queued plan events | draft, submit, activate, decide, report, transfer | scheduler, tasks, handoffs | decisions on stale copies, reports that race them | a change wakes its owner; a versioned write loses nothing | `Plans` |
| Conversation and session events (`agent_messages.go`, `agent_session_events.go`, `agent_prompt.go`) | event log, projections, checkpoint claim | append, read, checkpoint, receive, replay | turns, providers, outbox | append against checkpoint against a turn | no message falls between summary and window | `Conversation` |
| Front end (`static/js`) | selected agent, followed run, shown history, timers, streams | select, send, stop, refresh, follow, poll | HTTP API | answers and events out of order | it shows what it says it shows | `Page` |
| Memory, blackboard, artifacts | one store each | append, search, edit | tools | none beyond one lock | — | — |
| Agents, projects, application lifecycle | directory, registry | create, delete, bootstrap, shutdown | all | order of startup, deletion of a busy agent | see the modules of what is deleted | parts |
| Persistence (`internal/persistence`) | files | SaveJSONAtomic, load | all | failed write | a file is old or new, never in between | assumed |
| Execution runner, process guards, providers, tools, MCP, HTTP API | none or caches | I/O | — | outside the program | — | outcomes only |

The hazards, each at its line and with the properties that watch it, are in `PROJECT.json`.

## 2. The modules

| Module | Models | Relation to others | Run | Proved |
| --- | --- | --- | --- | --- |
| `SchedulerQueue` | the queue's operations as operators | — | through `Scheduler` | through `Scheduler` |
| `Scheduler` | admissions, workers, deletion, snapshots, crashes | extends `SchedulerQueue` | `scheduler_core`, `scheduler_live` | types, all its safety properties |
| `AgentSlot` | abstract: what a registry promises | — | — | — |
| `RunControl` | the registry of one agent and all who race for it | implements `AgentSlot` | `runcontrol_core` | all its invariants, the refinement |
| `ProcessStore` | the three files, their records, checks and writes | — | through `ProcessPersistence` | through `ProcessPersistence` |
| `ProcessLife` | abstract: the life of a process | — | — | — |
| `ProcessPersistence`, `ProcessProperties` | admission, end, outbox, retention, startup, crashes; the promises | extends `ProcessStore`, implements `ProcessLife` | `process` | all its safety properties, the refinement |
| `Supervisor` | who owns a process from start to recorded end | its records are `ProcessPersistence`'s, reduced | `supervisor` | its invariants |
| `RunLedger` | event ledgers, handlers, clients | its publishers follow `RunControl` | `run_ledger` | all its properties |
| `Handoff` | a handoff, its answers, their runs, other turns, restarts | — | `handoff` | all its properties |
| `TaskLifecycle` | tasks from creation to merge, cancellation, recovery | — | `tasks` | one run per task, merges |
| `Plans` | plans, decisions, reports, plan events | tasks reduced to their outcome | `plans` | all its properties |
| `Monitors` | evaluation, pending fires, dispatch | queue reduced to jobs and receipts | `monitors` | its invariant, no fire after a deletion |
| `Probes` | approvals, snapshots, check loops | one monitor, reduced | `probes` | its invariant |
| `Conversation` | event log, checkpoints, turns, receipts | outbox reduced | `conversation` | all its properties |
| `Page` | what follows an agent in the browser | server reduced | `conversation` | all its properties |
| `IdleHook` | the idle reconciliation of a project | scheduler, slot and the rest of the project reduced | `conversation` | its holder |

A module `MC...` gives a module its instance; `...Invariants` and `...Proofs` hold what is proved. Where
a module reduces another's component, it keeps the part that the properties need and says so in its header.

Every run is bounded by its constants alone (sets of runs, agents, processes, and limits on attempts,
faults and crashes that stand in the guards); no state constraint cuts a run short. What no theorem states
is listed in section 15.

## 3. The scheduler

`SchedulerQueue` has one operator per method of `SchedulerQueue` in the code; its variables are the
fields of the struct: `queues` (`queuesByAgent`), `jobs` (the table `jobs`, with the status,
attempt and effects marker of each record; a job that is not in the map is `"absent"`), `active`
(`activeAgents`), `dedup`, `completedMonitorFires` and `monitorFirePendingRemoved`. The fields of a
job that never change (agent, kind, dedup key, creation time) are functions given as CONSTANTS.

`Scheduler` adds those who call it. `caller[j]` is a call of `scheduleAgentRun` for job `j`,
`worker[<<a, s>>]` a worker goroutine of agent `a` (several slots, since it is a property, not an
assumption, that an agent has one), `deleter[a]` a deletion of the agent, `save` the holder of
`schedulerPersistMu` with what it has read so far, and `disk` the file. A save is three actions,
because the code reads the jobs and the completed fires in critical sections of their own before it
writes (`BeginSave`, `ReadCompletedFires`, `EndSave`). `Crash` may come at any point; it
loses everything but `disk`. Startup is `Load`, `LoadSaved`/`LoadSaveFails`,
`ResumeScheduledRuns`. `FailingSaves` names the save points at which a write may fail.

What a run does is left to its executor: it may perform effects, each after
`markScheduledRunEffectsStarted`, and ends with success, failure or cancellation.

| Run | Instance | What it shows |
| --- | --- | --- |
| `scheduler_core` (`MCScheduler.cfg`) | two runs with one dedup key, two attempts, two worker slots, deletion, saves failing everywhere, at admission too | no event runs twice at a time (`DedupIsExact`, over retries, deletions, rollbacks and restarts), no effect without a durable marker (`EffectsAreDurable`), no effect after one that may have happened before a crash (`EffectsAreNeverRepeated`) |
| `scheduler_live` (`MCSchedulerLive.cfg`) | two runs, two attempts, two worker slots, failing admissions and completions | one worker per agent and no queue without one (`QueuesAreServed`), accepted runs are on disk (`AcceptedRunsAreDurable`), an agent's runs are served in arrival order, retries and rollbacks included (`ServedInArrivalOrder`); under fairness and once crashes stop, no run stays queued or running (`RunsSettle`) |

An admission whose save fails is taken back (`RollbackEnqueue`), although a worker may have claimed, run or settled the job
meanwhile. The three properties of `scheduler_core` have the exceptions that this makes, and a call of `scheduleAgentRun` that is refused remembers
which it was (`RefusedAs`): `"undone"` if the run was executing, which then acts outside the table (`Undone`), `"unkeyed"` if it was settled and its dedup key may
have been another run's already (`Astray`), `"rejected"` if it did no harm. The properties except the runs of the first kind and the keys of the second and
nothing else. Without either exception TLC finds a violation in the same configuration (1.45 million states).

Two runs are enough: the interference the code is exposed to is between the run being admitted or rolled
back and the one the worker holds, and either may be the later one. Two attempts give one retry. One
agent suffices for the worker properties because agents share only the save, which all processes of one
agent already contend for; the proofs are for any number. Deadlock is checked: a crash and a restart
are always possible.

*Fairness* (`scheduler_live`): weak fairness of each goroutine's steps and of startup; strong fairness
of getting `schedulerPersistMu`, which others keep taking (Go's mutex turns to FIFO hand-off under
contention), and of the end of an execution, which marking effects disables again and again (its
context has a deadline). None of crashes, deletions, new admissions, effects or failing saves.

## 4. Run control

`RunControl` is the registry of one agent: `slot` (the active run and its interrupts), `control`
(its context and its cancelling marker), and everybody who races for it: `proc[r]`, the goroutine
that works for run `r` (a post's handler and its worker, or the agent's scheduler worker on a
scheduled run), `canceller[c]`, a call of `cancelAgentRun`. `starts` counts how often a run has been
begun, since a retry of a scheduled run has the same ID; a *turn* is a run and that count. `ledger`
says whether the run has an event ledger and how many terminal events were published to it, `job`
is the scheduled run's record. `claims`, `results`, `ended` and `folded` are histories that
properties speak of. Each action is one critical section of `app.mu`, or what a goroutine does
between two.

`AgentSlot` is the abstract promise: one turn holds the slot, gives it back once, with a result or
without, and once a cancellation is accepted only without. `SlotSpec` is the refinement.

Abstractions: the states a run passes through while it is active are one; the lookup of a ledger and
the publication are one step; the order of the queue is `Scheduler`'s business, so the worker takes
any queued job, and there is one worker, which `Scheduler` proves; eviction of ledgers belongs to the
ledger module. Not modelled: deletion's cancellation of the context
(`agent_management.go:414-432`), a turn that adopts the run it finds at its start
(`agent_runtime.go:19`). There is no crash: all of this state is memory.

`runcontrol_core` (`MCRunControl.cfg`; two posts, a scheduled run with two attempts, a cancellation) checks
that a cancelled turn has no result (`CancelExcludesResult`), that a turn keeps the slot until it gives it up
and that nobody who waits for it is forgotten (`SlotIsHandedOver`), that a ledger gets one terminal event
(`OneTerminalEvent`) and a run one result (`ResultsAreNotRepeated`),
the refinement of `AgentSlot`, and that a scheduled run starts and settles although it has to wait for the
agent (`JobsSettle`). `ResultsAreNotRepeated` holds of every scheduled run; of one whose executor marks no effects before it commits (`Unmarked`), only
until an attempt of it has been counted as failed (`MayRepeat`): that is what a retry of such a run may repeat, and cancellations, waits and lost claims
must not. The configuration has its run marked, since marking is a step more; with the run unmarked TLC finds the same properties true (1.6 million states).
Two posts and a scheduled run give every pair of kinds that can meet at the slot, with a
third that waits. The system stops when all posts, jobs and cancellations are over, so deadlock is not checked.

*Fairness*: weak fairness of every goroutine's next step, of providers that
answer or fail (they run under a deadline), not of posts, cancellations or deadlines; the start
deadline of a waiting job gets none, so that the property does not lean on it.

## 5. Background processes: the files

A background process lives in three files: the journal of operations under way, the ledger of
reservation slots and the authority with the records, their terminal events and the tombstones of
removed ones. `ProcessStore` holds them twice, `mem` and `disk`, since the code changes its copy
first and leaves it changed when the save fails (`Write`), and has an operator for each helper that
reads, checks or writes one of them. `ProcessPersistence` has those who use them: the supervisor
(`sup[p]`), the outbox (`outbox`: what it has collected, what it has delivered and not yet
acknowledged), the startup (`phase`), and the retention at the end of a release and of a startup. All
but `MarkRunning` hold the project's lane (`lane`: the operation, its process, the next step). The
straight-line operations are plans, records that lead from one step to the next (`AdmitPlan`, `TerminalPlan`,
`ReleasePlan`); each step is one write, and a `Crash` may come between any two. What recovery does next
is read off the files, as in the code. `delivered` is the durable message of each end;
`cutShort` is a history: some startup was interrupted while it recovered. `storage` is chosen at the start: sound,
or failing at will for the files in `FailingSaves`. `ProcessProperties` states what is promised, `ProcessLife` is the
abstract life *unknown, live, ended, announced, released*, and `LifeOf` maps the files to it.

Abstractions: one project; a process stands for its token, slot and operation IDs, which are all its
own; exits are one state, "interrupted" another; retention picks any subset of the records it
may pick (age and size limits); `failBeforeSpawn`, exit and roll-back of a spawn all end in "exited".
A crash of the program ends its children.

`process` (`MCProcess.cfg`; two processes; two slots where storage is sound, one where it fails) checks, on any storage, that
what is acknowledged was announced (`AcknowledgedEndsWereDelivered`) and that what is on disk is not undone
(`DiskIsNeverUndone`: records only advance, logs go after tombstones). On sound storage it also checks that the
files agree (`RecordsAgree`: only a startup that follows an interrupted recovery is refused; records,
reservations and admissions are one-to-one and saved when the lane is free; no invalid record), that they
implement the abstract life (`LifeSpec`), and that once the program stays up every slot is given
back (`ReservationsAreReleased`). Two processes are enough: processes share the lane, the slots and the saves of whole
files, and no operation touches more than one besides recovery and retention, which take any number.
Deadlock is checked: a crash is always possible.

*Fairness*: weak fairness of startup, of the holder of the lane and of a child's exit;
strong fairness of taking the lane (a Go mutex is granted in turn), and of collecting and delivering
(the outbox has a ticker, and a message that fails to be stored is tried again). None of crashes or of
new processes; the property assumes that crashes stop and that startup is not refused.

## 6. Background processes: the supervisor

`Supervisor` is `process_supervisor.go` step by step: `start` is the one call of Start that holds `startGate`
(admit, launch, mark running, register, roll back), `handle[p]` the supervised process with its cause, its log
and its result, `handles` and `faulted` the supervisor's two maps, `own` and `finish` who is recovering or
finishing what, `stop` a call of Stop, `shutdown` the Shutdown. The files are one record per process; what the process
group does to a signal is an outcome, contained or not proved to be, and a leader may leave
descendants behind (`os[p] = "left"`). `MaxFaults` bounds the failures (a save, a log, a containment).

`supervisor` (`MCSupervisor.cfg`; two processes, a limit of one, two attempts to record an end, two failures) checks
`ProcessesAreAccountedFor`: nothing alive is without an owner, the limit counts what could not be cleaned up,
a Stop or Shutdown that returned success told the truth, and one end is written. Two processes under a limit
of one make the second wait for everything the first leaves behind; two failures exhaust the attempts, or
hit a rollback and then its recovery. `EndsAreRecordedOrReported`: a process with a lifetime is let go, or a
fault of it is reported. The system ends with its processes, so deadlock is not checked.

*Fairness*: weak fairness of the waiter of a process and of its lifetime timer; nobody has to call Stop or Shutdown,
and a command may run for ever.

Abstractions: one Stop at a time; CreateStarting and Reserve are one; TERM has no effect but the
cause it leaves; Abort succeeds once an end is recorded; a crash of the server is the previous section's.

## 7. Event ledgers

`RunLedger` models `agent_run_ledger.go` with those who publish to it and the handlers that stream it to clients, which ask
for the events after any place. A ledger is a run and the number of its start, since a retried run keeps its ID and gets a
new ledger. `ledger` holds what is published, retained and lost (an event is its size), `current` the map that `streamRunLedger`
looks in, `ended` the order of eviction, `work` the run that publishes, `conn` a connection with its handler's replay and
channel. The terminal event comes after the run has left the registry and goes to whatever ledger has the run's ID, as
in `finishAgentRunWithLedger`; a run may also open its ledger after it was cancelled. A publish and a
subscribe hold the ledger's mutex and are atomic; a lookup is a step of its own, so that a ledger may be replaced or
evicted under a handler.

`run_ledger` (`MCRunLedger.cfg`; three runs, three starts in all, a ledger of two events, a channel of one, room for two ended
ledgers, one client) checks what the code's comment promises, "a lagging observer must never silently lose ordering"
(`agent_run_ledger.go:57`). `NothingIsLostSilently` has two parts: `NoSilentGap` relates each event a client is sent to the one before, across
detachments, reconnections and resets, and `ActiveLedgersStay` says that eviction takes only ended runs, in
order. `ChannelsTellTheEnd` says that a handler that still waits does so on a ledger whose run has not published its end and
will publish it there, that one that is told no more finds its channel closed, and that no channel is closed twice (a panic
in Go). It has one exception, which the code really has: a run that is cancelled between the claim of its worker and the creation
of its ledger (`agent_run_worker.go:12-18`, `scheduler.go:159-164`) has told its end before the ledger exists, and a handler on that
ledger waits until its client disconnects. The history field `late` marks these ledgers; nothing else may leave a handler
waiting in vain. Limits this small make every one of them bite in a ledger of three events; clients do not
affect each other, so one is enough. The system may stop, with all runs ended and nobody connected, so deadlock is not checked.

## 8. Handoffs

`Handoff` models a request of one agent to another and everything sent in answer to it: replies, declines and
failure notices, which are messages themselves, with a run of their own at the other agent. `inbox` is
`agent-inbox.json` and its copy in memory, `job` the scheduled run of each message, `thread` where each worker is in
`executeHandoffScheduledRun` or in the completion of a run, and a further thread, `Visitor`, is any other turn of an
agent that calls `reply_to`, `decline_handoff` or `ack_inbox` on a message it finds. An agent has one turn at a
time (`RunControl`) and one worker (`Scheduler`). Each `queueInboxMessage`, transition, edit and enqueue is a step,
since each saves and another turn or a crash may come in between; a save does not fail here, and the copy
in memory and the file are one. What a tool does is `Tool`; called in a run it marks the run's effects first.

`handoff` (`MCHandoff.cfg`; one request, two answers, two attempts, one restart, one visit) checks that the runs of a message
answer it once whatever is retried or restarted (`AnsweredOnceByItsRuns`), that a run that ends well leaves its
message answered, closed or failed with a notice (`SucceededMeansSettled`), and that a message nobody is
at work on is settled (`NobodyForgets`), except in the cases the code overlooks, which the property spells out:
a run that fails without failing its handoff (it never got its agent, or its effect marker could not be saved), a
cancelled run, a conversation at its limit, and a restart. Two answers are enough for a second answer to be
seen, and for the limit to be reached. A message may be forgotten, so the system may stop and deadlock is not
checked. Left out: a turn that acts on a message between its append and its delivery, and a crash in the middle
of a load.

## 9. Tasks

`TaskLifecycle` follows a task from its creation to the merge of its commit. Every actor of the code works on its own *copy* of
the task and writes the whole copy back (`updateTask`), so a write may undo another's; a run (`runner[r]`) and the holder
of the project's integration lock (`lock`) therefore carry a copy. `tasks` and `disk` are the table and `tasks.json`, `runs` the
cancellation handles, `hooks` the completion hooks, `cleaning` a cleanup that has read its task before it gets the
lock. Git is `trees` (the worktree: none, clean, dirty), `branches`, `made` and `merges`; what an inspection of the primary checkout
finds is an outcome. Executor and verifier are outcomes too. A crash loses what is not on disk; the recovery at startup
fails what was live.

`tasks` (`MCTaskLifecycle.cfg`; one task, two goroutines, one commit, one failing save, one crash) checks `OneRunPerTask` (two
runs would share a worktree), `MergesAreExact` (a merge is not cancelled half-way, a commit is not merged twice, a task that says
it is done, in memory or on disk, has its commit in the primary branch) and `RunsSettle` (every run comes to its end
and gives its place up). Tasks meet only at the integration lock, which one task's run, retry, cancellation and cleanup
already contend for; the second goroutine is there to break `OneRunPerTask`. A task may stay as it is, so deadlock is not checked.

*Fairness*: strong fairness of a run's steps (waiting for the lock is a step that others disable, and a Go mutex does not starve a
waiter), weak fairness of the lock's holder. The phases end since they are bound to a context with a deadline; with
`MaxRuntimeMS = 0` there is none, and the fairness is then an assumption on the executor.

## 10. Plans

`Plans` has the work plans of one group. A writer (`ops[w]`: the call in flight and its copy) reads a plan, edits the steps *in
place*, since a copied `WorkPlan` shares its array of steps with the original, and then replaces the plan under the lock, with
or without a check of the version, saves it and schedules an event. `arrays` holds the arrays of steps that have existed;
adding a step makes a new one. `work` is what has not reported yet: tasks, reviews, requests to other groups. It is handed out first
(`HandOut`: `createTask`, `sendToGroup`, `sendToAgent`) and the step is marked afterwards (`Mark`), so that its end may come in between; what ends
without a report the step can take stays as "unheard" until the step is handed out again. Only `reply_to` reports a handoff: one
that is answered for its agent, declined, acknowledged, closed at its limit or whose run fails is `EndsUnheard`. `events[p]` is the version
of the last plan event that is queued.

`plans` (`MCPlans.cfg`; one plan of two steps, one of them added later and depending on the other, one decision and one report at a time,
a save that fails or a crash) checks `ChangesAreHeard` (a plan that waits for a decision has an event its owner will not take for an
old one; what the code announces to nobody is excused, and named), `VersionedWritesLoseNothing` (a request that gives its version
replaces exactly what it read) and `RunningStepsHaveWork` (a running step has somebody at work or a report about it under way; with nobody at work it is
only after what it was last handed out as ended unheard, a restart or an added step). Plans of a group share no state but the limit of one that executes (section
13). The bounds on versions and work end the run, so deadlock is not checked; no liveness is claimed.

Abstractions: reading and editing are one step where no work is handed out; the dedup key of plan events, the elements of a review and the editing of group
membership are not modelled.

## 11. Monitors and probes

**Monitors.** An event is evaluated under the lock by every monitor (`Evaluate`); one that fires freezes the fire in `monitors.json`
(`registry`, its copy in memory `monitors`). A dispatcher (`stages[s]`) claims a pending fire, offers it to the scheduler or the blackboard
without the lock, settles it, and confirms its removal to the scheduler. The run it was admitted as is in another file
(`queue`, on disk `runs`), with the receipts that keep a fire from being admitted twice. The queue changes in memory first and is saved whole a step later
(`saving`, and `"save"` of a dispatcher whose admission is being saved): the worker may be at a job that is not on disk, or that is taken back under it, and
what has succeeded may not be on disk yet (`unsaved`) or never come to be known to the queue (`lost`). `boot` is what `resumeMonitorPending` has still
to do, `agent` the agent and how far its deletion is.

`monitors` (`MCMonitors.cfg`; one monitor with a limit of two fires, a rate of one and room for one pending fire, one event delivered twice,
one edit or deletion, one failing save, one crash) checks `FiresRunOnce`: the run of a fire succeeds at most as often as the fire was
frozen, and once more for each success in `lost`, and a fire is never forgotten by both files at once; and `FiresEnd`: what was dropped with its monitor or agent is not
admitted after all, and a pending fire moves on. Fires share the dispatchers' turn, the worker and the limits of their monitor;
the second delivery meets every limit while the first is pending, running or settled (1.2 million states). Two events are 6.9 million states, more than a run is given; the
theorems of section 14 are for any number. *Fairness*: weak fairness of the dispatchers'
steps, of the retry timers, of the deletion once it has begun, and of the start; none of events, edits, runs or crashes.

Abstractions: one agent owns, and is notified by, all monitors; a save reads jobs, receipts and proofs at once (`scheduler.go:306-315` reads them one after the other, as `Scheduler` models it); IDs are not used again after a deletion; the matching of text is a choice;
output lines and probe results take the same path; a window of recent fires is one flag's worth of choice. Not modelled: patches of a
monitor's action; source gaps and the reservation ledger of terminals, which only tests call.

**Probes.** A probe runs a script that somebody approved. `mem` and `stored` hold the monitor with its revision, the reservations, challenges
and receipts; an *ask* is one request for approval and all of these in turn. `files` are the snapshots of approved scripts,
`approver` whoever holds `backgroundOwnerMu` in the middle of an approval or a deletion, `checks[g]` a goroutine that checks, from its wait to
`clearRunning`, `armed` those whose cancellation is registered. `probes` (`MCProbes.cfg`; one monitor, two asks, one of them by the agent, two
goroutines, two errors where the code has three, one edit, one failed save or crash) checks `ApprovalsHold`: what is active, in memory or after a
restart, is what was approved; an approval installs once and never after its denial was acknowledged; a check that fires ran what
was approved for the revision the monitor then has; every snapshot has a record that will remove it. `ActiveProbesAreChecked`: a
probe that stays active is checked again and again. Two asks are two revisions, enough for a check of the one to end under
the other. *Fairness*: weak fairness of the check loops, of an approval that has begun, and of the start.

Not modelled: operator sessions, capacities, the normalisation of sources, the check of the working directory, a snapshot that
cannot be removed. In both runs users and scripts may stop, so deadlock is not checked.

## 12. Conversation, page and idle hook

**Conversation.** `events[a]` is the append-only log, `messages`, `transcripts` and `session` what is projected from it, `disk` its file. The
owner's conversation is modelled in full; Karoz takes the receipts of an owner who is gone. A writer appends a message, then looks whether
the window is past its limit and claims a checkpoint (`claim`); a goroutine (`worker[k]`) asks the provider for a summary without the lock and
commits it against what changed meanwhile. A turn (`turn[t]`) reads the summary and, later, the history. A receipt (`outbox[r]`) is admitted as a
message and acknowledged in the process files. A summary is the set of messages it tells of; what it was made from (`MadeFrom`) is more, since a prompt has
room for some messages of its batch only and for the beginning of the summary before it (`Summaries`): the rest is `cut`. `Replayed(l)` is the loop of
`loadAgentSessionEvents`: what the projection (`Applied`) makes of the events of a log one after the other, from nothing (`Blank`).

**Page.** `Page` is what follows an agent in the browser (`static/js/agents.js`, `chat-stream.js`, `panels.js`): the agent shown, the run followed with its
`EventSource` and timers (`run`), requests on their way (`sync`, `fetches`, `lists`, `posts`, `stops`), and the stream of runtime events with the
bounded channel of its watcher. Between two awaits the page's code is one step; an answer is what the server held when it was asked, the
oldest it can be, and arrives when it likes. A history is its length.

**Idle hook.** When a runtime event finds the project at rest with work left over, it takes the project's `hook`, a flag in memory, and schedules a
run of the default agent (`runtime_hooks.go`, `scheduler_jobs.go:119`). `trigger[t]` is a goroutine that emits an event and how far its look has
come: whether anything runs, what is left and the hook are three critical sections. `job[j]` is the run's record, `key` whether the dedup key of
reconciliations is held, `queueWorker` the agent's worker where it serves a reconciliation, `slot` the agent's active run. The hook is not what keeps two
reconciliations apart, the key is: a retry runs without the hook, and a trigger that takes the hook meanwhile is refused and gives it back. The other
runs and the tasks that keep a project from rest are the flag `busy`; open handoffs, tasks, pending memories and unhandled signals are the
flag `backlog`. The scheduler's queue is the set of queued reconciliations, its saves are a step of the caller that may fail, and a restart makes
of each run what `Recover` does. `discharged` is a history: the runs that owe no hook, because their executor returned or a restart came.

`conversation` (`MCConversation.cfg`) checks the three side by side, each behaviour being one of one of them (`side`). The runs of the page and the
goroutines of the checkpoints are interchangeable, and the run uses these symmetries. Of the
conversation: `NothingFallsBetween` (the messages that have left the window are the archived ones and exactly those that were handed over to be summarised; a turn misses
only what a checkpoint moved between its two reads; a window past its limit is being worked on, or there is a reason why not) and
`LogIsTheConversation` (the log replays to what was in memory, with increasing numbers; acknowledged receipts are on disk, once; a run's input is
given once). Its bounds: three messages, a window of one and a batch of two, two goroutines, one retry, one failing save, one crash: the second message
starts a checkpoint and the third arrives during it, or a failed attempt leaves two for a batch whose prompt has room for the first. Of the page: `PageFollowsItsAgent` (the run it listens to is one of the agent it
shows) and `RestingPageIsCurrent` (when nothing is on its way, what it shows is so). Its bounds: two agents, two runs of one of them, one message sent,
two further acts of the user, the network or the poll, a channel of one. Of the hook: `HookHasAHolder` (whenever it is
taken somebody is about to give it back, unless a run was abandoned, section 13). Its bounds: two events at a time, one reconciliation of two
attempts, one failing save, one restart, so that an event is refused by the key while the run is retried; the theorem is for any
number. The systems may stop; no liveness is claimed.

Not modelled: the limits of 50 items and 24,000 characters on what a turn is shown, the formatting of prompts, `updateAgentSessionState` (only tests
call it, so that a commit is never stale in production); on the page, failing requests, agents that are created or deleted, and the other panels; of runtime events, their projection to the blackboard.

## 13. What the code does not satisfy

No run expects a violation. The statements below are in the modules and do not hold; to see one fail, check it instead of the
properties of the configuration named, with the constants given.

| Statement | Module and configuration | What happens |
| --- | --- | --- |
| `EffectsAreDurable`, `EffectsAreNeverRepeated` without the exception of `Undone` runs | `MCScheduler.cfg` | A worker can claim a run while its admission is being saved. If the save fails, the rollback removes the run although it executes; `markScheduledRunEffectsStarted` then returns nil for a run it does not find (`scheduler.go:322-325`), and the effects proceed without a marker, against its comment (`scheduler.go:326-328`). Scheduled again, the same event is executed again. |
| `DedupIsExact` without the exception of the keys in `Astray` | the same | An agent's deletion cancels a run whose admission is being saved and frees its dedup key, and the same event is scheduled again; if the first save fails, the rollback deletes the key of the second run (`internal/runtime/scheduler_queue.go`, `RollbackEnqueue`, which does not look whose it is), and the event may be queued a third time. |
| `ResultsAreNotRepeated` without the exception of `MayRepeat` | `MCRunControl.cfg`, `Unmarked = {s1}` | Plan and monitor executors commit without marking effects (`plans.go:716-726`, `monitor_runtime.go:923-929`); a deadline right after the commit retries them, and they answer twice. |
| `CancelledRunsHaveNoResult` | `MCRunControl.cfg` | A cancellation accepted between a scheduled run's begin and its claim (`scheduler.go:155-163`) ends that start only; the worker begins the same run again. |
| `TerminalRunsAreReported` | `MCRunControl.cfg`, `Direct = {d1}`, `Scheduled = {}` | A direct run cancelled between its claim and the creation of its ledger (`agent_run_worker.go:12-18`) leaves a ledger without a terminal event. |
| `OwnedRunsStayRegistered` | the same | A run claimed by its worker after the cancellation was accepted (`internal/runtime/control.go:134-142`) is taken out of the registry under it. |
| `InterruptsAreNotDropped` | `MCRunControl.cfg` | A message accepted as an interrupt after the turn's last poll is dropped as one. |
| `RecoveryIsNeverRefused` | `MCProcess.cfg`, `FailingSaves = {}` | Recovery does not advance the journal's operation while it works (`process_persistence_recovery.go:165-185, 622-631`); a crash in its middle leaves states its own checks refuse, and the project stays disabled, against `docs/background-and-monitor.md:1258`. |
| `DeliveriesMatch` | `MCProcess.cfg`, `FailingSaves = {"authority"}` | The outbox announces an end whose save failed (`process_persistence_mutation.go:394`); after a crash the process is "interrupted", and `admitProcessTerminalMessage` refuses it for ever. |
| `NothingStalls` | `MCHandoff.cfg` | The README's "nothing silently stalls" (`README.md:94`) has the exceptions of section 8. A restart right after a request was queued, or between its delivery and the enqueue of its run, leaves it open with no run (`agent_handoffs.go:147-171`; `scheduler.go:356-364` only looks at runs). |
| `AnsweredOnce` | `MCHandoff.cfg` | A reply of another turn is queued before the message is settled (`tool_collaboration.go:187-190`) and has no effect marker; after a restart in between the message's own run replies again. And `decline_handoff` on a declined handoff declines, and notifies, once more: a transition to the same status is valid (`internal/collaboration/model.go:46-48`). |
| `CancelledRunsLeaveNothingToMerge` | `MCTaskLifecycle.cfg` | A run that is cancelled after its last look at the context, and finds the integration lock taken, leaves its commit waiting for a merge; `docs/agent-runtime-remediation-plan.md:209-215` has it end cancelled. |
| `OneExecutionPlan` | `MCPlans.cfg`, `Plans = {p1, p2}` | Two plans of a group can be activated at once; `group_plan_test.go:74` expects one. |
| `ExhaustedMonitorsDrain` | `MCMonitors.cfg`, `MaxTriggers = 1` | The last fire of a monitor with a limit exhausts it, and an exhausted monitor's fires are not offered (`monitor_runtime.go:848`, `internal/monitor/fire.go:79`), against `docs/background-and-monitor.md:912`. |
| `OneCheckAtATime` | `MCProbes.cfg` | The mark that a probe is running is cleared by name, so a second check of the probe may run, against `docs/background-and-monitor.md:652`. |
| `StartedRunIsFollowed` | `MCConversation.cfg` | `chatStreaming` is looked at before an await only (`static/js/agents.js:92`): an answer asked for before a message was sent names the run before, and the new run's stream is refused. |

Some properties hold with exceptions that are themselves what the code does:

- *Process files.* With failing saves, a message may announce an end that is not recorded, and `RecordsAgree` fails: `putOperation`
  changes memory before the save and leaves it changed (`process_persistence_mutation.go:474`, `process_persistence_recovery.go:391-396`), and the
  supervisor's retry re-creates the event of an end that was announced and acknowledged meanwhile (`process_persistence_mutation.go:374-396`).
- *Supervisor.* An end whose saves fail as often as it is tried stays among the handles for ever: its place is lost, Stop returns only the
  error and Shutdown does not complete until a restart (`process_supervisor.go:661-668`). `EndsAreRecordedOrReported` asks for the report only. The
  same holds of a log that cannot be closed.
- *Tasks.* A cancellation between its two sections can leave a task "cancelling"; a run's last `updateTask` overwrites the "done" of a concurrent
  `retryTaskMerge`; a cancellation without a run and the recovery deliver no completion hook.
- *Plans.* A refused stale request leaves its edits of the steps and its work behind; reports, which give no version, restore an
  old status or owner; an event of any version keeps `resumeActionablePlans` from waking the owner; a transfer wakes nobody; a report that races
  an added step brings the old array back. A step runs on with nobody at work, until its owner settles it, when the group's handoff ends otherwise than by
  `reply_to` (`agent_handoffs.go:79-85`, `tool_collaboration.go:139-145, 198-230`: only `tool_collaboration.go:191-192` reports), and when the answer comes before the step
  is set running (`plans.go:372-382, 662`); a review answered before it is on its step (`plans.go:446-447`) is lost the same way. The kind "unheard" of `work` is these cases.
- *Monitors.* The executor of a fire's run marks no effects (`monitor_runtime.go:923-929`), and the run is over in memory (`scheduler_worker.go:162`) before that is saved;
  a save that fails is only logged (`scheduler.go:204-207`). A stop in between, or after such a failure, queues the run again (`scheduler_queue.go:235-260`), and it succeeds a
  second time for one fire. So it does when the save of its admission fails while the worker is at it: the job is taken back (`scheduler.go:135-141`), the fire is tried again, and the
  end of the first run, if it fails, is taken for the end of the second. `FiresRunOnce` counts these successes (`lost`).
  The start takes fires from a dispatcher already at work, and the same fire may run twice (`monitor_runtime.go:900`, `overtaken`). An end delivered again
  after the cooldown fires again; delivered again while its fire is pending, it puts the monitor in error. A claim or settlement whose save fails leaves the fire
  until a restart. A monitor that is enabled again is not dispatched, and disabling it leaves its fires (`docs/background-and-monitor.md:910, 922-923`).
- *Probes.* The failed authorization of an old check puts the newly approved revision in error (`monitor_probe_runtime.go:311-333`); the deletion of the
  owner drops staged challenges without their snapshots; pausing and resuming during a check counts as an error of the probe.
- *Conversation.* The prompt of a checkpoint ends at 14,000 characters and takes 2,400 of the summary before (`agent_messages.go:388, 612, 624-627`), while its commit covers the
  whole batch (`agent_messages.go:676-678`): the last messages of a batch of long ones, and the end of a long summary, are then in neither the new summary nor the window. They remain in the archive, which
  a turn is not shown. `NothingFallsBetween` is about what was handed over to be summarised and keeps the rest apart (`cut`); that each message is itself cut to a length, and that
  a provider may leave out what it likes, is not modelled. A checkpoint whose save fails is taken out of the log but not out of the projected session (`docs/state-ownership.md:28-29`). A turn reads the
  summary (`agent_prompt.go:26`) and the history later (`agent_runtime.go:99`); a checkpoint in between hides messages from both (`moved`). After a failed
  attempt the window is looked at again only when something is appended or prompted; receipts never look.
- *Idle hook.* A reconciliation that ends before it is executed, because it was cancelled between Begin and Execute or never got its agent in any
  of its attempts, leaves the hook taken (`scheduler_worker.go:63-103` calls no executor): no event of the project starts another until a restart
  (`Abandoned`). What is left over while the hook or the key is still held waits for an event after both are free. And, read off the code rather than checked:
  `markBlackboardActivity` reads and replaces the whole blackboard under `app.mu`, which `appendBlackboardEntry` does not take (`tool_collaboration.go:380-410`,
  `agent_handoffs.go:191`), so that a signal posted in between is lost.
- *Page.* `agents.js:124` joins the event's lines with a literal backslash and an n, so that `dispatchAgentSSE` (`chat-stream.js:193-201`) finds no data: every event
  of the reconnecting `EventSource` is dropped, and the page moves by its refreshes alone (`docs/agent-runtime-remediation-plan.md:329-345` has it replay). A
  refresh during the loading of earlier messages is dropped and, for an idle agent, not repeated; an older history may replace a newer (`overtaken`). The model has one refresh on its way
  at a time, and messages come with the runs only.

## 14. What is proved and how

`SchedulerProofs`, `RunControlProofs`, `ProcessProofs`, `HandoffProofs`, `TaskProofs`, `SupervisorProofs`, `AutomationProofs` (of plans, probes and monitors) and
`EventProofs` (of ledgers, page, idle hook and conversation) hold the theorems; each component's rest on one inductive invariant. All are for every value of the constants that satisfies the module's `ASSUME`.

**Scheduler.** From `SchedulerAssumption` and `QueueAssumption`: `InvariantHolds` (`Spec => []IInv`), `TypesHold`,
`RunsAreSerial` (`SingleOwner`: at most one worker, or caller about to start one, per agent),
`NoQueueIsStranded` (a non-empty queue has one) and both together, `QueuesAreAlwaysServed`. `SingleOwner` is not inductive: whether a
step of one goroutine can break it depends on what the queues list (`QueueShape`), on what the
workers hold (`Holding`), on how far the callers have come (`CallerShape`) and on nothing running
before the load (`PhaseShape`); `Attempts` says that a live job has an attempt left, without which a
completed job could be queued past its limit. There is one lemma per operator of the queue and one
per action; the step theorem combines them.

The second part of `SchedulerProofs` proves what the file keeps. `AcceptedRunsAreNeverLost` holds of the code as it is. Its
invariant says who is saving and that he is where he must wait for it (`SaverShape`), and that a run that was accepted is in the file, in every
snapshot that is still to be written, or over (`AcceptedShape`). `EffectsAreAlwaysDurable`, `EffectsAreAtMostOnce` and `DedupIsAlwaysExact`
hold whichever saves fail, an admission's too; what a rollback makes false is excepted in the properties themselves (sections 3 and 13), run by run and key by key. A worker serves a run that the table
has running, unless it was undone under it (`HeldIsRunning`), a marker that the table has reaches the file before the worker goes on, and stays in every later snapshot (`Marked`, `WorkerMarks`), a run that has
acted is marked or was so before the restart that gave it up (`Spent`, `ActedShape`), and a key names the one live run of its event, unless it went astray, which it never
ceases to be (`KeyShape`, `KeysApart`, `AstrayStays`).

The third part proves `RunsAreServedInArrivalOrder` (`Spec => ServedInArrivalOrder`), with no assumption on which saves fail. The shape of the queues is not
enough for it: they must also forget nothing (`ListShape`). A new run comes behind every queued one because each of them is listed, and a claim
overtakes no executing run because that run is held by a worker, which would be the claiming one (`SingleOwner`) and that one holds nothing. `LosesOnly` says of a queue
what a step may take out of it, once for each operation on sequences (`AppendOrder`, `ConsOrder`, `RemoveOrder`); `LeavingFrame` then covers
the steps in which runs only leave, and `ScheduleOrder`, `ClaimOrder` and `RetryOrder` the three that move one. The only step not covered is the load of a
restart, which sorts by `CreatedAt`.

**Run control.** From `RunControlAssumption`: `InvariantHolds`, `TypesHold`,
`CancellationExcludesResult` (no turn is both cancelled and answered), `NoWakeUpIsLost` (who waits for the agent has
a run to wait for, or a wake-up on its way), `TurnsKeepTheSlot`, these two together as `SlotIsAlwaysHandedOver`, `TerminalEventsAreSingle`,
`ResultsAreSingle` and `RegistryImplementsSlot` (`Spec => SlotSpec`). The invariant says that turns are
numbered, so that the current one is new (`SlotShape`, `StartShape`), how far jobs and cancellers
are (`JobShape`, `CancellerShape`), that an answered run is past its effects marker and is not queued
again, or, if it has none, only after an attempt counted as failed (`MarkShape`), and that one goroutine owes a run its terminal event (`ReportShape`).
The refinement maps the holder to the current turn; each action is an abstract step or a stutter.

**Process files.** From `ProcessStoreAssumption` (finitely many processes, any capacity, any files whose saves may fail) and
`ProcessPersistenceAssumption`, in three layers.
*Any storage*: `WritersKeepTheirInvariant`, and from it `AcknowledgedEndsAreAlwaysDelivered` and `NoStepUndoesTheDisk`. `WritersInv` says who holds the lane
and that nobody else is writing (`LaneOK`), what the outbox may still deliver (`OutboxOK`), and that whatever speaks of a release, in memory, on disk or
in an operation under way, speaks of an end whose message is durable (`AnnouncedOK`). Since a failed save leaves the code's copy changed, every part speaks
of both copies, and `RecordsOK` says how memory may run ahead of the disk.
*Sound storage*: `ProcessFilesKeepTheirInvariant`, and from it `RecordsAlwaysAgree`. Memory and disk are then the same, and the
invariant is a table: for each step of each operation, the combinations of journal entry, slot and record that the process it is about may have
(`UpShape`); every other process is at rest. What a crash can leave is the union of these shapes (`Safe`). It is what recovery accepts, and
`BootShape` says how far recovery has brought each process. Recovery itself is not of this kind: it leaves the journal where it was while it
works, so that a crash in its middle leaves shapes outside `Safe` (`Weak`). This is why the property has its exception for a startup that follows an
interrupted one (section 13); what is not refused is completed all the same, and that holds of the weak shapes too.
*Refinement*: `FilesImplementTheLife` (`Spec => LifeSpec`). Lemmas per action read the life of each process off the shapes before and after; a write moves at
most the process it is about, the interruption of what was live at a restart is the abstract `Restart`, and all other writes, of
recovery too, are stutters.

**Event ledgers.** From `RunLedgerAssumption`: `ChannelsTellTheEndHolds`. The invariant, `ChannelInv`, adds that a
handler observes a ledger only while it streams, that what it streams is a ledger, and which run it
asked for; a ledger that is evicted stays as it is for those who still hold it. That a handler does not wait in vain is `EndsAreKnown`: a ledger somebody holds
has had its end, or its run has yet to publish it there, or it was opened late. This one needs `RetentionInv`, below. `NothingIsEverLostSilently` is about steps, from a second invariant on
top of it, `RetentionInv`: a ledger retains the events after its floor and at least one of them (`LedgerOK`); a handler has a place, up to which it has
written all that its client asked for, and what waits in its replay and its channel follows that place, up to the newest event while it is
subscribed (`StreamFrom`); and the ledgers that ended are each there once and are the ones their runs have now (`EndedOK`), so that those that make
room are the oldest. `RetentionGoesOn` proves of each action both that the invariant is kept and what the step gives to an observer.

**Handoffs.** From `HandoffAssumption`: `HandoffsKeepTheirInvariant`, and from it all that the run checks,
`HandoffsAreAnsweredOnce`, `NobodyForgetsAMessage` and `SuccessMeansSettled`. The three need each other's ground. `Placed` ties the
place of a message's own thread to the state of its run; `StatusFits` adds what the message's status can be there, so that a run that begins never
finds its message claimed or failed and a claim that is refused finds it settled. `Answered` says where a message is once a run of
its own has answered it: settled, about to be settled by a run that is marked and so will not be tried again, or failed for good with its notice sent.
`Created` says that a message is created by one thread and has no run until that thread triggers one, `OneTurn` that another turn of the agent never
overlaps the run's own. A step is seen from two sides: what it does to the message whose thread takes it, one lemma per action, and what a step of another thread
can do to a message (`Foreign`: settle it, create it, trigger its run), one lemma per conjunct.

**Tasks.** From `TaskAssumption`: `TaskInvHolds`, `TaskTypes`, `TaskRunsAreSerial` (`OneRunPerTask`) and
`MergesAreAlwaysExact` (`MergesAreExact`). Every actor writes back a whole copy of the task that it read earlier, so it is
not enough that the tables are right: `TaskInv` says of *every* copy, in the tables, the runs, the lock and the cleanup,
that "done" is said of a commit that was merged (`Truthful`); since merges are never taken back, an old copy stays truthful. To it
belong that a run keeps its task's handle to its end (`RunShape`), and that the holder of the
lock who merges for a run finds that run waiting, not cancelled (`LockOK`). There is one lemma per part that a step leaves alone,
one per operator (a write, a run that goes on or gives up, a holder that is through) and one per action.

**Idle hook.** From `HookAssumption`: `HookAlwaysHasAHolder`. The property alone is not inductive: a run could end as a success, and so owe nothing,
without its executor having returned. The invariant adds that what the worker serves is running or was taken out of the table, and that a success was
executed (`ServedShape`), that a run that was never scheduled has given back no hook (`UnusedIsFresh`), that a live run has an attempt left
(`TriesAreLeft`) and that a save under way is some run's (`SavingShape`).

**Supervisor.** From `SupervisorAssumption`: `SupervisorIsInPlace`, `SupervisorTypeCorrect` and `SupervisorAccountsForProcesses`
(`ProcessesAreAccountedFor`). The invariant is a table of places: a process is unborn, in its start, supervised, finished, refused or kept for want of
a place, and each place says what its handle, its start, its finish and its child may be (`Placed`). Everybody else who names a process, by a stop, a waiter or
the shutdown, names one that is no longer unborn (`Named`, `Callers`). With it the limit can be counted: what holds a slot is what is in those places (`Bounded`).
The type invariant is not inductive by itself, since nothing in the types bounds how often a finish is tried; the table does. Each action moves one
process from one place to another and leaves the rest where they are.

**Plans.** From `PlanAssumption`: `PlansKeepTheirInvariant`, and from it all that the run checks, `ChangesAreAlwaysHeard`,
`RunningStepsAlwaysHaveWork` and `VersionedWritesLoseNothingEver`. `ChangesAreHeard` speaks of plans that nobody is changing; what is kept by every step speaks of
those too (`OwnerIsWoken`): a plan that waits for a decision is about to be replaced, or the last who replaced it has yet to announce it and saw the
status and the steps it has now, or its event is in the queue at its version. That somebody saw them is what `advancePlan`'s condition for the event needs. The
edits of a call reach the array it names before the plan is replaced, so that `ArraysExist` and `AbsentAreEmpty` follow the arrays, `ActiveIsAnnounced` says
that who makes a plan active tells its owner, and `ReadersAreRight` that a version that was given is of the plan that was read. `GivenIsThere` says that
what somebody is handing out is still there, or has ended unheard, when its step is set running: what `RunningStepsHaveWork` rests on.

**Probes.** From `ProbeAssumption`: `ProbesTypeCorrect` and `ApprovalsAlwaysHold` (`ApprovalsHold`). A crash makes the file's registry the one in memory,
so the invariant says of each of the two copies that it is `Good` by itself, held against what neither of them contains, the snapshots and what was asked,
installed and refused: the monitor was installed by the one claim of the ask it names, for that ask's revision (`InstalledByAClaim`); an open
challenge has no receipt and its source never ran (`OpenIsNew`); what was installed is in force or its receipt is over, what was refused has none,
and each snapshot has its record (`EndsAreFinal`). The file may lag, but in few things only, since a snapshot is written before its receipt and
removed after it (`FileFollowsMemory`). What a goroutine holds was installed (`ChecksRanInstalled`), whatever has been claimed since. The new ask of a
challenge is the least that is free, which exists because the numbers are well founded.

**Monitors.** From `MonitorAssumption`: `FiresKeepTheirInvariant` (`MonitorSpec => []FiringInv`), `FiresAlwaysRunOnce` (`FiresRunOnce`) and
`DroppedAlwaysStaysDropped` (`DroppedStaysDropped`, the safety half of `FiresEnd`). `FiresRunOnce` is far from inductive: that a run has not
succeeded too often says nothing of the fire that may still be admitted once more. `FiringInv` weighs each fire. `Weighed` adds to the
runs that have succeeded the chances of another in memory: one for a job or a proof in the queue (`Touched`), one for being
pending in memory or on disk unless a receipt guards it, and one for each confirmation under way, of which, while a receipt guards the fire, the
first only takes that receipt; the sum is never more than the times the fire was saved and the successes that the queue does not know of (`lost`). `FileWeighed` does the same
for what a restart would find in the two files, with the successes that are not saved yet on the other side: a crash makes the one the other. A retry, a restart and a late settlement move a chance
and never make one. The rest is what that needs: what queue and file know of a fire, and that a job only
memory has is one whose admission is being saved (`QueuesFit`); that the two copies of `monitors.json` agree on which fires are pending (`CopiesAgree`); that a fire nobody
overtook has one dispatcher (`Dispatched`); and, for what is kept and what was dropped, `Kept` (a job that is still being saved
keeps nothing, since it may be taken back: `Handled`, `Past`) and `Over`. Fires that got a second dispatcher while one was
at work (`overtaken`) are excused from `Weighed` and `Dispatched`, as they are from the property, and from nothing else. The count of confirmations
is a cardinality: `Stages`, the goroutines, are a finite set by assumption. TLC checked `FiringInv` on one monitor with one event
delivered twice, and with two events under tighter bounds, before it was proved. `DroppedStaysDropped` follows from `Over`: who was deleted, or has come back under the name, has no claim on
the old fire, and `Admit` is the only action that queues or posts (`OnlyAdmitAdmits`), but for a run that fails and is tried again.

**Page.** From `PageAssumption` (an agent to show, and a channel that holds an event): `PageKeepsItsInvariant`, and from it `PageAlwaysFollowsItsAgent` and
`RestingPageIsAlwaysCurrent`. The second says nothing of a page at which something is under way; the invariant says what that something is for each thing
shown. That the agent seems to work if it works, or the stream will tell, a message is being sent, the agents or the history were asked for, or the probe is
right or will be repeated (`ShowsWhoWorks`, which needs `OldProbesAreRepeated`: an answer asked for before the last event is followed by another). That
"Stopping" is shown of an agent that works, or the agents were asked for (`StoppingWorks`). That the history is the last, or a refresh is due or on its
way with the last, unless one was lost (`ShowsTheLast`, which needs `HistoriesGrow`, and `StreamingIsSending` where a message under way keeps a refresh from being made).

**Conversation.** From `ConversationAssumption`, which says that agents differ and that no receipt has the name of a run: `ConversationKeepsItsInvariant`, and from it
`ContextAlwaysWhole` (`NothingFallsBetween`) and `LogAlwaysTheConversation` (`LogIsTheConversation`). What a log replays to is a recursive function, so the
proof first needs what it computes: that a replay exists for a log of any length, by taking the least length for which there would be none
(`LeastNumber`, `AReplayExists`), and that one event more applies it to the replay before (`ReplayOfOneMore`). The rest speaks of replays only.
`LogsInv` says of the log and of the file, each by itself, since a crash makes the file's log the one in memory, that its numbers are in order, that its summary was made from all that it
covers, and that each receipt and each input is in it once; and that memory is what the log replays to, but for a session that a failed save left
ahead. A receipt is in memory exactly if it is in the file, because the two are written in one critical section (`OutboxInv` needs it for those that
are let go of). `ClaimsInv` says that one goroutine has the claim, that the claim is of the session as it is, and that what its summary was made from and its batch are
everything up to the last message of the batch, so that a commit whose claim is still current moves the window exactly over them; messages that
arrive meanwhile have higher numbers. `TurnsInv` says that what a turn was told in this version of the session is what the session's summary was made from. TLC
checked `ConversationInv` before it was proved.

## 15. Only model-checked, and not modelled

Liveness under fairness, and the assumptions of fairness themselves, are TLC's alone: ENABLED is
beyond the prover. What a recursive definition computes was proved for the replay of a log alone, by the argument of the least number; the
library's theorems of induction cannot be used. Every safety property that a run checks is stated by a theorem. That every reservation is given back
(`ReservationsAreReleased`) is liveness.

Left out of every model: the wording of messages, prompts and logs; times, except where a deadline or
a retry may come (it may then come at any moment); HTTP, rendering, providers, child processes
and the file system below an all-or-nothing write that may fail. Components not modelled:

- memory, blackboard and artifacts: stores whose operations each hold one lock; of the blackboard, `Monitors` has the entry a fire leaves;
- the directory of agents and projects beyond what a deletion does to the other components, and the order of startup beyond each module's own;
- the output of processes: its ring, its gaps and the reading of logs;
- execution runner, process guards, providers, tools, MCP, HTTP routes: I/O, parsing and wiring around the modelled components, which have their outcomes.
