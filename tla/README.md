# HermesDeck in TLA+

Specifications of HermesDeck's gateway, its connections, its agent, the agent's
tools and its schedulers, the TLC instances
that check them and the TLAPS proofs about them. Every definition is translated
from the TypeScript under `src/src` (and the web server's bridge under `src/ui`);
paths below are relative to `src/src`. PROJECT.json
maps each definition to the lines it stands for and lists runs, hazards,
findings and theorems.

1. [The system](#1-the-system)
2. [Modules](#2-modules)
3. [From code to model](#3-from-code-to-model)
4. [Runs](#4-runs)
5. [Where the code departs from its comments](#5-where-the-code-departs-from-its-comments)
6. [Proofs](#6-proofs)
7. [What is not modelled](#7-what-is-not-modelled)
8. [Plan](#8-plan)

To check everything by hand, in this directory:

    tlc -workers 2 -config gateway_turns.cfg MCInProcessGateway
    tlapm InProcessGateway_proofs.tla

## 1. The system

HermesDeck is a server for coding agents. Clients (a web interface, a terminal
interface, messengers, two schedulers) submit turns to sessions; a session runs
a turn as a loop of model calls and tool calls, streams what happens to the
client, and writes what was said to a transcript from which it can be resumed.
One Node.js process holds all of it. Its concurrency is that of promises:
between two awaits nothing else runs, and across an await anything may.

### Components

| Component | State it keeps | Operations | Depends on |
|---|---|---|---|
| Session table (`gateway/SessionRouter.ts`) | `sessions`, `inFlightTurns` | getOrCreate, beginTurn, endTurn, abort, close, markAllDirty, markProjectDirty, sweepIdle | the factory of agent sessions |
| Gateway turns (`gateway/client/InProcessGateway.ts`) | `emitSinks`, `activeTurnReplays`, `turnCompletions` | submitTurn, abortTurn, closeSession, permissionDecide, respondElicitation | session table, agent session, the two buses |
| Prompts (`gateway/permission`, `gateway/elicitation`) | two buses of pending requests | ask, answer, abort, reject all of a session | the gateway's sinks |
| Agent session, turn, loop (`agent/`) | messages, the running turn's abort controller, counters of the loop | submit, run, abort, changes of the permission mode | context, model, tools, hooks, transcript |
| Context (`context/`) | caches of compaction | build a request, compact in three tiers (snip, micro, automatic), recover from overflow | model (summaries) |
| Transcript (`session/`) | a file of entries, the chain of writes | record*, read, replay, resume | file system |
| Tools (`tool/`) | the calls of a batch, the plan and its todo list (`PlanTodoState`), permission rules of the session | executeAll, execute (schema, hooks, todo gate, permission, tool), enter and exit plan mode, todo_write | permissions, gateway prompts |
| Permissions (`permission/`) | none: a function of mode, rules and call | decide | |
| Background tasks (`task/`) | map of child processes, ring buffers | start, stop, killForAgent, killAll, readSlice | operating system |
| Cron (`cron/`) | tasks.json, `activeRuns`, a timer | create, delete, stop, runNow, start, stop, tick, fire | gateway turns |
| Always-on (`always-on/`) | state file, lock file, work cycles, a timer, a watcher | tick, fire, signal, apply, archive | gateway turns, session table |
| Model router (`router/`) | per-session routing state, token statistics | route, stream with fallback and retry | providers |
| Connections (`gateway/server`, `gateway/client/GatewayWsClient.ts`) | in-flight sessions of a connection; pending requests and open streams of a client | hello, requests, events, close | gateway turns |
| Web bridge (`ui/server/pilotdeck-bridge.js`) | the turn it believes active, per session | chat, stop | one client of the gateway for all browsers |
| Go gateway (`go/`), Python sidecar (`python/`) | a second, smaller gateway and an adapter | | |

Beside several directories stands a copy of themselves (`gateway/gateway`,
`cron/cron`, ...). The copies are identical to the originals file for file.

### How they interact

- A turn: the client iterates submitTurn's generator; a *pump* inside it
  iterates the agent session's generator and fills a queue; prompts put further
  events into the same queue through `emitSinks`. Abort goes the other way, from
  abortTurn through the session table and the session's AbortController to
  whatever the agent awaits, and then waits for the turn's completion.
- Shared state: the session table is shared by all turns, by configuration
  changes, sweeps and closes; tasks.json is shared by ticks, runs and calls; a
  session's messages and transcript by successive turns and by the process that
  resumes the session after a restart.
- A browser's chat goes through the web server's bridge, one WebSocket and the
  connection's for-await over submitTurn. Losing the connection aborts the turns that
  were in flight on it.
- The tools of one answer run beside each other or one after the other, and change
  what the next call's checks read: mode, plan, todo list, rules, background tasks.
- The schedulers are clients of the gateway: a run of cron submits a turn to a
  session of its own and drains it; stopping a run aborts that turn.

### What is hard about it, and what makes it correct

| Component | Hard behaviour | What makes it correct |
|---|---|---|
| Session table | records captured before an await and used after it; a close or a change of configuration in between | one turn per key; an abort reaches the session the turn runs on; the next turn after a change is fresh |
| Gateway turns | stop and re-send race the clean-up of the stopped turn; clients that walk away | slot, sink, replay and completion always belong to one turn; an abort that returned has freed the session; no two pumps on one session |
| Prompts | answered, aborted and rejected from three sides | a prompt ends with its turn, nobody waits where no answer can come |
| Agent loop | four kinds of retries, each with its own limit; abort and failure between any two steps | turns run out of retries; every request is well formed whatever was truncated, compacted or aborted |
| Transcript | a failed append, a crash between appends | a turn counts as a whole or not at all; a resumed session remembers what the running one did |
| Cron | overlapping ticks, runs, calls on one file without a lock; crash and restart | the limit on runs; no task stuck; deleted tasks stay deleted; stop stops |
| Tools | calls of one batch beside each other; checks made before a prompt and used after it; a batch given up while its calls go on | unsafe calls run alone; the todo list comes first; plan mode changes nothing; an abort ends the turn |
| Background tasks | child processes that exit, fail to start or ignore a signal | stop returns; the limit counts what runs |
| Always-on | lock file, gates read before the lock is taken, signals during ticks | one run at a time; never beside a user's turn; budgets kept |
| Connections, web bridge | disconnects in the middle of a turn, two submits for one session, stop and resend | the turns of a lost connection stop; who is told "complete" has seen everything; a resend is not refused because of the turn it stopped |

The hazards in PROJECT.json are these behaviours at their lines.

## 2. Modules

| Module | Stands for | Notes |
|---|---|---|
| `SessionRouter` | `gateway/SessionRouter.ts` | the table and the slot; operations on the router alone |
| `InProcessGateway` | submitTurn and its pump, abortTurn, closeSession, prompts | EXTENDS SessionRouter: the composition of both |
| `TurnSlot` | what the gateway promises about a session: one holder, an abort that frees it | abstract; InProcessGateway implements it |
| `CronTaskStore` | `cron/storage/CronTaskStore.ts` | tasks.json, each read and each write a step |
| `CronRuntime` | CronScheduler, CronFire, CronRuntime | EXTENDS CronTaskStore; the gateway's turn as InProcessGateway has it |
| `Conversation` | messages, requests, the tiers of compaction, transcript entries, replay | operators only |
| `AgentSession` | AgentSession.submit, TurnRunner, AgentLoop, JsonlTranscriptWriter, resume | EXTENDS Conversation |
| `ToolPermissions` | `permission/PermissionRuntime.ts` | operators only: the decision over kinds of calls |
| `BackgroundTasks` | `task/runtime/BackgroundTaskRuntime.ts` | the table of child processes and its steps |
| `ToolBatch` | ConcurrentToolScheduler, ToolRuntime, the plan mode and todo tools, the loop around a batch | EXTENDS both: what AgentSession takes as one step (ToolsEnd) in detail |
| `AlwaysOnState` | `always-on/storage/DiscoveryStateStore.ts` | the state file, each read and each write a step |
| `AlwaysOnScheduler` | DiscoveryScheduler, DiscoveryGates, DiscoveryLock, DiscoveryFire | EXTENDS AlwaysOnState |
| `RunLock` | what the lock file promises about runs | abstract; AlwaysOnScheduler implements it |
| `GatewayConnection` | GatewayWsConnection, the server's websocket, GatewayWsClient | the gateway behind it is TurnSlot, used by INSTANCE: the connection runs on what InProcessGateway is shown to implement |
| `WebBridge` | `ui/server/pilotdeck-bridge.js` | EXTENDS GatewayConnection: browser chats down to the turn's slot |
| `InProcessGateway_proofs`, `CronRuntime_proofs`, `AgentSession_proofs`, `AlwaysOnScheduler_proofs`, `ToolBatch_proofs`, `WebBridge_proofs` | the theorems | each EXTENDS its component |
| `Conversation_proofs` | what the operators of Conversation compute, for every conversation | AgentSession_proofs EXTENDS it |
| `MCInProcessGateway`, `MCCronRuntime`, `MCAgentSession`, `MCAlwaysOn`, `MCToolBatch`, `MCWebBridge` | instances for TLC | constants that cannot be written in a .cfg |

An operator named `X_Something` is a variant of the operator `X` that some bug
would make of it (a guard dropped, a reset missing). Nothing uses it; it stands
there to be put in the place of `X`, to see that the properties notice.

## 3. From code to model

An action runs from one await to the next; everything the code does in between,
helper calls included, belongs to that one action.

**SessionRouter.** `sessions` and `inFlightTurns` are the two maps of the class.
Records and AgentSession objects have no names in the code; each is built by the
getOrCreate of one turn, so that turn names it. Time is reduced to the one
comparison made with it: a record is stale or not, and `IdleTimeoutElapses` makes
records stale. `Close`, `MarkAllDirty`, `MarkProjectDirty`, `SessionCount` are the
methods of these names; getOrCreate, beginTurn and endTurn are steps of a turn
and stand in InProcessGateway.

**InProcessGateway.** `call` is where a submitTurn generator stands, `pump` where
its inner async function stands.

| Action | Code |
|---|---|
| `Submit` | the call, up to `await refreshConfigBeforeTurn` |
| `RejectBusy`, `Begin` | beginTurn refuses, or admits: sink, replay and completion are installed and the pump starts with getOrCreate |
| `Created`, `Recreated` | createSession or recreateSession returns and the record is stored or updated |
| `SubmitFails` | creating the session throws: the error goes out as an event and the queue closes |
| `AgentStarts`, `AgentEvent`, `AgentEnds` | the session's generator: new AbortController, events, end |
| `Drained`, `Abandon` | the client has read everything, or stops iterating: the first half of `finally` |
| `Unwound` | the pump has settled: the second half of `finally` |
| `AskPermission`, `AskUser`, `Answer` | the two kinds of prompts |
| `AbortTurn`, `AbortLooksUp`, `AbortReturns` | abortTurn up to router.abort, after it, and after the completion it awaits |
| `CloseSession`, `ConfigChanges`, `ExtensionChanges`, `DescribeServer`, `TimePasses` | the surroundings |

The agent is external here: while its generator runs it may ask, emit and end at
any time, and it stops waiting for a prompt when its signal fires.
`outdated` is auxiliary: the session objects built before the last change of the
configuration.

**CronTaskStore, CronRuntime.** A task is absent, later, due or running:
schedules and dates are reduced to whether the task's time has come
(`TimePasses`). `seen[w]` is the content a writer has read and not written back
yet. `scheduler`, `armed`, `timer`, `tick` and `due` are CronScheduler, `run`,
`taskOf` and `activeRuns` CronFire and the map of active runs, `call` the calls of
clients and tools. `armed` counts timers that will fire, `timer` says whether
`this.timer` holds one of them: stop clears that one and no other. Each file
operation is two steps, `...Reads` and `...Writes` (or `Marks`, `Updates`,
`Resets`, `Delays`, `Deletes`). A run's turn is refused as busy exactly while
another run of the same task streams; that is what InProcessGateway says of two
turns of one session key. `Crash` leaves the file and nothing else.

**Conversation.** A message is its kind and its identity. The calls of an
assistant message are answered together or not at all, so a batch of calls is
one thing, and so are its results with the images and documents that go along.
`Repaired` is what MessageProjector does to a conversation before it is sent,
`Compacted`, `Snips`, `MicroCompacted`, `TruncatedHead` and `WithoutErrorPair` what is
done to make it smaller, `Replayed` what a resumed session finds in the file.

**AgentSession.** `phase` is where the turn stands, from `accepting` through the
loop (`top`, `requested`, `streaming`, `saying`, ...) to `ending`. One round of
the loop is BuildRequest, Route, Answer, RecordAnswer, StartTools, ToolsEnd,
RecordResults; AskAgain stands for the loop's four recoveries; AbortCheck is each of the
five places where the loop looks at the signal. `accepted`, `working` and
`memory` are the three copies of the messages that TurnRunner, AgentLoop and
AgentSession hold, and which of them becomes the next turn's start depends on
how the turn ends (`RecordTurn`, `Thrown`, `Abandon`). An append is written in
full or fails, and after one has failed the chain of writes stays rejected
(`broken`). Any tier of compaction may change `working` before a request
(`Compactions`); which one it is depends on token counts, which are not modelled.
`answers`, `told` and `troubles` are auxiliary.

**ToolPermissions.** `Decide` is PermissionRuntime.decide, branch by branch. A tool is
its kind: the classes the code distinguishes (read-only, file tools, plan directory,
tools with a wish of their own, safe to run beside others) are sets of kinds, and a
rule of the user names a tool.

**ToolBatch.** `phase` is where the loop of the turn stands, `st[s]` where the call in
slot s stands: `queued` and `begun` (checks), `asking` (prompt), `allowed`, `running`,
then its result. `Request` is the model's answer: the safe calls of a batch of several
start at once, the others wait (`MayStart`) and run in order. `Check` is the todo gate
and then the permission, with the mode the batch was asked for; `Answer` lets a call go
on with what was checked before the prompt. `ApplyResult` applies one result's requested
mode, in the order of the calls. `Throw` is an exception outside ToolRuntime's try:
Promise.all rejects, `GiveUp` writes failures for all calls, and those in flight become
`Strays`, which go on with nobody waiting. The model's answers are the external part.

**BackgroundTasks.** A task is `running`, `terminated` (SIGTERM sent), `killed`, `lost`
(spawn failed with an event: its status stays running for ever) or `ended`. Entries are
never removed, and the limit counts them all.

**AlwaysOnState, AlwaysOnScheduler.** `stateFile` is state.json reduced to whether the
project is dormant and how many runs were counted today; `seen[w]` is what writer w has
read and will write back. A file read while somebody writes it may be truncated, which
reads as the default state; `clobbered` (auxiliary) says that this or a lost update has
happened. A generation is one DiscoveryScheduler object: a change of the configuration
stops one and starts the next. `armed` and `timer` are as in CronRuntime. A tick goes
`reading` (gates), `locking` (after the gates, before the lock file is created), then
the run: `counting`, `waking`, `discovering`, `completing`, `settling`, `leaving`.
`Signal` is the dormancy watcher's callback, `UnlockedReads` and `UnlockedWrites` are the
commands that change the state without the lock, `Crash` leaves the two files.

**GatewayConnection, WebBridge.** The two directions of the WebSocket are sequences of
frames, `up` and `down`. `served[t]` is the for-await of a submit_turn on the server,
`stream[t]` and `queue[t]` the client's AsyncEventQueue of it, `reply[a]` its pending
abort. The slot behind the server takes TurnSlot's own actions (Acquire, Release,
CallAbort, ReturnAbort). `ServerReceivesClose` and `ServerSeesLoss` are the two ways in
which the server's socket ends: only the second runs the close handlers. `chat[t]` is a
call of runChatViaGateway, `runId` the turn the bridge takes for active; `stale`,
`shown` and `crowded` are auxiliary.

## 4. Runs

The passing runs show that a property holds in every state (or behaviour) of
their instance. Deadlock is checked in the gateway's runs. It is not in the others,
where the system may really stop: `stop()` ends cron's scheduler and always-on's,
submissions, turns, chats and calls are used up, and a closed connection stays closed.

| Run | Instance | Question |
|---|---|---|
| `gateway_turns` | 2 turns of one session, a permission prompt, an elicitation, an abort; closes, sweeps, configuration and extension changes at any time; clients drain; fair | does abort keep its contract and reach the agent, do prompts and replay end with their turn, is the next turn after a change fresh, does an abort return and a turn unwind? |
| `gateway_abandon` | the same without prompts, clients may stop iterating | does one turn own the session still, and is TurnSlot implemented? |
| `cron_one_task` | one recurring task, two ticks and two runs that overlap, a create and a delete, a crash with a restart | limit on runs, interrupted tasks put back |
| `cron_run_now` | a task, its run-now copy and a stop, under fairness | does every run give its place back? |
| `cron_calls` | a one-time task with two runs and a delete that stops it, under fairness | does the call return? |
| `cron_timers` | two tasks for one place, nobody calls, under fairness | is what is due handled, does stop stop? |
| `agent_turns` | two submissions, up to two rounds and one correction each, two troubles | well-formed requests, whole turns on disk, nothing forgotten over a resume, retries run out |
| `tools` | two turns, two batches, three slots for calls, one exception, a table of one background task; fair | do unsafe calls run alone, does the todo list come first, does plan mode change nothing, does an abort end the turn? |
| `always_on` | one generation, two ticks, two timers, a signal, a crash, runs counted; fair | is the next tick never lost, how far can the daily budget be overshot, is a dormant project watched, does a stopped scheduler come to rest? |
| `always_on_generations` | two generations, two ticks, a signal, a writer without the lock, a crash | is RunLock implemented? |
| `bridge` | two chats of one session, a stop, one connection that is closed or lost | see the four properties of WebBridge |
| `cron_resurrected` (violation) | one task, one run, one delete | a counterexample to the delete tool's promise, see section 5 |

### Bounds and why they are enough

- *Two turns of one session key.* Everything the gateway's properties speak of is
  a relation between a turn and the one before or after it in the same session;
  sessions do not share anything but the table, whose operations are per key.
  A session that has had a turn can be closed, swept, marked and rebuilt, so the
  second turn meets a cached, a dirty, a stale or no record. The proofs lift the
  bound for ownership, the abort contract and the refinement.
- *One prompt of each kind and one abort.* The two kinds differ in what an abort
  leaves on the bus. Prompts of one turn do not look at each other; aborts only
  set a signal that stays set.
- *Two runs and two ticks.* The limit is checked by a tick between its own awaits,
  so one other tick is what it can be overtaken by. A run's id is free again when
  the run is over, so the number of runs in a behaviour is not bounded.
  `MaxTimers` bounds the armed timers that are told apart, `MaxCrashes` the
  crashes. With two tasks NoTaskStuck does not hold; see section 5.
- *Two submissions, two troubles.* A trouble is an error of the model, a failed
  append, a message of a hook, a compaction, an abort, an abandoned turn or a
  restart. Two of them in any order are enough for a recovery inside a turn that
  is then aborted, for a failed append before a resume, for a compaction of what an
  aborted turn left. Rounds, corrections and invalid rounds have the smallest limits
  that leave room to run into them and to stay below. The snip engine keeps the first
  two and the last four turns, which two turns never exceed; the run sets KeepHead and
  KeepTail to 1, so that there is a middle to cut.
- *Tools: two turns, two batches, three slots.* The answers the model may give
  (`Answers` in MCToolBatch) hold every class of tool the checks distinguish, alone and
  in the pairs that interact. Two turns are needed for a mode, a plan or a stray that
  outlives its turn; a third slot lets a stray meet a batch of two. One task fills the
  table.
- *Always-on: one generation with two timers, two generations with one.* stop() clears
  one timer and waits for one tick, so a second of each is what it can miss; both need a
  signal during a tick. The next generation matters to what the two share, the lock
  file, and there the second run looks. A crash in the middle of a run leaves the lock.
  `always_on` counts runs up to one beyond what BudgetOvershoot allows, and has no writer
  without the lock, for which DormantIsWatched does not hold. `always_on_generations` does
  not count (MaxFired = 0), so the gate on the budget never closes there. Generations,
  timers and writers together go beyond the time a run should take; RunsExclude,
  ScheduleIsKept and LockIsRunLock are proved for any number of each.
- *Bridge: two chats, one session, one stop.* The bridge's state is per session, and a
  chat meets at most the turn it stops and the one that overtakes it. A turn sends at
  most one event before turn_completed: what matters is whether it has sent any. The
  instance has about 1.76 million states; with three chats it is beyond the time a run
  should take, and the theorems about it hold for any number.

### Fairness

`FairSpec` of InProcessGateway: promises settle, clients drain, the agent's generator
ends (its loop counts its rounds, which AgentSession shows). It assumes nothing of the
user: EffectiveAbortReturns must hold although nobody answers. TurnUnwinds assumes a
user who answers what is on the screen, since a question waits as long as it takes.
`FairSpec` of CronRuntime: file operations settle, armed timers fire, turns end. Nobody
has to call, to stop or to crash, and no task's time has to come. `FairSpec` of
ToolBatch: the loop, every call's next step (tools end, one way or another), the grace
period of a stop and the death of a killed process; not the user, and not the end of a
running background task. AbortEndsTurn is what remains: an aborted turn ends unless a
call waits for a task whose spawn failed. `FairSpec` of AlwaysOnScheduler: timers fire,
file operations return, the turns of a run end; nobody has to stop, to signal or to
crash. The bridge has none: a stream's end is stated as what is still owed
(StreamIsOwedItsEnd), since nothing makes a lost connection be noticed. Weak fairness
suffices for all of these but timers, for a promise that can continue is not disabled by
others; a timer of always-on needs strong fairness only because the model has a bounded
number of ticks, which others may be using when it is due.
AgentSession has no fairness: what it says about termination is RoundsBounded, that each
answer of the model costs one of a finite supply.

### Some properties that deserve a word

- *AbortContract*: between `router.abort` and the lookup of the completion there
  is a microtask in which the turn may end and another may start. It holds
  because a turn's completion is taken away only by the turn itself, after its
  slot (AbortAim in the proofs).
- *NextTurnIsFresh*: a turn never begins on a session that stood when a change of the
  configuration was noticed. It says nothing of sessions under construction at that
  moment, which may have been built from either configuration (section 5).
- *NothingForgotten*: the running session may remember less than its transcript,
  because retries cut answers out of memory and not out of the file, and
  exceptions throw away what the loop had added. It must never remember more.
- *OnlyAbortsDangle*: calls without results come from aborted turns alone; they
  are what MessageProjector has to repair in all later requests (*RequestPaired*).
- *TodoFirst* is about calls that run alone: the todo gate is asked before the prompt, and
  two calls that may run beside each other can both have passed it (section 5).
- *BudgetOvershoot*: gates are read before the lock is taken, so the budget can be
  exceeded by one run for every further tick; it bounds the damage as long as no update of
  the state file is lost.
- *DormantIsWatched* holds without writers outside the lock, and the run has none.
- *LossStopsTurns* excludes turns that shared their session's entry with another submit of
  the connection (`crowded`), for which it does not hold.

## 5. Where the code departs from its comments

Checked as a `violation` run and listed as a finding:

- `cron_resurrected`: a run that marks its task as running writes it back from
  the copy its tick had listed, so a task deleted in between reappears, although the
  delete tool promises to "cancel its future triggers".

Observed while modelling, and kept out of the properties, excluded by their antecedents,
or noted at a hazard:

*Gateway*

- A change of configuration while a session is being created or rebuilt leaves no mark,
  and the next turn runs on the old one (`gateway/SessionRouter.ts:64`).
- An answer to a permission prompt that has been aborted is reported as delivered.
- After a client has walked away, the old turn's events go into the next turn's
  replay buffer, and a question asked then waits for ever.
- A hook payload names a call `toolUseId` where the permission hook reads
  `toolCallId` (`tool/execution/ToolRuntime.ts:320`).
- A session opened without a project key is not marked by changes to the
  extensions of the default project it runs in (`gateway/SessionRouter.ts:119`).
- At the limit of per-session MCP runtimes a session that is rebuilt loses its
  own without closing it (`cli/createLocalGateway.ts:689`).

*Connections and the web bridge*

- A close frame runs close(), which sets `closed`, so that emitClose returns early: the
  turns in flight are not aborted as those of a lost connection are, and GatewayServer
  keeps the connection in its set (`gateway/server/websocket.ts:60`).
- `inFlightSessions` is a set without counts: a refused second submit takes the entry of
  the first away, and a connection lost while its submit is being refused aborts the turn
  of somebody else (`GatewayWsConnection.ts:103`).
- A stream that fails drops values it had already received; stream() leaves its queue in
  the map when send() throws; an error response to a stream's id is dropped, and the stream
  never ends (`GatewayWsClient.ts:94`, `:113`).
- The browser's client (`web/client/GatewayBrowserClient.ts:415`) ends the waiting readers
  of a failed stream as if it were complete, although its header says that it mirrors
  GatewayWsClient.
- The bridge keeps the promise of its first connection for ever: once that is lost, every
  later chat fails (`pilotdeck-bridge.js:165`).
- An abort that overtakes the begin of the turn it is meant for aborts nothing, and the
  slot of a turn is freed after its turn_completed: in both cases the next chat is still
  refused as busy, against the comment at `pilotdeck-bridge.js:696-700`. When two chats
  stop the same turn, the one that is refused clears the run of the other.

*Agent*

- Placeholder results do not follow their calls immediately but come before the next
  assistant message.
- If a summary fails, the messages it was to stand for are dropped all the same
  (`context/compaction/CompactionEngine.ts:138`), although AgentLoop.ts:188-189 proceeds
  "with the original messages".
- The head of a snip loses every batch whose results it also holds, against the comment
  above (`context/compaction/SnipEngine.ts:106`).
- `strip_images_and_retry` has no limit, though its comment calls it single-shot;
  the ratio and the third attempt that ContextOverflowRecovery's comment speaks
  of are never reached: the code gives up at the second prompt_too_long.
- A transcript line torn by a crash swallows the next entry; nobody records the
  boundary of a compaction, so a resumed session has its whole past again.

*Tools, permissions, background tasks*

- The saved permission mode can be many turns old when it is restored: a turn that names
  its mode leaves it (`agent/loop/AgentLoop.ts:1162`). Two exit_plan_mode in one batch: the
  second sets "default" over the mode the first restored. The change of mode of a batch
  that is aborted or given up is dropped although the plan was approved.
- A session rule bypasses plan mode (`permission/PermissionRuntime.ts:45`, against the
  comment at 53-57), and a user's rule that allows bash wins over the tool's own refusal
  of a dangerous command.
- The todo gate is asked before the prompt, so concurrent task_create calls can start
  while a list is owed; calls that were allowed before an abort still execute; strays of a
  batch that was given up may approve a plan.
- The "hard cap on simultaneous tasks" counts every task there ever was
  (`task/runtime/BackgroundTaskRuntime.ts:109`). A spawn that fails with an event leaves
  the status running, and a stop of that task hangs for ever, abort or not (`:174`).

*Cron*

- Two interrupted tasks are put back by concurrent writes at start; the last one
  restores the other's running status, and that task is stuck. In the same way a
  one-time task can fire twice and a created task be written over.
- A run that is stopped before it submits its turn submits it nevertheless.
- `poke` during a tick arms a timer more; stop clears one.
- A cron expression without a match in 366 days leaves its task in the file
  without a next run (`cron/runtime/CronSchedule.ts:17`).

*Always-on*

- A crash leaves the lock file, and nothing ever removes it: the project's discovery never
  fires again (`always-on/runtime/DiscoveryScheduler.ts:96`).
- After a signal during a tick two timers are armed; stop clears one, and the other starts
  a tick after the stop. A tick that ends without a plan after stop() creates a watcher that
  nobody closes.
- rerunPlan and applyCycle write the state without the lock: a counted run or the dormancy
  can be lost. A truncated state file reads as the default state.
- Two work cycles can be active, against the comment at `DiscoveryFire.ts:107-109`.
- stop() during a change of configuration waits for a whole run.

## 6. Proofs

All theorems hold for every value of the constants that the named assumptions
allow; each assumption is evaluated by TLC on the instances.

**InProcessGateway_proofs** (from `RouterAssumption`, `GatewayAssumption`: keys,
projects and prompts are what their names say). `TypeCorrect` is inductive by
itself. `SlotOwned` is inductive together with the types: a turn streams exactly
while it holds the slot, and the slot, sink, replay and completion change hands in
`Begin` and `TurnEnds` only. `AbortKeepsContract` needs more than its statement:
that a returned abort's target is over follows from *AbortAim*, which says of
every earlier stage of the call whose completion it will find or has found; types,
SlotOwnership and AbortAim form the invariant `GatewayInv`.
`GatewayImplementsTurnSlot` maps the holder to `inFlightTurns`, the admitted turns
to those past their beginTurn and the four stages of an abort to three; under
`GatewayInv` every step is an Acquire, a Release, a CallAbort, a ReturnAbort or a
stutter.
`FreshSession` (NextTurnIsFresh, an action property) rests on `FreshInv`: a record that is
not marked dirty holds a session made since the last change of the configuration, and a
turn whose session is outdated is past the point where it looked the record up.

The other four hold under the hypothesis `AbandonTurn = {}`: every client drains its
stream, as all the clients in the repository do unless they die. It cannot be left out: run
`gateway_abandon` shows two pumps on one session when a client breaks off. With it a pump
lives only under its open stream (*PumpUnderStream*), so the slot that one turn holds also
keeps other pumps away: `OneAgentPerSession` (OnePumpPerKey). `AgentInv` adds that the record
a pump waits to rebuild or runs on is its key's, if it has one, and that the session object
it runs on listens to its signal, through creation, rebuilding, sweeps and closes, which is
`AbortFindsAgent` (AbortReachesAgent). PromptsEndWithTurn and ReplayIsOwn are inductive
together with AgentInv: `PromptsAreOwn`, `ReplaysAreOwn`.

**CronRuntime_proofs** (from `StoreAssumption`, `CronAssumption`). The invariant
`Safe` is the types, *BooksAgree* and *ConcurrencyLimit*, cut into parts that each
depend on one group of variables, so that an action has to be looked at for the
parts it touches. BooksAgree is needed because the limit counts `activeRuns`
while ticks start runs: it says that the set holds exactly the runs between a
tick's decision and the end of their turn. `TypeCorrect`, `BooksKept` and
`LimitKept` are its three parts; no run checks BooksAgree by itself.
`AloneNeverStuck` is NoTaskStuck for a file with one task, the instance its run has:
`CarriedInv` says of a task the file calls running that the start-up still has it on its
list or that a run carries it on, stage by stage. With two tasks it is false: every write
replaces the whole file, and what another task's writer read before puts `running` back.
`StopIsComplete` is NothingFiresAfterStop when nobody calls: `TimerInv` says that at most
one timer is armed and remembered and that the only tick in progress is the one stop()
waits for. Calls are excluded because they end with a poke of the scheduler, and a poke under a
tick arms a timer beside the one the tick's end arms, of which stop() clears only the
last.

**AgentSession_proofs** (from `AgentAssumption`). `Inv` is the types of the control
state, `LimitLeft`, `RecordedInv` and `RoundsInv`. *WhollyRecorded* is not
inductive: `RecordedInv` adds that no result of the current turn is on disk while
the turn goes on, and says phase by phase whether everything handed to the
transcript is there, all but the last message, or anything at all (after a failed
append, when nothing can be appended any more). *RoundsBounded* becomes inductive
with `answers + 1 <= Paid` before the model is asked: the recoveries and the next
round pay first. `TypeCorrect` (the control state), `RecordsWhole` and `RoundsPaid` follow from it.

What memory, requests and transcript hold needs a second invariant, `ConversationInv`, over
Inv:
- `MessagesInv`: the messages are proper ones, and the request is paired;
- `OrderInv`: memory, the accepted messages, the working copy and the transcript are
  each in the one order of turns and rounds;
- `KnownInv`: what memory holds is in the replay; what the turn works on is from memory, is
  its input, or has been handed to the transcript;
- `BoundInv`: nothing is from a round or a turn that is still to come;
- `ShapeInv`: how the working copy ends, phase by phase, which the steps that append to it
  or strip its last pair rely on;
- `AnsweredInv` and `FileInv`: a call is followed at once by its results, is of an aborted
  turn, or is the last message of a turn that is about to answer it; in the file also of
  a turn that never ended, which no replay reads.

TLC found ConversationInv to hold at the constants of `agent_turns`. From it follow
`MessagesTyped` (the whole TypeOK), `RequestsPaired`, `NothingLost` (NothingForgotten) and
`OnlyAbortsLeaveCalls` (OnlyAbortsDangle). NothingForgotten is an equation between two
sequences; it comes from KnownInv and OrderInv, because two orderly sequences of the same
messages are the same (`SameOrder`).

**Conversation_proofs** has what these steps need of the operators, for every conversation:
`RepairedWellPaired` (the repair pairs calls and results, one message at a time, with the
batch that still waits as its invariant), `CompactedReduces` and `SnipsReduce` (what is left
is in its order and opens no call that was answered) and `ReplayForm` (what a replay of a
file holds). The snip may keep results whose calls it drops: Reduces says nothing of these,
the repair takes them out. Definitions by recursion or by a fold are reasoned about by
induction over *sets* of naturals: a set that has 0 and, with each number, the next one,
has all of them up to a bound (`UpTo`), by the least number it would lack (`LeastNat`, from
the well-foundedness of < in the library); the library's induction theorems have an operator
for a parameter and cannot be used. Operators that filter are written with `Kept`, which
flattens a sequence of at most singletons, in place of the library's SelectSeq, whose
recursion the provers cannot unfold; they mean the same.

**AlwaysOnScheduler_proofs** (from `StateAssumption`, `AlwaysOnAssumption`).
`TypeCorrect`; `RunsExclude`: a tick is between its lock and its release exactly while
the lock file is its own (OnlyHolderFires), which needs that only `Leave` unlinks the
file; `LockIsRunLock` follows from it, since with it the release, which unlinks whatever
lock there is, unlinks its own. `ScheduleIsKept` (NeverUnscheduled): a scheduler that is
on has a timer or a tick, which needs that a tick belongs to a generation from its timer
to its end and that a remembered timer is armed. `BudgetHolds` (BudgetOvershoot, for at
least one tick): a tick that has found room in the budget is *pending* until it counts its
run; runs and pending ticks together exceed the budget by no more than the ticks less one,
as long as no write was lost (`BudgetInv`), since only the first of them can have found the
last place.

**ToolBatch_proofs** (from `TasksAssumption`, `RulesAssumption`
and `BatchAssumption`). `BaseInv` is the types, OneAtATime and what it needs: where the
batch stands in each phase of the loop (`PhaseInv`: the mode of a batch is still the session's
while its calls run; only safe calls are in flight when it is given up), that the slots of a
batch hold calls (`SlotInv`), and that only an exception leaves strays (`StrayInv`).
`CallsAlone` is one of its parts. `TodoIsFirst` and `PlanKeepsReadOnly` speak of a step that
starts a tool: `GateInv` and `DecisionInv` carry what `Check` found (no list owed, a decision
for the batch's mode) over the prompt up to the start, since nothing else of the batch runs
meanwhile.

**WebBridge_proofs** (from `ConnectionAssumption`). The inductive invariant `Inv` has
seven parts: the types; which frames may be on their way to the server for a turn or an
abort (`UpInv`: a request goes out once, and the server knows nothing of it before); that a slot
is held by the turn of its session that streams (`HolderInv`, `KeyInv`); that a turn being
served is in the set of sessions in flight unless it was served beside another
(`AloneInv`); that what the client has heard of a turn, the turn has sent (`SeenInv`); and
what is known of the turn that a chat has stopped, from its request to the answer
(`StaleInv`). `LossStops` follows from AloneInv with HolderInv, `NeverBusyWithStopped` from
StaleInv with HolderInv.
`StreamsEnd` (StreamIsOwedItsEnd) is inductive with Inv and what it needs of closing: a
server that has closed its end has the close on the way or has lost it. `CompleteShowsAll`
(CompleteIsWhole) compares whole sequences of frames: `WholeInv` says of a chat whose stream
is open that what it has heard begins what its turn has sent and that the frames on the way
continue it, up to the last event as long as the connection stands, and of a stream that
its last frame closed that it delivered everything.

Only model-checked is what speaks of fairness, which is out of the prover's reach:
EffectiveAbortReturns, TurnUnwinds, CallsReturn, DueIsHandled, PlacesAreGivenBack, AbortEndsTurn,
DormantIsWatched and StopIsFinal. Every invariant that a passing run checks is
stated by a theorem; of these OnePumpPerKey, AbortReachesAgent, PromptsEndWithTurn,
ReplayIsOwn, NoTaskStuck and NothingFiresAfterStop have the hypotheses named above, each of
which the instance of its run satisfies.

## 7. What is not modelled

PROJECT.json names for each component what is left out. Within the modules:

- *Data.* Texts, usage, costs, sizes and names; token counts (a compaction may
  happen at any request); dates and cron expressions.
- *Gateway.* The limits of the replay buffer, session permission grants, read-only
  and forwarding calls; more than one process.
- *Connections.* hello and authentication, requests other than submit and abort (each
  is one call and one response), notifications, malformed frames, several connections to
  one gateway, the bridge's first connection with its retries and its translation of
  events.
- *Cron.* Failing file operations, the migration of legacy sessions, a second
  runtime after a reload of the configuration, the run history (nothing reads it
  to decide anything).
- *Agent.* Status and usage, hooks that throw, turns without a limit on rounds,
  subagents, a runtime without a context, results moved to disk. Permission and plan
  mode are in ToolBatch and not in AgentSession, where a batch of calls is answered in one
  step. An append happens in full or not at all, so half-written lines are outside the
  model.
- *Tools.* Hooks other than the permission prompt refuse, throw or do nothing; patterns
  over a tool's input in the user's rules; ask_user_question; the ring buffer of a task's
  output, and killForAgent, killAll and waitFor, which nothing calls.
- *Always-on.* The turns of a run are one step; plans, work cycles, workspaces and
  reports are index files written without a lock, and whatever would relate two of them
  is broken by a lost update; the change of day.

Not modelled as components: what the table of PROJECT.json gives as
`not_modelled`. Some are the planned modules below. Out of scope for good are the
wire formats of model services, MCP servers and messengers, the vendored memory
service, the web front end, text assembly, and the Python sidecar, whose agent is
not in this repository. They are most of the repository's lines: the modules cover its
control, and only a small part of its text.

## 8. Plan

Done, in this order: session table and turns with TurnSlot above them; cron;
agent session with conversation and transcript; their types and first safety
theorems; always-on with RunLock above it; tools with permissions, plan mode and
background tasks; the tiers of compaction; connections and the web bridge over
TurnSlot; and the safety theorems of each of these.

To come, most important first:

1. Connections again: hello, several connections to one gateway, a second client of the
   same session; the bridge's first connection.
2. Transcripts again: torn lines, sequence numbers, the limit on the size of a file.
3. Cron again: failing writes, a second generation after a reload, as one
   scheduler with generations; the next time of a schedule as an operator.
4. `Agent` composed with the gateway and with ToolBatch: the external agent of
   InProcessGateway replaced by AgentSession's phases, to discharge the fairness assumed
   there, and ToolsEnd refined by a batch.
5. FileHistoryStore, the model router's fallbacks, the ring buffer of task output, the Go
   task manager.

Theorems to come: the bridge over the gateway's contract as a refinement of its own (not
of TurnSlot as it stands: a lost connection calls for several aborts in one step, and calls
that the loss cuts off never return), NothingFiresAfterStop with calls that come before
the stop only, and the lemmas of the operators that are modelled next.
