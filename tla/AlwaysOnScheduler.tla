---------------------------- MODULE AlwaysOnScheduler ----------------------------
(***************************************************************************)
(* Always-on discovery of one project: DiscoveryScheduler's timers, ticks, *)
(* dormancy watcher and stop, the gates and the lock file, and what a run  *)
(* (DiscoveryFire) does to the state file they share (AlwaysOnState).      *)
(* A change of the configuration stops the scheduler and starts another    *)
(* object: these are the generations. An action runs from one await to the *)
(* next.                                                                   *)
(***************************************************************************)
EXTENDS AlwaysOnState, FiniteSets

CONSTANTS
  Generation,   \* scheduler objects of one life of the process
  Tick,         \* ticks in progress at a time
  Handler,      \* handleSignal calls in progress at a time
  Unlocked,     \* writers of the state file that take no lock: rerunPlan, applyCycle
  Nobody, Left, \* the lock file is absent; it was left by a process that died
  DailyBudget,  \* the configuration's limit of runs a day
  MaxTimers,    \* bound: armed timers of a generation that are told apart
  MaxCrashes    \* bound: crashes of the process

ASSUME AlwaysOnAssumption ==
  /\ Writer = Tick \cup Handler \cup Unlocked
  /\ Tick \cap (Handler \cup Unlocked) = {} /\ Handler \cap Unlocked = {}
  /\ None \notin Generation \cup Tick
  /\ Nobody \notin Tick \cup {Left} /\ Left \notin Tick
  /\ IsFiniteSet(Tick)
  /\ DailyBudget \in Nat /\ MaxTimers \in Nat \ {0} /\ MaxCrashes \in Nat

VARIABLES
  scheduler,    \* Generation -> new, starting, on, stopping or stopped
  armed,        \* Generation -> timers that will fire
  timer,        \* generations whose this.timer holds one of them
  watcher,      \* generations whose this.watcher watches the project
  tickInProgress,  \* Generation -> the tick that stop() would wait for
  stopAwaits,   \* Generation -> the tick that stop() waits for
  tick,         \* where each tick stands
  owner,        \* the generation it belongs to
  state,        \* Tick -> the state it has read for its gates
  noPlan,       \* ticks whose run has produced no plan
  lock,         \* the lock file: the tick that created it, Nobody or Left
  handles,      \* Handler -> the generation whose handleSignal it is
  fired,        \* the runs that were started
  crashes

objectVars == <<scheduler, armed, timer, watcher, tickInProgress, stopAwaits>>
tickVars   == <<tick, owner, state, noPlan, lock, fired>>
vars == <<stateVars, objectVars, tickVars, handles, crashes>>

SchedulerState == {"new", "starting", "on", "stopping", "stopped"}

\* Between acquireDiscoveryLock and releaseDiscoveryLock.
Firing == {"counting", "waking", "discovering", "completing", "settling", "leaving"}
TickState == {"idle", "reading", "locking"} \cup Firing

TypeOK ==
  /\ StateTypeOK
  /\ scheduler \in [Generation -> SchedulerState]
  /\ armed \in [Generation -> 0..MaxTimers]
  /\ timer \subseteq Generation /\ watcher \subseteq Generation
  /\ tickInProgress \in [Generation -> Tick \cup {None}]
  /\ stopAwaits \in [Generation -> Tick \cup {None}]
  /\ tick \in [Tick -> TickState]
  /\ owner \in [Tick -> Generation \cup {None}]
  /\ state \in [Tick -> State \cup {None}]
  /\ noPlan \subseteq Tick
  /\ lock \in Tick \cup {Nobody, Left}
  /\ handles \in [Handler -> Generation \cup {None}]
  /\ fired \in 0..MaxFired
  /\ crashes \in 0..MaxCrashes

\* What a new process has in its memory.
Fresh ==
  [scheduler |-> [g \in Generation |-> "new"], armed |-> [g \in Generation |-> 0],
   tickInProgress |-> [g \in Generation |-> None], tick |-> [k \in Tick |-> "idle"],
   owner |-> [k \in Tick |-> None], state |-> [k \in Tick |-> None], handles |-> [h \in Handler |-> None],
   seen |-> [w \in Writer |-> None]]

Init ==
  /\ stateFile = DefaultState /\ seen = Fresh.seen /\ clobbered = FALSE
  /\ scheduler = Fresh.scheduler /\ armed = Fresh.armed
  /\ timer = {} /\ watcher = {}
  /\ tickInProgress = Fresh.tickInProgress /\ stopAwaits = Fresh.tickInProgress
  /\ tick = Fresh.tick /\ owner = Fresh.owner /\ state = Fresh.state /\ noPlan = {}
  /\ lock = Nobody /\ handles = Fresh.handles
  /\ fired = 0 /\ crashes = 0

---------------------------------------------------------------------------
\* Timers and the watcher. this.timer remembers one armed timer; any other one that is
\* armed fires as well.

\* DiscoveryScheduler.stopped
Stopped(g) == scheduler[g] \in {"stopping", "stopped"}

ScheduleNextTick_Unasked(g, n) ==
  /\ armed' = [armed EXCEPT ![g] = IF n < MaxTimers THEN n + 1 ELSE n]
  /\ timer' = timer \cup {g}

\* scheduleNextTick when n timers of g are armed: one more, up to the bound.
ScheduleNextTick(g, n) ==
  IF Stopped(g)
  THEN armed' = [armed EXCEPT ![g] = n] /\ timer' = timer
  ELSE /\ armed' = [armed EXCEPT ![g] = IF n < MaxTimers THEN n + 1 ELSE n]
       /\ timer' = timer \cup {g}

ArmedAfterClear_Unremembered(g) == armed[g] - 1
\* clearTimeout of the timer that is remembered.
ArmedAfterClear(g) == IF g \in timer THEN armed[g] - 1 ELSE armed[g]

WithWatcher_Unstarted(g) == watcher' = watcher
\* ensureDormancyWatcher and disposeWatcher
WithWatcher(g) == watcher' = watcher \cup {g}
WithoutWatcher(g) == watcher' = watcher \ {g}

---------------------------------------------------------------------------
\* start and stop of a generation. The next one starts when the last has stopped.

Start(g) ==
  /\ scheduler[g] = "new"
  /\ \A other \in Generation : scheduler[other] \in {"new", "stopped"}
  /\ scheduler' = [scheduler EXCEPT ![g] = "starting"]
  /\ UNCHANGED <<stateVars, armed, timer, watcher, tickInProgress, stopAwaits, tickVars,
                 handles, crashes>>

\* maybeRestoreDormancy reads the state; the first tick is scheduled.
Started(g) ==
  /\ scheduler[g] = "starting"
  /\ scheduler' = [scheduler EXCEPT ![g] = "on"]
  /\ IF stateFile.dormant THEN WithWatcher(g) ELSE UNCHANGED watcher
  /\ ScheduleNextTick(g, armed[g])
  /\ UNCHANGED <<stateVars, tickInProgress, stopAwaits, tickVars, handles, crashes>>

\* The remembered timer is cleared, the watcher stopped and the tick awaited.
Stop(g) ==
  /\ scheduler[g] = "on"
  /\ scheduler' = [scheduler EXCEPT ![g] = "stopping"]
  /\ armed' = [armed EXCEPT ![g] = ArmedAfterClear(g)] /\ timer' = timer \ {g}
  /\ WithoutWatcher(g)
  /\ stopAwaits' = [stopAwaits EXCEPT ![g] = tickInProgress[g]]
  /\ UNCHANGED <<stateVars, tickInProgress, tickVars, handles, crashes>>

StopReturns(g) ==
  /\ scheduler[g] = "stopping"
  /\ stopAwaits[g] # None => tick[stopAwaits[g]] = "idle"
  /\ scheduler' = [scheduler EXCEPT ![g] = "stopped"]
  /\ UNCHANGED <<stateVars, armed, timer, watcher, tickInProgress, stopAwaits, tickVars,
                 handles, crashes>>

---------------------------------------------------------------------------
\* DiscoveryScheduler.tick up to the lock

TickStep(k, next) == tick' = [tick EXCEPT ![k] = next]

TickIsOver(k) ==
  /\ TickStep(k, "idle")
  /\ owner' = [owner EXCEPT ![k] = None]
  /\ state' = [state EXCEPT ![k] = None]

TickOver_Unscheduled(k) ==
  /\ TickIsOver(k)
  /\ tickInProgress' = [tickInProgress EXCEPT ![owner[k]] = None]
  /\ UNCHANGED <<armed, timer, scheduler, stopAwaits>>

\* The end of a tick; its then-callback forgets the tick in progress, whichever it is,
\* and schedules the next one.
TickOver(k) ==
  /\ TickIsOver(k)
  /\ tickInProgress' = [tickInProgress EXCEPT ![owner[k]] = None]
  /\ ScheduleNextTick(owner[k], armed[owner[k]])
  /\ UNCHANGED <<scheduler, stopAwaits>>

\* The callback forgets the remembered timer, whichever fires, and does not ask whether
\* the scheduler has been stopped. The tick reads the state.
TimerFires(g, k) ==
  /\ armed[g] > 0 /\ tick[k] = "idle"
  /\ \A other \in Generation : stopAwaits[other] = k => scheduler[other] # "stopping"
  /\ armed' = [armed EXCEPT ![g] = armed[g] - 1] /\ timer' = timer \ {g}
  /\ tickInProgress' = [tickInProgress EXCEPT ![g] = k]
  /\ TickStep(k, "reading") /\ owner' = [owner EXCEPT ![k] = g]
  /\ \E s \in {stateFile} \cup Truncated(Writer) : Finds(s) /\ state' = [state EXCEPT ![k] = s]
  /\ UNCHANGED <<seen, scheduler, watcher, stopAwaits, noPlan, lock, fired, handles, crashes>>

\* evaluateAlwaysOnDiscoveryGates: dormant_no_signal comes first.
GateIsDormant(k) ==
  /\ tick[k] = "reading" /\ state[k].dormant
  /\ WithWatcher(owner[k])
  /\ TickOver(k)
  /\ UNCHANGED <<stateVars, noPlan, lock, fired, handles, crashes>>

\* A busy agent, a user's recent message, the cooldown, the budget or the lock file.
GateBlocks(k) ==
  /\ tick[k] = "reading" /\ ~state[k].dormant
  /\ TickOver(k)
  /\ UNCHANGED <<stateVars, watcher, noPlan, lock, fired, handles, crashes>>

WithinBudget_Inclusive(k) == state[k].todayRunCount <= DailyBudget
WithinBudget(k) == state[k].todayRunCount < DailyBudget

GatePasses(k) ==
  /\ tick[k] = "reading" /\ ~state[k].dormant
  /\ WithinBudget(k) /\ lock = Nobody
  /\ TickStep(k, "locking")
  /\ state' = [state EXCEPT ![k] = None]
  /\ UNCHANGED <<stateVars, objectVars, owner, noPlan, lock, fired, handles, crashes>>

LockIsFree_Unlooked == TRUE
LockIsFree == lock = Nobody

\* acquireDiscoveryLock creates the file, which must not exist.
LockIsAcquired(k) ==
  /\ tick[k] = "locking" /\ LockIsFree
  /\ lock' = k
  /\ TickStep(k, "counting")
  /\ UNCHANGED <<stateVars, objectVars, owner, state, noPlan, fired, handles, crashes>>

\* The lock file when a tick ends that has not created it.
LockAfterBusy_Unlinked == Nobody
LockAfterBusy == lock

LockIsBusy(k) ==
  /\ tick[k] = "locking" /\ lock # Nobody
  /\ lock' = LockAfterBusy
  /\ TickOver(k)
  /\ UNCHANGED <<stateVars, watcher, noPlan, fired, handles, crashes>>

---------------------------------------------------------------------------
\* The run: markFireStarted, clearDormant, DiscoveryFire.run and the release.

FireReads(k) ==
  /\ tick[k] \in {"counting", "completing", "settling"} /\ seen[k] = None
  /\ Reads(k)
  /\ UNCHANGED <<objectVars, tickVars, handles, crashes>>

FireIsCounted(k) ==
  /\ tick[k] = "counting" /\ seen[k] # None
  /\ MarkFireStarted(k)
  /\ fired' = OneMore(fired)
  /\ TickStep(k, "waking")
  /\ UNCHANGED <<objectVars, owner, state, noPlan, lock, handles, crashes>>

FireFindsDormant(k) ==
  /\ tick[k] = "waking" /\ seen[k] = None
  /\ FindsDormant(k)
  /\ UNCHANGED <<objectVars, tickVars, handles, crashes>>

FireWakes(k) ==
  /\ tick[k] = "waking"
  /\ IF seen[k] # None THEN ClearDormant(k) ELSE NothingToClear(k)
  /\ WithoutWatcher(owner[k])
  /\ TickStep(k, "discovering")
  /\ UNCHANGED <<scheduler, armed, timer, tickInProgress, stopAwaits, owner, state, noPlan,
                 lock, fired, handles, crashes>>

\* The turns of the run end, in a report, an error or without a plan.
TurnsEnd(k) ==
  /\ tick[k] = "discovering"
  /\ noPlan' \in {noPlan, noPlan \cup {k}}
  /\ TickStep(k, "completing")
  /\ UNCHANGED <<stateVars, objectVars, owner, state, lock, fired, handles, crashes>>

\* The run throws: nothing records its end.
TurnsThrow(k) ==
  /\ tick[k] = "discovering"
  /\ TickStep(k, "leaving")
  /\ UNCHANGED <<stateVars, objectVars, owner, state, noPlan, lock, fired, handles, crashes>>

FireCompletes(k) ==
  /\ tick[k] = "completing" /\ seen[k] # None
  /\ MarkFireCompleted(k)
  /\ TickStep(k, IF k \in noPlan THEN "settling" ELSE "leaving")
  /\ UNCHANGED <<objectVars, owner, state, noPlan, lock, fired, handles, crashes>>

\* A run without a plan leaves the project dormant.
FireSettles(k) ==
  /\ tick[k] = "settling" /\ seen[k] # None
  /\ SetDormant(k)
  /\ TickStep(k, "leaving")
  /\ UNCHANGED <<objectVars, owner, state, noPlan, lock, fired, handles, crashes>>

\* The end of the run: the dormant project is watched, and the finally of tick calls
\* releaseDiscoveryLock, which unlinks the file, whosever it is.
LockAfterRun == Nobody

Leave(k) ==
  /\ tick[k] = "leaving"
  /\ IF k \in noPlan THEN WithWatcher(owner[k]) ELSE UNCHANGED watcher
  /\ noPlan' = noPlan \ {k}
  /\ lock' = LockAfterRun
  /\ TickOver(k)
  /\ UNCHANGED <<stateVars, fired, handles, crashes>>

---------------------------------------------------------------------------
\* handleSignal, the watcher's end, the writers without a lock, and crashes

\* Files have changed and been quiet for a while.
Signal(g, h) ==
  /\ g \in watcher /\ handles[h] = None /\ ~Stopped(g)
  /\ handles' = [handles EXCEPT ![h] = g]
  /\ UNCHANGED <<stateVars, objectVars, tickVars, crashes>>

SignalFindsDormant(h) ==
  /\ handles[h] # None /\ seen[h] = None
  /\ FindsDormant(h)
  /\ UNCHANGED <<objectVars, tickVars, handles, crashes>>

\* The remembered timer gives way to a new one; a tick in progress will arm another.
Rescheduled(g) == ScheduleNextTick(g, ArmedAfterClear(g))

SignalIsHandled(h) ==
  /\ handles[h] # None
  /\ IF seen[h] # None THEN ClearDormant(h) ELSE NothingToClear(h)
  /\ WithoutWatcher(handles[h])
  /\ Rescheduled(handles[h])
  /\ handles' = [handles EXCEPT ![h] = None]
  /\ UNCHANGED <<scheduler, tickInProgress, stopAwaits, tickVars, crashes>>

\* The watcher cannot watch the project any more: onError disposes of it.
WatcherFails(g) ==
  /\ g \in watcher
  /\ WithoutWatcher(g)
  /\ UNCHANGED <<stateVars, scheduler, armed, timer, tickInProgress, stopAwaits, tickVars,
                 handles, crashes>>

\* The end of a rerun, or the change of the active work cycle by rerunPlan or applyCycle.
UnlockedReads(u) ==
  /\ seen[u] = None /\ \E g \in Generation : scheduler[g] = "on"
  /\ Reads(u)
  /\ UNCHANGED <<objectVars, tickVars, handles, crashes>>

UnlockedWrites(u) ==
  /\ seen[u] # None
  /\ MarkFireCompleted(u)
  /\ UNCHANGED <<objectVars, tickVars, handles, crashes>>

\* The process dies, or exits after stop: the lock file stays, and a file that was being
\* written may be left truncated.
Crash ==
  /\ crashes < MaxCrashes
  /\ crashes' = crashes + 1
  /\ stateFile' \in {stateFile} \cup
                    (IF \E w \in Writer : seen[w] # None THEN {DefaultState} ELSE {})
  /\ clobbered' = (clobbered \/ stateFile' # stateFile)
  /\ seen' = Fresh.seen
  /\ scheduler' = Fresh.scheduler /\ armed' = Fresh.armed
  /\ timer' = {} /\ watcher' = {}
  /\ tickInProgress' = Fresh.tickInProgress /\ stopAwaits' = Fresh.tickInProgress
  /\ tick' = Fresh.tick /\ owner' = Fresh.owner /\ state' = Fresh.state
  /\ noPlan' = {}
  /\ lock' = IF lock = Nobody THEN Nobody ELSE Left
  /\ handles' = Fresh.handles
  /\ UNCHANGED fired

---------------------------------------------------------------------------
ObjectStep(g) == Start(g) \/ Started(g) \/ Stop(g) \/ StopReturns(g) \/ WatcherFails(g)

GateStep(k) == GateIsDormant(k) \/ GateBlocks(k) \/ GatePasses(k)
LockStep(k) == LockIsAcquired(k) \/ LockIsBusy(k)
FireStep(k) ==
  \/ FireReads(k) \/ FireIsCounted(k) \/ FireFindsDormant(k) \/ FireWakes(k)
  \/ TurnsEnd(k) \/ TurnsThrow(k) \/ FireCompletes(k) \/ FireSettles(k) \/ Leave(k)

Next ==
  \/ \E g \in Generation : ObjectStep(g)
  \/ \E g \in Generation, k \in Tick : TimerFires(g, k)
  \/ \E k \in Tick : GateStep(k) \/ LockStep(k) \/ FireStep(k)
  \/ \E g \in Generation, h \in Handler : Signal(g, h)
  \/ \E h \in Handler : SignalFindsDormant(h) \/ SignalIsHandled(h)
  \/ \E u \in Unlocked : UnlockedReads(u) \/ UnlockedWrites(u)
  \/ Crash

Spec == Init /\ [][Next]_vars

\* Timers fire, file operations return and the turns of a run end; nobody has to change
\* the configuration, to touch the project's files or to crash. (A timer fires although
\* all of Tick may be in progress now and then, which is a bound of the model: hence SF.)
Fairness ==
  /\ \A g \in Generation :
       /\ WF_vars(Started(g)) /\ WF_vars(StopReturns(g))
       /\ SF_vars(\E k \in Tick : TimerFires(g, k))
  /\ \A k \in Tick :
       /\ WF_vars(GateStep(k)) /\ WF_vars(LockStep(k)) /\ WF_vars(FireStep(k))
  /\ \A h \in Handler : WF_vars(SignalFindsDormant(h) \/ SignalIsHandled(h))

FairSpec == Spec /\ Fairness

---------------------------------------------------------------------------
\* A run of discovery is under way exactly while the lock file is its own, whichever
\* generation started it: two never run together, not even when a configuration change
\* has replaced the scheduler under a run that stop() did not wait for.
OnlyHolderFires == \A k \in Tick : tick[k] \in Firing <=> lock = k

\* A scheduler that is on never loses its way to the next tick: a timer is armed or a
\* tick is under way, however signals, ticks and their timers cross.
NeverUnscheduled ==
  \A g \in Generation :
    scheduler[g] = "on" => armed[g] > 0 \/ \E k \in Tick : owner[k] = g

\* More runs are started than the daily budget allows only by ticks that had already read
\* the count, unless a write of the state file was lost.
BudgetOvershoot == ~clobbered => fired <= DailyBudget + Cardinality(Tick) - 1

\* The lock file is given up only by the run that created it, and a run that dies leaves
\* it behind for ever.
Lock == INSTANCE RunLock WITH Holder <- Tick, alive <- {k \in Tick : tick[k] \in Firing}
ImplementsRunLock == Lock!Spec

\* A project that stays dormant is watched again and again, although watchers fail, runs
\* dispose of them and two ticks may be under way at a time: it cannot sleep through
\* every change of its files.
DormantIsWatched ==
  \A g \in Generation :
    []<>(stateFile.dormant /\ scheduler[g] = "on" => g \in watcher)

\* Once a scheduler has been stopped for good, the ticks and timers it had left come to
\* an end: stop() clears one timer and waits for one tick only.
StopIsFinal ==
  \A g \in Generation :
    <>[](scheduler[g] = "stopped")
      => <>[](armed[g] = 0 /\ \A k \in Tick : owner[k] # g)
=============================================================================
