------------------------ MODULE AlwaysOnScheduler_proofs ------------------------
(***************************************************************************)
(* The types, the exclusion of runs, the schedule that is never lost and   *)
(* the refinement of RunLock, for any number of generations, overlapping   *)
(* ticks, signals, writers without the lock and crashes.                   *)
(***************************************************************************)
EXTENDS AlwaysOnScheduler, FiniteSetTheorems, TLAPS

\* The inductive invariant, part by part.
ObjectsOK ==
  /\ scheduler \in [Generation -> SchedulerState]
  /\ armed \in [Generation -> 0..MaxTimers]
  /\ timer \subseteq {g \in Generation : armed[g] > 0 /\ ~Stopped(g)}
  /\ watcher \subseteq Generation
  /\ tickInProgress \in [Generation -> Tick \cup {None}]
  /\ stopAwaits \in [Generation -> Tick \cup {None}]

TicksOK ==
  /\ tick \in [Tick -> TickState]
  /\ owner \in [Tick -> Generation \cup {None}]
  /\ \A k \in Tick : tick[k] = "idle" <=> owner[k] = None
  /\ state \in [Tick -> State \cup {None}]
  /\ noPlan \subseteq Tick

LockOK == lock \in Tick \cup {Nobody, Left} /\ OnlyHolderFires

CountsOK ==
  /\ handles \in [Handler -> Generation \cup {None}]
  /\ fired \in 0..MaxFired /\ crashes \in 0..MaxCrashes

Safe == StateTypeOK /\ ObjectsOK /\ TicksOK /\ LockOK /\ CountsOK /\ NeverUnscheduled

LEMMA SafeMeans == Safe => TypeOK /\ OnlyHolderFires /\ NeverUnscheduled
  BY DEF Safe, ObjectsOK, TicksOK, LockOK, CountsOK, TypeOK

---------------------------------------------------------------------------
\* The state file: what is read is a state, and what is written was read.

LEMMA WriterKinds == Tick \subseteq Writer /\ Handler \subseteq Writer /\ Unlocked \subseteq Writer
  BY AlwaysOnAssumption

LEMMA DefaultIsState == DefaultState \in State
  BY StateAssumption DEF DefaultState, State

LEMMA FoundIsState ==
  ASSUME StateTypeOK, NEW ws
  PROVE  \A s \in {stateFile} \cup Truncated(ws) : s \in State
  BY DefaultIsState DEF StateTypeOK, Truncated

LEMMA ReadsState ==
  ASSUME StateTypeOK, NEW w \in Writer, Reads(w) \/ FindsDormant(w) \/ NothingToClear(w)
  PROVE  StateTypeOK'
  <1>1. \A s \in Readable(w) : s \in State
    BY FoundIsState DEF Readable
  <1>2. stateFile' = stateFile /\ clobbered' \in BOOLEAN
    BY DEF Reads, FindsDormant, NothingToClear, Finds, StateTypeOK
  <1>3. seen' \in [Writer -> State \cup {None}]
    BY <1>1 DEF Reads, FindsDormant, NothingToClear, StateTypeOK
  <1> QED BY <1>2, <1>3 DEF StateTypeOK

LEMMA WritesState ==
  ASSUME StateTypeOK, NEW w \in Writer, seen[w] # None,
         MarkFireStarted(w) \/ MarkFireCompleted(w) \/ SetDormant(w) \/ ClearDormant(w)
  PROVE  StateTypeOK'
  <1>1. seen[w] \in State
    BY DEF StateTypeOK
  <1>2. OneMore(seen[w].todayRunCount) \in 0..MaxFired
    BY <1>1, StateAssumption DEF State, OneMore
  <1>3. /\ [seen[w] EXCEPT !.todayRunCount = OneMore(seen[w].todayRunCount)] \in State
        /\ [seen[w] EXCEPT !.dormant = TRUE] \in State
        /\ [seen[w] EXCEPT !.dormant = FALSE] \in State
    BY <1>1, <1>2 DEF State
  <1>4. PICK next \in State : Writes(w, next)
    BY <1>1, <1>3 DEF MarkFireStarted, MarkFireCompleted, SetDormant, ClearDormant
  <1> QED BY <1>4 DEF Writes, StateTypeOK

LEMMA StateStays == StateTypeOK /\ UNCHANGED stateVars => StateTypeOK'
  BY DEF StateTypeOK, stateVars

LEMMA ObjectsStay == ObjectsOK /\ UNCHANGED objectVars => ObjectsOK'
  BY DEF ObjectsOK, objectVars, Stopped

LEMMA TicksStay ==
  TicksOK /\ LockOK /\ UNCHANGED tickVars => TicksOK' /\ LockOK'
  BY DEF TicksOK, LockOK, OnlyHolderFires, tickVars

LEMMA ScheduleStays ==
  NeverUnscheduled /\ UNCHANGED <<scheduler, armed, owner>> => NeverUnscheduled'
  BY DEF NeverUnscheduled

LEMMA StutterSafe == Safe /\ UNCHANGED vars => Safe'
  BY StateStays, ObjectsStay, TicksStay, ScheduleStays
  DEF Safe, vars, CountsOK, objectVars, tickVars

---------------------------------------------------------------------------
\* Timers

LEMMA ClearedTimers ==
  ASSUME ObjectsOK, NEW g \in Generation
  PROVE  ArmedAfterClear(g) \in 0..MaxTimers
  BY AlwaysOnAssumption DEF ObjectsOK, ArmedAfterClear

\* Whoever schedules a tick of g leaves one armed, unless g has been stopped.
LEMMA Scheduling ==
  ASSUME ObjectsOK, NEW g \in Generation, NEW n \in 0..MaxTimers, ScheduleNextTick(g, n)
  PROVE  /\ armed' \in [Generation -> 0..MaxTimers]
         /\ \A other \in Generation \ {g} : armed'[other] = armed[other]
         /\ timer' \subseteq {other \in Generation : armed'[other] > 0 /\ ~Stopped(other)}
         /\ scheduler[g] = "on" => armed'[g] > 0
  <1>1. armed' \in [Generation -> 0..MaxTimers]
        /\ \A other \in Generation \ {g} : armed'[other] = armed[other]
    BY AlwaysOnAssumption DEF ScheduleNextTick, ObjectsOK
  <1>2. CASE Stopped(g)
    BY <1>1, <1>2 DEF ScheduleNextTick, ObjectsOK, Stopped
  <1>3. CASE ~Stopped(g)
    <2>1. armed'[g] > 0 /\ timer' = timer \cup {g}
      BY <1>3, AlwaysOnAssumption DEF ScheduleNextTick, ObjectsOK
    <2> QED BY <1>1, <1>3, <2>1 DEF ObjectsOK
  <1> QED BY <1>1, <1>2, <1>3

---------------------------------------------------------------------------
\* The steps of a scheduler object

LEMMA ObjectSafe ==
  ASSUME Safe, NEW g \in Generation, ObjectStep(g)
  PROVE  Safe'
  <1>0. TicksOK' /\ LockOK' /\ CountsOK' /\ StateTypeOK'
    BY TicksStay, StateStays
    DEF Safe, ObjectStep, Start, Started, Stop, StopReturns, WatcherFails, CountsOK, tickVars
  <1>1. CASE Start(g)
    BY <1>0, <1>1 DEF Start, Safe, ObjectsOK, Stopped, SchedulerState, NeverUnscheduled, tickVars
  <1>2. CASE Started(g)
    <2>1. ScheduleNextTick(g, armed[g]) /\ armed[g] \in 0..MaxTimers /\ ~Stopped(g)
      BY <1>2 DEF Started, Safe, ObjectsOK, Stopped
    <2>2. /\ armed' \in [Generation -> 0..MaxTimers]
          /\ \A other \in Generation \ {g} : armed'[other] = armed[other]
          /\ timer' \subseteq {other \in Generation : armed'[other] > 0 /\ ~Stopped(other)}
          /\ armed'[g] > 0
      <3>1. armed'[g] > 0
        BY <2>1, AlwaysOnAssumption DEF ScheduleNextTick, Safe, ObjectsOK
      <3> QED BY <2>1, <3>1, Scheduling DEF Safe
    <2>3. ObjectsOK'
      BY <1>2, <2>2 DEF Started, Safe, ObjectsOK, Stopped, SchedulerState, WithWatcher
    <2>4. NeverUnscheduled'
      BY <1>2, <2>2 DEF Started, Safe, ObjectsOK, NeverUnscheduled, tickVars
    <2> QED BY <1>0, <2>3, <2>4 DEF Safe
  <1>3. CASE Stop(g)
    <2>1. ArmedAfterClear(g) \in 0..MaxTimers
      BY ClearedTimers DEF Safe
    <2>2. ObjectsOK'
      BY <1>3, <2>1 DEF Stop, Safe, ObjectsOK, Stopped, SchedulerState, WithoutWatcher
    <2>3. NeverUnscheduled'
      BY <1>3 DEF Stop, Safe, ObjectsOK, NeverUnscheduled, tickVars
    <2> QED BY <1>0, <2>2, <2>3 DEF Safe
  <1>4. CASE StopReturns(g)
    BY <1>0, <1>4 DEF StopReturns, Safe, ObjectsOK, Stopped, SchedulerState, NeverUnscheduled,
                      tickVars
  <1>5. CASE WatcherFails(g)
    BY <1>0, <1>5 DEF WatcherFails, WithoutWatcher, Safe, ObjectsOK, Stopped, NeverUnscheduled,
                      tickVars
  <1> QED BY <1>1, <1>2, <1>3, <1>4, <1>5 DEF ObjectStep

---------------------------------------------------------------------------
\* The ticks

LEMMA TimerFiresSafe ==
  ASSUME Safe, NEW g \in Generation, NEW k \in Tick, TimerFires(g, k)
  PROVE  Safe'
  <1>1. StateTypeOK' /\ CountsOK'
    BY DEF TimerFires, Safe, StateTypeOK, CountsOK, Finds
  <1>2. ObjectsOK'
    <2>1. armed[g] - 1 \in 0..MaxTimers
      BY AlwaysOnAssumption DEF TimerFires, Safe, ObjectsOK
    <2> QED BY <2>1 DEF TimerFires, Safe, ObjectsOK, Stopped
  <1>3. TicksOK'
    <2>1. state' \in [Tick -> State \cup {None}]
      <3>1. \A s \in {stateFile} \cup Truncated(Writer) : s \in State
        BY FoundIsState DEF Safe
      <3> QED BY <3>1 DEF TimerFires, Safe, TicksOK
    <2> QED BY <2>1, AlwaysOnAssumption DEF TimerFires, TickStep, Safe, TicksOK, TickState
  <1>4. LockOK'
    BY DEF TimerFires, TickStep, Safe, TicksOK, LockOK, OnlyHolderFires, Firing
  <1>5. NeverUnscheduled'
    <2>1. owner[k] = None /\ owner' = [owner EXCEPT ![k] = g]
      BY DEF TimerFires, Safe, TicksOK
    <2>2. \A other \in Generation \ {g} : armed'[other] = armed[other]
      BY DEF TimerFires, Safe, ObjectsOK
    <2> QED BY <2>1, <2>2, AlwaysOnAssumption
            DEF TimerFires, Safe, TicksOK, NeverUnscheduled
  <1> QED BY <1>1, <1>2, <1>3, <1>4, <1>5 DEF Safe

\* A tick that is over has left a timer behind.
LEMMA TickOverSafe ==
  ASSUME ObjectsOK, TicksOK, NeverUnscheduled, NEW k \in Tick, tick[k] # "idle", TickOver(k),
         watcher' \subseteq Generation, noPlan' \subseteq Tick
  PROVE  ObjectsOK' /\ TicksOK' /\ NeverUnscheduled'
  <1>1. owner[k] \in Generation
    BY DEF TicksOK
  <1> DEFINE g == owner[k]
  <1>2. armed[g] \in 0..MaxTimers /\ ScheduleNextTick(g, armed[g])
    BY <1>1 DEF ObjectsOK, TickOver
  <1>3. /\ armed' \in [Generation -> 0..MaxTimers]
        /\ \A other \in Generation \ {g} : armed'[other] = armed[other]
        /\ timer' \subseteq {other \in Generation : armed'[other] > 0 /\ ~Stopped(other)}
        /\ scheduler[g] = "on" => armed'[g] > 0
    BY <1>1, <1>2, Scheduling
  <1>4. ObjectsOK'
    BY <1>3 DEF TickOver, ObjectsOK, Stopped
  <1>5. TicksOK'
    BY DEF TickOver, TickIsOver, TickStep, TicksOK, TickState
  <1>6. NeverUnscheduled'
    BY <1>1, <1>3 DEF TickOver, TickIsOver, NeverUnscheduled, TicksOK
  <1> QED BY <1>4, <1>5, <1>6

LEMMA GateSafe ==
  ASSUME Safe, NEW k \in Tick, GateStep(k)
  PROVE  Safe'
  <1>1. StateTypeOK' /\ CountsOK'
    BY StateStays DEF GateStep, GateIsDormant, GateBlocks, GatePasses, Safe, CountsOK
  <1>2. LockOK'
    BY DEF GateStep, GateIsDormant, GateBlocks, GatePasses, TickOver, TickIsOver, TickStep,
           Safe, TicksOK, LockOK, OnlyHolderFires, Firing
  <1>3. CASE GateIsDormant(k) \/ GateBlocks(k)
    <2>1. /\ tick[k] # "idle" /\ TickOver(k)
          /\ watcher' \subseteq Generation /\ noPlan' \subseteq Tick
      BY <1>3, AlwaysOnAssumption
      DEF GateIsDormant, GateBlocks, WithWatcher, Safe, ObjectsOK, TicksOK
    <2> QED BY <1>1, <1>2, <2>1, TickOverSafe DEF Safe
  <1>4. CASE GatePasses(k)
    <2>1. ObjectsOK' /\ NeverUnscheduled'
      BY <1>4, ObjectsStay DEF GatePasses, Safe, NeverUnscheduled, objectVars
    <2>2. TicksOK'
      BY <1>4 DEF GatePasses, TickStep, Safe, TicksOK, TickState
    <2> QED BY <1>1, <1>2, <2>1, <2>2 DEF Safe
  <1> QED BY <1>3, <1>4 DEF GateStep

LEMMA LockSafe ==
  ASSUME Safe, NEW k \in Tick, LockStep(k)
  PROVE  Safe'
  <1>1. StateTypeOK' /\ CountsOK'
    BY StateStays DEF LockStep, LockIsAcquired, LockIsBusy, Safe, CountsOK
  <1>2. CASE LockIsAcquired(k)
    <2>1. ObjectsOK' /\ NeverUnscheduled'
      BY <1>2, ObjectsStay DEF LockIsAcquired, Safe, NeverUnscheduled, objectVars
    <2>2. TicksOK'
      BY <1>2 DEF LockIsAcquired, TickStep, Safe, TicksOK, TickState, Firing
    <2>3. LockOK'
      BY <1>2, AlwaysOnAssumption
      DEF LockIsAcquired, LockIsFree, TickStep, Safe, TicksOK, LockOK, OnlyHolderFires, Firing
    <2> QED BY <1>1, <2>1, <2>2, <2>3 DEF Safe
  <1>3. CASE LockIsBusy(k)
    <2>1. ObjectsOK' /\ TicksOK' /\ NeverUnscheduled'
      BY <1>3, TickOverSafe DEF LockIsBusy, Safe, ObjectsOK, TicksOK
    <2>2. LockOK'
      BY <1>3 DEF LockIsBusy, LockAfterBusy, TickOver, TickIsOver, TickStep, Safe, TicksOK, LockOK,
                  OnlyHolderFires, Firing
    <2> QED BY <1>1, <2>1, <2>2 DEF Safe
  <1> QED BY <1>2, <1>3 DEF LockStep

---------------------------------------------------------------------------
\* The steps of a run up to its last one change nothing but the state file and how far
\* the run is.

LEMMA FireMoves ==
  ASSUME Safe, NEW k \in Tick, NEW next \in Firing, tick[k] \in Firing, TickStep(k, next),
         UNCHANGED <<scheduler, armed, timer, tickInProgress, stopAwaits, owner, state, lock>>,
         watcher' \subseteq Generation, noPlan' \subseteq Tick
  PROVE  ObjectsOK' /\ TicksOK' /\ LockOK' /\ NeverUnscheduled'
  <1>1. ObjectsOK' /\ NeverUnscheduled'
    BY DEF Safe, ObjectsOK, Stopped, NeverUnscheduled
  <1>2. TicksOK'
    BY DEF Safe, TickStep, TicksOK, TickState, Firing
  <1>3. LockOK'
    BY DEF Safe, TickStep, TicksOK, LockOK, OnlyHolderFires
  <1> QED BY <1>1, <1>2, <1>3

LEMMA FireReadsSafe ==
  ASSUME Safe, NEW k \in Tick, FireReads(k) \/ FireFindsDormant(k)
  PROVE  Safe'
  <1>1. StateTypeOK'
    BY WriterKinds, ReadsState DEF FireReads, FireFindsDormant, Safe
  <1>2. ObjectsOK' /\ TicksOK' /\ LockOK' /\ NeverUnscheduled' /\ CountsOK'
    BY ObjectsStay, TicksStay, ScheduleStays
    DEF FireReads, FireFindsDormant, Safe, CountsOK, objectVars, tickVars
  <1> QED BY <1>1, <1>2 DEF Safe

LEMMA FireSafe ==
  ASSUME Safe, NEW k \in Tick, FireStep(k)
  PROVE  Safe'
  <1>0. Firing = {"counting", "waking", "discovering", "completing", "settling", "leaving"}
    BY DEF Firing
  <1> DEFINE Moves == \E next \in Firing :
               /\ tick[k] \in Firing /\ TickStep(k, next)
               /\ UNCHANGED <<scheduler, armed, timer, tickInProgress, stopAwaits, owner, state,
                              lock>>
               /\ watcher' \subseteq Generation /\ noPlan' \subseteq Tick
  <1>1. CASE FireReads(k) \/ FireFindsDormant(k)
    BY <1>1, FireReadsSafe
  <1>2. CASE FireIsCounted(k)
    <2>1. StateTypeOK'
      BY <1>2, WriterKinds, WritesState DEF FireIsCounted, Safe
    <2>2. CountsOK'
      BY <1>2, StateAssumption DEF FireIsCounted, OneMore, Safe, CountsOK
    <2>3. Moves
      BY <1>0, <1>2 DEF FireIsCounted, Safe, ObjectsOK, TicksOK, objectVars
    <2> QED BY <2>1, <2>2, <2>3, FireMoves DEF Safe
  <1>3. CASE FireWakes(k)
    <2>1. StateTypeOK'
      BY <1>3, WriterKinds, WritesState, ReadsState DEF FireWakes, Safe
    <2>2. CountsOK'
      BY <1>3 DEF FireWakes, Safe, CountsOK
    <2>3. Moves
      BY <1>0, <1>3 DEF FireWakes, WithoutWatcher, Safe, ObjectsOK, TicksOK
    <2> QED BY <2>1, <2>2, <2>3, FireMoves DEF Safe
  <1>4. CASE TurnsEnd(k) \/ TurnsThrow(k)
    <2>1. StateTypeOK' /\ CountsOK'
      BY <1>4, StateStays DEF TurnsEnd, TurnsThrow, Safe, CountsOK
    <2>2. Moves
      <3>1. noPlan' \subseteq Tick
        BY <1>4 DEF TurnsEnd, TurnsThrow, Safe, TicksOK
      <3> QED BY <1>0, <1>4, <3>1 DEF TurnsEnd, TurnsThrow, Safe, ObjectsOK, objectVars
    <2> QED BY <2>1, <2>2, FireMoves DEF Safe
  <1>5. CASE FireCompletes(k) \/ FireSettles(k)
    <2>1. StateTypeOK'
      BY <1>5, WriterKinds, WritesState DEF FireCompletes, FireSettles, Safe
    <2>2. CountsOK'
      BY <1>5 DEF FireCompletes, FireSettles, Safe, CountsOK
    <2>3. Moves
      BY <1>0, <1>5 DEF FireCompletes, FireSettles, Safe, ObjectsOK, TicksOK, objectVars
    <2> QED BY <2>1, <2>2, <2>3, FireMoves DEF Safe
  <1>6. CASE Leave(k)
    <2>1. StateTypeOK' /\ CountsOK'
      BY <1>6, StateStays DEF Leave, Safe, CountsOK
    <2>2. owner[k] \in Generation
      BY <1>6 DEF Leave, Safe, TicksOK
    <2>3. ObjectsOK' /\ TicksOK' /\ NeverUnscheduled'
      <3>1. watcher' \subseteq Generation /\ noPlan' \subseteq Tick
        BY <1>6, <2>2 DEF Leave, WithWatcher, Safe, ObjectsOK, TicksOK
      <3> QED BY <1>6, <3>1, TickOverSafe DEF Leave, Safe
    <2>4. LockOK'
      <3>1. lock = k /\ \A j \in Tick \ {k} : tick[j] \notin Firing
        BY <1>6 DEF Leave, Firing, Safe, LockOK, OnlyHolderFires
      <3>2. tick' = [tick EXCEPT ![k] = "idle"] /\ lock' = Nobody
        BY <1>6 DEF Leave, LockAfterRun, TickOver, TickIsOver, TickStep
      <3> QED BY <1>0, <3>1, <3>2, AlwaysOnAssumption DEF LockOK, OnlyHolderFires, Safe, TicksOK
    <2> QED BY <2>1, <2>3, <2>4 DEF Safe
  <1> QED BY <1>1, <1>2, <1>3, <1>4, <1>5, <1>6 DEF FireStep

---------------------------------------------------------------------------
\* Signals, writers without the lock, crashes

LEMMA SignalSafe ==
  ASSUME Safe, NEW h \in Handler,
         (\E g \in Generation : Signal(g, h)) \/ SignalFindsDormant(h) \/ SignalIsHandled(h)
  PROVE  Safe'
  <1>1. CASE \E g \in Generation : Signal(g, h)
    BY <1>1, StateStays, ObjectsStay, TicksStay, ScheduleStays
    DEF Signal, Safe, CountsOK, objectVars, tickVars
  <1>2. CASE SignalFindsDormant(h)
    <2>1. StateTypeOK'
      BY <1>2, WriterKinds, ReadsState DEF SignalFindsDormant, Safe
    <2> QED BY <1>2, <2>1, ObjectsStay, TicksStay, ScheduleStays
            DEF SignalFindsDormant, Safe, CountsOK, objectVars, tickVars
  <1>3. CASE SignalIsHandled(h)
    <2> DEFINE g == handles[h]
    <2>1. g \in Generation
      BY <1>3 DEF SignalIsHandled, Safe, CountsOK
    <2>2. StateTypeOK'
      BY <1>3, WriterKinds, WritesState, ReadsState DEF SignalIsHandled, Safe
    <2>3. TicksOK' /\ LockOK' /\ CountsOK'
      BY <1>3, TicksStay DEF SignalIsHandled, Safe, CountsOK, tickVars
    <2>4. /\ armed' \in [Generation -> 0..MaxTimers]
          /\ \A other \in Generation \ {g} : armed'[other] = armed[other]
          /\ timer' \subseteq {other \in Generation : armed'[other] > 0 /\ ~Stopped(other)}
          /\ scheduler[g] = "on" => armed'[g] > 0
      BY <1>3, <2>1, ClearedTimers, Scheduling DEF SignalIsHandled, Rescheduled, Safe
    <2>5. ObjectsOK'
      BY <1>3, <2>4 DEF SignalIsHandled, WithoutWatcher, Safe, ObjectsOK, Stopped
    <2>6. NeverUnscheduled'
      BY <1>3, <2>1, <2>4 DEF SignalIsHandled, Safe, NeverUnscheduled, tickVars
    <2> QED BY <2>2, <2>3, <2>5, <2>6 DEF Safe
  <1> QED BY <1>1, <1>2, <1>3

LEMMA UnlockedSafe ==
  ASSUME Safe, NEW u \in Unlocked, UnlockedReads(u) \/ UnlockedWrites(u)
  PROVE  Safe'
  <1>1. StateTypeOK'
    BY WriterKinds, ReadsState, WritesState DEF UnlockedReads, UnlockedWrites, Safe
  <1> QED BY <1>1, ObjectsStay, TicksStay, ScheduleStays
          DEF UnlockedReads, UnlockedWrites, Safe, CountsOK, objectVars, tickVars

LEMMA FreshIsSafe ==
  ASSUME StateTypeOK', fired' \in 0..MaxFired, crashes' \in 0..MaxCrashes,
         scheduler' = Fresh.scheduler, armed' = Fresh.armed, timer' = {}, watcher' = {},
         tickInProgress' = Fresh.tickInProgress, stopAwaits' = Fresh.tickInProgress,
         tick' = Fresh.tick, owner' = Fresh.owner, state' = Fresh.state, noPlan' = {},
         lock' \in {Nobody, Left}, handles' = Fresh.handles
  PROVE  Safe'
  <1>1. ObjectsOK'
    BY AlwaysOnAssumption DEF ObjectsOK, Fresh, SchedulerState
  <1>2. TicksOK'
    BY DEF TicksOK, Fresh, TickState
  <1>3. LockOK'
    BY AlwaysOnAssumption DEF LockOK, OnlyHolderFires, Fresh, Firing
  <1>4. CountsOK' /\ NeverUnscheduled'
    BY DEF CountsOK, NeverUnscheduled, Fresh
  <1> QED BY <1>1, <1>2, <1>3, <1>4 DEF Safe

LEMMA CrashSafe == Safe /\ Crash => Safe'
  <1> SUFFICES ASSUME Safe, Crash PROVE Safe'
    OBVIOUS
  <1>1. StateTypeOK'
    BY DefaultIsState DEF Crash, Fresh, Safe, StateTypeOK
  <1>2. fired' \in 0..MaxFired /\ crashes' \in 0..MaxCrashes
    BY AlwaysOnAssumption DEF Crash, Safe, CountsOK
  <1>3. lock' \in {Nobody, Left}
    BY DEF Crash
  <1> QED BY <1>1, <1>2, <1>3, FreshIsSafe DEF Crash

---------------------------------------------------------------------------

LEMMA InitSafe == Init => Safe
  <1> SUFFICES ASSUME Init PROVE Safe
    OBVIOUS
  <1>1. StateTypeOK
    BY DefaultIsState DEF Init, Fresh, StateTypeOK
  <1>2. ObjectsOK
    BY AlwaysOnAssumption DEF Init, ObjectsOK, Fresh, SchedulerState
  <1>3. TicksOK
    BY DEF Init, TicksOK, Fresh, TickState
  <1>4. LockOK
    BY AlwaysOnAssumption DEF Init, LockOK, OnlyHolderFires, Fresh, Firing
  <1>5. CountsOK /\ NeverUnscheduled
    BY AlwaysOnAssumption, StateAssumption DEF Init, CountsOK, NeverUnscheduled, Fresh
  <1> QED BY <1>1, <1>2, <1>3, <1>4, <1>5 DEF Safe

LEMMA StepSafe == Safe /\ [Next]_vars => Safe'
  <1> SUFFICES ASSUME Safe, [Next]_vars PROVE Safe'
    OBVIOUS
  <1>1. CASE UNCHANGED vars
    BY <1>1, StutterSafe
  <1>2. CASE \E g \in Generation : ObjectStep(g)
    BY <1>2, ObjectSafe
  <1>3. CASE \E g \in Generation, k \in Tick : TimerFires(g, k)
    BY <1>3, TimerFiresSafe
  <1>4. CASE \E k \in Tick : GateStep(k) \/ LockStep(k) \/ FireStep(k)
    BY <1>4, GateSafe, LockSafe, FireSafe
  <1>5. CASE \/ \E g \in Generation, h \in Handler : Signal(g, h)
             \/ \E h \in Handler : SignalFindsDormant(h) \/ SignalIsHandled(h)
    BY <1>5, SignalSafe
  <1>6. CASE \E u \in Unlocked : UnlockedReads(u) \/ UnlockedWrites(u)
    BY <1>6, UnlockedSafe
  <1>7. CASE Crash
    BY <1>7, CrashSafe
  <1> QED BY <1>1, <1>2, <1>3, <1>4, <1>5, <1>6, <1>7 DEF Next

LEMMA SafeAlways == Spec => []Safe
  BY InitSafe, StepSafe, PTL DEF Spec

\* The types of AlwaysOnScheduler, for every value of the constants.
THEOREM TypeCorrect == Spec => []TypeOK
  BY SafeAlways, SafeMeans, PTL

\* However many schedulers, ticks and crashes there are, a run holds the lock file from
\* its first change of the state to its last, and is alone.
THEOREM RunsExclude == Spec => []OnlyHolderFires
  BY SafeAlways, SafeMeans, PTL

\* No crossing of signals, ticks and timers leaves a scheduler that is on without a next
\* tick.
THEOREM ScheduleIsKept == Spec => []NeverUnscheduled
  BY SafeAlways, SafeMeans, PTL

---------------------------------------------------------------------------
\* The refinement: the runs that are under way are the holder of the lock.

Alive == {k \in Tick : tick[k] \in Firing}

LEMMA LockKept ==
  ASSUME Safe, Safe', lock' = lock
  PROVE  Alive' = Alive
  BY DEF Safe, LockOK, OnlyHolderFires, Alive

LEMMA AcquireRefines ==
  ASSUME Safe, Safe', NEW k \in Tick, LockIsAcquired(k)
  PROVE  Lock!Acquire(k)
  <1>1. lock = Nobody /\ lock' = k
    BY DEF LockIsAcquired, LockIsFree
  <1>2. Alive' = Alive \cup {k}
    BY <1>1, AlwaysOnAssumption DEF Safe, LockOK, OnlyHolderFires, Alive
  <1> QED BY <1>1, <1>2 DEF Lock!Acquire, Alive

LEMMA LeaveRefines ==
  ASSUME Safe, Safe', NEW k \in Tick, Leave(k)
  PROVE  Lock!Release(k)
  <1>1. lock = k /\ lock' = Nobody
    BY DEF Leave, LockAfterRun, Firing, Safe, LockOK, OnlyHolderFires
  <1>2. Alive' = Alive \ {k}
    BY <1>1, AlwaysOnAssumption DEF Safe, LockOK, OnlyHolderFires, Alive
  <1> QED BY <1>1, <1>2 DEF Lock!Release, Alive

LEMMA CrashRefines ==
  ASSUME Safe, Safe', Crash
  PROVE  Lock!Die
  <1>1. Alive' = {}
    BY DEF Crash, Fresh, Firing, Alive
  <1> QED BY <1>1 DEF Crash, Lock!Die, Alive

\* Every other step leaves the lock file as it is.
LEMMA OtherSteps ==
  ASSUME Safe, [Next]_vars, \A k \in Tick : ~LockIsAcquired(k) /\ ~Leave(k), ~Crash
  PROVE  lock' = lock
  <1>1. CASE UNCHANGED vars
    BY <1>1 DEF vars, tickVars
  <1>2. CASE \E g \in Generation : ObjectStep(g)
    BY <1>2 DEF ObjectStep, Start, Started, Stop, StopReturns, WatcherFails, tickVars
  <1>3. CASE \E g \in Generation, k \in Tick : TimerFires(g, k)
    BY <1>3 DEF TimerFires
  <1>4. CASE \E k \in Tick : GateStep(k) \/ LockStep(k)
    BY <1>4 DEF GateStep, GateIsDormant, GateBlocks, GatePasses, LockStep, LockIsBusy,
                LockAfterBusy
  <1>5. CASE \E k \in Tick : FireStep(k)
    BY <1>5 DEF FireStep, FireReads, FireIsCounted, FireFindsDormant, FireWakes, TurnsEnd,
                TurnsThrow, FireCompletes, FireSettles, tickVars
  <1>6. CASE \/ \E g \in Generation, h \in Handler : Signal(g, h)
             \/ \E h \in Handler : SignalFindsDormant(h) \/ SignalIsHandled(h)
    BY <1>6 DEF Signal, SignalFindsDormant, SignalIsHandled, tickVars
  <1>7. CASE \E u \in Unlocked : UnlockedReads(u) \/ UnlockedWrites(u)
    BY <1>7 DEF UnlockedReads, UnlockedWrites, tickVars
  <1> QED BY <1>1, <1>2, <1>3, <1>4, <1>5, <1>6, <1>7 DEF Next

LEMMA StepRefines ==
  ASSUME Safe, Safe', [Next]_vars
  PROVE  Lock!Next \/ (lock' = lock /\ Alive' = Alive)
  <1>1. CASE \E k \in Tick : LockIsAcquired(k)
    BY <1>1, AcquireRefines DEF Lock!Next
  <1>2. CASE \E k \in Tick : Leave(k)
    BY <1>2, LeaveRefines DEF Lock!Next
  <1>3. CASE Crash
    BY <1>3, CrashRefines DEF Lock!Next
  <1>4. CASE ~Crash /\ \A k \in Tick : ~LockIsAcquired(k) /\ ~Leave(k)
    BY <1>4, OtherSteps, LockKept
  <1> QED BY <1>1, <1>2, <1>3, <1>4

\* The lock file of always-on does what RunLock promises: only the run that created it
\* removes it, and it outlives a crash.
THEOREM LockIsRunLock == Spec => ImplementsRunLock
  <1>1. Init => Lock!Init
    BY DEF Init, Fresh, Firing, Lock!Init
  <1>2. Safe /\ Safe' /\ [Next]_vars => [Lock!Next]_<<lock, Alive>>
    BY StepRefines
  <1>3. [Lock!Next]_<<lock, Alive>> =>
          [Lock!Next]_<<lock, {k \in Tick : tick[k] \in Firing}>>
    BY DEF Alive
  <1> QED BY <1>1, <1>2, <1>3, SafeAlways, PTL DEF Spec, ImplementsRunLock, Lock!Spec

---------------------------------------------------------------------------
\* The daily budget. A tick that has found room in it counts its run later: until then it
\* is pending.

Pending ==
  {k \in Tick : \/ tick[k] \in {"locking", "counting"}
                \/ tick[k] = "reading" /\ WithinBudget(k)}

\* As long as no write was lost the file counts the runs, and those that are pending have
\* their place within the budget and the ticks that may have read it at the same time.
BudgetInv ==
  ~clobbered =>
    /\ fired = stateFile.todayRunCount
    /\ fired + Cardinality(Pending) <= DailyBudget + Cardinality(Tick) - 1

\* A writer whose write was not lost wrote what the file held, but for its own change.
LEMMA WriteCounts ==
  ASSUME StateTypeOK, NEW w \in Writer, seen[w] # None, ~clobbered'
  PROVE  /\ MarkFireStarted(w) => stateFile'.todayRunCount = OneMore(stateFile.todayRunCount)
         /\ MarkFireCompleted(w) \/ SetDormant(w) \/ ClearDormant(w) =>
              stateFile'.todayRunCount = stateFile.todayRunCount
  <1>1. seen[w] \in State
    BY DEF StateTypeOK
  <1>2. /\ [seen[w] EXCEPT !.todayRunCount = OneMore(seen[w].todayRunCount)].todayRunCount
             = OneMore(seen[w].todayRunCount)
        /\ [seen[w] EXCEPT !.dormant = TRUE].todayRunCount = seen[w].todayRunCount
        /\ [seen[w] EXCEPT !.dormant = FALSE].todayRunCount = seen[w].todayRunCount
    BY <1>1 DEF State
  <1>3. ASSUME NEW next, Writes(w, next) PROVE stateFile' = next /\ seen[w] = stateFile
    BY <1>3 DEF Writes
  <1>4. MarkFireStarted(w) => stateFile'.todayRunCount = OneMore(stateFile.todayRunCount)
    BY <1>2, <1>3 DEF MarkFireStarted
  <1>5. MarkFireCompleted(w) \/ SetDormant(w) \/ ClearDormant(w) =>
          stateFile'.todayRunCount = stateFile.todayRunCount
    BY <1>2, <1>3 DEF MarkFireCompleted, SetDormant, ClearDormant
  <1> QED BY <1>4, <1>5

\* Only a run that counts itself changes the count, in the file and in the world alike.
LEMMA CountStep ==
  ASSUME Safe, [Next]_vars, ~clobbered'
  PROVE  /\ ~clobbered
         /\ \/ /\ \E k \in Tick : FireIsCounted(k)
               /\ fired' = OneMore(fired)
               /\ stateFile'.todayRunCount = OneMore(stateFile.todayRunCount)
            \/ /\ fired' = fired
               /\ stateFile'.todayRunCount = stateFile.todayRunCount
  <1> DEFINE Same == fired' = fired /\ stateFile'.todayRunCount = stateFile.todayRunCount
  <1>1. CASE UNCHANGED vars
    BY <1>1 DEF vars, stateVars, tickVars
  <1>2. CASE \E g \in Generation : ObjectStep(g)
    BY <1>2 DEF ObjectStep, Start, Started, Stop, StopReturns, WatcherFails, stateVars, tickVars
  <1>3. CASE \E g \in Generation, k \in Tick : TimerFires(g, k)
    BY <1>3 DEF TimerFires, Finds
  <1>4. CASE \E k \in Tick : GateStep(k) \/ LockStep(k)
    BY <1>4 DEF GateStep, GateIsDormant, GateBlocks, GatePasses, LockStep, LockIsAcquired,
                LockIsBusy, stateVars
  <1>5. ASSUME NEW k \in Tick, FireIsCounted(k)
        PROVE  /\ ~clobbered /\ fired' = OneMore(fired)
               /\ stateFile'.todayRunCount = OneMore(stateFile.todayRunCount)
    <2>1. ~clobbered
      BY <1>5 DEF FireIsCounted, MarkFireStarted, Writes
    <2> QED BY <1>5, <2>1, WriterKinds, WriteCounts DEF FireIsCounted, Safe
  <1>6. ASSUME NEW w \in Writer,
               \/ Reads(w) \/ FindsDormant(w) \/ NothingToClear(w)
               \/ seen[w] # None /\ (MarkFireCompleted(w) \/ SetDormant(w) \/ ClearDormant(w))
        PROVE  ~clobbered /\ stateFile'.todayRunCount = stateFile.todayRunCount
    <2>1. CASE Reads(w) \/ FindsDormant(w) \/ NothingToClear(w)
      BY <2>1 DEF Reads, FindsDormant, NothingToClear, Finds
    <2>2. CASE seen[w] # None /\ (MarkFireCompleted(w) \/ SetDormant(w) \/ ClearDormant(w))
      <3>1. ~clobbered
        BY <2>2 DEF MarkFireCompleted, SetDormant, ClearDormant, Writes
      <3> QED BY <2>2, <3>1, WriteCounts DEF Safe
    <2> QED BY <1>6, <2>1, <2>2
  <1>7. ASSUME NEW k \in Tick, FireStep(k), ~FireIsCounted(k) PROVE ~clobbered /\ Same
    <2>1. fired' = fired
      BY <1>7 DEF FireStep, FireReads, FireFindsDormant, FireWakes, TurnsEnd, TurnsThrow,
         FireCompletes, FireSettles, Leave, tickVars
    <2>2. \/ UNCHANGED stateVars
          \/ Reads(k) \/ FindsDormant(k) \/ NothingToClear(k)
          \/ seen[k] # None /\ (MarkFireCompleted(k) \/ SetDormant(k) \/ ClearDormant(k))
      BY <1>7 DEF FireStep, FireReads, FireFindsDormant, FireWakes, TurnsEnd, TurnsThrow,
         FireCompletes, FireSettles, Leave
    <2> QED BY <1>6, <2>1, <2>2, WriterKinds DEF stateVars
  <1>8. ASSUME NEW h \in Handler,
               (\E g \in Generation : Signal(g, h)) \/ SignalFindsDormant(h) \/ SignalIsHandled(h)
        PROVE  ~clobbered /\ Same
    <2>1. fired' = fired
      BY <1>8 DEF Signal, SignalFindsDormant, SignalIsHandled, tickVars
    <2>2. \/ UNCHANGED stateVars
          \/ FindsDormant(h) \/ NothingToClear(h) \/ (seen[h] # None /\ ClearDormant(h))
      BY <1>8 DEF Signal, SignalFindsDormant, SignalIsHandled
    <2> QED BY <1>6, <2>1, <2>2, WriterKinds DEF stateVars
  <1>9. ASSUME NEW u \in Unlocked, UnlockedReads(u) \/ UnlockedWrites(u) PROVE ~clobbered /\ Same
    BY <1>6, <1>9, WriterKinds DEF UnlockedReads, UnlockedWrites, tickVars
  <1>10. CASE Crash
    BY <1>10 DEF Crash
  <1> QED BY <1>1, <1>2, <1>3, <1>4, <1>5, <1>7, <1>8, <1>9, <1>10 DEF Next

\* A tick becomes pending when it reads a count that is within the budget, and the run that
\* is counted was pending.
LEMMA PendingStep ==
  ASSUME Safe, [Next]_vars, ~clobbered'
  PROVE  \/ Pending' \subseteq Pending
         \/ fired' = fired /\ stateFile.todayRunCount < DailyBudget
  <1>1. CASE UNCHANGED <<tick, state>>
    BY <1>1 DEF Pending, WithinBudget
  <1>2. ASSUME NEW g \in Generation, NEW k \in Tick, TimerFires(g, k)
        PROVE  \/ Pending' \subseteq Pending
               \/ fired' = fired /\ stateFile.todayRunCount < DailyBudget
    <2>1. PICK s : Finds(s) /\ state' = [state EXCEPT ![k] = s]
      BY <1>2 DEF TimerFires
    <2>2. s = stateFile
      BY <2>1 DEF Finds
    <2>3. tick' = [tick EXCEPT ![k] = "reading"] /\ fired' = fired
      BY <1>2 DEF TimerFires, TickStep
    <2>4. \A j \in Tick \ {k} : tick'[j] = tick[j] /\ state'[j] = state[j]
      BY <2>1, <2>3 DEF Safe, TicksOK
    <2>5. tick'[k] = "reading" /\ state'[k] = stateFile
      BY <2>1, <2>2, <2>3 DEF Safe, TicksOK
    <2>6. CASE stateFile.todayRunCount < DailyBudget
      BY <2>3, <2>6
    <2>7. CASE ~(stateFile.todayRunCount < DailyBudget)
      BY <2>4, <2>5, <2>7 DEF Pending, WithinBudget
    <2> QED BY <2>6, <2>7
  <1>3. ASSUME NEW k \in Tick, \A j \in Tick \ {k} : tick'[j] = tick[j] /\ state'[j] = state[j],
               k \in Pending' => k \in Pending
        PROVE  Pending' \subseteq Pending
    BY <1>3 DEF Pending, WithinBudget
  <1>4. ASSUME NEW k \in Tick, GateStep(k) \/ LockStep(k) \/ FireStep(k)
        PROVE  Pending' \subseteq Pending
    <2>1. \A j \in Tick \ {k} : tick'[j] = tick[j] /\ state'[j] = state[j]
      BY <1>4 DEF GateStep, GateIsDormant, GateBlocks, GatePasses, LockStep, LockIsAcquired,
         LockIsBusy, FireStep, FireReads, FireIsCounted, FireFindsDormant, FireWakes, TurnsEnd,
         TurnsThrow, FireCompletes, FireSettles, Leave, TickOver, TickIsOver, TickStep, tickVars,
         Safe, TicksOK
    <2>2. \/ tick'[k] = tick[k] /\ state'[k] = state[k]
          \/ tick'[k] = "locking" /\ tick[k] = "reading" /\ WithinBudget(k)
          \/ tick'[k] = "counting" /\ tick[k] = "locking"
          \/ tick'[k] \notin {"reading", "locking", "counting"}
      BY <1>4 DEF GateStep, GateIsDormant, GateBlocks, GatePasses, LockStep, LockIsAcquired,
         LockIsBusy, FireStep, FireReads, FireIsCounted, FireFindsDormant, FireWakes, TurnsEnd,
         TurnsThrow, FireCompletes, FireSettles, Leave, TickOver, TickIsOver, TickStep, tickVars,
         Safe, TicksOK
    <2>3. k \in Pending' => k \in Pending
      BY <2>2 DEF Pending, WithinBudget
    <2> QED BY <1>3, <2>1, <2>3
  <1>5. CASE Crash
    BY <1>5 DEF Crash, Fresh, Pending
  <1>6. \/ UNCHANGED <<tick, state>>
        \/ \E g \in Generation, k \in Tick : TimerFires(g, k)
        \/ \E k \in Tick : GateStep(k) \/ LockStep(k) \/ FireStep(k)
        \/ Crash
    BY DEF Next, vars, tickVars, ObjectStep, Start, Started, Stop, StopReturns, WatcherFails,
       Signal, SignalFindsDormant, SignalIsHandled, UnlockedReads, UnlockedWrites
  <1> QED BY <1>1, <1>2, <1>4, <1>5, <1>6

LEMMA PendingIsFinite ==
  /\ IsFiniteSet(Pending) /\ Cardinality(Pending) \in 0 .. Cardinality(Tick)
  /\ Cardinality(Tick) \in Nat
  <1>1. Pending \in SUBSET Tick /\ IsFiniteSet(Tick)
    BY AlwaysOnAssumption DEF Pending
  <1> QED BY <1>1, FS_Subset, FS_CardinalityType

LEMMA StepBudget ==
  ASSUME Safe, BudgetInv, [Next]_vars
  PROVE  BudgetInv'
  <1> SUFFICES ASSUME ~clobbered'
               PROVE  /\ fired' = stateFile'.todayRunCount
                      /\ fired' + Cardinality(Pending') <= DailyBudget + Cardinality(Tick) - 1
    BY DEF BudgetInv
  <1>1. ~clobbered
    BY CountStep
  <1>2. /\ fired = stateFile.todayRunCount
        /\ fired + Cardinality(Pending) <= DailyBudget + Cardinality(Tick) - 1
    BY <1>1 DEF BudgetInv
  <1>3. fired' = stateFile'.todayRunCount
    BY <1>2, CountStep
  <1>4. /\ fired \in Nat /\ DailyBudget \in Nat /\ Cardinality(Tick) \in Nat
        /\ Cardinality(Pending) \in Nat /\ IsFiniteSet(Pending)
        /\ fired' \in Nat /\ fired' <= fired + 1
    <2>1. fired \in Nat /\ OneMore(fired) \in Nat /\ OneMore(fired) <= fired + 1
      BY StateAssumption DEF Safe, CountsOK, OneMore
    <2> QED BY <2>1, PendingIsFinite, CountStep, AlwaysOnAssumption
  <1>5. IsFiniteSet(Pending') /\ Cardinality(Pending') \in 0 .. Cardinality(Tick)
    <2>1. Pending' \in SUBSET Tick /\ IsFiniteSet(Tick)
      BY AlwaysOnAssumption DEF Pending
    <2> QED BY <1>4, <2>1, FS_Subset, FS_CardinalityType
  <1>6. ASSUME NEW k \in Tick, FireIsCounted(k)
        PROVE  Cardinality(Pending') <= Cardinality(Pending) - 1
    <2>1. k \in Pending
      BY <1>6 DEF FireIsCounted, Pending
    <2>2. Pending' \subseteq Pending \ {k}
      <3>1. tick' = [tick EXCEPT ![k] = "waking"] /\ state' = state
        BY <1>6 DEF FireIsCounted, TickStep
      <3> QED BY <3>1 DEF Pending, WithinBudget, Safe, TicksOK
    <2>3. IsFiniteSet(Pending \ {k}) /\ Cardinality(Pending \ {k}) = Cardinality(Pending) - 1
      BY <1>4, <2>1, FS_RemoveElement
    <2>4. Cardinality(Pending') <= Cardinality(Pending \ {k})
      BY <2>2, <2>3, FS_Subset
    <2> QED BY <2>3, <2>4
  <1>7. CASE \E k \in Tick : FireIsCounted(k)
    <2>1. Cardinality(Pending') <= Cardinality(Pending) - 1
      BY <1>6, <1>7
    <2> QED BY <1>2, <1>3, <1>4, <1>5, <2>1
  <1>8. CASE fired' = fired /\ Pending' \subseteq Pending
    <2>1. Cardinality(Pending') <= Cardinality(Pending)
      BY <1>4, <1>8, FS_Subset
    <2> QED BY <1>2, <1>3, <1>4, <1>5, <1>8, <2>1
  <1>9. CASE fired' = fired /\ stateFile.todayRunCount < DailyBudget
    BY <1>2, <1>3, <1>4, <1>5, <1>9
  <1> QED BY <1>7, <1>8, <1>9, CountStep, PendingStep

\* markFireStarted counts a run only after the gates have read the count: the budget of a
\* day is exceeded by the ticks that had read it before, and by no more, however ticks,
\* generations, signals and crashes cross, unless a write of the state file was lost.
\* (Tick bounds the ticks that are in progress at a time, of which there is one at least.)
THEOREM BudgetHolds ==
  ASSUME Tick # {}
  PROVE  Spec => []BudgetOvershoot
  <1>1. Init => BudgetInv
    <2> SUFFICES ASSUME Init PROVE BudgetInv
      OBVIOUS
    <2>1. Pending = {}
      BY DEF Init, Fresh, Pending
    <2>2. fired = 0 /\ stateFile.todayRunCount = 0
      BY DEF Init, DefaultState
    <2>3. Cardinality(Pending) = 0 /\ Cardinality(Tick) \in Nat \ {0}
      BY <2>1, PendingIsFinite, FS_EmptySet, AlwaysOnAssumption
    <2> QED BY <2>2, <2>3, AlwaysOnAssumption DEF BudgetInv
  <1>2. Safe /\ BudgetInv /\ [Next]_vars => BudgetInv'
    BY StepBudget
  <1>3. Safe /\ BudgetInv => BudgetOvershoot
    <2> SUFFICES ASSUME Safe, BudgetInv, ~clobbered
                 PROVE  fired <= DailyBudget + Cardinality(Tick) - 1
      BY DEF BudgetOvershoot
    <2>1. fired \in Nat /\ Cardinality(Pending) \in Nat /\ Cardinality(Tick) \in Nat
          /\ DailyBudget \in Nat
      BY PendingIsFinite, AlwaysOnAssumption, StateAssumption DEF Safe, CountsOK
    <2> QED BY <2>1 DEF BudgetInv
  <1> QED BY <1>1, <1>2, <1>3, SafeAlways, PTL DEF Spec
=============================================================================
