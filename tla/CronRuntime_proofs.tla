--------------------------- MODULE CronRuntime_proofs ---------------------------
(***************************************************************************)
(* The types and the limit on concurrent runs, for any number of tasks,    *)
(* runs, overlapping ticks, calls and crashes.                             *)
(***************************************************************************)
EXTENDS CronRuntime, FiniteSetTheorems, TLAPS

\* The inductive invariant, part by part: what each part says is decided by the
\* variables of one group, and by seen for the runs and the calls.
TimersOK ==
  /\ scheduler \in SchedulerState /\ resetting \subseteq Task
  /\ armed \in 0..MaxTimers /\ timer \in BOOLEAN /\ (timer => armed > 0)
  /\ tickInProgress \in Tick \cup {None} /\ stopAwaits \in Tick \cup {None}

TicksOK == tick \in [Tick -> TickState] /\ due \in [Tick -> SUBSET Task]

RunsOK ==
  /\ run \in [Run -> RunState] /\ taskOf \in [Run -> Task \cup {None}]
  /\ activeRuns \subseteq {r \in Run : taskOf[r] # None}
  /\ \A r \in Run : RunAgrees(r)
  /\ ConcurrencyLimit

CallsOK ==
  /\ call \in [Call -> CallState]
  /\ stopped \in [Call -> Run \cup {None}] /\ waitsFor \in [Call -> Run \cup {None}]
  /\ deleted \subseteq Call
  /\ \A c \in Call : CallAgrees(c)

Safe ==
  StoreTypeOK /\ TimersOK /\ TicksOK /\ RunsOK /\ CallsOK /\ crashes \in 0..MaxCrashes

LEMMA SafeParts == Safe <=> TypeOK /\ BooksAgree /\ ConcurrencyLimit
  BY DEF Safe, TimersOK, TicksOK, RunsOK, CallsOK, TypeOK, BooksAgree

---------------------------------------------------------------------------
\* What an action does not touch stays as it was.

\* Nobody but w has read or written.
Others(w) == \A v \in Writer \ {w} : seen'[v] = seen[v]

LEMMA TimersStay == TimersOK /\ UNCHANGED timerVars => TimersOK'
  BY DEF TimersOK, timerVars

LEMMA TicksStay == TicksOK /\ UNCHANGED tickVars => TicksOK'
  BY DEF TicksOK, tickVars

LEMMA StoreStays == StoreTypeOK /\ UNCHANGED storeVars => StoreTypeOK'
  BY DEF StoreTypeOK, storeVars

LEMMA RunsStay ==
  ASSUME RunsOK, UNCHANGED runVars, \A r \in Run : seen[r] # None => seen'[r] # None
  PROVE  RunsOK'
  BY DEF RunsOK, runVars, RunAgrees, ConcurrencyLimit

LEMMA CallsStay ==
  ASSUME CallsOK, UNCHANGED callVars, \A c \in Call : seen[c] # None => seen'[c] # None
  PROVE  CallsOK'
  BY DEF CallsOK, callVars, CallAgrees

LEMMA StutterSafe == Safe /\ UNCHANGED vars => Safe'
  BY TimersStay, TicksStay, StoreStays, RunsStay, CallsStay DEF Safe, vars, storeVars

---------------------------------------------------------------------------
\* The store: reading gives a content, and writing needs one that was read.

LEMMA WriterKinds ==
  /\ Run \subseteq Writer /\ Tick \subseteq Writer /\ Call \subseteq Writer /\ Task \subseteq Writer
  /\ Run \cap (Tick \cup Call \cup Task) = {} /\ Tick \cap (Call \cup Task) = {}
  /\ Call \cap Task = {}
  BY CronAssumption

LEMMA ReadsStore ==
  ASSUME StoreTypeOK, NEW w \in Writer, Reads(w)
  PROVE  StoreTypeOK' /\ Others(w) /\ seen'[w] # None
  BY StoreAssumption DEF StoreTypeOK, Reads, Others

LEMMA WritesStore ==
  ASSUME StoreTypeOK, NEW w \in Writer, NEW content \in Content, Writes(w, content)
  PROVE  StoreTypeOK' /\ Others(w)
  BY DEF StoreTypeOK, Writes, Others

LEMMA ChangesStore ==
  ASSUME StoreTypeOK, NEW w \in Writer, seen[w] # None, NEW t \in Task, NEW e \in Entry,
         Put(w, t, e) \/ UpdateTask(w, t, e) \/ Delete(w, t)
  PROVE  StoreTypeOK' /\ Others(w)
  <1>1. seen[w] \in Content /\ file \in Content
    BY DEF StoreTypeOK
  <1>2. [seen[w] EXCEPT ![t] = e] \in Content /\ [seen[w] EXCEPT ![t] = "absent"] \in Content
    BY <1>1 DEF Content, Entry
  <1>3. CASE Put(w, t, e)
    BY <1>2, <1>3, WritesStore DEF Put
  <1>4. CASE UpdateTask(w, t, e)
    BY <1>1, <1>2, <1>4, WritesStore DEF UpdateTask
  <1>5. CASE Delete(w, t)
    BY <1>1, <1>2, <1>5, WritesStore DEF Delete
  <1> QED BY <1>3, <1>4, <1>5

---------------------------------------------------------------------------
\* The scheduler: timers are counted, and the remembered one is one of them.

LEMMA ArmTimers ==
  ASSUME TimersOK, NEW n \in 0..MaxTimers, Arm(n)
  PROVE  armed' \in 0..MaxTimers /\ timer' \in BOOLEAN /\ (timer' => armed' > 0)
  BY CronAssumption DEF Arm

LEMMA ClearTimers == TimersOK => ArmedAfterClear \in 0..MaxTimers
  BY CronAssumption DEF TimersOK, ArmedAfterClear

LEMMA PokeTimers == TimersOK /\ Poke => TimersOK'
  <1> SUFFICES ASSUME TimersOK, Poke PROVE TimersOK'
    OBVIOUS
  <1>1. CASE Running
    BY <1>1, ClearTimers, ArmTimers DEF Poke, TimersOK
  <1>2. CASE ~Running
    BY <1>2 DEF Poke, TimersOK
  <1> QED BY <1>1, <1>2

LEMMA TickOverSafe ==
  ASSUME TimersOK, tick \in [Tick -> TickState], NEW k \in Tick, TickOver(k)
  PROVE  TimersOK' /\ tick' \in [Tick -> TickState]
  <1>1. tick' \in [Tick -> TickState]
    BY DEF TickOver, TickState
  <1>2. TimersOK'
    <2>1. CASE Running
      <3>1. Arm(armed) /\ armed \in 0..MaxTimers
        BY <2>1 DEF TickOver, TimersOK
      <3> QED BY <3>1, ArmTimers DEF TickOver, TimersOK
    <2>2. CASE ~Running
      BY <2>2 DEF TickOver, TimersOK
    <2> QED BY <2>1, <2>2
  <1> QED BY <1>1, <1>2

LEMMA SchedulerSafe ==
  ASSUME Safe, SchedulerStep \/ Stop
  PROVE  Safe'
  <1>1. TimersOK'
    <2> USE DEF Safe, SchedulerState
    <2>1. CASE Start
      BY <2>1 DEF Start, TimersOK
    <2>2. CASE StartLists
      BY <2>2 DEF StartLists, Interrupted, TimersOK
    <2>3. CASE StartDone
      BY <2>3, ArmTimers DEF StartDone, TimersOK
    <2>4. CASE StopDone
      BY <2>4 DEF StopDone, TimersOK
    <2>5. CASE Stop
      BY <2>5, ClearTimers DEF Stop, AwaitedByStop, TimersOK
    <2> QED BY <2>1, <2>2, <2>3, <2>4, <2>5 DEF SchedulerStep
  <1>2. UNCHANGED <<storeVars, tickVars, runVars, callVars, crashes>>
    BY DEF SchedulerStep, Start, StartLists, StartDone, StopDone, Stop
  <1> QED BY <1>1, <1>2, StoreStays, TicksStay, RunsStay, CallsStay DEF Safe, storeVars

LEMMA ResetSafe ==
  ASSUME Safe, NEW t \in Task, StartReads(t) \/ StartResets(t) \/ TimePasses(t)
  PROVE  Safe'
  <1> USE WriterKinds
  <1>1. CASE StartReads(t)
    <2>1. StoreTypeOK' /\ Others(t)
      BY <1>1, ReadsStore DEF StartReads, Safe
    <2> QED BY <1>1, <2>1, TimersStay, TicksStay, RunsStay, CallsStay
            DEF StartReads, Others, Safe
  <1>2. CASE StartResets(t)
    <2>1. StoreTypeOK' /\ Others(t)
      BY <1>2, ChangesStore DEF StartResets, Safe, Entry
    <2>2. TimersOK'
      BY <1>2 DEF StartResets, Safe, TimersOK
    <2> QED BY <1>2, <2>1, <2>2, TicksStay, RunsStay, CallsStay
            DEF StartResets, Others, Safe
  <1>3. CASE TimePasses(t)
    <2>1. StoreTypeOK'
      BY <1>3 DEF TimePasses, Safe, StoreTypeOK, Content, Entry
    <2> QED BY <1>3, <2>1, TimersStay, TicksStay, RunsStay, CallsStay
            DEF TimePasses, Safe
  <1> QED BY <1>1, <1>2, <1>3

LEMMA CrashSafe == Safe /\ Crash => Safe'
  <1> SUFFICES ASSUME Safe, Crash PROVE Safe'
    OBVIOUS
  <1>1. StoreTypeOK'
    BY DEF Crash, NobodyWrites, Safe, StoreTypeOK
  <1>2. TimersOK' /\ TicksOK'
    <2>1. TimersOK'
      <3>1. 0 \in 0..MaxTimers
        BY CronAssumption
      <3> QED BY <3>1 DEF Crash, TimersOK, SchedulerState
    <2>2. TicksOK'
      BY DEF Crash, TicksOK, TickState
    <2> QED BY <2>1, <2>2
  <1>3. RunsOK'
    BY CronAssumption, FS_EmptySet
    DEF Crash, RunsOK, RunState, RunAgrees, ConcurrencyLimit
  <1>4. CallsOK'
    BY DEF Crash, Safe, CallsOK, CallState, CallAgrees
  <1>5. (crashes \in 0..MaxCrashes)'
    BY CronAssumption DEF Crash, Safe
  <1> QED BY <1>1, <1>2, <1>3, <1>4, <1>5 DEF Safe

---------------------------------------------------------------------------
\* The ticks.

LEMMA TimerFiresSafe ==
  ASSUME Safe, NEW k \in Tick, TimerFires(k)
  PROVE  Safe'
  <1>1. TimersOK'
    <2>1. MaxTimers \in Nat
      BY CronAssumption
    <2>2. armed - 1 \in 0..MaxTimers
      BY <2>1 DEF TimerFires, Safe, TimersOK
    <2> QED BY <2>2 DEF TimerFires, Safe, TimersOK
  <1>2. TicksOK'
    BY DEF TimerFires, Safe, TicksOK, TickState
  <1> QED BY <1>1, <1>2, StoreStays, RunsStay, CallsStay
          DEF TimerFires, Safe, storeVars

\* A tick starts no more runs than there are places, whatever other ticks and runs
\* have done since it has listed the tasks.
LEMMA StartingSafe ==
  ASSUME RunsOK, CronAssumption, UNCHANGED seen,
         NEW starting \in SUBSET FreeRun, Cardinality(starting) <= Places,
         NEW tasks \in SUBSET Task, NEW job \in [starting -> tasks],
         run' = [r \in Run |-> IF r \in starting THEN "marking" ELSE run[r]],
         taskOf' = [r \in Run |-> IF r \in starting THEN job[r] ELSE taskOf[r]],
         activeRuns' = activeRuns \cup starting
  PROVE  RunsOK'
  <1>1. starting \subseteq Run /\ \A r \in starting : run[r] = "off"
    BY DEF FreeRun
  <1>2. \A r \in starting : job[r] \in Task /\ job[r] # None
    <2> TAKE r \in starting
    <2> QED OBVIOUS
  <1>3. run' \in [Run -> RunState] /\ taskOf' \in [Run -> Task \cup {None}]
    BY <1>1, <1>2 DEF RunsOK, RunState
  <1>4. activeRuns' \subseteq {r \in Run : taskOf'[r] # None}
    BY <1>1, <1>2 DEF RunsOK
  <1>5. \A r \in Run : RunAgrees(r)'
    <2> TAKE r \in Run
    <2>1. RunAgrees(r)
      BY DEF RunsOK
    <2>2. CASE r \in starting
      BY <1>2, <2>2 DEF RunAgrees
    <2>3. CASE r \notin starting
      BY <2>1, <2>3 DEF RunAgrees
    <2> QED BY <2>2, <2>3
  <1>6. ConcurrencyLimit'
    <2>1. IsFiniteSet(activeRuns) /\ IsFiniteSet(starting)
      BY <1>1, FS_Subset DEF RunsOK
    <2>2. Cardinality(activeRuns) \in Nat /\ Cardinality(starting) \in Nat
      BY <2>1, FS_CardinalityType
    <2>3. Cardinality(activeRuns \cup starting)
            = Cardinality(activeRuns) + Cardinality(starting) - Cardinality(activeRuns \cap starting)
      BY <2>1, FS_Union
    <2>4. activeRuns \cap starting = {}
      BY <1>1 DEF RunsOK, RunAgrees
    <2>5. Cardinality(activeRuns \cap starting) = 0
      BY <2>4, FS_EmptySet
    <2> QED BY <2>2, <2>3, <2>5 DEF RunsOK, ConcurrencyLimit, Places
  <1> QED BY <1>3, <1>4, <1>5, <1>6 DEF RunsOK

LEMMA DispatchSafe ==
  ASSUME Safe, NEW k \in Tick, Dispatch(k)
  PROVE  Safe'
  <1>0. PICK starting \in SUBSET FreeRun :
          \E job \in [starting -> due[k]] : Fires(k, starting, job)
    BY DEF Dispatch
  <1>1. PICK job \in [starting -> due[k]] : Fires(k, starting, job)
    BY <1>0
  <1> DEFINE rest == due[k] \ {job[r] : r \in starting}
  <1>2. UNCHANGED <<file, seen>> /\ UNCHANGED callVars /\ UNCHANGED crashes
    BY DEF Dispatch, storeVars
  <1>3. RunsOK'
    <2>1. due[k] \in SUBSET Task
      BY DEF Safe, TicksOK
    <2> QED BY <1>1, <1>2, <2>1, StartingSafe, CronAssumption DEF Safe, Fires
  <1>4. due' \in [Tick -> SUBSET Task]
    <2>1. rest \in SUBSET Task
      BY DEF Safe, TicksOK
    <2> QED BY <1>1, <2>1 DEF Safe, TicksOK, Fires
  <1>5. TimersOK' /\ tick' \in [Tick -> TickState]
    <2>1. CASE rest = {}
      BY <1>1, <2>1, TickOverSafe DEF Safe, TicksOK, Fires
    <2>2. CASE rest # {}
      BY <1>1, <2>2, TimersStay DEF Safe, TicksOK, TickState, Fires
    <2> QED BY <2>1, <2>2
  <1> QED BY <1>2, <1>3, <1>4, <1>5, StoreStays, CallsStay DEF Safe, TicksOK, storeVars

LEMMA TickSafe ==
  ASSUME Safe, NEW k \in Tick, TickStep(k)
  PROVE  Safe'
  <1> USE WriterKinds
  <1>1. CASE TickLists(k)
    <2>1. TicksOK'
      BY <1>1 DEF TickLists, DueTasks, Safe, TicksOK, TickState
    <2> QED BY <1>1, <2>1, StoreStays, TimersStay, RunsStay, CallsStay
            DEF TickLists, Safe, storeVars
  <1>2. CASE TickReads(k)
    <2>1. StoreTypeOK' /\ Others(k)
      BY <1>2, ReadsStore DEF TickReads, Safe
    <2> QED BY <1>2, <2>1, TimersStay, TicksStay, RunsStay, CallsStay
            DEF TickReads, Others, Safe
  <1>3. CASE TickDelays(k)
    <2>1. PICK t \in due[k] : Put(k, t, "later") /\ due' = [due EXCEPT ![k] = @ \ {t}]
      BY <1>3 DEF TickDelays
    <2>2. t \in Task
      BY DEF Safe, TicksOK
    <2>3. StoreTypeOK' /\ Others(k)
      BY <1>3, <2>1, <2>2, ChangesStore DEF TickDelays, Safe, Entry
    <2>4. TicksOK'
      BY <1>3, <2>1 DEF TickDelays, Safe, TicksOK, TickState
    <2> QED BY <1>3, <2>3, <2>4, TimersStay, RunsStay, CallsStay
            DEF TickDelays, Others, Safe
  <1> QED BY <1>1, <1>2, <1>3, DispatchSafe DEF TickStep

---------------------------------------------------------------------------
\* The runs.

\* A step that takes one run's state from one value to another.
LEMMA RunMoves ==
  ASSUME RunsOK, NEW r \in Run, NEW next \in RunState,
         run[r] # "off", run' = [run EXCEPT ![r] = next],
         UNCHANGED <<taskOf, activeRuns>>,
         next \in {"marking", "submitting", "streaming"} <=> r \in activeRuns,
         next = "updating" => seen'[r] # None,
         \A q \in Run \ {r} : seen'[q] = seen[q]
  PROVE  RunsOK'
  <1>1. \A q \in Run : RunAgrees(q)'
    BY DEF RunsOK, RunAgrees
  <1>2. run' \in [Run -> RunState]
    BY DEF RunsOK
  <1> QED BY <1>1, <1>2 DEF RunsOK, ConcurrencyLimit

LEMMA RunOverSafe ==
  ASSUME Safe, NEW r \in Run, run[r] \in {"submitting", "streaming"}, RunOver(r)
  PROVE  Safe'
  <1>1. IsFiniteSet(activeRuns)
    <2>1. activeRuns \in SUBSET Run /\ IsFiniteSet(Run)
      BY CronAssumption DEF Safe, RunsOK
    <2> QED BY <2>1, FS_Subset
  <1>2. ConcurrencyLimit'
    <2>1. activeRuns' \in SUBSET activeRuns
      BY DEF RunOver
    <2>2. Cardinality(activeRuns') <= Cardinality(activeRuns)
      BY <1>1, <2>1, FS_Subset
    <2>3. Cardinality(activeRuns) \in Nat /\ Cardinality(activeRuns') \in Nat
      BY <1>1, <2>1, FS_Subset, FS_CardinalityType
    <2>4. MaxConcurrentRuns \in Nat
      BY CronAssumption
    <2> QED BY <2>2, <2>3, <2>4 DEF Safe, RunsOK, ConcurrencyLimit
  <1>3. \A q \in Run : RunAgrees(q)'
    BY DEF Safe, RunsOK, RunAgrees, RunOver, storeVars
  <1>4. RunsOK'
    BY <1>2, <1>3 DEF Safe, RunsOK, RunOver, RunState
  <1> QED BY <1>4, StoreStays, TimersStay, TicksStay, CallsStay
          DEF RunOver, Safe, storeVars

LEMMA RunSafe ==
  ASSUME Safe, NEW r \in Run, RunStep(r)
  PROVE  Safe'
  <1> USE WriterKinds
  <1>1. CASE RunReads(r)
    <2>1. StoreTypeOK' /\ Others(r) /\ seen'[r] # None
      BY <1>1, ReadsStore DEF RunReads, Safe
    <2> QED BY <1>1, <2>1, TimersStay, TicksStay, RunsStay, CallsStay
            DEF RunReads, Others, Safe
  <1>2. CASE RunMarks(r)
    <2>1. taskOf[r] \in Task
      BY <1>2 DEF RunMarks, Safe, RunsOK, RunAgrees
    <2>2. StoreTypeOK' /\ Others(r)
      BY <1>2, <2>1, ChangesStore DEF RunMarks, Safe, Entry
    <2>3. RunsOK'
      BY <1>2, <2>2, RunMoves
      DEF RunMarks, Safe, RunsOK, RunAgrees, RunState, Others
    <2> QED BY <1>2, <2>2, <2>3, TimersStay, TicksStay, CallsStay
            DEF RunMarks, Others, Safe
  <1>3. CASE RunSubmits(r)
    <2>1. RunsOK'
      BY <1>3, RunMoves DEF RunSubmits, Safe, RunsOK, RunAgrees, RunState, storeVars
    <2> QED BY <1>3, <2>1, StoreStays, TimersStay, TicksStay, CallsStay
            DEF RunSubmits, Safe, storeVars
  <1>4. CASE RunIsBusy(r) \/ TurnEnds(r)
    BY <1>4, RunOverSafe DEF RunIsBusy, TurnEnds
  <1>5. CASE RunRecords(r)
    <2>1. StoreTypeOK' /\ Others(r) /\ seen'[r] # None
      BY <1>5, ReadsStore DEF RunRecords, Safe
    <2>2. RunsOK'
      BY <1>5, <2>1, RunMoves
      DEF RunRecords, Safe, RunsOK, RunAgrees, RunState, Others
    <2> QED BY <1>5, <2>1, <2>2, TimersStay, TicksStay, CallsStay
            DEF RunRecords, Others, Safe
  <1>6. CASE RunUpdates(r)
    <2>1. taskOf[r] \in Task /\ seen[r] # None /\ r \notin activeRuns
      BY <1>6 DEF RunUpdates, Safe, RunsOK, RunAgrees
    <2>2. StoreTypeOK' /\ Others(r)
      BY <1>6, <2>1, ChangesStore DEF RunUpdates, Safe, Entry
    <2>3. \A q \in Run : RunAgrees(q)'
      BY <1>6, <2>1, <2>2 DEF RunUpdates, Safe, RunsOK, RunAgrees, Others
    <2>4. RunsOK'
      BY <1>6, <2>1, <2>3 DEF RunUpdates, Safe, RunsOK, RunState, ConcurrencyLimit
    <2> QED BY <1>6, <2>2, <2>4, TimersStay, TicksStay, CallsStay
            DEF RunUpdates, Others, Safe
  <1> QED BY <1>1, <1>2, <1>3, <1>4, <1>5, <1>6 DEF RunStep

---------------------------------------------------------------------------
\* The calls.

\* A step that takes one call on, and whatever it remembers of runs.
LEMMA CallMoves ==
  ASSUME CallsOK, NEW c \in Call, NEW next \in CallState, CallStep(c, next),
         stopped' \in [Call -> Run \cup {None}], waitsFor' \in [Call -> Run \cup {None}],
         deleted' \subseteq Call,
         next \in {"writing", "stopWriting"} => seen'[c] # None,
         \A d \in Call \ {c} : seen'[d] = seen[d]
  PROVE  CallsOK'
  <1>1. \A d \in Call : CallAgrees(d)'
    BY DEF CallsOK, CallAgrees, CallStep
  <1> QED BY <1>1 DEF CallsOK, CallStep

LEMMA CallStartsSafe ==
  ASSUME Safe, NEW c \in Call, CreateOrDelete(c) \/ StopTask(c) \/ RunTaskNow(c)
  PROVE  Safe'
  <1>1. UNCHANGED <<storeVars, timerVars, tickVars, runVars, crashes>>
    BY DEF CreateOrDelete, StopTask, RunTaskNow
  <1>2. UNCHANGED seen
    BY <1>1 DEF storeVars
  <1>3. \E next \in {"reading", "aborting", "done"} : CallStep(c, next)
    BY DEF CreateOrDelete, StopTask, RunTaskNow
  <1>4. /\ stopped' \in [Call -> Run \cup {None}] /\ waitsFor' \in [Call -> Run \cup {None}]
        /\ deleted' \subseteq Call
    <2>1. CASE StopTask(c)
      BY <2>1 DEF StopTask, Safe, RunsOK, CallsOK, Streaming
    <2>2. CASE CreateOrDelete(c) \/ RunTaskNow(c)
      BY <2>2 DEF CreateOrDelete, RunTaskNow, Safe, CallsOK
    <2> QED BY <2>1, <2>2
  <1>5. CallsOK'
    <2>1. PICK next \in {"reading", "aborting", "done"} : CallStep(c, next)
      BY <1>3
    <2>2. next \in CallState /\ next \notin {"writing", "stopWriting"}
      BY DEF CallState
    <2> QED BY <1>2, <1>4, <2>1, <2>2, CallMoves DEF Safe
  <1> QED BY <1>1, <1>2, <1>5, StoreStays, TimersStay, TicksStay, RunsStay DEF Safe

LEMMA CallSafe ==
  ASSUME Safe, NEW c \in Call, CallGoesOn(c)
  PROVE  Safe'
  <1> USE WriterKinds
  <1>0. About[c] \in Task
    BY CronAssumption
  <1>1. CASE StopAborted(c)
    <2>1. TimersOK'
      BY <1>1, TimersStay, PokeTimers DEF StopAborted, Safe
    <2>2. PICK next \in {"stopReading", "done", "reading"} : CallStep(c, next)
      BY <1>1 DEF StopAborted, AfterStop
    <2>3. next \in CallState /\ next \notin {"writing", "stopWriting"}
      BY DEF CallState
    <2>4. CallsOK'
      BY <1>1, <2>2, <2>3, CallMoves DEF StopAborted, Safe, CallsOK, storeVars
    <2> QED BY <1>1, <2>1, <2>4, StoreStays, TicksStay, RunsStay
            DEF StopAborted, Safe, storeVars
  <1>2. CASE CallReads(c)
    <2>1. StoreTypeOK' /\ Others(c) /\ seen'[c] # None
      BY <1>2, ReadsStore DEF CallReads, Safe
    <2>2. CallsOK'
      <3>1. PICK next \in {"writing", "stopWriting"} : CallStep(c, next)
        BY <1>2 DEF CallReads
      <3> QED BY <1>2, <2>1, <3>1, CallMoves DEF CallReads, Safe, CallsOK, CallState, Others
    <2> QED BY <1>2, <2>1, <2>2, TimersStay, TicksStay, RunsStay
            DEF CallReads, Others, Safe
  <1>3. CASE StopDeletes(c)
    <2>1. StoreTypeOK' /\ Others(c)
      BY <1>0, <1>3, ChangesStore DEF StopDeletes, Safe, CallsOK, CallAgrees, Entry
    <2>2. CallsOK'
      <3>1. PICK next \in {"done", "reading"} : CallStep(c, next)
        BY <1>3 DEF StopDeletes, AfterStop
      <3> QED BY <1>3, <2>1, <3>1, CallMoves DEF StopDeletes, Safe, CallsOK, CallState, Others
    <2> QED BY <1>3, <2>1, <2>2, PokeTimers, TicksStay, RunsStay
            DEF StopDeletes, Others, Safe
  <1>4. CASE CreateWrites(c)
    <2>1. seen[c] # None /\ (Op[c] # "create" => CopyOf[c] \in Task)
      BY <1>4, CronAssumption DEF CreateWrites, Safe, CallsOK, CallAgrees
    <2>2. StoreTypeOK' /\ Others(c)
      BY <1>0, <1>4, <2>1, ChangesStore DEF CreateWrites, Safe, Entry
    <2>3. CallsOK'
      BY <1>4, <2>2, CallMoves DEF CreateWrites, Safe, CallsOK, CallState, Others
    <2> QED BY <1>4, <2>2, <2>3, PokeTimers, TicksStay, RunsStay
            DEF CreateWrites, Others, Safe
  <1>5. CASE DeleteWrites(c)
    <2>1. StoreTypeOK' /\ Others(c)
      BY <1>0, <1>5, ChangesStore DEF DeleteWrites, Safe, CallsOK, CallAgrees, Entry
    <2>2. deleted' \subseteq Call
      BY <1>5 DEF DeleteWrites, Safe, CallsOK
    <2>3. CallsOK'
      BY <1>5, <2>1, <2>2, CallMoves DEF DeleteWrites, Safe, CallsOK, CallState, Others
    <2> QED BY <1>5, <2>1, <2>3, PokeTimers, TicksStay, RunsStay
            DEF DeleteWrites, Others, Safe
  <1> QED BY <1>1, <1>2, <1>3, <1>4, <1>5 DEF CallGoesOn

---------------------------------------------------------------------------

LEMMA InitSafe == Init => Safe
  <1> SUFFICES ASSUME Init PROVE Safe
    OBVIOUS
  <1>1. StoreTypeOK
    BY CronAssumption DEF Init, NobodyWrites, StoreTypeOK
  <1>2. TimersOK
    <2>1. 0 \in 0..MaxTimers
      BY CronAssumption
    <2> QED BY <2>1 DEF Init, TimersOK, SchedulerState
  <1>3. TicksOK
    BY DEF Init, TicksOK, TickState
  <1>4. RunsOK
    BY CronAssumption, FS_EmptySet DEF Init, RunsOK, RunState, RunAgrees, ConcurrencyLimit
  <1>5. CallsOK
    BY DEF Init, CallsOK, CallState, CallAgrees
  <1>6. crashes \in 0..MaxCrashes
    BY CronAssumption DEF Init
  <1> QED BY <1>1, <1>2, <1>3, <1>4, <1>5, <1>6 DEF Safe

LEMMA StepSafe == Safe /\ [Next]_vars => Safe'
  <1> SUFFICES ASSUME Safe, [Next]_vars PROVE Safe'
    OBVIOUS
  <1>1. CASE UNCHANGED vars
    BY <1>1, StutterSafe
  <1>2. CASE SchedulerStep \/ Stop
    BY <1>2, SchedulerSafe
  <1>3. CASE Crash
    BY <1>3, CrashSafe
  <1>4. CASE \E t \in Task : StartReads(t) \/ StartResets(t) \/ TimePasses(t)
    BY <1>4, ResetSafe
  <1>5. CASE \E k \in Tick : TimerFires(k) \/ TickStep(k)
    BY <1>5, TimerFiresSafe, TickSafe
  <1>6. CASE \E r \in Run : RunStep(r)
    BY <1>6, RunSafe
  <1>7. CASE \E c \in Call : CreateOrDelete(c) \/ StopTask(c) \/ RunTaskNow(c) \/ CallGoesOn(c)
    BY <1>7, CallStartsSafe, CallSafe
  <1> QED BY <1>1, <1>2, <1>3, <1>4, <1>5, <1>6, <1>7 DEF Next

LEMMA SafeAlways == Spec => []Safe
  BY InitSafe, StepSafe, PTL DEF Spec

\* The types of CronRuntime, for every value of the constants.
THEOREM TypeCorrect == Spec => []TypeOK
  BY SafeAlways, SafeParts, PTL

\* activeRuns, the runs' own progress and what is remembered of the file and of the
\* timers agree: the invariant the limit rests on.
THEOREM BooksKept == Spec => []BooksAgree
  BY SafeAlways, SafeParts, PTL

\* However many ticks overlap, whatever calls do and wherever the process dies, no
\* more than maxConcurrentRuns runs are active.
THEOREM LimitKept == Spec => []ConcurrencyLimit
  BY SafeAlways, SafeParts, PTL

---------------------------------------------------------------------------
\* No task is stuck, for a file that holds one task. (With two, the write of one may
\* put the other back as its writer had read it: a run that is over leaves "running"
\* behind.)

Alone == \A t, u \in Task : t = u

\* r will rewrite the entry of t that it has marked, whoever writes the file meanwhile:
\* unless it has read that the task is gone.
Carries(r, t) ==
  /\ taskOf[r] = t
  /\ \/ run[r] \in {"submitting", "streaming", "ended"}
     \/ run[r] = "updating" /\ seen[r][t] # "absent"

\* From the moment the scheduler has listed what a crash has left running, the file
\* calls a task running only while it is on that list or a run carries it.
Carried(t) ==
  \/ scheduler = "resetting" /\ t \in resetting
  \/ \E r \in Run : Carries(r, t)

CarriedInv ==
  scheduler \notin {"off", "starting"} => \A t \in Task : file[t] = "running" => Carried(t)

LEMMA CarriedEnough == Safe /\ CarriedInv => NoTaskStuck
  BY DEF CarriedInv, Carried, Carries, NoTaskStuck, RunsOf

\* The file of one task after a write by anybody but RunMarks: the task is not running,
\* or nothing was written because the writer had read that it is gone.
LEMMA LoneWrite ==
  ASSUME Alone, StoreTypeOK, NEW w \in Writer, seen[w] # None, NEW t \in Task,
         NEW e \in {"later", "due"},
         Put(w, t, e) \/ UpdateTask(w, t, e) \/ Delete(w, t)
  PROVE  \/ \A u \in Task : file'[u] # "running"
         \/ seen[w][t] = "absent" /\ UNCHANGED file
  <1>1. seen[w] \in Content /\ \A u \in Task : u = t
    BY DEF Alone, StoreTypeOK
  <1>2. CASE Put(w, t, e)
    BY <1>1, <1>2 DEF Put, Writes, Content
  <1>3. CASE UpdateTask(w, t, e)
    BY <1>1, <1>3 DEF UpdateTask, Writes, Content
  <1>4. CASE Delete(w, t)
    BY <1>1, <1>4 DEF Delete, Writes, Content
  <1> QED BY <1>2, <1>3, <1>4

\* The runs go on carrying what they carry when no run moves and nothing that a run has
\* read changes.
LEMMA CarriersStay ==
  ASSUME UNCHANGED runVars, \A r \in Run : seen'[r] = seen[r]
  PROVE  \A r \in Run, t \in Task : Carries(r, t) => Carries(r, t)'
  BY DEF Carries, runVars

LEMMA NoneRunning ==
  ASSUME \A t \in Task : file'[t] # "running"
  PROVE  CarriedInv'
  BY DEF CarriedInv

LEMMA StillCarried ==
  ASSUME CarriedInv, UNCHANGED <<scheduler, resetting>>,
         \A t \in Task : file'[t] = "running" => file[t] = "running",
         \A r \in Run, t \in Task : Carries(r, t) => Carries(r, t)'
  PROVE  CarriedInv'
  BY DEF CarriedInv, Carried

\* The same when somebody who is not a run writes.
LEMMA OutsiderWrites ==
  ASSUME Alone, Safe, CarriedInv, UNCHANGED runVars, UNCHANGED <<scheduler, resetting>>,
         NEW w \in Writer \ Run, seen[w] # None, NEW t \in Task, NEW e \in {"later", "due"},
         Put(w, t, e) \/ UpdateTask(w, t, e) \/ Delete(w, t)
  PROVE  CarriedInv'
  <1>1. CASE \A u \in Task : file'[u] # "running"
    BY <1>1, NoneRunning
  <1>2. CASE UNCHANGED file
    <2>1. Others(w)
      BY ChangesStore DEF Safe, Entry
    <2>2. \A r \in Run, u \in Task : Carries(r, u) => Carries(r, u)'
      BY <2>1, WriterKinds, CarriersStay DEF Others
    <2> QED BY <1>2, <2>2, StillCarried
  <1> QED BY <1>1, <1>2, LoneWrite DEF Safe

LEMMA OutsiderReads ==
  ASSUME Safe, CarriedInv, UNCHANGED runVars, UNCHANGED <<scheduler, resetting>>,
         NEW w \in Writer \ Run, Reads(w)
  PROVE  CarriedInv'
  <1>1. Others(w) /\ UNCHANGED file
    BY ReadsStore DEF Safe, Reads
  <1>2. \A r \in Run, u \in Task : Carries(r, u) => Carries(r, u)'
    BY <1>1, WriterKinds, CarriersStay DEF Others
  <1> QED BY <1>1, <1>2, StillCarried

---------------------------------------------------------------------------

LEMMA SchedulerCarried ==
  ASSUME Safe, CarriedInv, SchedulerStep \/ Stop \/ Crash
  PROVE  CarriedInv'
  <1>1. CASE Start \/ Crash
    BY <1>1 DEF Start, Crash, CarriedInv
  <1>2. CASE StartLists
    BY <1>2 DEF StartLists, Interrupted, CarriedInv, Carried, storeVars
  <1>3. CASE StartDone \/ Stop \/ StopDone
    <2>1. UNCHANGED <<file, seen>> /\ UNCHANGED runVars
      BY <1>3 DEF StartDone, Stop, StopDone, storeVars
    <2>2. \A r \in Run, t \in Task : Carries(r, t) => Carries(r, t)'
      BY <2>1, CarriersStay
    <2>3. scheduler \notin {"off", "starting"} /\ ~(scheduler = "resetting" /\ resetting # {})
      BY <1>3 DEF StartDone, Stop, StopDone
    <2> QED BY <2>1, <2>2, <2>3 DEF CarriedInv, Carried
  <1> QED BY <1>1, <1>2, <1>3 DEF SchedulerStep

LEMMA ResetCarried ==
  ASSUME Alone, Safe, CarriedInv, NEW t \in Task,
         StartReads(t) \/ StartResets(t) \/ TimePasses(t)
  PROVE  CarriedInv'
  <1>0. t \in Writer \ Run
    BY WriterKinds
  <1>1. CASE StartReads(t)
    BY <1>0, <1>1, OutsiderReads DEF StartReads, timerVars
  <1>2. CASE StartResets(t)
    <2>1. seen[t] \in Content /\ \A u \in Task : u = t
      BY <1>0, <1>2 DEF StartResets, Alone, Safe, StoreTypeOK
    <2>2. \A u \in Task : file'[u] # "running"
      BY <1>2, <2>1 DEF StartResets, Put, Writes, Content
    <2> QED BY <2>2, NoneRunning
  <1>3. CASE TimePasses(t)
    <2>1. \A r \in Run, u \in Task : Carries(r, u) => Carries(r, u)'
      BY <1>3, CarriersStay DEF TimePasses
    <2>2. \A u \in Task : file'[u] = "running" => file[u] = "running"
      BY <1>3 DEF TimePasses, Safe, StoreTypeOK, Content
    <2> QED BY <1>3, <2>1, <2>2, StillCarried DEF TimePasses, timerVars
  <1> QED BY <1>1, <1>2, <1>3

LEMMA TickCarried ==
  ASSUME Alone, Safe, CarriedInv, NEW k \in Tick, TimerFires(k) \/ TickStep(k)
  PROVE  CarriedInv'
  <1>0. k \in Writer \ Run
    BY WriterKinds
  <1>1. CASE TimerFires(k) \/ TickLists(k)
    <2>1. UNCHANGED <<file, seen, scheduler, resetting>> /\ UNCHANGED runVars
      BY <1>1 DEF TimerFires, TickLists, storeVars, timerVars
    <2>2. \A r \in Run, u \in Task : Carries(r, u) => Carries(r, u)'
      BY <2>1, CarriersStay
    <2> QED BY <2>1, <2>2, StillCarried
  <1>2. CASE Dispatch(k)
    <2>1. PICK starting \in SUBSET FreeRun :
            \E job \in [starting -> due[k]] : Fires(k, starting, job)
      BY <1>2 DEF Dispatch
    <2>2. PICK job \in [starting -> due[k]] : Fires(k, starting, job)
      BY <2>1
    <2>3. UNCHANGED <<file, seen, scheduler, resetting>>
      BY <1>2, <2>2 DEF Dispatch, Fires, TickOver, storeVars, timerVars
    <2>4. \A r \in Run : run[r] # "off" => run'[r] = run[r] /\ taskOf'[r] = taskOf[r]
      BY <2>1, <2>2 DEF Fires, FreeRun
    <2>5. \A r \in Run, u \in Task : Carries(r, u) => Carries(r, u)'
      BY <2>3, <2>4 DEF Carries
    <2> QED BY <2>3, <2>5, StillCarried
  <1>3. CASE TickReads(k)
    BY <1>0, <1>3, OutsiderReads DEF TickReads, timerVars
  <1>4. CASE TickDelays(k)
    <2>1. PICK t \in due[k] : Put(k, t, "later")
      BY <1>4 DEF TickDelays
    <2>2. t \in Task
      BY DEF Safe, TicksOK
    <2> QED BY <1>0, <1>4, <2>1, <2>2, OutsiderWrites DEF TickDelays, timerVars
  <1> QED BY <1>1, <1>2, <1>3, <1>4 DEF TickStep

LEMMA RunCarried ==
  ASSUME Alone, Safe, CarriedInv, NEW r \in Run, RunStep(r)
  PROVE  CarriedInv'
  <1>0. r \in Writer /\ run[r] \in RunState /\ UNCHANGED <<scheduler, resetting>>
    BY WriterKinds
    DEF RunStep, RunReads, RunMarks, RunSubmits, RunIsBusy, TurnEnds, RunOver, RunRecords,
        RunUpdates, timerVars, Safe, RunsOK
  <1>1. CASE RunReads(r)
    <2>1. Others(r) /\ UNCHANGED file /\ UNCHANGED runVars
      BY <1>0, <1>1, ReadsStore DEF RunReads, Safe, Reads
    <2>2. \A q \in Run, t \in Task : Carries(q, t) => Carries(q, t)'
      BY <1>1, <2>1, WriterKinds DEF Others, Carries, runVars, RunReads
    <2> QED BY <1>0, <2>1, <2>2, StillCarried
  <1>2. CASE RunMarks(r)
    <2>1. taskOf[r] \in Task
      BY <1>2 DEF RunMarks, Safe, RunsOK, RunAgrees
    <2>2. \A t \in Task : t = taskOf[r]
      BY <2>1 DEF Alone
    <2>3. \A t \in Task : Carries(r, t)'
      BY <1>2, <2>2 DEF RunMarks, Carries, Safe, RunsOK
    <2> QED BY <2>3 DEF CarriedInv, Carried
  <1>3. CASE RunSubmits(r) \/ RunIsBusy(r) \/ TurnEnds(r)
    <2>1. UNCHANGED <<file, seen, taskOf>>
      BY <1>3 DEF RunSubmits, RunIsBusy, TurnEnds, RunOver, storeVars
    <2>2. /\ run[r] \in {"submitting", "streaming"}
          /\ \E next \in {"streaming", "ended"} : run' = [run EXCEPT ![r] = next]
      BY <1>3 DEF RunSubmits, RunIsBusy, TurnEnds, RunOver
    <2>3. \A q \in Run, t \in Task : Carries(q, t) => Carries(q, t)'
      BY <2>1, <2>2 DEF Carries, Safe, RunsOK
    <2> QED BY <1>0, <2>1, <2>3, StillCarried
  <1>4. CASE RunRecords(r)
    <2>1. Others(r) /\ UNCHANGED file /\ seen'[r] = file
      BY <1>0, <1>4, ReadsStore DEF RunRecords, Safe, Reads, StoreTypeOK
    <2>2. \A q \in Run, t \in Task :
            file[t] = "running" /\ Carries(q, t) => Carries(q, t)'
      BY <1>4, <2>1, WriterKinds DEF RunRecords, Others, Carries, Safe, RunsOK
    <2> QED BY <1>0, <2>1, <2>2 DEF CarriedInv, Carried
  <1>5. CASE RunUpdates(r)
    <2>1. taskOf[r] \in Task /\ seen[r] # None
      BY <1>5 DEF RunUpdates, Safe, RunsOK, RunAgrees
    <2>2. UpdateTask(r, taskOf[r], "later") \/ Delete(r, taskOf[r])
      BY <1>5 DEF RunUpdates
    <2>3. CASE \A t \in Task : file'[t] # "running"
      BY <2>3, NoneRunning
    <2>4. CASE seen[r][taskOf[r]] = "absent" /\ UNCHANGED file
      <3>1. Others(r)
        BY <1>0, <2>1, <2>2, ChangesStore DEF Safe, Entry
      <3>2. \A t \in Task : ~Carries(r, t)
        BY <1>5, <2>4 DEF RunUpdates, Carries
      <3>3. \A q \in Run \ {r}, t \in Task : Carries(q, t) => Carries(q, t)'
        BY <1>5, <3>1, WriterKinds DEF RunUpdates, Others, Carries, Safe, RunsOK
      <3> QED BY <1>0, <2>4, <3>2, <3>3, StillCarried
    <2> QED BY <1>0, <2>1, <2>2, <2>3, <2>4, LoneWrite DEF Safe
  <1> QED BY <1>1, <1>2, <1>3, <1>4, <1>5 DEF RunStep

LEMMA CallCarried ==
  ASSUME Alone, Safe, CarriedInv, NEW c \in Call,
         CreateOrDelete(c) \/ StopTask(c) \/ RunTaskNow(c) \/ CallGoesOn(c)
  PROVE  CarriedInv'
  <1>0. /\ c \in Writer \ Run /\ About[c] \in Task
        /\ UNCHANGED <<scheduler, resetting>> /\ UNCHANGED runVars
    BY WriterKinds, CronAssumption
    DEF CreateOrDelete, StopTask, RunTaskNow, CallGoesOn, StopAborted, CallReads,
        StopDeletes, CreateWrites, DeleteWrites, Poke, timerVars
  <1>1. CASE CreateOrDelete(c) \/ StopTask(c) \/ RunTaskNow(c) \/ StopAborted(c)
    <2>1. UNCHANGED <<file, seen>>
      BY <1>1 DEF CreateOrDelete, StopTask, RunTaskNow, StopAborted, storeVars
    <2>2. \A r \in Run, u \in Task : Carries(r, u) => Carries(r, u)'
      BY <1>0, <2>1, CarriersStay
    <2> QED BY <1>0, <2>1, <2>2, StillCarried
  <1>2. CASE CallReads(c)
    BY <1>0, <1>2, OutsiderReads DEF CallReads
  <1>3. CASE StopDeletes(c) \/ DeleteWrites(c)
    <2>1. seen[c] # None /\ Delete(c, About[c])
      BY <1>3 DEF StopDeletes, DeleteWrites, Safe, CallsOK, CallAgrees
    <2> QED BY <1>0, <2>1, OutsiderWrites
  <1>4. CASE CreateWrites(c)
    <2>1. seen[c] # None /\ (Op[c] = "runNow" => CopyOf[c] \in Task)
      BY <1>4, CronAssumption DEF CreateWrites, Safe, CallsOK, CallAgrees
    <2>2. \E t \in Task, e \in {"later", "due"} : Put(c, t, e)
      BY <1>0, <1>4, <2>1 DEF CreateWrites
    <2> QED BY <1>0, <2>1, <2>2, OutsiderWrites
  <1> QED BY <1>1, <1>2, <1>3, <1>4 DEF CallGoesOn

\* While the scheduler is on, a task that the file calls running is being run, whatever
\* ticks, calls and crashes come between the run's readings and its writes: for a file
\* that holds one task (CronScheduler.recalculateAllNextRuns, CronFire.runTask).
THEOREM AloneNeverStuck ==
  ASSUME \A t, u \in Task : t = u
  PROVE  Spec => []NoTaskStuck
  <1>0. Alone
    BY DEF Alone
  <1>1. Init => CarriedInv
    BY DEF Init, CarriedInv
  <1>2. Safe /\ CarriedInv /\ [Next]_vars => CarriedInv'
    <2> SUFFICES ASSUME Safe, CarriedInv, [Next]_vars PROVE CarriedInv'
      OBVIOUS
    <2>1. CASE UNCHANGED vars
      <3>1. UNCHANGED <<file, seen, scheduler, resetting>> /\ UNCHANGED runVars
        BY <2>1 DEF vars, storeVars, timerVars
      <3>2. \A r \in Run, u \in Task : Carries(r, u) => Carries(r, u)'
        BY <3>1, CarriersStay
      <3> QED BY <3>1, <3>2, StillCarried
    <2>2. CASE SchedulerStep \/ Stop \/ Crash
      BY <2>2, SchedulerCarried
    <2>3. CASE \E t \in Task : StartReads(t) \/ StartResets(t) \/ TimePasses(t)
      BY <1>0, <2>3, ResetCarried
    <2>4. CASE \E k \in Tick : TimerFires(k) \/ TickStep(k)
      BY <1>0, <2>4, TickCarried
    <2>5. CASE \E r \in Run : RunStep(r)
      BY <1>0, <2>5, RunCarried
    <2>6. CASE \E c \in Call : CreateOrDelete(c) \/ StopTask(c) \/ RunTaskNow(c) \/ CallGoesOn(c)
      BY <1>0, <2>6, CallCarried
    <2> QED BY <2>1, <2>2, <2>3, <2>4, <2>5, <2>6 DEF Next
  <1> QED BY <1>1, <1>2, SafeAlways, CarriedEnough, PTL DEF Spec

---------------------------------------------------------------------------
\* stop() is complete when nobody calls. (poke arms a timer while a tick is in progress,
\* the tick's end arms another, and stop() clears only the one that is remembered.)

\* At most one timer is armed, and it is remembered; a tick in progress is alone,
\* remembered as tickInProgress, and comes when no timer is armed.
OneTimer ==
  /\ armed = IF timer THEN 1 ELSE 0
  /\ \A k \in Tick : tick[k] # "idle" => tickInProgress = k /\ ~timer

\* What the scheduler's state says of them.
TimersStop ==
  /\ scheduler \in {"off", "starting", "resetting", "stopping", "stopped"} => ~timer
  /\ scheduler \in {"off", "starting", "resetting", "stopped"} =>
       \A k \in Tick : tick[k] = "idle"
  /\ scheduler = "stopping" => \A k \in Tick : tick[k] # "idle" => stopAwaits = k

TimerInv == OneTimer /\ TimersStop

LEMMA TimerInvStays ==
  ASSUME TimerInv, UNCHANGED timerVars, NEW k \in Tick, NEW next \in TickState,
         tick \in [Tick -> TickState], tick[k] # "idle", tick' = [tick EXCEPT ![k] = next]
  PROVE  TimerInv'
  BY DEF TimerInv, OneTimer, TimersStop, timerVars

\* The end of a tick, which leaves no tick in progress and, while the scheduler runs,
\* one timer.
LEMMA TickOverTimers ==
  ASSUME TimerInv, Safe, NEW k \in Tick, tick[k] # "idle", TickOver(k)
  PROVE  TimerInv'
  <1>1. \A q \in Tick : tick'[q] = "idle"
    BY DEF TimerInv, OneTimer, TickOver, Safe, TicksOK
  <1>2. ~timer /\ armed = 0
    BY DEF TimerInv, OneTimer
  <1>3. CASE Running
    <2>1. armed' = 1 /\ timer' = TRUE
      BY <1>2, <1>3, CronAssumption DEF TickOver, Arm
    <2>2. scheduler' = "on"
      BY <1>3 DEF TickOver, Running, TimerInv, TimersStop
    <2> QED BY <1>1, <2>1, <2>2 DEF TimerInv, OneTimer, TimersStop
  <1>4. CASE ~Running
    <2>1. UNCHANGED <<armed, timer, scheduler>>
      BY <1>4 DEF TickOver
    <2> QED BY <1>1, <1>2, <2>1 DEF TimerInv, OneTimer, TimersStop
  <1> QED BY <1>3, <1>4

LEMMA SchedulerTimers ==
  ASSUME TimerInv, Safe, SchedulerStep \/ Stop \/ Crash
  PROVE  TimerInv'
  <1> USE DEF TimerInv, OneTimer, TimersStop
  <1>1. CASE Start \/ StartLists
    BY <1>1 DEF Start, StartLists, tickVars
  <1>2. CASE StartDone
    <2>1. armed = 0 /\ armed' = 1 /\ timer' = TRUE
      BY <1>2, CronAssumption DEF StartDone, Arm
    <2> QED BY <1>2, <2>1 DEF StartDone, tickVars
  <1>3. CASE Stop
    <2>1. armed' = 0 /\ ~timer'
      BY <1>3 DEF Stop, ArmedAfterClear
    <2> QED BY <1>3, <2>1 DEF Stop, AwaitedByStop, tickVars
  <1>4. CASE StopDone
    <2>1. \A k \in Tick : tick[k] = "idle"
      BY <1>4, CronAssumption DEF StopDone
    <2> QED BY <1>4, <2>1 DEF StopDone, tickVars
  <1>5. CASE Crash
    BY <1>5 DEF Crash
  <1> QED BY <1>1, <1>2, <1>3, <1>4, <1>5 DEF SchedulerStep

LEMMA TickTimers ==
  ASSUME TimerInv, Safe, NEW k \in Tick, TimerFires(k) \/ TickStep(k)
  PROVE  TimerInv'
  <1>0. tick \in [Tick -> TickState]
    BY DEF Safe, TicksOK
  <1>1. CASE TimerFires(k)
    <2>1. timer /\ armed = 1
      BY <1>1 DEF TimerFires, TimerInv, OneTimer
    <2>2. scheduler = "on"
      BY <2>1 DEF TimerInv, TimersStop, Safe, TimersOK, SchedulerState
    <2>3. \A q \in Tick \ {k} : tick'[q] = "idle"
      BY <1>0, <1>1, <2>1 DEF TimerFires, TimerInv, OneTimer
    <2> QED BY <1>1, <2>1, <2>2, <2>3 DEF TimerFires, TimerInv, OneTimer, TimersStop
  <1>2. CASE TickLists(k)
    BY <1>0, <1>2, TimerInvStays DEF TickLists, TickState
  <1>3. CASE TickReads(k)
    BY <1>3 DEF TickReads, TimerInv, OneTimer, TimersStop, timerVars, tickVars
  <1>4. CASE TickDelays(k)
    BY <1>0, <1>4, TimerInvStays DEF TickDelays, TickState
  <1>5. CASE Dispatch(k)
    <2>1. \/ TickOver(k)
          \/ tick' = [tick EXCEPT ![k] = "delaying"] /\ UNCHANGED timerVars
      BY <1>5 DEF Dispatch, Fires
    <2> QED BY <1>0, <1>5, <2>1, TickOverTimers, TimerInvStays DEF Dispatch, TickState
  <1> QED BY <1>1, <1>2, <1>3, <1>4, <1>5 DEF TickStep

\* When stop() has returned no tick is in progress and no timer armed, so no run begins:
\* for a scheduler that nobody pokes (CronScheduler.stop).
THEOREM StopIsComplete ==
  ASSUME Call = {}
  PROVE  Spec => NothingFiresAfterStop
  <1>1. Init => TimerInv
    BY DEF Init, TimerInv, OneTimer, TimersStop
  <1>2. Safe /\ TimerInv /\ [Next]_vars => TimerInv'
    <2> SUFFICES ASSUME Safe, TimerInv, [Next]_vars PROVE TimerInv'
      OBVIOUS
    <2>1. CASE SchedulerStep \/ Stop \/ Crash
      BY <2>1, SchedulerTimers
    <2>2. CASE \E k \in Tick : TimerFires(k) \/ TickStep(k)
      BY <2>2, TickTimers
    <2>3. CASE UNCHANGED <<armed, timer, scheduler, tickInProgress, stopAwaits, tick>>
      BY <2>3 DEF TimerInv, OneTimer, TimersStop
    <2>4. CASE UNCHANGED vars
      BY <2>3, <2>4 DEF vars, timerVars, tickVars
    <2>5. CASE \E t \in Task : StartReads(t) \/ StartResets(t) \/ TimePasses(t)
      BY <2>3, <2>5 DEF StartReads, StartResets, TimePasses, timerVars, tickVars
    <2>6. CASE \E r \in Run : RunStep(r)
      BY <2>3, <2>6
      DEF RunStep, RunReads, RunMarks, RunSubmits, RunIsBusy, TurnEnds, RunOver,
          RunRecords, RunUpdates, timerVars, tickVars
    <2> QED BY <2>1, <2>2, <2>4, <2>5, <2>6 DEF Next
  <1>3. Safe /\ TimerInv /\ [Next]_vars =>
          [scheduler = "stopped" => \A r \in Run : taskOf[r] = None => taskOf'[r] = None]_vars
    <2> SUFFICES ASSUME Safe, TimerInv, Next, scheduler = "stopped"
                 PROVE  \A r \in Run : taskOf[r] = None => taskOf'[r] = None
      OBVIOUS
    <2>1. \A k \in Tick : tick[k] = "idle" /\ ~TickStep(k)
      BY DEF TimerInv, TimersStop, TickStep, TickLists, Dispatch, TickReads, TickDelays
    <2>2. CASE Crash
      BY <2>2 DEF Crash
    <2>3. CASE \E q \in Run : RunStep(q)
      BY <2>3
      DEF RunStep, RunReads, RunMarks, RunSubmits, RunIsBusy, TurnEnds, RunOver,
          RunRecords, RunUpdates, runVars, Safe, RunsOK
    <2>4. CASE UNCHANGED taskOf
      BY <2>4
    <2>5. CASE SchedulerStep \/ Stop
      BY <2>4, <2>5 DEF SchedulerStep, Start, StartLists, StartDone, StopDone, Stop, runVars
    <2>6. CASE \E t \in Task : StartReads(t) \/ StartResets(t) \/ TimePasses(t)
      BY <2>4, <2>6 DEF StartReads, StartResets, TimePasses, runVars
    <2>7. CASE \E k \in Tick : TimerFires(k)
      BY <2>4, <2>7 DEF TimerFires, runVars
    <2> QED BY <2>1, <2>2, <2>3, <2>5, <2>6, <2>7 DEF Next
  <1> QED BY <1>1, <1>2, <1>3, SafeAlways, PTL DEF Spec, NothingFiresAfterStop
=============================================================================
