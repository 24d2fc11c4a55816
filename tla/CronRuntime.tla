------------------------------ MODULE CronRuntime ------------------------------
(***************************************************************************)
(* The cron subsystem: CronScheduler's timer and ticks, CronFire's runs,   *)
(* CronRuntime's create, delete, stop and run-now calls, and the task file *)
(* they share (module CronTaskStore). An action runs from one await to the *)
(* next.                                                                   *)
(*                                                                         *)
(* Every task has a gateway session of its own ("cron:" and the task id),  *)
(* so a run's submitTurn is refused as busy exactly while another run of   *)
(* the same task streams, and abortTurn returns when the turn it found     *)
(* streaming has ended (module InProcessGateway).                          *)
(***************************************************************************)
EXTENDS CronTaskStore, Naturals, FiniteSets

CONSTANTS
  OnceTask,      \* tasks whose schedule is "once"; the others recur
  Initial,       \* what the file holds when the process first starts
  Run,           \* runs of tasks; an id is used again when its run is over
  Tick,          \* scheduler ticks in progress at a time
  Call,          \* calls from clients and tools
  Op,            \* what each does: "create", "delete", "deleteStopping", "stop", "runNow"
  About,         \* the task it names
  CopyOf,        \* the one-time task that a runNow call would create
  MaxConcurrentRuns,  \* the config's limit
  MaxTimers,     \* bound: armed timers that are told apart
  MaxCrashes     \* bound: crashes of the process

ASSUME CronAssumption ==
  /\ OnceTask \subseteq Task
  /\ Initial \in Content
  /\ Writer = Run \cup Tick \cup Call \cup Task
  /\ About \in [Call -> Task]
  /\ \A c \in Call : Op[c] = "runNow" => CopyOf[c] \in OnceTask
  /\ MaxConcurrentRuns \in Nat \ {0} /\ MaxTimers \in Nat \ {0} /\ MaxCrashes \in Nat
  /\ None \notin Run \cup Tick \cup Task
  /\ Run \cap (Tick \cup Call \cup Task) = {} /\ Tick \cap (Call \cup Task) = {}
  /\ Call \cap Task = {}
  /\ IsFiniteSet(Run)

VARIABLES
  scheduler,    \* off, starting, on, stopping or stopped
  resetting,    \* tasks that recalculateAllNextRuns still has to put back
  armed,        \* timers that will fire
  timer,        \* does this.timer hold one of them?
  tick,         \* where each tick stands
  due,          \* Tick -> due tasks it has not handled yet
  tickInProgress,  \* the tick that stop() would wait for
  stopAwaits,   \* the tick that stop() waits for
  run,          \* where each run stands
  taskOf,       \* the task it runs
  activeRuns,   \* CronRuntime.activeRuns
  call,         \* where each call stands
  stopped,      \* Call -> the run it has asked to stop
  waitsFor,     \* Call -> the run whose turn its abortTurn waits for
  deleted,      \* calls that have reported their task as deleted
  crashes

storeVars == <<file, seen>>
timerVars == <<scheduler, resetting, armed, timer, tickInProgress, stopAwaits>>
tickVars  == <<tick, due>>
runVars   == <<run, taskOf, activeRuns>>
callVars  == <<call, stopped, waitsFor, deleted>>
vars == <<storeVars, timerVars, tickVars, runVars, callVars, crashes>>

SchedulerState == {"off", "starting", "resetting", "on", "stopping", "stopped"}
TickState == {"idle", "listing", "dispatching", "delaying"}
RunState == {"off", "marking", "submitting", "streaming", "ended", "updating"}
CallState == {"idle", "aborting", "stopReading", "stopWriting", "reading", "writing", "done"}

TypeOK ==
  /\ StoreTypeOK
  /\ scheduler \in SchedulerState
  /\ resetting \subseteq Task
  /\ armed \in 0..MaxTimers
  /\ timer \in BOOLEAN
  /\ tick \in [Tick -> TickState]
  /\ due \in [Tick -> SUBSET Task]
  /\ tickInProgress \in Tick \cup {None} /\ stopAwaits \in Tick \cup {None}
  /\ run \in [Run -> RunState]
  /\ taskOf \in [Run -> Task \cup {None}]
  /\ activeRuns \subseteq {r \in Run : taskOf[r] # None}
  /\ call \in [Call -> CallState]
  /\ stopped \in [Call -> Run \cup {None}]
  /\ waitsFor \in [Call -> Run \cup {None}]
  /\ deleted \subseteq Call
  /\ crashes \in 0..MaxCrashes

\* Nobody is between its reading and its writing of the file.
NobodyWrites == [w \in Writer |-> None]

Init ==
  /\ file = Initial /\ seen = NobodyWrites
  /\ scheduler = "off" /\ resetting = {}
  /\ armed = 0 /\ timer = FALSE /\ tickInProgress = None /\ stopAwaits = None
  /\ tick = [k \in Tick |-> "idle"] /\ due = [k \in Tick |-> {}]
  /\ run = [r \in Run |-> "off"] /\ taskOf = [r \in Run |-> None]
  /\ activeRuns = {}
  /\ call = [c \in Call |-> "idle"]
  /\ stopped = [c \in Call |-> None] /\ waitsFor = [c \in Call |-> None]
  /\ deleted = {}
  /\ crashes = 0

---------------------------------------------------------------------------
\* Timers. this.timer remembers one of them; a timer that is armed while it holds
\* another one still fires.

\* CronScheduler.running
Running == scheduler \in {"starting", "resetting", "on"}

\* scheduleNextTick when n timers are armed: one more, up to the bound.
Arm(n) ==
  /\ armed' = IF n < MaxTimers THEN n + 1 ELSE n
  /\ timer' = TRUE

\* clearTimeout of the timer that is remembered.
ArmedAfterClear == IF timer THEN armed - 1 ELSE armed

\* poke: it is cleared, and a new one armed, whether or not a tick is in progress.
Poke ==
  /\ IF Running THEN Arm(ArmedAfterClear) ELSE UNCHANGED <<armed, timer>>
  /\ UNCHANGED <<scheduler, resetting, tickInProgress, stopAwaits>>

TickOver_Unarmed(k) ==
  /\ tick' = [tick EXCEPT ![k] = "idle"]
  /\ tickInProgress' = None
  /\ UNCHANGED <<armed, timer, scheduler, resetting, stopAwaits>>

\* A tick ends; its then-callback forgets tickInProgress and arms the next timer.
TickOver(k) ==
  /\ tick' = [tick EXCEPT ![k] = "idle"]
  /\ tickInProgress' = None
  /\ IF Running THEN Arm(armed) ELSE UNCHANGED <<armed, timer>>
  /\ UNCHANGED <<scheduler, resetting, stopAwaits>>

---------------------------------------------------------------------------
\* CronScheduler.start and stop.

Start ==
  /\ scheduler = "off"
  /\ scheduler' = "starting"
  /\ UNCHANGED <<storeVars, resetting, armed, timer, tickInProgress, stopAwaits, tickVars,
                 runVars, callVars, crashes>>

\* Tasks that were running when the process died.
Interrupted_Overdue == {t \in Task : file[t] = "due"}
Interrupted == {t \in Task : file[t] = "running"}

\* recalculateAllNextRuns: they are to be put back, all at the same time.
StartLists ==
  /\ scheduler = "starting"
  /\ scheduler' = "resetting"
  /\ resetting' = Interrupted
  /\ UNCHANGED <<storeVars, armed, timer, tickInProgress, stopAwaits, tickVars, runVars,
                 callVars, crashes>>

StartReads(t) ==
  /\ t \in resetting /\ seen[t] = None
  /\ Reads(t)
  /\ UNCHANGED <<timerVars, tickVars, runVars, callVars, crashes>>

StartResets(t) ==
  /\ t \in resetting /\ seen[t] # None
  /\ Put(t, t, "due")
  /\ resetting' = resetting \ {t}
  /\ UNCHANGED <<scheduler, armed, timer, tickInProgress, stopAwaits, tickVars, runVars,
                 callVars, crashes>>

StartDone ==
  /\ scheduler = "resetting" /\ resetting = {}
  /\ scheduler' = "on"
  /\ Arm(armed)
  /\ UNCHANGED <<storeVars, resetting, tickInProgress, stopAwaits, tickVars, runVars,
                 callVars, crashes>>

\* What stop() waits for before it returns.
AwaitedByStop_None == None
AwaitedByStop == tickInProgress

\* stop: the remembered timer is cleared, and the tick in progress awaited.
Stop ==
  /\ scheduler = "on"
  /\ scheduler' = "stopping"
  /\ armed' = ArmedAfterClear /\ timer' = FALSE
  /\ stopAwaits' = AwaitedByStop
  /\ UNCHANGED <<storeVars, resetting, tickInProgress, tickVars, runVars, callVars, crashes>>

StopDone ==
  /\ scheduler = "stopping"
  /\ stopAwaits # None => tick[stopAwaits] = "idle"
  /\ scheduler' = "stopped"
  /\ UNCHANGED <<storeVars, resetting, armed, timer, tickInProgress, stopAwaits, tickVars,
                 runVars, callVars, crashes>>

---------------------------------------------------------------------------
\* CronScheduler.tick

\* The callback forgets the remembered timer, whichever fires, and does not ask
\* whether the scheduler has been stopped.
TimerFires(k) ==
  /\ armed > 0 /\ tick[k] = "idle"
  /\ armed' = armed - 1 /\ timer' = FALSE
  /\ tick' = [tick EXCEPT ![k] = "listing"]
  /\ tickInProgress' = k
  /\ UNCHANGED <<storeVars, scheduler, resetting, stopAwaits, due, runVars, callVars, crashes>>

\* isDue
DueTasks == {t \in Task : file[t] = "due"}

TickLists(k) ==
  /\ tick[k] = "listing"
  /\ due' = [due EXCEPT ![k] = DueTasks]
  /\ tick' = [tick EXCEPT ![k] = "dispatching"]
  /\ UNCHANGED <<storeVars, timerVars, runVars, callVars, crashes>>

FreeRun == {r \in Run : run[r] = "off" /\ \A c \in Call : stopped[c] # r /\ waitsFor[c] # r}

\* How many more runs may start now.
Places_EachTick == MaxConcurrentRuns
Places == IF Cardinality(activeRuns) < MaxConcurrentRuns
          THEN MaxConcurrentRuns - Cardinality(activeRuns) ELSE 0

\* Some due tasks are fired, each registered as an active run at once, until none is
\* left or the limit is reached.
Fires(k, starting, job) ==
  LET rest == due[k] \ {job[r] : r \in starting}
  IN /\ \A r, q \in starting : job[r] = job[q] => r = q
     /\ Cardinality(starting) <= Places
     /\ rest # {} => Cardinality(starting) = Places
     /\ run' = [r \in Run |-> IF r \in starting THEN "marking" ELSE run[r]]
     /\ taskOf' = [r \in Run |-> IF r \in starting THEN job[r] ELSE taskOf[r]]
     /\ activeRuns' = activeRuns \cup starting
     /\ due' = [due EXCEPT ![k] = rest]
     /\ IF rest = {}
        THEN TickOver(k)
        ELSE tick' = [tick EXCEPT ![k] = "delaying"] /\ UNCHANGED timerVars

\* The loop of tick up to its next await: the task it stops at is delayed. (Run is a
\* bound: the tick waits while too few of its members are free.)
Dispatch(k) ==
  /\ tick[k] = "dispatching"
  /\ \E starting \in SUBSET FreeRun :
       \E job \in [starting -> due[k]] : Fires(k, starting, job)
  /\ UNCHANGED <<storeVars, callVars, crashes>>

TickReads(k) ==
  /\ tick[k] = "delaying" /\ seen[k] = None
  /\ Reads(k)
  /\ UNCHANGED <<timerVars, tickVars, runVars, callVars, crashes>>

\* delayTask writes the task as the tick saw it, with a later nextRunAt.
TickDelays(k) ==
  /\ tick[k] = "delaying" /\ seen[k] # None
  /\ \E t \in due[k] :
       /\ Put(k, t, "later")
       /\ due' = [due EXCEPT ![k] = @ \ {t}]
  /\ tick' = [tick EXCEPT ![k] = "dispatching"]
  /\ UNCHANGED <<timerVars, runVars, callVars, crashes>>

---------------------------------------------------------------------------
\* CronFire.runTask

RunReads(r) ==
  /\ run[r] = "marking" /\ seen[r] = None
  /\ Reads(r)
  /\ UNCHANGED <<timerVars, tickVars, runVars, callVars, crashes>>

\* The task is put back as the tick saw it, but running.
RunMarks(r) ==
  /\ run[r] = "marking" /\ seen[r] # None
  /\ Put(r, taskOf[r], "running")
  /\ run' = [run EXCEPT ![r] = "submitting"]
  /\ UNCHANGED <<timerVars, tickVars, taskOf, activeRuns, callVars, crashes>>

Streaming(t) == {r \in Run : run[r] = "streaming" /\ taskOf[r] = t}

RunOver_Kept(r) ==
  /\ run' = [run EXCEPT ![r] = "ended"]
  /\ UNCHANGED <<storeVars, timerVars, tickVars, taskOf, activeRuns, callVars, crashes>>

\* The finally of runTask up to its first await: the run gives its place back.
RunOver(r) ==
  /\ run' = [run EXCEPT ![r] = "ended"]
  /\ activeRuns' = activeRuns \ {r}
  /\ UNCHANGED <<storeVars, timerVars, tickVars, taskOf, callVars, crashes>>

RunSubmits(r) ==
  /\ run[r] = "submitting"
  /\ Streaming(taskOf[r]) = {}
  /\ run' = [run EXCEPT ![r] = "streaming"]
  /\ UNCHANGED <<storeVars, timerVars, tickVars, taskOf, activeRuns, callVars, crashes>>

RunIsBusy(r) ==
  /\ run[r] = "submitting"
  /\ Streaming(taskOf[r]) # {}
  /\ RunOver(r)

\* The turn completes, fails or is aborted.
TurnEnds(r) == run[r] = "streaming" /\ RunOver(r)

\* The run has been recorded in the history; the task file is read again.
RunRecords(r) ==
  /\ run[r] = "ended"
  /\ Reads(r)
  /\ run' = [run EXCEPT ![r] = "updating"]
  /\ UNCHANGED <<timerVars, tickVars, taskOf, activeRuns, callVars, crashes>>

\* updateTaskAfterRun
RunUpdates(r) ==
  /\ run[r] = "updating"
  /\ IF taskOf[r] \in OnceTask
     THEN Delete(r, taskOf[r]) ELSE UpdateTask(r, taskOf[r], "later")
  /\ run' = [run EXCEPT ![r] = "off"]
  /\ taskOf' = [taskOf EXCEPT ![r] = None]
  /\ UNCHANGED <<timerVars, tickVars, activeRuns, callVars, crashes>>

---------------------------------------------------------------------------
\* createTask, deleteTask, stopTask, runTaskNow

CallStep(c, next) == call' = [call EXCEPT ![c] = next]

\* createTask and deleteTask ask the store for the file.
CreateOrDelete(c) ==
  /\ call[c] = "idle" /\ scheduler # "off" /\ Op[c] \in {"create", "delete"}
  /\ CallStep(c, "reading")
  /\ UNCHANGED <<storeVars, timerVars, tickVars, runVars, stopped, waitsFor, deleted, crashes>>

\* stopTask: an active run of the task is marked and the turn of its session, which
\* need not be this run's, aborted.
StopTask(c) ==
  /\ call[c] = "idle" /\ scheduler # "off" /\ Op[c] \in {"stop", "deleteStopping"}
  /\ \/ \E r \in activeRuns :
          /\ taskOf[r] = About[c]
          /\ stopped' = [stopped EXCEPT ![c] = r]
          /\ \/ \E q \in Streaming(About[c]) : waitsFor' = [waitsFor EXCEPT ![c] = q]
             \/ Streaming(About[c]) = {} /\ UNCHANGED waitsFor
          /\ CallStep(c, "aborting")
     \/ /\ \A r \in activeRuns : taskOf[r] # About[c]
        /\ CallStep(c, IF Op[c] = "stop" THEN "done" ELSE "reading")
        /\ UNCHANGED <<stopped, waitsFor>>
  /\ UNCHANGED <<storeVars, timerVars, tickVars, runVars, deleted, crashes>>

AfterStop(c) == CallStep(c, IF Op[c] = "stop" THEN "done" ELSE "reading")

\* abortTurn has returned; a one-time task is to be deleted.
TurnOver_Expected(c) == waitsFor[c] # None /\ run[waitsFor[c]] # "streaming"
TurnOver(c) == waitsFor[c] # None => run[waitsFor[c]] # "streaming"

StopAborted(c) ==
  /\ call[c] = "aborting"
  /\ TurnOver(c)
  /\ waitsFor' = [waitsFor EXCEPT ![c] = None]
  /\ IF About[c] \in OnceTask
     THEN CallStep(c, "stopReading") /\ UNCHANGED timerVars
     ELSE AfterStop(c) /\ Poke
  /\ UNCHANGED <<storeVars, tickVars, runVars, stopped, deleted, crashes>>

CallReads(c) ==
  /\ call[c] \in {"reading", "stopReading"}
  /\ Reads(c)
  /\ CallStep(c, IF call[c] = "reading" THEN "writing" ELSE "stopWriting")
  /\ UNCHANGED <<timerVars, tickVars, runVars, stopped, waitsFor, deleted, crashes>>

StopDeletes(c) ==
  /\ call[c] = "stopWriting"
  /\ Delete(c, About[c])
  /\ Poke
  /\ AfterStop(c)
  /\ UNCHANGED <<tickVars, runVars, stopped, waitsFor, deleted, crashes>>

CreateWrites(c) ==
  /\ call[c] = "writing" /\ Op[c] \in {"create", "runNow"}
  /\ IF Op[c] = "create" THEN Put(c, About[c], "later") ELSE Put(c, CopyOf[c], "due")
  /\ Poke
  /\ CallStep(c, "done")
  /\ UNCHANGED <<tickVars, runVars, stopped, waitsFor, deleted, crashes>>

DeleteWrites(c) ==
  /\ call[c] = "writing" /\ Op[c] \in {"delete", "deleteStopping"}
  /\ Delete(c, About[c])
  /\ deleted' = IF seen[c][About[c]] = "absent" THEN deleted ELSE deleted \cup {c}
  /\ Poke
  /\ CallStep(c, "done")
  /\ UNCHANGED <<tickVars, runVars, stopped, waitsFor, crashes>>

\* runTaskNow: a one-time copy of a task that is there and not running; createTask
\* refuses it when the clock has moved on since its runAt was taken.
RunTaskNow(c) ==
  /\ call[c] = "idle" /\ scheduler # "off" /\ Op[c] = "runNow"
  /\ \/ file[About[c]] \in {"later", "due"} /\ CallStep(c, "reading")
     \/ CallStep(c, "done")
  /\ UNCHANGED <<storeVars, timerVars, tickVars, runVars, stopped, waitsFor, deleted, crashes>>

---------------------------------------------------------------------------
\* A task's time comes.
TimePasses(t) ==
  /\ file[t] = "later"
  /\ file' = [file EXCEPT ![t] = "due"]
  /\ UNCHANGED <<seen, timerVars, tickVars, runVars, callVars, crashes>>

\* The process dies: the file is all that is left.
Crash ==
  /\ scheduler # "off" /\ crashes < MaxCrashes
  /\ crashes' = crashes + 1
  /\ seen' = NobodyWrites
  /\ scheduler' = "off" /\ resetting' = {}
  /\ armed' = 0 /\ timer' = FALSE /\ tickInProgress' = None /\ stopAwaits' = None
  /\ tick' = [k \in Tick |-> "idle"] /\ due' = [k \in Tick |-> {}]
  /\ run' = [r \in Run |-> "off"] /\ taskOf' = [r \in Run |-> None]
  /\ activeRuns' = {}
  /\ call' = [c \in Call |-> IF call[c] = "idle" THEN "idle" ELSE "done"]
  /\ stopped' = [c \in Call |-> None] /\ waitsFor' = [c \in Call |-> None]
  /\ UNCHANGED <<file, deleted>>

SchedulerStep == Start \/ StartLists \/ StartDone \/ StopDone
TickStep(k) == TickLists(k) \/ Dispatch(k) \/ TickReads(k) \/ TickDelays(k)
RunStep(r) ==
  \/ RunReads(r) \/ RunMarks(r) \/ RunSubmits(r) \/ RunIsBusy(r) \/ TurnEnds(r)
  \/ RunRecords(r) \/ RunUpdates(r)
CallGoesOn(c) == StopAborted(c) \/ CallReads(c) \/ StopDeletes(c) \/ CreateWrites(c) \/ DeleteWrites(c)

Next ==
  \/ SchedulerStep \/ Stop \/ Crash
  \/ \E t \in Task : StartReads(t) \/ StartResets(t) \/ TimePasses(t)
  \/ \E k \in Tick : TimerFires(k) \/ TickStep(k)
  \/ \E r \in Run : RunStep(r)
  \/ \E c \in Call : CreateOrDelete(c) \/ StopTask(c) \/ RunTaskNow(c) \/ CallGoesOn(c)

Spec == Init /\ [][Next]_vars

\* File operations settle, timers fire, turns end. Nobody has to call, stop or crash
\* the process, and a task's time need not come.
Fairness ==
  /\ WF_vars(SchedulerStep)
  /\ \A t \in Task : WF_vars(StartReads(t) \/ StartResets(t))
  /\ \A k \in Tick : WF_vars(TimerFires(k)) /\ WF_vars(TickStep(k))
  /\ \A r \in Run : WF_vars(RunStep(r))
  /\ \A c \in Call : WF_vars(CallGoesOn(c))

FairSpec == Spec /\ Fairness

---------------------------------------------------------------------------
\* Properties.

RunsOf(t) == {r \in Run : taskOf[r] = t}

\* maxConcurrentRuns is never exceeded, though ticks may overlap and each decides on
\* the size of activeRuns alone.
ConcurrencyLimit == Cardinality(activeRuns) <= MaxConcurrentRuns

\* Why it holds, as an inductive invariant with the types: a run counts from the moment
\* a tick decides on it to the end of its turn, and whoever is about to write the file
\* has read it.
RunAgrees(r) ==
  /\ r \in activeRuns <=> run[r] \in {"marking", "submitting", "streaming"}
  /\ run[r] # "off" => taskOf[r] # None
  /\ run[r] = "updating" => seen[r] # None

CallAgrees(c) == call[c] \in {"writing", "stopWriting"} => seen[c] # None

BooksAgree ==
  /\ \A r \in Run : RunAgrees(r)
  /\ \A c \in Call : CallAgrees(c)
  /\ timer => armed > 0

\* A task that the file calls running is being run: the scheduler passes over running
\* tasks, so one that nobody runs would never be run again.
NoTaskStuck ==
  scheduler = "on" => \A t \in Task : file[t] = "running" => RunsOf(t) # {}

\* cron_delete: "Delete a scheduled Cron task and cancel its future triggers." A task
\* that has been reported as deleted does not come back with somebody's write.
DeletedStaysDeleted == \A c \in deleted : file[About[c]] = "absent"

\* After stop() has returned nothing is started any more.
NothingFiresAfterStop ==
  [][scheduler = "stopped" => \A r \in Run : taskOf[r] = None => taskOf'[r] = None]_vars

\* While the scheduler is on, a task whose time has come is run, delayed or deleted.
DueIsHandled ==
  \A t \in Task :
    (scheduler = "on" /\ file[t] = "due") ~>
      (file[t] # "due" \/ RunsOf(t) # {} \/ scheduler # "on")

\* A run gives its place back, or one hung run would be the end of all of them.
PlacesAreGivenBack == \A r \in Run : r \in activeRuns ~> r \notin activeRuns

\* A call returns: the turn that a stop waits for ends, whatever starts after it.
CallsReturn ==
  \A c \in Call : call[c] \notin {"idle", "done"} ~> call[c] = "done"
=============================================================================
