----------------------------- MODULE BackgroundTasks -----------------------------
(***************************************************************************)
(* BackgroundTaskRuntime: the table of shell commands that run behind the  *)
(* conversation. Entries are never removed. A task that is "lost" has      *)
(* status running and no process: its spawn failed with an "error" event,  *)
(* after which no "exit" comes.                                            *)
(***************************************************************************)
EXTENDS FiniteSets, Naturals

CONSTANTS
  BgTask,      \* the tasks that may be started
  MaxTasks     \* BackgroundTaskRuntimeOptions.maxTasks

ASSUME TasksAssumption == IsFiniteSet(BgTask) /\ MaxTasks \in Nat

VARIABLE bg    \* BgTask -> none, running, terminated (SIGTERM), killed (SIGKILL), lost or ended

BgState == {"none", "running", "terminated", "killed", "lost", "ended"}

BgTypeOK == bg \in [BgTask -> BgState]
BgInit == bg = [t \in BgTask |-> "none"]

Entries == {t \in BgTask : bg[t] # "none"}

\* status "running": the child's exit has not been seen.
Alive(t) == bg[t] \in {"running", "terminated", "killed"}

\* start: the limit counts every entry there ever was; spawn throws, fails later or succeeds.
StartTask(t) ==
  /\ bg[t] = "none"
  /\ Cardinality(Entries) < MaxTasks
  /\ \E outcome \in {"running", "lost", "ended"} : bg' = [bg EXCEPT ![t] = outcome]

\* The child exits, by itself or from a signal.
ExitTask(t) ==
  /\ Alive(t)
  /\ bg' = [bg EXCEPT ![t] = "ended"]

Terminate_Interrupted(t) ==
  bg' = IF bg[t] = "running" THEN [bg EXCEPT ![t] = "interrupted"] ELSE bg
\* stop sends SIGTERM to a task whose status is running.
Terminate(t) ==
  bg' = IF bg[t] = "running" THEN [bg EXCEPT ![t] = "terminated"] ELSE bg

Escalate_Patient(t) == bg[t] = "terminated" /\ bg' = bg
\* The grace period of a stop is over.
Escalate(t) ==
  /\ bg[t] = "terminated"
  /\ bg' = [bg EXCEPT ![t] = "killed"]

\* What stop awaits: done, or nothing when the status is not running.
StopIsDone(t) == bg[t] = "ended"
=============================================================================
