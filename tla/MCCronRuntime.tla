------------------------------ MODULE MCCronRuntime ------------------------------
(* Instances of CronRuntime for TLC. *)
EXTENDS CronRuntime, TLC

CONSTANTS ta, tb, create, delete, deleteStopping, stop, runNow

Writers == Run \cup Tick \cup Call \cup Task

\* Runs are interchangeable, and so are ticks (for the runs that check safety only).
Alike == Permutations(Run) \cup Permutations(Tick)

\* Both tasks are there and their time has not come; or tb, or ta too, is still to
\* be created.
AllLater == [t \in Task |-> "later"]
OnlyTa == [t \in Task |-> IF t = ta THEN "later" ELSE "absent"]
NoTask == [t \in Task |-> "absent"]

\* Calls are named for what they do.
Ops == [c \in Call |->
  CASE c = create -> "create" [] c = delete -> "delete" [] c = stop -> "stop"
    [] c = deleteStopping -> "deleteStopping" [] c = runNow -> "runNow"]
AboutTa == [c \in Call |-> ta]
CopyIsTb == [c \in Call |-> tb]
=============================================================================
