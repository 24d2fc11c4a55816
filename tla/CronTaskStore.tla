----------------------------- MODULE CronTaskStore -----------------------------
(***************************************************************************)
(* The file of cron tasks (src/cron/storage/CronTaskStore.ts). Every       *)
(* change reads the whole file, awaits, and writes the whole file back:    *)
(* whoever writes last wins, and takes with it what others wrote since it  *)
(* has read. The rename of a temporary file makes each write atomic.       *)
(*                                                                         *)
(* What a task's entry holds is abstracted to what the scheduler asks of   *)
(* it: is it running, and has its nextRunAt come.                          *)
(***************************************************************************)
CONSTANTS
  Task,     \* task ids
  Writer,   \* the activities that change the file
  None

Entry == {"absent", "later", "due", "running"}
Content == [Task -> Entry]

ASSUME StoreAssumption == None \notin Content

VARIABLES
  file,  \* tasks.json
  seen   \* Writer -> what it has read and not yet written back, or None

StoreTypeOK ==
  /\ file \in Content
  /\ seen \in [Writer -> Content \cup {None}]

\* readTaskFile
Reads(w) ==
  /\ seen' = [seen EXCEPT ![w] = file]
  /\ UNCHANGED file

\* writeTaskFile
Writes(w, content) ==
  /\ file' = content
  /\ seen' = [seen EXCEPT ![w] = None]

\* putTask: the entry replaces the task's old one, or is added.
Put(w, t, entry) == Writes(w, [seen[w] EXCEPT ![t] = entry])

\* updateTask: a task that is gone stays gone.
UpdateTask(w, t, entry) ==
  Writes(w, IF seen[w][t] = "absent" THEN seen[w] ELSE [seen[w] EXCEPT ![t] = entry])

\* deleteTask: nothing is written when there is nothing to delete.
Delete(w, t) ==
  Writes(w, IF seen[w][t] = "absent" THEN file ELSE [seen[w] EXCEPT ![t] = "absent"])
=============================================================================
