------------------------------ MODULE AlwaysOnState ------------------------------
(***************************************************************************)
(* DiscoveryStateStore: the state file of one project's always-on          *)
(* discovery. Every change reads the file, awaits, and writes it all back; *)
(* nothing keeps two writers apart, and a file that is read while it is    *)
(* being written reads as empty, which is the default state. Of the state  *)
(* the module holds whether the project is dormant and how many runs were  *)
(* started on the present day (it is of one day).                          *)
(***************************************************************************)
EXTENDS Integers

CONSTANTS
  Writer, None,
  MaxFired      \* bound: runs that are counted

State == [dormant : BOOLEAN, todayRunCount : 0..MaxFired]

ASSUME StateAssumption == None \notin State /\ MaxFired \in Nat

VARIABLES
  stateFile,  \* the content of state.json
  seen,       \* what each writer has read and is about to write back with a change
  clobbered   \* has a write been lost, or the file been read half written?

stateVars == <<stateFile, seen, clobbered>>

StateTypeOK ==
  /\ stateFile \in State
  /\ seen \in [Writer -> State \cup {None}]
  /\ clobbered \in BOOLEAN

\* defaultDiscoveryState, which is what an absent or truncated file reads as.
DefaultState == [dormant |-> FALSE, todayRunCount |-> 0]

\* What the file may hold while somebody is writing it, and after a crash in the middle.
Truncated(writers) == IF \E w \in writers : seen[w] # None THEN {DefaultState} ELSE {}

Readable(w) == {stateFile} \cup Truncated(Writer \ {w})

\* A read finds s.
Finds(s) == clobbered' = (clobbered \/ s # stateFile) /\ UNCHANGED stateFile

\* The first half of every change.
Reads(w) == \E s \in Readable(w) : Finds(s) /\ seen' = [seen EXCEPT ![w] = s]

\* The second half: the state that was read, but for the field of this change.
Writes(w, next) ==
  /\ stateFile' = next
  /\ seen' = [seen EXCEPT ![w] = None]
  /\ clobbered' = (clobbered \/ seen[w] # stateFile)

OneMore(n) == IF n < MaxFired THEN n + 1 ELSE n
MarkFireStarted(w) ==
  Writes(w, [seen[w] EXCEPT !.todayRunCount = OneMore(seen[w].todayRunCount)])

\* The time and the outcome of the run are no part of the model; the rest of the state
\* goes back to what it was when it was read.
MarkFireCompleted(w) == Writes(w, seen[w])

SetDormant(w) == Writes(w, [seen[w] EXCEPT !.dormant = TRUE])

\* clearDormant returns early when there is nothing to clear.
NothingToClear(w) == (\E s \in Readable(w) : ~s.dormant /\ Finds(s)) /\ UNCHANGED seen
FindsDormant(w) ==
  \E s \in Readable(w) : s.dormant /\ Finds(s) /\ seen' = [seen EXCEPT ![w] = s]
ClearDormant(w) == Writes(w, [seen[w] EXCEPT !.dormant = FALSE])
=============================================================================
