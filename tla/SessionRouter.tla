----------------------------- MODULE SessionRouter -----------------------------
(***************************************************************************)
(* The gateway's session table (src/gateway/SessionRouter.ts): the cache   *)
(* of agent sessions per session key, and the slot that admits one turn at *)
(* a time per key.                                                         *)
(*                                                                         *)
(* Session records and AgentSession objects have no names in the code.     *)
(* Each is built by the getOrCreate call of one turn, and a turn calls     *)
(* getOrCreate once, so the turn that built a record, or a session object, *)
(* is its identity here.                                                   *)
(*                                                                         *)
(* The clock is abstracted to the one comparison made with it: a record is *)
(* stale when it was last used longer ago than idleSessionTimeoutMs.       *)
(***************************************************************************)

CONSTANTS
  Key,         \* session keys
  Turn,        \* calls of submitTurn, each with a runId of its own
  Project,     \* project keys
  KeyOf,       \* the sessionKey a submitTurn call carries
  ProjectOf,   \* the projectKey it carries, or None
  None         \* JavaScript's undefined

VARIABLES
  sessions,      \* SessionRouter.sessions: Key -> record, or None
  inFlightTurns  \* SessionRouter.inFlightTurns: Key -> turn, or None

routerVars == <<sessions, inFlightTurns>>

SessionRecord ==
  [rec : Turn,                       \* the record's identity
   session : Turn,                   \* the AgentSession object it holds
   project : Project \cup {None},    \* context.projectKey
   stale : BOOLEAN,                  \* unused for longer than the timeout
   dirty : BOOLEAN]                  \* dirtyReason is set

ASSUME RouterAssumption ==
  /\ KeyOf \in [Turn -> Key]
  /\ ProjectOf \in [Turn -> Project \cup {None}]
  /\ None \notin Turn \cup Project
  /\ None \notin SessionRecord

RouterTypeOK ==
  /\ sessions \in [Key -> SessionRecord \cup {None}]
  /\ inFlightTurns \in [Key -> Turn \cup {None}]

RouterInit ==
  /\ sessions = [k \in Key |-> None]
  /\ inFlightTurns = [k \in Key |-> None]

---------------------------------------------------------------------------
\* Helpers on the table.

\* beginTurn's test.
SlotFree(k) == inFlightTurns[k] = None

\* sweepIdle: evict what has been idle too long, sparing keys with a turn in
\* flight. Evaluated on the slots as they are when the sweep runs.
Swept ==
  [k \in Key |->
     IF sessions[k] # None /\ SlotFree(k) /\ sessions[k].stale
     THEN None ELSE sessions[k]]

\* lastUsedAt = nowMs(), when the key has a record.
Touched_Upserts(table, k) ==
  [table EXCEPT ![k] =
     IF @ = None
     THEN [rec |-> None, session |-> None, project |-> None, stale |-> FALSE, dirty |-> FALSE]
     ELSE [@ EXCEPT !.stale = FALSE]]
Touched(table, k) ==
  [table EXCEPT ![k] = IF @ = None THEN @ ELSE [@ EXCEPT !.stale = FALSE]]

\* mergeSessionContext: the first project a session was used with stays.
MergedProject(record, t) ==
  IF record.project # None THEN record.project ELSE ProjectOf[t]

\* The record createSession's result is stored under.
NewRecord(t) ==
  [rec |-> t, session |-> t, project |-> ProjectOf[t],
   stale |-> FALSE, dirty |-> FALSE]

---------------------------------------------------------------------------
\* Operations that concern the router alone.

\* close: drop the record, whether or not a turn is in flight.
Close(k) ==
  /\ sessions[k] # None
  /\ sessions' = [sessions EXCEPT ![k] = None]
  /\ UNCHANGED inFlightTurns

MarkedByAll_Idle == {k \in Key : sessions[k] # None /\ SlotFree(k)}
\* Which records markAllDirty reaches: all of them, turn in flight or not.
MarkedByAll == {k \in Key : sessions[k] # None}

\* markAllDirty: every record of the table is to be rebuilt at its next use.
MarkAllDirty ==
  /\ sessions' = [k \in Key |->
       IF k \in MarkedByAll THEN [sessions[k] EXCEPT !.dirty = TRUE] ELSE sessions[k]]
  /\ UNCHANGED inFlightTurns

\* markProjectDirty
MarkProjectDirty(p) ==
  /\ sessions' = [k \in Key |->
       IF sessions[k] # None /\ sessions[k].project = p
       THEN [sessions[k] EXCEPT !.dirty = TRUE] ELSE sessions[k]]
  /\ UNCHANGED inFlightTurns

\* sessionCount sweeps on its way (describeServer).
SessionCount ==
  /\ sessions' = Swept
  /\ UNCHANGED inFlightTurns

\* More than idleSessionTimeoutMs goes by without any session being used.
IdleTimeoutElapses ==
  /\ sessions' = [k \in Key |->
       IF sessions[k] = None THEN None ELSE [sessions[k] EXCEPT !.stale = TRUE]]
  /\ UNCHANGED inFlightTurns
=============================================================================
