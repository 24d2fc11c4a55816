---------------------------- MODULE InProcessGateway ----------------------------
(***************************************************************************)
(* Turns of the in-process gateway: submitTurn, abortTurn, closeSession,   *)
(* the permission and elicitation round trips, and the session table they  *)
(* share (module SessionRouter).                                           *)
(*                                                                         *)
(* One submitTurn call is two concurrent activities: the call itself (the  *)
(* async generator its client iterates) and the pump that drives the agent *)
(* session and fills the queue the call drains. An action runs from one    *)
(* await to the next. A client that stops iterating, because its loop body *)
(* threw, leaves its pump running: Abandon.                                *)
(***************************************************************************)
EXTENDS SessionRouter, FiniteSets

CONSTANTS
  AbandonTurn,    \* calls whose client may stop iterating early
  PermissionReq,  \* prompts of createGatewayPermissionHook, by requestId
  ElicitReq,      \* prompts of GatewayElicitationChannel.askUser
  AbortCall,      \* calls of abortTurn
  AbortKeyOf      \* the sessionKey an abortTurn call carries

Request == PermissionReq \cup ElicitReq
Replay == [runId : Turn, from : SUBSET Turn]  \* whose events the buffer holds

ASSUME GatewayAssumption ==
  /\ AbandonTurn \subseteq Turn
  /\ PermissionReq \cap ElicitReq = {}
  /\ None \notin Replay
  /\ AbortKeyOf \in [AbortCall -> Key]

VARIABLES
  call,         \* where each submitTurn call stands
  pump,         \* where its pump stands
  agent,        \* the AgentSession object the pump submits to
  cached,       \* the record its getOrCreate is rebuilding
  controller,   \* AgentSession object -> turn its abortController belongs to
  aborted,      \* turns whose abort signal has fired
  emitSinks,    \* Key -> turn whose queue emitForSession feeds
  activeTurnReplays,  \* Key -> replay buffer
  turnCompletions,    \* Key -> turn whose completion abortTurn awaits
  asker,        \* Request -> turn whose agent asked
  shownIn,      \* Request -> turn in whose stream the prompt went out
  registered,   \* requests that have an entry in one of the two buses
  waiting,      \* requests whose agent is parked on the answer
  abort,        \* where each abortTurn call stands
  awaits,       \* the turn it waits for
  target,       \* the turn that was in flight when it was made
  outdated      \* AgentSession objects built from a superseded configuration

turnVars   == <<call, pump, agent, cached>>
agentVars  == <<controller, aborted>>
sinkVars   == <<emitSinks, activeTurnReplays, turnCompletions>>
promptVars == <<asker, shownIn, registered, waiting>>
abortVars  == <<abort, awaits, target>>
vars == <<routerVars, turnVars, agentVars, sinkVars, promptVars, abortVars, outdated>>

CallState == {"idle", "refreshing", "rejected", "streaming", "unwinding", "done"}
PumpState == {"off", "creating", "recreating", "attaching", "running", "closed"}
AbortState == {"idle", "called", "waiting", "returned"}

TypeOK ==
  /\ RouterTypeOK
  /\ call \in [Turn -> CallState]
  /\ pump \in [Turn -> PumpState]
  /\ agent \in [Turn -> Turn \cup {None}]
  /\ cached \in [Turn -> Turn \cup {None}]
  /\ controller \in [Turn -> Turn \cup {None}]
  /\ aborted \subseteq Turn
  /\ emitSinks \in [Key -> Turn \cup {None}]
  /\ activeTurnReplays \in [Key -> Replay \cup {None}]
  /\ turnCompletions \in [Key -> Turn \cup {None}]
  /\ asker \in [Request -> Turn \cup {None}]
  /\ shownIn \in [Request -> Turn \cup {None}]
  /\ registered \subseteq {r \in Request : asker[r] # None}
  /\ waiting \subseteq {r \in Request : asker[r] # None}
  /\ abort \in [AbortCall -> AbortState]
  /\ awaits \in [AbortCall -> Turn \cup {None}]
  /\ target \in [AbortCall -> Turn \cup {None}]
  /\ outdated \subseteq Turn

Init ==
  /\ RouterInit
  /\ call = [t \in Turn |-> "idle"]
  /\ pump = [t \in Turn |-> "off"]
  /\ agent = [t \in Turn |-> None]
  /\ cached = [t \in Turn |-> None]
  /\ controller = [t \in Turn |-> None]
  /\ aborted = {}
  /\ emitSinks = [k \in Key |-> None]
  /\ activeTurnReplays = [k \in Key |-> None]
  /\ turnCompletions = [k \in Key |-> None]
  /\ asker = [r \in Request |-> None]
  /\ shownIn = [r \in Request |-> None]
  /\ registered = {}
  /\ waiting = {}
  /\ abort = [a \in AbortCall |-> "idle"]
  /\ awaits = [a \in AbortCall |-> None]
  /\ target = [a \in AbortCall |-> None]
  /\ outdated = {}

---------------------------------------------------------------------------
\* Helpers.

\* recordActiveTurnEvent: turn t's event goes into whatever replay buffer the
\* key has now. (Its size limits are the business of ActiveTurnReplay.)
Recorded(t) ==
  LET k == KeyOf[t]
      replay == activeTurnReplays[k]
  IN IF replay = None THEN activeTurnReplays
     ELSE [activeTurnReplays EXCEPT ![k] = [replay EXCEPT !.from = replay.from \cup {t}]]

\* The bus entries of a session key.
PendingOf(k) == {r \in registered : KeyOf[asker[r]] = k}

\* The pending prompts that end with a turn of the key: all of them.
Rejected_None(k) == {}
Rejected(k) == PendingOf(k)

\* A pump is done when its queue is closed; the call's loop then ends, and the
\* finally's await returns.
PumpSettled_Early(t) == TRUE
PumpSettled(t) == pump[t] = "closed"

\* Unwinding drops the completion only if it is still this turn's.
CompletionAfter_Any(k, t) == None
CompletionAfter(k, t) == IF turnCompletions[k] = t THEN None ELSE turnCompletions[k]

\* endTurn gives the slot up only for the run that holds it.
SlotAfterEnd(k, t) ==
  IF inFlightTurns[k] = t THEN [inFlightTurns EXCEPT ![k] = None] ELSE inFlightTurns

---------------------------------------------------------------------------
\* submitTurn, the call.

\* The call is made and awaits refreshConfigBeforeTurn.
Submit(t) ==
  /\ call[t] = "idle"
  /\ call' = [call EXCEPT ![t] = "refreshing"]
  /\ UNCHANGED <<routerVars, pump, agent, cached, agentVars, sinkVars,
                 promptVars, abortVars, outdated>>

\* beginTurn refuses: the session_busy error event is all the client gets.
RejectBusy(t) ==
  /\ call[t] = "refreshing"
  /\ ~SlotFree(KeyOf[t])
  /\ sessions' = Swept
  /\ call' = [call EXCEPT ![t] = "rejected"]
  /\ UNCHANGED <<inFlightTurns, pump, agent, cached, agentVars, sinkVars,
                 promptVars, abortVars, outdated>>

\* The first stretch of getOrCreate, on the swept table: a miss awaits
\* createSession, a dirty record awaits recreateSession, a hit is used as is.
GetOrCreate(t) ==
  LET k == KeyOf[t]
      record == Swept[k]
      merged == [record EXCEPT !.project = MergedProject(record, t)]
  IN \/ /\ record = None
        /\ sessions' = Swept
        /\ pump' = [pump EXCEPT ![t] = "creating"]
        /\ UNCHANGED <<agent, cached>>
     \/ /\ record # None /\ record.dirty
        /\ sessions' = [Swept EXCEPT ![k] = merged]
        /\ pump' = [pump EXCEPT ![t] = "recreating"]
        /\ cached' = [cached EXCEPT ![t] = record.rec]
        /\ UNCHANGED agent
     \/ /\ record # None /\ ~record.dirty
        /\ sessions' = [Swept EXCEPT ![k] = [merged EXCEPT !.stale = FALSE]]
        /\ pump' = [pump EXCEPT ![t] = "attaching"]
        /\ agent' = [agent EXCEPT ![t] = record.session]
        /\ UNCHANGED cached

\* beginTurn admits the turn; its sink, replay buffer and completion are
\* installed and the pump runs up to its first await, all in one go.
Begin(t) ==
  LET k == KeyOf[t]
  IN /\ call[t] = "refreshing"
     /\ SlotFree(k)
     /\ inFlightTurns' = [inFlightTurns EXCEPT ![k] = t]
     /\ call' = [call EXCEPT ![t] = "streaming"]
     /\ turnCompletions' = [turnCompletions EXCEPT ![k] = t]
     /\ activeTurnReplays' = [activeTurnReplays EXCEPT ![k] = [runId |-> t, from |-> {}]]
     /\ emitSinks' = [emitSinks EXCEPT ![k] = t]
     /\ GetOrCreate(t)
     /\ UNCHANGED <<agentVars, promptVars, abortVars, outdated>>

\* The finally block up to its await: sink and replay go, everything pending
\* under the key is rejected, the slot is released and the record touched.
TurnEnds(t) ==
  LET k == KeyOf[t]
  IN /\ call' = [call EXCEPT ![t] = "unwinding"]
     /\ emitSinks' = [emitSinks EXCEPT ![k] = None]
     /\ activeTurnReplays' = [activeTurnReplays EXCEPT ![k] = None]
     /\ registered' = registered \ Rejected(k)
     /\ waiting' = waiting \ Rejected(k)
     /\ inFlightTurns' = SlotAfterEnd(k, t)
     /\ sessions' = Touched(sessions, k)
     /\ UNCHANGED <<turnCompletions, pump, agent, cached, agentVars, asker, shownIn,
                    abortVars, outdated>>

\* The queue is closed and drained: the generator falls into its finally.
Drained(t) ==
  /\ call[t] = "streaming"
  /\ PumpSettled(t)
  /\ TurnEnds(t)

\* The client's loop body threw: return() runs the finally at once.
Abandon(t) ==
  /\ t \in AbandonTurn
  /\ call[t] = "streaming"
  /\ TurnEnds(t)

\* The pump has settled: the completion is dropped if it is still this turn's,
\* and whoever awaits it is resolved.
Unwound(t) ==
  LET k == KeyOf[t]
  IN /\ call[t] = "unwinding"
     /\ PumpSettled(t)
     /\ call' = [call EXCEPT ![t] = "done"]
     /\ turnCompletions' = [turnCompletions EXCEPT ![k] = CompletionAfter(k, t)]
     /\ UNCHANGED <<routerVars, pump, agent, cached, agentVars, emitSinks,
                    activeTurnReplays, promptVars, abortVars, outdated>>

---------------------------------------------------------------------------
\* submitTurn, the pump.

\* createSession answers; the record goes into the table, over whatever is there.
Created(t) ==
  /\ pump[t] = "creating"
  /\ sessions' = [sessions EXCEPT ![KeyOf[t]] = NewRecord(t)]
  /\ agent' = [agent EXCEPT ![t] = t]
  /\ pump' = [pump EXCEPT ![t] = "attaching"]
  /\ UNCHANGED <<inFlightTurns, call, cached, agentVars, sinkVars, promptVars,
                 abortVars, outdated>>

\* What becomes of the captured record.
Rebuilt_KeepsSession(record, t) == [record EXCEPT !.dirty = FALSE, !.stale = FALSE]
Rebuilt(record, t) ==
  [record EXCEPT !.session = t, !.dirty = FALSE, !.stale = FALSE]

\* recreateSession answers; the record captured before the await is updated and
\* its dirty flag cleared, though it may have left the table meanwhile.
Recreated(t) ==
  LET k == KeyOf[t]
  IN /\ pump[t] = "recreating"
     /\ sessions' =
          IF sessions[k] # None /\ sessions[k].rec = cached[t]
          THEN [sessions EXCEPT ![k] = Rebuilt(@, t)]
          ELSE sessions
     /\ agent' = [agent EXCEPT ![t] = t]
     /\ pump' = [pump EXCEPT ![t] = "attaching"]
     /\ UNCHANGED <<inFlightTurns, call, cached, agentVars, sinkVars, promptVars,
                    abortVars, outdated>>

\* The session cannot be had, or the attachments cannot be read: the error
\* event goes to the client and to the replay, and the queue is closed.
SubmitFails(t) ==
  /\ pump[t] \in {"creating", "recreating", "attaching"}
  /\ pump' = [pump EXCEPT ![t] = "closed"]
  /\ activeTurnReplays' = Recorded(t)
  /\ UNCHANGED <<routerVars, call, agent, cached, agentVars, emitSinks,
                 turnCompletions, promptVars, abortVars, outdated>>

\* AgentSession.submit starts: the session gets an AbortController of the turn.
AgentStarts(t) ==
  /\ pump[t] = "attaching"
  /\ pump' = [pump EXCEPT ![t] = "running"]
  /\ controller' = [controller EXCEPT ![agent[t]] = t]
  /\ UNCHANGED <<routerVars, call, agent, cached, aborted, sinkVars, promptVars,
                 abortVars, outdated>>

\* The agent yields an event: recorded for late subscribers, queued for this one.
AgentEvent(t) ==
  /\ pump[t] = "running"
  /\ activeTurnReplays' = Recorded(t)
  /\ UNCHANGED <<routerVars, turnVars, agentVars, emitSinks, turnCompletions,
                 promptVars, abortVars, outdated>>

\* The agent's turn is over (completed, failed or aborted): no tool of it is
\* parked any more, and the pump closes the queue.
AgentEnds(t) ==
  /\ pump[t] = "running"
  /\ \A r \in waiting : asker[r] # t
  /\ pump' = [pump EXCEPT ![t] = "closed"]
  /\ UNCHANGED <<routerVars, call, agent, cached, agentVars, sinkVars, promptVars,
                 abortVars, outdated>>

---------------------------------------------------------------------------
\* Prompts. emitForSession finds the sink by session key, not by turn.

\* createGatewayPermissionHook: denied on the spot when no sink takes the event;
\* else registered, and parked unless the signal has fired already.
AskPermission(t, r) ==
  LET sink == emitSinks[KeyOf[t]]
  IN /\ pump[t] = "running"
     /\ asker[r] = None
     /\ asker' = [asker EXCEPT ![r] = t]
     /\ shownIn' = [shownIn EXCEPT ![r] = sink]
     /\ IF sink = None
        THEN UNCHANGED <<registered, waiting, activeTurnReplays>>
        ELSE /\ activeTurnReplays' = Recorded(t)
             /\ registered' = registered \cup {r}
             /\ waiting' = IF t \in aborted THEN waiting ELSE waiting \cup {r}
     /\ UNCHANGED <<routerVars, turnVars, agentVars, emitSinks, turnCompletions,
                    abortVars, outdated>>

\* GatewayElicitationChannel.askUser: registered whether or not a sink takes the
\* event; consumed again at once when the signal has fired already.
AskUser(t, r) ==
  LET sink == emitSinks[KeyOf[t]]
      parked == IF t \in aborted THEN {} ELSE {r}
  IN /\ pump[t] = "running"
     /\ asker[r] = None
     /\ asker' = [asker EXCEPT ![r] = t]
     /\ shownIn' = [shownIn EXCEPT ![r] = sink]
     /\ activeTurnReplays' = IF sink = None THEN activeTurnReplays ELSE Recorded(t)
     /\ registered' = registered \cup parked
     /\ waiting' = waiting \cup parked
     /\ UNCHANGED <<routerVars, turnVars, agentVars, emitSinks, turnCompletions,
                    abortVars, outdated>>

\* Whom the consumed entry's resolve wakes: the agent that asked, if it still waits.
Resolved_None(r) == {}
Resolved(r) == {r}

\* permissionDecide and respondElicitation: the entry is consumed and its
\* promise resolved, which is reported as delivered. A client knows the
\* requestId from the prompt it was shown.
Answer(r) ==
  /\ r \in registered
  /\ shownIn[r] # None
  /\ registered' = registered \ {r}
  /\ waiting' = waiting \ Resolved(r)
  /\ UNCHANGED <<routerVars, turnVars, agentVars, sinkVars, asker, shownIn,
                 abortVars, outdated>>

---------------------------------------------------------------------------
\* abortTurn, closeSession, and the reactions to configuration changes.

\* The prompts an abort signal ends: both kinds stop waiting, but only the
\* elicitation channel takes its entry off the bus.
EndedBySignal_None(t) == {}
EndedBySignal(t) == {r \in waiting : asker[r] = t}

\* abortTurn up to its first await: router.abort reaches the session object of
\* the record, if there is one, and the turn its AbortController belongs to. A
\* cancelled elicitation says so in the stream.
AbortTurn(a) ==
  LET k == AbortKeyOf[a]
      turn == IF sessions[k] = None THEN None ELSE controller[sessions[k].session]
      ended == EndedBySignal(turn)
  IN /\ abort[a] = "idle"
     /\ abort' = [abort EXCEPT ![a] = "called"]
     /\ target' = [target EXCEPT ![a] = inFlightTurns[k]]
     /\ sessions' = Touched(sessions, k)
     /\ IF turn = None
        THEN UNCHANGED <<aborted, registered, waiting, activeTurnReplays>>
        ELSE /\ aborted' = aborted \cup {turn}
             /\ waiting' = waiting \ ended
             /\ registered' = registered \ (ended \cap ElicitReq)
             /\ activeTurnReplays' =
                  IF ended \cap ElicitReq = {} \/ emitSinks[KeyOf[turn]] = None
                  THEN activeTurnReplays ELSE Recorded(turn)
     /\ UNCHANGED <<inFlightTurns, turnVars, controller, emitSinks, turnCompletions,
                    asker, shownIn, awaits, outdated>>

\* What abortTurn finds to wait for once router.abort has returned.
Completion_Unlooked(k) == None
Completion(k) == turnCompletions[k]

\* It reads turnCompletions a microtask later, and returns if nothing is there.
AbortLooksUp(a) ==
  LET pending == Completion(AbortKeyOf[a])
  IN /\ abort[a] = "called"
     /\ awaits' = [awaits EXCEPT ![a] = pending]
     /\ abort' = [abort EXCEPT ![a] = IF pending = None THEN "returned" ELSE "waiting"]
     /\ UNCHANGED <<routerVars, turnVars, agentVars, sinkVars, promptVars, target,
                    outdated>>

\* The completion it awaits has been resolved.
AbortReturns(a) ==
  /\ abort[a] = "waiting"
  /\ call[awaits[a]] = "done"
  /\ abort' = [abort EXCEPT ![a] = "returned"]
  /\ UNCHANGED <<routerVars, turnVars, agentVars, sinkVars, promptVars, awaits, target,
                 outdated>>

gatewayVars == <<turnVars, agentVars, sinkVars, promptVars, abortVars, outdated>>

\* closeSession drops the record; a turn in flight is not aborted.
CloseSession(k) == Close(k) /\ UNCHANGED gatewayVars

\* A configuration change invalidates the project runtimes and marks the
\* sessions. Every AgentSession that stands is built from a superseded
\* configuration from now on. (So may one be whose construction is under way:
\* which of the two it reads is not known to the model.)
ConfigChanges ==
  /\ MarkAllDirty
  /\ outdated' = {t \in Turn : pump[t] \notin {"off", "creating", "recreating"}}
  /\ UNCHANGED <<turnVars, agentVars, sinkVars, promptVars, abortVars>>

ExtensionChanges(p) == MarkProjectDirty(p) /\ UNCHANGED gatewayVars
DescribeServer == SessionCount /\ UNCHANGED gatewayVars
TimePasses == IdleTimeoutElapses /\ UNCHANGED gatewayVars

---------------------------------------------------------------------------
TurnStep(t) ==
  \/ Begin(t) \/ RejectBusy(t) \/ Drained(t) \/ Unwound(t)
  \/ Created(t) \/ Recreated(t) \/ AgentStarts(t) \/ AgentEnds(t)

AbortStep(a) == AbortLooksUp(a) \/ AbortReturns(a)

Environment ==
  \/ \E k \in Key : CloseSession(k)
  \/ \E p \in Project : ExtensionChanges(p)
  \/ ConfigChanges \/ DescribeServer \/ TimePasses

Next ==
  \/ \E t \in Turn :
       \/ Submit(t) \/ TurnStep(t) \/ Abandon(t) \/ SubmitFails(t) \/ AgentEvent(t)
       \/ \E r \in PermissionReq : AskPermission(t, r)
       \/ \E r \in ElicitReq : AskUser(t, r)
  \/ \E r \in Request : Answer(r)
  \/ \E a \in AbortCall : AbortTurn(a) \/ AbortStep(a)
  \/ Environment

Spec == Init /\ [][Next]_vars

\* Promises settle, the agent's turn comes to an end (its loop is bounded by
\* maxTurns) and clients drain their streams. Nothing is assumed of the user.
Fairness ==
  /\ \A t \in Turn : WF_vars(TurnStep(t))
  /\ \A a \in AbortCall : WF_vars(AbortStep(a))

FairSpec == Spec /\ Fairness

\* A user who answers every prompt that is on the screen. (No part of FairSpec.)
UserAnswers == \A r \in Request : WF_vars(Answer(r))

---------------------------------------------------------------------------
\* Properties.

Active(t) == call[t] = "streaming"
PumpAlive(t) == pump[t] \notin {"off", "closed"}

SlotAgrees(k) ==
  LET t == inFlightTurns[k]
  IN IF t = None
     THEN emitSinks[k] = None /\ activeTurnReplays[k] = None
     ELSE /\ KeyOf[t] = k
          /\ Active(t)
          /\ emitSinks[k] = t
          /\ turnCompletions[k] = t
          /\ activeTurnReplays[k] # None
          /\ activeTurnReplays[k].runId = t

\* The slot, the sink, the replay buffer and the completion of a session key are
\* installed and removed by different statements of submitTurn, but they always
\* belong to the same turn: the one whose stream is open. (The completion may
\* outlive the slot, until that turn has unwound.)
SlotOwnership ==
  /\ \A t \in Turn : Active(t) => inFlightTurns[KeyOf[t]] = t
  /\ \A k \in Key : SlotAgrees(k)

\* abortTurn: "once abortTurn resolves, a fresh submitTurn for the same session is
\* guaranteed not to be rejected with session_busy" on account of the turn that
\* was in flight when the abort was made.
AbortContract ==
  \A a \in AbortCall :
    abort[a] = "returned" /\ target[a] # None => ~Active(target[a])

\* Why it holds, as an inductive invariant with SlotOwnership: from the call of
\* abortTurn to its return, either the turn it was aimed at is over or it is that
\* very turn's completion that the call finds, awaits and sees resolved.
AbortAim ==
  \A a \in AbortCall :
    LET t == target[a]
    IN t # None =>
         /\ KeyOf[t] = AbortKeyOf[a]
         /\ call[t] \in {"streaming", "unwinding", "done"}
         /\ abort[a] = "waiting" /\ Active(t) => awaits[a] = t
         /\ abort[a] = "returned" => ~Active(t)

\* No two turns of one session key drive an agent at the same time: they would
\* share the message history and append to the same transcript.
OnePumpPerKey ==
  \A t, u \in Turn :
    PumpAlive(t) /\ PumpAlive(u) /\ KeyOf[t] = KeyOf[u] => t = u

\* While a turn runs, the session the router would abort is the session the turn
\* runs on, and its AbortController is this turn's: router.abort reaches it.
\* (Unless the session was closed under the turn: then nothing is reached.)
AbortReachesAgent ==
  \A t \in Turn :
    LET record == sessions[KeyOf[t]]
    IN pump[t] = "running" /\ record # None =>
         record.session = agent[t] /\ controller[agent[t]] = t

\* A prompt on a bus belongs to the turn whose stream is open, was shown in that
\* stream, and an agent parked on an answer has an entry there: prompts neither
\* outlive their turn nor wait where no answer or rejection can find them.
PromptsEndWithTurn ==
  /\ waiting \subseteq registered
  /\ \A r \in registered : Active(asker[r]) /\ shownIn[r] = asker[r]

\* "so a subsequent turn doesn't see stale state" (the finally of submitTurn): the
\* replay a late subscriber gets holds events of the turn it names and no other.
ReplayIsOwn ==
  \A k \in Key :
    activeTurnReplays[k] # None =>
      activeTurnReplays[k].from \subseteq {activeTurnReplays[k].runId}

\* The refresh before a turn "guarantees a fresh apiKey/url is in effect for the
\* very next turn": a turn never begins on a session that stood when a change was
\* noticed, whether it was idle then, in use, or swept and made anew since.
NextTurnIsFresh ==
  [][\A t \in Turn :
       call[t] = "refreshing" /\ Active(t)' /\ pump'[t] = "attaching" =>
         agent'[t] \notin outdated]_vars

\* The promise of TurnSlot is kept.
Entered == {t \in Turn : call[t] \in {"streaming", "unwinding", "done"}}
AbortStage == [a \in AbortCall |->
                 IF abort[a] \in {"called", "waiting"} THEN "pending" ELSE abort[a]]
Slot == INSTANCE TurnSlot WITH
  holder <- inFlightTurns, admitted <- Entered, abort <- AbortStage
ImplementsTurnSlot == Slot!Spec

\* An abort that has reached the turn it waits for returns, even if the user never
\* answers the prompt the agent was parked on.
EffectiveAbortReturns ==
  \A a \in AbortCall :
    (abort[a] = "waiting" /\ awaits[a] \in aborted) ~> (abort[a] = "returned")

\* With a user who answers, every accepted turn unwinds and frees its session.
TurnUnwinds == UserAnswers => \A t \in Turn : Active(t) ~> (call[t] = "done")
=============================================================================
