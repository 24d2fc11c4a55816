------------------------- MODULE InProcessGateway_proofs -------------------------
(***************************************************************************)
(* What TLC checks on two turns of one session key, for any number of      *)
(* turns, keys, prompts and abort calls: turns do not overlap and their    *)
(* answers are their own; a turn never starts on a session object that a   *)
(* configuration change has superseded; and, when clients drain their      *)
(* streams, agents, replay buffers and prompts of a session belong to the  *)
(* one turn whose stream is open.                                          *)
(***************************************************************************)
EXTENDS InProcessGateway, TLAPS

\* The initial state has the types.
LEMMA InitTypeOK == Init => TypeOK
  BY RouterAssumption, GatewayAssumption
  DEF Init, RouterInit, TypeOK, RouterTypeOK, CallState, PumpState, AbortState, Request

\* Every table the router computes is a session table again.
LEMMA SweptType ==
  ASSUME RouterTypeOK
  PROVE  Swept \in [Key -> SessionRecord \cup {None}]
  BY DEF RouterTypeOK, Swept

LEMMA TouchedType ==
  ASSUME NEW table \in [Key -> SessionRecord \cup {None}], NEW k \in Key
  PROVE  Touched(table, k) \in [Key -> SessionRecord \cup {None}]
  <1>1. CASE table[k] = None
    BY <1>1 DEF Touched
  <1>2. CASE table[k] # None
    <2>1. [table[k] EXCEPT !.stale = FALSE] \in SessionRecord
      BY <1>2 DEF SessionRecord
    <2> QED BY <1>2, <2>1 DEF Touched
  <1> QED BY <1>1, <1>2

LEMMA RecordedType ==
  ASSUME TypeOK, NEW t \in Turn
  PROVE  Recorded(t) \in [Key -> Replay \cup {None}]
  <1> DEFINE k == KeyOf[t]
  <1>1. k \in Key
    BY RouterAssumption
  <1>2. CASE activeTurnReplays[k] = None
    BY <1>1, <1>2 DEF TypeOK, Recorded
  <1>3. CASE activeTurnReplays[k] # None
    <2>1. activeTurnReplays[k] \in Replay
      BY <1>1, <1>3 DEF TypeOK
    <2>2. [activeTurnReplays[k] EXCEPT !.from = @ \cup {t}] \in Replay
      BY <2>1 DEF Replay
    <2> QED BY <1>1, <1>3, <2>2 DEF TypeOK, Recorded
  <1> QED BY <1>2, <1>3

\* The variables that each kind of action leaves alone.
LEMMA StutterTypeOK == TypeOK /\ UNCHANGED vars => TypeOK'
  BY DEF TypeOK, RouterTypeOK, vars, routerVars, turnVars, agentVars, sinkVars,
         promptVars, abortVars

\* The steps of the submitTurn call.
LEMMA SubmitTypeOK ==
  ASSUME TypeOK, NEW t \in Turn, Submit(t) \/ RejectBusy(t) \/ Unwound(t)
  PROVE  TypeOK'
  <1> USE RouterAssumption, SweptType
  <1> USE DEF TypeOK, RouterTypeOK, routerVars, turnVars, agentVars, sinkVars,
             promptVars, abortVars, CallState
  <1>1. CASE Submit(t)
    BY <1>1 DEF Submit
  <1>2. CASE RejectBusy(t)
    BY <1>2 DEF RejectBusy
  <1>3. CASE Unwound(t)
    BY <1>3 DEF Unwound, CompletionAfter
  <1> QED BY <1>1, <1>2, <1>3

LEMMA GetOrCreateType ==
  ASSUME TypeOK, NEW t \in Turn, GetOrCreate(t)
  PROVE  /\ sessions' \in [Key -> SessionRecord \cup {None}]
         /\ pump' \in [Turn -> PumpState]
         /\ agent' \in [Turn -> Turn \cup {None}]
         /\ cached' \in [Turn -> Turn \cup {None}]
  <1> DEFINE k == KeyOf[t]
             record == Swept[k]
             merged == [record EXCEPT !.project = MergedProject(record, t)]
  <1>1. k \in Key /\ ProjectOf[t] \in Project \cup {None}
    BY RouterAssumption
  <1>2. Swept \in [Key -> SessionRecord \cup {None}]
    BY SweptType DEF TypeOK
  <1>3. CASE record = None
    BY <1>2, <1>3 DEF GetOrCreate, TypeOK, PumpState
  <1>4. CASE record # None
    <2>1. record \in SessionRecord
      BY <1>1, <1>2, <1>4
    <2>2. /\ merged \in SessionRecord
          /\ [merged EXCEPT !.stale = FALSE] \in SessionRecord
          /\ record.rec \in Turn /\ record.session \in Turn
      BY <2>1, <1>1 DEF SessionRecord, MergedProject
    <2>3. CASE record.dirty
      BY <1>1, <1>2, <1>4, <2>2, <2>3 DEF GetOrCreate, TypeOK, PumpState
    <2>4. CASE ~record.dirty
      BY <1>1, <1>2, <1>4, <2>2, <2>4 DEF GetOrCreate, TypeOK, PumpState
    <2> QED BY <2>3, <2>4
  <1> QED BY <1>3, <1>4

LEMMA BeginTypeOK ==
  ASSUME TypeOK, NEW t \in Turn, Begin(t)
  PROVE  TypeOK'
  <1>1. KeyOf[t] \in Key /\ [runId |-> t, from |-> {}] \in Replay
    BY RouterAssumption DEF Replay
  <1>2. /\ sessions' \in [Key -> SessionRecord \cup {None}]
        /\ pump' \in [Turn -> PumpState]
        /\ agent' \in [Turn -> Turn \cup {None}]
        /\ cached' \in [Turn -> Turn \cup {None}]
    BY GetOrCreateType DEF Begin
  <1> QED BY <1>1, <1>2 DEF Begin, TypeOK, RouterTypeOK, CallState, agentVars,
             promptVars, abortVars

LEMMA TurnEndsTypeOK ==
  ASSUME TypeOK, NEW t \in Turn, Drained(t) \/ Abandon(t)
  PROVE  TypeOK'
  <1>1. TurnEnds(t)
    BY DEF Drained, Abandon
  <1>2. KeyOf[t] \in Key
    BY RouterAssumption
  <1>3. sessions' \in [Key -> SessionRecord \cup {None}]
    BY <1>1, <1>2, TouchedType DEF TypeOK, RouterTypeOK, TurnEnds
  <1> QED BY <1>1, <1>2, <1>3 DEF TurnEnds, TypeOK, RouterTypeOK, CallState, SlotAfterEnd,
             agentVars, abortVars

\* The steps of the pump.
LEMMA PumpTypeOK ==
  ASSUME TypeOK, NEW t \in Turn,
         SubmitFails(t) \/ AgentStarts(t) \/ AgentEvent(t) \/ AgentEnds(t)
  PROVE  TypeOK'
  <1> USE RecordedType
  <1> USE DEF TypeOK, RouterTypeOK, routerVars, turnVars, agentVars, sinkVars,
             promptVars, abortVars, PumpState
  <1>1. CASE SubmitFails(t)
    BY <1>1 DEF SubmitFails
  <1>2. CASE AgentStarts(t)
    BY <1>2 DEF AgentStarts
  <1>3. CASE AgentEvent(t)
    BY <1>3 DEF AgentEvent
  <1>4. CASE AgentEnds(t)
    BY <1>4 DEF AgentEnds
  <1> QED BY <1>1, <1>2, <1>3, <1>4

LEMMA CreatedTypeOK ==
  ASSUME TypeOK, NEW t \in Turn, Created(t) \/ Recreated(t)
  PROVE  TypeOK'
  <1> DEFINE k == KeyOf[t]
  <1>1. k \in Key /\ ProjectOf[t] \in Project \cup {None}
    BY RouterAssumption
  <1>2. sessions' \in [Key -> SessionRecord \cup {None}]
    <2>1. CASE Created(t)
      <3>1. NewRecord(t) \in SessionRecord
        BY <1>1 DEF NewRecord, SessionRecord
      <3> QED BY <1>1, <2>1, <3>1 DEF Created, TypeOK, RouterTypeOK
    <2>2. CASE Recreated(t) /\ sessions[k] = None
      BY <2>2 DEF Recreated, TypeOK, RouterTypeOK
    <2>3. CASE Recreated(t) /\ sessions[k] # None
      <3>1. sessions[k] \in SessionRecord
        BY <1>1, <2>3 DEF TypeOK, RouterTypeOK
      <3>2. Rebuilt(sessions[k], t) \in SessionRecord
        BY <3>1 DEF Rebuilt, SessionRecord
      <3> QED BY <1>1, <2>3, <3>2 DEF Recreated, TypeOK, RouterTypeOK
    <2> QED BY <2>1, <2>2, <2>3
  <1>3. /\ pump' \in [Turn -> PumpState]
        /\ agent' \in [Turn -> Turn \cup {None}]
        /\ UNCHANGED <<inFlightTurns, call, cached, agentVars, sinkVars, promptVars,
                       abortVars, outdated>>
    BY DEF Created, Recreated, TypeOK, PumpState
  <1> QED BY <1>2, <1>3 DEF TypeOK, RouterTypeOK, agentVars, sinkVars, promptVars, abortVars

\* Prompts.
LEMMA PromptTypeOK ==
  ASSUME TypeOK, NEW r \in Request,
         \/ \E t \in Turn : r \in PermissionReq /\ AskPermission(t, r)
         \/ \E t \in Turn : r \in ElicitReq /\ AskUser(t, r)
         \/ Answer(r)
  PROVE  TypeOK'
  <1> USE DEF TypeOK, RouterTypeOK, routerVars, turnVars, agentVars, sinkVars, abortVars
  <1>1. ASSUME NEW t \in Turn, AskPermission(t, r) PROVE TypeOK'
    BY <1>1, RouterAssumption, RecordedType DEF AskPermission
  <1>2. ASSUME NEW t \in Turn, AskUser(t, r) PROVE TypeOK'
    BY <1>2, RouterAssumption, RecordedType DEF AskUser
  <1>3. CASE Answer(r)
    BY <1>3 DEF Answer, Resolved
  <1> QED BY <1>1, <1>2, <1>3

\* Aborts.
LEMMA AbortTypeOK ==
  ASSUME TypeOK, NEW a \in AbortCall, AbortTurn(a) \/ AbortStep(a)
  PROVE  TypeOK'
  <1> DEFINE k == AbortKeyOf[a]
             turn == IF sessions[k] = None THEN None ELSE controller[sessions[k].session]
  <1>1. k \in Key
    BY GatewayAssumption
  <1>2. CASE AbortTurn(a)
    <2>1. turn \in Turn \cup {None}
      BY <1>1 DEF TypeOK, RouterTypeOK, SessionRecord
    <2>2. sessions' \in [Key -> SessionRecord \cup {None}]
      BY <1>1, <1>2, TouchedType DEF AbortTurn, TypeOK, RouterTypeOK
    <2>3. aborted' \subseteq Turn
      <3>1. aborted \subseteq Turn
        BY DEF TypeOK
      <3>2. aborted' = aborted \/ (turn # None /\ aborted' = aborted \cup {turn})
        BY <1>2 DEF AbortTurn
      <3> QED BY <2>1, <3>1, <3>2
    <2>4. /\ waiting' \subseteq waiting /\ registered' \subseteq registered
          /\ abort' \in [AbortCall -> AbortState]
          /\ target' \in [AbortCall -> Turn \cup {None}]
          /\ UNCHANGED <<inFlightTurns, turnVars, controller, emitSinks, turnCompletions,
                         asker, shownIn, awaits, outdated>>
      BY <1>1, <1>2 DEF AbortTurn, TypeOK, RouterTypeOK, AbortState
    <2>5. activeTurnReplays' \in [Key -> Replay \cup {None}]
      <3>1. \A t \in Turn : Recorded(t) \in [Key -> Replay \cup {None}]
        BY RecordedType
      <3>2. \/ activeTurnReplays' = activeTurnReplays
            \/ turn \in Turn /\ activeTurnReplays' = Recorded(turn)
        BY <1>2, <2>1 DEF AbortTurn
      <3> QED BY <3>1, <3>2 DEF TypeOK
    <2> QED BY <2>2, <2>3, <2>4, <2>5 DEF TypeOK, RouterTypeOK, turnVars
  <1>3. CASE AbortStep(a)
    BY <1>1, <1>3 DEF AbortStep, AbortLooksUp, AbortReturns, Completion, TypeOK, RouterTypeOK,
       AbortState, routerVars, turnVars, agentVars, sinkVars, promptVars
  <1> QED BY <1>2, <1>3

\* What happens to the table behind the turns' backs.
LEMMA EnvironmentTypeOK ==
  ASSUME TypeOK, Environment
  PROVE  TypeOK'
  <1> DEFINE Table == [Key -> SessionRecord \cup {None}]
             Rest == UNCHANGED <<inFlightTurns, turnVars, agentVars, sinkVars, promptVars,
                                 abortVars>>
  <1>1. \A record \in SessionRecord :
          /\ [record EXCEPT !.dirty = TRUE] \in SessionRecord
          /\ [record EXCEPT !.stale = TRUE] \in SessionRecord
    BY DEF SessionRecord
  <1>2. sessions \in Table /\ Swept \in Table
    BY SweptType DEF TypeOK, RouterTypeOK
  <1>3. sessions' \in Table /\ outdated' \subseteq Turn /\ Rest
    <2> USE <1>2 DEF gatewayVars
    <2>1. CASE \E k \in Key : CloseSession(k)
      BY <2>1 DEF CloseSession, Close, TypeOK
    <2>2. CASE \E p \in Project : ExtensionChanges(p)
      <3>1. PICK p \in Project : ExtensionChanges(p)
        BY <2>2
      <3>2. sessions' \in Table
        BY <1>1, <3>1 DEF ExtensionChanges, MarkProjectDirty
      <3> QED BY <3>1, <3>2 DEF ExtensionChanges, MarkProjectDirty, TypeOK
    <2>3. CASE ConfigChanges
      BY <1>1, <2>3 DEF ConfigChanges, MarkAllDirty, MarkedByAll, TypeOK
    <2>4. CASE DescribeServer
      BY <2>4 DEF DescribeServer, SessionCount, TypeOK
    <2>5. CASE TimePasses
      BY <1>1, <2>5 DEF TimePasses, IdleTimeoutElapses, TypeOK
    <2> QED BY <2>1, <2>2, <2>3, <2>4, <2>5 DEF Environment
  <1> QED BY <1>3 DEF TypeOK, RouterTypeOK, turnVars, agentVars, sinkVars, promptVars, abortVars

LEMMA StepTypeOK == TypeOK /\ [Next]_vars => TypeOK'
  <1> SUFFICES ASSUME TypeOK, [Next]_vars PROVE TypeOK'
    OBVIOUS
  <1>1. ASSUME NEW t \in Turn,
               Submit(t) \/ TurnStep(t) \/ Abandon(t) \/ SubmitFails(t) \/ AgentEvent(t)
        PROVE  TypeOK'
    BY <1>1, SubmitTypeOK, BeginTypeOK, TurnEndsTypeOK, PumpTypeOK, CreatedTypeOK
    DEF TurnStep
  <1>2. ASSUME NEW t \in Turn, NEW r \in PermissionReq, AskPermission(t, r)
        PROVE  TypeOK'
    BY <1>2, PromptTypeOK DEF Request
  <1>3. ASSUME NEW t \in Turn, NEW r \in ElicitReq, AskUser(t, r)
        PROVE  TypeOK'
    BY <1>3, PromptTypeOK DEF Request
  <1>4. ASSUME NEW r \in Request, Answer(r) PROVE TypeOK'
    BY <1>4, PromptTypeOK
  <1>5. ASSUME NEW a \in AbortCall, AbortTurn(a) \/ AbortStep(a) PROVE TypeOK'
    BY <1>5, AbortTypeOK
  <1>6. CASE Environment
    BY <1>6, EnvironmentTypeOK
  <1>7. CASE UNCHANGED vars
    BY <1>7, StutterTypeOK
  <1> QED BY <1>1, <1>2, <1>3, <1>4, <1>5, <1>6, <1>7 DEF Next

\* Whatever the turns, the prompts, the aborts and the configuration do, the
\* gateway's tables keep their types; above all, a bus holds only requests that
\* some turn's agent made.
THEOREM TypeCorrect == Spec => []TypeOK
  BY InitTypeOK, StepTypeOK, PTL DEF Spec

---------------------------------------------------------------------------
\* One turn at a time.

\* Recording an event changes neither whether a key has a replay buffer nor whose
\* buffer it is.
LEMMA RecordedKeeps ==
  ASSUME TypeOK, NEW t \in Turn, NEW k \in Key
  PROVE  /\ Recorded(t)[k] = None <=> activeTurnReplays[k] = None
         /\ activeTurnReplays[k] # None => Recorded(t)[k].runId = activeTurnReplays[k].runId
  <1> DEFINE replay == activeTurnReplays[KeyOf[t]]
             more == [replay EXCEPT !.from = replay.from \cup {t}]
  <1>1. KeyOf[t] \in Key
    BY RouterAssumption
  <1>2. CASE replay = None \/ k # KeyOf[t]
    BY <1>1, <1>2 DEF Recorded, TypeOK
  <1>3. CASE replay # None /\ k = KeyOf[t]
    <2>1. replay \in Replay
      BY <1>1, <1>3 DEF TypeOK
    <2>2. more \in Replay /\ more.runId = replay.runId
      BY <2>1 DEF Replay
    <2>3. Recorded(t)[k] = more
      BY <1>1, <1>3 DEF Recorded, TypeOK
    <2>4. more # None
      BY <2>2, GatewayAssumption
    <2> QED BY <1>3, <2>2, <2>3, <2>4
  <1> QED BY <1>2, <1>3

\* SlotOwnership is inductive given the types.
LEMMA InitSlot == Init => SlotOwnership
  BY RouterAssumption DEF Init, RouterInit, SlotOwnership, SlotAgrees, Active

\* Most steps leave the slots, the sinks, the completions and the set of open
\* streams alone and do at most record an event.
LEMMA SlotKept ==
  ASSUME TypeOK, SlotOwnership,
         UNCHANGED <<inFlightTurns, emitSinks, turnCompletions>>,
         \A t \in Turn : Active(t)' = Active(t),
         \/ activeTurnReplays' = activeTurnReplays
         \/ \E u \in Turn : activeTurnReplays' = Recorded(u)
  PROVE  SlotOwnership'
  <1>1. \A k \in Key :
          /\ activeTurnReplays'[k] = None <=> activeTurnReplays[k] = None
          /\ activeTurnReplays[k] # None =>
               activeTurnReplays'[k].runId = activeTurnReplays[k].runId
    BY RecordedKeeps
  <1>2. \A k \in Key : inFlightTurns[k] \in Turn \cup {None}
    BY DEF TypeOK, RouterTypeOK
  <1> QED BY <1>1, <1>2 DEF SlotOwnership, SlotAgrees

LEMMA BeginSlot ==
  ASSUME TypeOK, SlotOwnership, NEW t \in Turn, Begin(t)
  PROVE  SlotOwnership'
  <1> DEFINE k == KeyOf[t]
  <1>1. k \in Key /\ inFlightTurns[k] = None /\ t # None
    BY RouterAssumption DEF Begin, SlotFree
  <1>2. /\ inFlightTurns' = [inFlightTurns EXCEPT ![k] = t]
        /\ call' = [call EXCEPT ![t] = "streaming"]
        /\ turnCompletions' = [turnCompletions EXCEPT ![k] = t]
        /\ activeTurnReplays' = [activeTurnReplays EXCEPT ![k] = [runId |-> t, from |-> {}]]
        /\ emitSinks' = [emitSinks EXCEPT ![k] = t]
    BY DEF Begin
  <1>3. ASSUME NEW u \in Turn, Active(u)'
        PROVE  inFlightTurns'[KeyOf[u]] = u
    <2>1. KeyOf[u] \in Key
      BY RouterAssumption
    <2>2. CASE u = t
      BY <1>1, <1>2, <2>2 DEF TypeOK, RouterTypeOK
    <2>3. CASE u # t
      <3>1. Active(u)
        BY <1>2, <1>3, <2>3 DEF Active, TypeOK
      <3>2. inFlightTurns[KeyOf[u]] = u /\ KeyOf[u] # k
        BY <1>1, <3>1, RouterAssumption DEF SlotOwnership, SlotAgrees
      <3> QED BY <1>1, <1>2, <2>1, <3>2 DEF TypeOK, RouterTypeOK
    <2> QED BY <2>2, <2>3
  <1>4. ASSUME NEW j \in Key, j # k, inFlightTurns[j] # None
        PROVE  Active(inFlightTurns[j])'
    <2>1. inFlightTurns[j] \in Turn /\ Active(inFlightTurns[j]) /\ inFlightTurns[j] # t
      BY <1>1, <1>4 DEF SlotOwnership, SlotAgrees, TypeOK, RouterTypeOK
    <2> QED BY <1>2, <2>1 DEF Active, TypeOK
  <1>5. [runId |-> t, from |-> {}] # None
    BY GatewayAssumption DEF Replay
  <1>6. \A j \in Key : j # k =>
          /\ inFlightTurns'[j] = inFlightTurns[j]
          /\ turnCompletions'[j] = turnCompletions[j]
          /\ activeTurnReplays'[j] = activeTurnReplays[j]
          /\ emitSinks'[j] = emitSinks[j]
    BY <1>2 DEF TypeOK, RouterTypeOK
  <1>7. Active(t)'
    BY <1>2 DEF Active, TypeOK
  <1>8. /\ inFlightTurns'[k] = t /\ turnCompletions'[k] = t /\ emitSinks'[k] = t
        /\ activeTurnReplays'[k] = [runId |-> t, from |-> {}]
    BY <1>1, <1>2 DEF TypeOK, RouterTypeOK
  <1>9. ASSUME NEW j \in Key
        PROVE  SlotAgrees(j)'
    <2>1. CASE j = k
      BY <1>1, <1>5, <1>7, <1>8, <2>1 DEF SlotAgrees
    <2>2. CASE j # k
      BY <1>4, <1>6, <2>2 DEF SlotOwnership, SlotAgrees
    <2> QED BY <2>1, <2>2
  <1> QED BY <1>3, <1>9 DEF SlotOwnership, SlotAgrees

LEMMA TurnEndsSlot ==
  ASSUME TypeOK, SlotOwnership, NEW t \in Turn, Active(t), TurnEnds(t)
  PROVE  SlotOwnership'
  <1> DEFINE k == KeyOf[t]
  <1>1. k \in Key /\ inFlightTurns[k] = t
    BY RouterAssumption DEF SlotOwnership, SlotAgrees
  <1>2. /\ inFlightTurns' = [inFlightTurns EXCEPT ![k] = None]
        /\ call' = [call EXCEPT ![t] = "unwinding"]
        /\ turnCompletions' = turnCompletions
        /\ activeTurnReplays' = [activeTurnReplays EXCEPT ![k] = None]
        /\ emitSinks' = [emitSinks EXCEPT ![k] = None]
    BY <1>1 DEF TurnEnds, SlotAfterEnd
  <1>3. \A u \in Turn : Active(u)' <=> Active(u) /\ u # t
    BY <1>2 DEF Active, TypeOK
  <1>4. ASSUME NEW j \in Key, j # k
        PROVE  /\ inFlightTurns'[j] = inFlightTurns[j]
               /\ activeTurnReplays'[j] = activeTurnReplays[j]
               /\ emitSinks'[j] = emitSinks[j]
               /\ inFlightTurns[j] # None => inFlightTurns[j] \in Turn \ {t}
    BY <1>1, <1>2, <1>4 DEF TypeOK, RouterTypeOK, SlotOwnership, SlotAgrees
  <1>5. inFlightTurns'[k] = None /\ emitSinks'[k] = None /\ activeTurnReplays'[k] = None
    BY <1>1, <1>2 DEF TypeOK, RouterTypeOK
  <1>6. ASSUME NEW u \in Turn, Active(u)'
        PROVE  inFlightTurns'[KeyOf[u]] = u
    <2>1. KeyOf[u] \in Key /\ inFlightTurns[KeyOf[u]] = u /\ KeyOf[u] # k
      BY <1>1, <1>3, <1>6, RouterAssumption DEF SlotOwnership, SlotAgrees
    <2> QED BY <1>4, <2>1
  <1> QED BY <1>2, <1>3, <1>4, <1>5, <1>6 DEF SlotOwnership, SlotAgrees

LEMMA UnwoundSlot ==
  ASSUME TypeOK, SlotOwnership, NEW t \in Turn, Unwound(t)
  PROVE  SlotOwnership'
  <1>1. ~Active(t) /\ \A u \in Turn : Active(u)' = Active(u)
    BY DEF Unwound, Active, TypeOK
  <1>2. ASSUME NEW j \in Key, inFlightTurns[j] # None
        PROVE  turnCompletions'[j] = turnCompletions[j]
    <2>1. turnCompletions[j] # t
      BY <1>1, <1>2 DEF SlotOwnership, SlotAgrees
    <2>2. KeyOf[t] \in Key
      BY RouterAssumption
    <2> QED BY <2>1, <2>2 DEF Unwound, CompletionAfter, TypeOK
  <1>3. UNCHANGED <<inFlightTurns, emitSinks, activeTurnReplays>>
    BY DEF Unwound, routerVars
  <1>4. \A j \in Key : inFlightTurns[j] \in Turn \cup {None}
    BY DEF TypeOK, RouterTypeOK
  <1> QED BY <1>1, <1>2, <1>3, <1>4 DEF SlotOwnership, SlotAgrees
\* The other steps of a turn, each in its own words.
LEMMA OtherTurnStepSlot ==
  ASSUME TypeOK, SlotOwnership, NEW t \in Turn,
         \/ Submit(t) \/ RejectBusy(t) \/ Created(t) \/ Recreated(t) \/ AgentStarts(t)
         \/ AgentEnds(t) \/ SubmitFails(t) \/ AgentEvent(t)
         \/ \E r \in PermissionReq : AskPermission(t, r)
         \/ \E r \in ElicitReq : AskUser(t, r)
  PROVE  SlotOwnership'
  <1>1. UNCHANGED <<inFlightTurns, emitSinks, turnCompletions>>
    BY DEF Submit, RejectBusy, Created, Recreated, AgentStarts, AgentEnds, SubmitFails,
       AgentEvent, AskPermission, AskUser, routerVars, sinkVars
  <1>2. \A u \in Turn : Active(u)' = Active(u)
    <2>1. CASE Submit(t) \/ RejectBusy(t)
      BY <2>1 DEF Submit, RejectBusy, Active, TypeOK
    <2>2. CASE ~(Submit(t) \/ RejectBusy(t))
      <3>1. call' = call
        BY <2>2 DEF Created, Recreated, AgentStarts, AgentEnds, SubmitFails,
           AgentEvent, AskPermission, AskUser, turnVars
      <3> QED BY <3>1 DEF Active
    <2> QED BY <2>1, <2>2
  <1>3. activeTurnReplays' = activeTurnReplays \/ activeTurnReplays' = Recorded(t)
    BY DEF Submit, RejectBusy, Created, Recreated, AgentStarts, AgentEnds, SubmitFails,
       AgentEvent, AskPermission, AskUser, sinkVars
  <1> QED BY <1>1, <1>2, <1>3, SlotKept

\* Steps that are no turn's: answers, aborts, the environment.
OtherStep ==
  \/ \E r \in Request : Answer(r)
  \/ \E a \in AbortCall : AbortTurn(a) \/ AbortStep(a)
  \/ Environment
  \/ UNCHANGED vars

LEMMA OtherStepKeeps ==
  OtherStep => UNCHANGED <<inFlightTurns, emitSinks, turnCompletions, call>>
  BY DEF OtherStep, Answer, AbortTurn, AbortStep, AbortLooksUp, AbortReturns, Environment,
     CloseSession, Close, ExtensionChanges, MarkProjectDirty, ConfigChanges, MarkAllDirty,
     DescribeServer, SessionCount, TimePasses, IdleTimeoutElapses, gatewayVars, vars,
     routerVars, turnVars, sinkVars

LEMMA OtherStepReplays ==
  ASSUME TypeOK, OtherStep
  PROVE  \/ activeTurnReplays' = activeTurnReplays
         \/ \E u \in Turn : activeTurnReplays' = Recorded(u)
  <1>1. ASSUME NEW a \in AbortCall, AbortTurn(a)
        PROVE  \/ activeTurnReplays' = activeTurnReplays
               \/ \E u \in Turn : activeTurnReplays' = Recorded(u)
    <2> DEFINE k == AbortKeyOf[a]
               turn == IF sessions[k] = None THEN None ELSE controller[sessions[k].session]
    <2>1. turn \in Turn \cup {None}
      BY GatewayAssumption DEF TypeOK, RouterTypeOK, SessionRecord
    <2> QED BY <1>1, <2>1 DEF AbortTurn
  <1>2. CASE ~\E a \in AbortCall : AbortTurn(a)
    BY <1>2 DEF OtherStep, Answer, AbortStep, AbortLooksUp, AbortReturns, Environment,
       CloseSession, ExtensionChanges, ConfigChanges, DescribeServer, TimePasses,
       gatewayVars, vars, sinkVars
  <1> QED BY <1>1, <1>2

LEMMA StepSlot == TypeOK /\ SlotOwnership /\ [Next]_vars => SlotOwnership'
  <1> SUFFICES ASSUME TypeOK, SlotOwnership, [Next]_vars PROVE SlotOwnership'
    OBVIOUS
  <1>1. ASSUME NEW t \in Turn,
               \/ Submit(t) \/ TurnStep(t) \/ Abandon(t) \/ SubmitFails(t) \/ AgentEvent(t)
               \/ \E r \in PermissionReq : AskPermission(t, r)
               \/ \E r \in ElicitReq : AskUser(t, r)
        PROVE  SlotOwnership'
    <2>1. CASE Begin(t)
      BY <2>1, BeginSlot
    <2>2. CASE Drained(t) \/ Abandon(t)
      BY <2>2, TurnEndsSlot DEF Drained, Abandon, Active
    <2>3. CASE Unwound(t)
      BY <2>3, UnwoundSlot
    <2> QED BY <1>1, <2>1, <2>2, <2>3, OtherTurnStepSlot DEF TurnStep
  <1>2. CASE OtherStep
    BY <1>2, OtherStepKeeps, OtherStepReplays, SlotKept DEF Active
  <1> QED BY <1>1, <1>2 DEF Next, OtherStep

\* Slot, sink, replay buffer and completion of a session always belong to one and
\* the same turn, the one whose stream is open, however calls, answers, aborts,
\* closes and client failures interleave, and for any number of them.
THEOREM SlotOwned == Spec => []SlotOwnership
  <1>1. Init => TypeOK /\ SlotOwnership
    BY InitTypeOK, InitSlot
  <1>2. TypeOK /\ SlotOwnership /\ [Next]_vars => (TypeOK /\ SlotOwnership)'
    BY StepTypeOK, StepSlot
  <1> QED BY <1>1, <1>2, PTL DEF Spec

---------------------------------------------------------------------------
\* What abortTurn promises.

GatewayInv == TypeOK /\ SlotOwnership /\ AbortAim

LEMMA InitAim == Init => AbortAim
  BY DEF Init, AbortAim

\* A turn that was let in stays let in, and once its stream is over it stays over.
LEMMA EnteredKept ==
  ASSUME TypeOK, [Next]_vars, NEW t \in Entered
  PROVE  t \in Entered' /\ (~Active(t) => ~Active(t)')
  <1> USE DEF Entered, Active, TypeOK
  <1>1. ASSUME NEW u \in Turn,
               \/ Submit(u) \/ TurnStep(u) \/ Abandon(u) \/ SubmitFails(u) \/ AgentEvent(u)
               \/ \E r \in PermissionReq : AskPermission(u, r)
               \/ \E r \in ElicitReq : AskUser(u, r)
        PROVE  t \in Entered' /\ (~Active(t) => ~Active(t)')
    <2>1. CASE Submit(u) \/ RejectBusy(u) \/ Begin(u)
      BY <2>1 DEF Submit, RejectBusy, Begin
    <2>2. CASE Drained(u) \/ Abandon(u) \/ Unwound(u)
      BY <2>2 DEF Drained, Abandon, TurnEnds, Unwound
    <2>3. CASE ~(Submit(u) \/ RejectBusy(u) \/ Begin(u) \/ Drained(u) \/ Abandon(u)
                 \/ Unwound(u))
      <3>1. call' = call
        BY <1>1, <2>3 DEF TurnStep, Created, Recreated, AgentStarts, AgentEnds, SubmitFails,
           AgentEvent, AskPermission, AskUser, turnVars
      <3> QED BY <3>1
    <2> QED BY <2>1, <2>2, <2>3
  <1>2. CASE OtherStep
    BY <1>2, OtherStepKeeps
  <1> QED BY <1>1, <1>2 DEF Next, OtherStep

\* The steps of the abort call itself.
LEMMA AbortCallAim ==
  ASSUME GatewayInv, NEW a \in AbortCall, AbortTurn(a) \/ AbortStep(a)
  PROVE  AbortAim'
  <1> DEFINE k == AbortKeyOf[a]
  <1>1. k \in Key
    BY GatewayAssumption
  <1>2. call' = call
    BY DEF AbortTurn, AbortStep, AbortLooksUp, AbortReturns, turnVars
  <1>3. CASE AbortTurn(a)
    <2>1. /\ target' = [target EXCEPT ![a] = inFlightTurns[k]]
          /\ abort' = [abort EXCEPT ![a] = "called"]
          /\ awaits' = awaits
      BY <1>3 DEF AbortTurn
    <2>2. inFlightTurns[k] # None =>
            KeyOf[inFlightTurns[k]] = k /\ call[inFlightTurns[k]] = "streaming"
      BY <1>1 DEF GatewayInv, SlotOwnership, SlotAgrees, Active
    <2> QED BY <1>2, <2>1, <2>2 DEF GatewayInv, AbortAim, TypeOK, Active
  <1>4. CASE AbortLooksUp(a)
    <2>1. /\ target' = target
          /\ awaits' = [awaits EXCEPT ![a] = turnCompletions[k]]
          /\ abort' = [abort EXCEPT
                        ![a] = IF turnCompletions[k] = None THEN "returned" ELSE "waiting"]
      BY <1>4 DEF AbortLooksUp, Completion
    <2>2. target[a] # None /\ Active(target[a]) => turnCompletions[k] = target[a]
      <3> SUFFICES ASSUME target[a] # None, Active(target[a])
                   PROVE  turnCompletions[k] = target[a]
        OBVIOUS
      <3>1. target[a] \in Turn /\ KeyOf[target[a]] = k
        BY DEF GatewayInv, TypeOK, AbortAim
      <3> QED BY <1>1, <3>1 DEF GatewayInv, SlotOwnership, SlotAgrees
    <2> QED BY <1>2, <2>1, <2>2 DEF GatewayInv, AbortAim, TypeOK, Active
  <1>5. CASE AbortReturns(a)
    <2>1. /\ target' = target /\ awaits' = awaits
          /\ abort' = [abort EXCEPT ![a] = "returned"]
          /\ abort[a] = "waiting" /\ call[awaits[a]] = "done"
      BY <1>5 DEF AbortReturns
    <2>2. target[a] # None => ~Active(target[a])
      BY <2>1 DEF GatewayInv, AbortAim, Active
    <2> QED BY <1>2, <2>1, <2>2 DEF GatewayInv, AbortAim, TypeOK, Active
  <1> QED BY <1>3, <1>4, <1>5 DEF AbortStep

\* Every other step leaves the abort calls where they are.
LEMMA StepAim == GatewayInv /\ [Next]_vars => AbortAim'
  <1> SUFFICES ASSUME GatewayInv, [Next]_vars PROVE AbortAim'
    OBVIOUS
  <1>1. CASE \E a \in AbortCall : AbortTurn(a) \/ AbortStep(a)
    BY <1>1, AbortCallAim
  <1>2. CASE ~\E a \in AbortCall : AbortTurn(a) \/ AbortStep(a)
    <2>1. UNCHANGED <<abort, awaits, target>>
      <3>1. ASSUME NEW u \in Turn,
               \/ Submit(u) \/ TurnStep(u) \/ Abandon(u) \/ SubmitFails(u) \/ AgentEvent(u)
               \/ \E r \in PermissionReq : AskPermission(u, r)
               \/ \E r \in ElicitReq : AskUser(u, r)
            PROVE  UNCHANGED <<abort, awaits, target>>
        BY <3>1 DEF Submit, TurnStep, Abandon, SubmitFails, AgentEvent, AskPermission, AskUser,
           Begin, RejectBusy, Drained, TurnEnds, Unwound, Created, Recreated, AgentStarts,
           AgentEnds, abortVars
      <3>2. ASSUME NEW r \in Request, Answer(r) PROVE UNCHANGED <<abort, awaits, target>>
        BY <3>2 DEF Answer, abortVars
      <3>3. CASE Environment \/ UNCHANGED vars
        BY <3>3 DEF Environment, CloseSession, ExtensionChanges, ConfigChanges,
           DescribeServer, TimePasses, gatewayVars, abortVars, vars
      <3> QED BY <1>2, <3>1, <3>2, <3>3 DEF Next
    <2>2. ASSUME NEW t \in Entered
          PROVE  t \in Entered' /\ (~Active(t) => ~Active(t)')
      BY <2>2, EnteredKept DEF GatewayInv
    <2>3. ASSUME NEW a \in AbortCall, target[a] # None
          PROVE  /\ target[a] \in Entered'
                 /\ Active(target[a])' => Active(target[a])
      <3>1. target[a] \in Turn /\ target[a] \in Entered
        BY <2>3 DEF GatewayInv, TypeOK, AbortAim, Entered
      <3> DEFINE t == target[a]
      <3>2. t \in Entered' /\ (~Active(t) => ~Active(t)')
        BY <2>1, <2>2, <3>1
      <3> QED BY <2>1, <3>2
    <2> QED BY <2>1, <2>3 DEF GatewayInv, AbortAim, Entered
  <1> QED BY <1>1, <1>2

LEMMA GatewayInvariant == Spec => []GatewayInv
  <1>1. Init => GatewayInv
    BY InitTypeOK, InitSlot, InitAim DEF GatewayInv
  <1>2. GatewayInv /\ [Next]_vars => GatewayInv'
    BY StepTypeOK, StepSlot, StepAim DEF GatewayInv
  <1> QED BY <1>1, <1>2, PTL DEF Spec

\* When abortTurn returns, the turn it was aimed at no longer holds the session,
\* whatever the agent, its user, other clients and other aborts did meanwhile.
THEOREM AbortKeepsContract == Spec => []AbortContract
  <1>1. GatewayInv => AbortContract
    BY DEF GatewayInv, AbortAim, AbortContract
  <1> QED BY <1>1, GatewayInvariant, PTL
---------------------------------------------------------------------------
\* The gateway implements TurnSlot.

LEMMA InitRefines == Init => Slot!Init
  BY DEF Init, RouterInit, Slot!Init, Entered, AbortStage

\* Steps that neither let a turn in, nor end one, nor move an abort call on.
LEMMA StutterRefines ==
  ASSUME UNCHANGED <<inFlightTurns, abort, target>>, Entered' = Entered
  PROVE  UNCHANGED Slot!vars
  BY DEF Slot!vars, AbortStage

LEMMA BeginRefines ==
  ASSUME GatewayInv, NEW t \in Turn, Begin(t)
  PROVE  Slot!Acquire(t)
  <1>1. t \notin Entered /\ inFlightTurns[KeyOf[t]] = None
    BY DEF Begin, SlotFree, Entered
  <1>2. Entered' = Entered \cup {t}
    BY DEF Begin, Entered, GatewayInv, TypeOK
  <1> QED BY <1>1, <1>2 DEF Begin, abortVars, AbortStage, Slot!Acquire

LEMMA TurnEndsRefines ==
  ASSUME GatewayInv, NEW t \in Turn, Drained(t) \/ Abandon(t)
  PROVE  Slot!Release(t)
  <1>1. Active(t) /\ TurnEnds(t)
    BY DEF Drained, Abandon, Active
  <1>2. inFlightTurns[KeyOf[t]] = t
    BY <1>1 DEF GatewayInv, SlotOwnership
  <1>3. Entered' = Entered
    BY <1>1 DEF Active, TurnEnds, Entered, GatewayInv, TypeOK
  <1> QED BY <1>1, <1>2, <1>3 DEF TurnEnds, SlotAfterEnd, abortVars, AbortStage, Slot!Release

LEMMA AbortRefines ==
  ASSUME GatewayInv, NEW a \in AbortCall, AbortTurn(a) \/ AbortStep(a)
  PROVE  Slot!CallAbort(a) \/ Slot!ReturnAbort(a) \/ UNCHANGED Slot!vars
  <1>1. Entered' = Entered /\ inFlightTurns' = inFlightTurns
    BY DEF AbortTurn, AbortStep, AbortLooksUp, AbortReturns, routerVars, turnVars, Entered
  <1>2. CASE AbortTurn(a)
    <2>1. AbortStage[a] = "idle" /\ AbortStage' = [AbortStage EXCEPT ![a] = "pending"]
      BY <1>2 DEF AbortTurn, AbortStage, GatewayInv, TypeOK
    <2> QED BY <1>1, <1>2, <2>1 DEF AbortTurn, Slot!CallAbort
  <1>3. CASE AbortLooksUp(a) /\ turnCompletions[AbortKeyOf[a]] # None
    <2>1. AbortStage' = AbortStage
      BY <1>3 DEF AbortLooksUp, Completion, AbortStage, GatewayInv, TypeOK
    <2> QED BY <1>1, <1>3, <2>1 DEF AbortLooksUp, Slot!vars
  <1>4. CASE \/ AbortLooksUp(a) /\ turnCompletions[AbortKeyOf[a]] = None
             \/ AbortReturns(a)
    <2>1. /\ AbortStage[a] = "pending"
          /\ AbortStage' = [AbortStage EXCEPT ![a] = "returned"]
      BY <1>4 DEF AbortLooksUp, AbortReturns, Completion, AbortStage, GatewayInv, TypeOK
    <2>2. target[a] = None \/ inFlightTurns[AbortKeyOf[a]] # target[a]
      <3> SUFFICES ASSUME target[a] # None, inFlightTurns[AbortKeyOf[a]] = target[a]
                   PROVE  FALSE
        OBVIOUS
      <3>1. AbortKeyOf[a] \in Key
        BY GatewayAssumption
      <3>2. Active(target[a]) /\ turnCompletions[AbortKeyOf[a]] = target[a]
        BY <3>1 DEF GatewayInv, SlotOwnership, SlotAgrees
      <3> QED BY <1>4, <3>2 DEF AbortReturns, GatewayInv, AbortAim, Active
    <2>3. target' = target
      BY <1>4 DEF AbortLooksUp, AbortReturns
    <2> QED BY <1>1, <2>1, <2>2, <2>3 DEF Slot!ReturnAbort
  <1> QED BY <1>2, <1>3, <1>4 DEF AbortStep

\* What a turn does between being let in and ending.
LEMMA OtherTurnStepRefines ==
  ASSUME GatewayInv, NEW t \in Turn,
         \/ Submit(t) \/ RejectBusy(t) \/ Unwound(t) \/ Created(t) \/ Recreated(t)
         \/ AgentStarts(t) \/ AgentEnds(t) \/ SubmitFails(t) \/ AgentEvent(t)
         \/ \E r \in PermissionReq : AskPermission(t, r)
         \/ \E r \in ElicitReq : AskUser(t, r)
  PROVE  UNCHANGED Slot!vars
  <1>1. UNCHANGED <<inFlightTurns, abort, target>>
    BY DEF Submit, RejectBusy, Unwound, Created, Recreated, AgentStarts, AgentEnds,
       SubmitFails, AgentEvent, AskPermission, AskUser, routerVars, abortVars
  <1>2. Entered' = Entered
    <2>1. CASE Submit(t) \/ RejectBusy(t) \/ Unwound(t)
      BY <2>1 DEF Submit, RejectBusy, Unwound, Entered, GatewayInv, TypeOK
    <2>2. CASE ~(Submit(t) \/ RejectBusy(t) \/ Unwound(t))
      BY <2>2 DEF Created, Recreated, AgentStarts, AgentEnds, SubmitFails,
         AgentEvent, AskPermission, AskUser, turnVars, Entered
    <2> QED BY <2>1, <2>2
  <1> QED BY <1>1, <1>2, StutterRefines

LEMMA StepRefines == GatewayInv /\ [Next]_vars => [Slot!Next]_Slot!vars
  <1> SUFFICES ASSUME GatewayInv, [Next]_vars PROVE Slot!Next \/ UNCHANGED Slot!vars
    OBVIOUS
  <1>1. ASSUME NEW t \in Turn,
               \/ Submit(t) \/ TurnStep(t) \/ Abandon(t) \/ SubmitFails(t) \/ AgentEvent(t)
               \/ \E r \in PermissionReq : AskPermission(t, r)
               \/ \E r \in ElicitReq : AskUser(t, r)
        PROVE  Slot!Next \/ UNCHANGED Slot!vars
    <2>1. CASE Begin(t)
      BY <2>1, BeginRefines DEF Slot!Next
    <2>2. CASE Drained(t) \/ Abandon(t)
      BY <2>2, TurnEndsRefines DEF Slot!Next
    <2> QED BY <1>1, <2>1, <2>2, OtherTurnStepRefines DEF TurnStep
  <1>2. ASSUME NEW a \in AbortCall, AbortTurn(a) \/ AbortStep(a)
        PROVE  Slot!Next \/ UNCHANGED Slot!vars
    BY <1>2, AbortRefines DEF Slot!Next
  <1>3. CASE (\E r \in Request : Answer(r)) \/ Environment \/ UNCHANGED vars
    <2>1. UNCHANGED <<abort, target>>
      BY <1>3 DEF Answer, Environment, CloseSession, ExtensionChanges, ConfigChanges,
         DescribeServer, TimePasses, gatewayVars, abortVars, vars
    <2>2. UNCHANGED <<inFlightTurns, call>>
      BY <1>3, OtherStepKeeps DEF OtherStep
    <2> QED BY <2>1, <2>2, StutterRefines DEF Entered
  <1> QED BY <1>1, <1>2, <1>3 DEF Next

\* The gateway keeps TurnSlot's promise: a session runs one turn at a time, a call
\* of submitTurn is let in at most once, and an abort that returns has seen its
\* turn give the session up.
THEOREM GatewayImplementsTurnSlot == Spec => ImplementsTurnSlot
  BY InitRefines, StepRefines, GatewayInvariant, PTL DEF Spec, ImplementsTurnSlot, Slot!Spec

---------------------------------------------------------------------------
\* What a step may do to one record, one pump and one call.

\* The record of a key goes, or stays the same record with the same session
\* object, and does not become clean.
RecordKept(k) ==
  \/ sessions'[k] = None
  \/ /\ sessions[k] # None
     /\ sessions'[k].rec = sessions[k].rec
     /\ sessions'[k].session = sessions[k].session
     /\ sessions[k].dirty => sessions'[k].dirty

\* A record that is updated keeps the fields the update does not name.
LEMMA RecordUpdates ==
  ASSUME NEW record \in SessionRecord, NEW p
  PROVE  /\ [record EXCEPT !.stale = p].rec = record.rec
         /\ [record EXCEPT !.stale = p].session = record.session
         /\ [record EXCEPT !.stale = p].dirty = record.dirty
         /\ [record EXCEPT !.project = p].rec = record.rec
         /\ [record EXCEPT !.project = p].session = record.session
         /\ [record EXCEPT !.project = p].dirty = record.dirty
         /\ [record EXCEPT !.dirty = p].rec = record.rec
         /\ [record EXCEPT !.dirty = p].session = record.session
         /\ [record EXCEPT !.dirty = p].dirty = p
  BY DEF SessionRecord

LEMMA SweptKeeps ==
  ASSUME NEW k \in Key
  PROVE  Swept[k] = None \/ Swept[k] = sessions[k]
  BY DEF Swept

LEMMA TouchedKeeps ==
  ASSUME TypeOK, NEW j \in Key, NEW k \in Key, sessions' = Touched(sessions, j)
  PROVE  RecordKept(k)
  <1>1. sessions \in [Key -> SessionRecord \cup {None}]
    BY DEF TypeOK, RouterTypeOK
  <1>2. CASE k # j \/ sessions[k] = None
    BY <1>1, <1>2 DEF Touched, RecordKept
  <1>3. CASE k = j /\ sessions[k] # None
    <2>1. sessions[k] \in SessionRecord /\ sessions'[k] = [sessions[k] EXCEPT !.stale = FALSE]
      BY <1>1, <1>3 DEF Touched
    <2> QED BY <1>3, <2>1, RecordUpdates DEF RecordKept
  <1> QED BY <1>2, <1>3

\* getOrCreate on a hit, clean or dirty, and on a miss.
LEMMA GetOrCreateKeeps ==
  ASSUME TypeOK, NEW t \in Turn, GetOrCreate(t), NEW k \in Key
  PROVE  RecordKept(k)
  <1> DEFINE record == Swept[KeyOf[t]]
             merged == [record EXCEPT !.project = MergedProject(record, t)]
  <1>1. KeyOf[t] \in Key /\ Swept \in [Key -> SessionRecord \cup {None}]
    BY RouterAssumption, SweptType DEF TypeOK
  <1>2. CASE sessions' = Swept
    BY <1>2, SweptKeeps DEF RecordKept
  <1>3. CASE record # None /\ \/ sessions' = [Swept EXCEPT ![KeyOf[t]] = merged]
                              \/ sessions' = [Swept EXCEPT ![KeyOf[t]] =
                                                [merged EXCEPT !.stale = FALSE]]
    <2>1. CASE k # KeyOf[t]
      BY <1>1, <1>3, <2>1, SweptKeeps DEF RecordKept
    <2>2. CASE k = KeyOf[t]
      <3>1. record \in SessionRecord /\ sessions[k] = record
        BY <1>1, <1>3, <2>2, SweptKeeps
      <3>2. /\ merged.rec = record.rec /\ merged.session = record.session
            /\ merged.dirty = record.dirty
        BY <3>1, RecordUpdates
      <3>3. LET used == [merged EXCEPT !.stale = FALSE]
            IN used.rec = merged.rec /\ used.session = merged.session
               /\ used.dirty = merged.dirty
        BY <3>1 DEF SessionRecord
      <3>4. sessions'[k] = merged \/ sessions'[k] = [merged EXCEPT !.stale = FALSE]
        BY <1>1, <1>3, <2>2
      <3> QED BY <1>3, <3>1, <3>2, <3>3, <3>4 DEF RecordKept
    <2> QED BY <2>1, <2>2
  <1> QED BY <1>2, <1>3 DEF GetOrCreate

\* Closing, marking and ageing, by whoever watches the configuration or the clock.
LEMMA EnvironmentKeeps ==
  ASSUME TypeOK, Environment, NEW k \in Key
  PROVE  RecordKept(k)
  <1>1. sessions \in [Key -> SessionRecord \cup {None}]
    BY DEF TypeOK, RouterTypeOK
  <1>2. \/ sessions'[k] = None \/ sessions'[k] = sessions[k]
        \/ /\ sessions[k] # None
           /\ \/ sessions'[k] = [sessions[k] EXCEPT !.dirty = TRUE]
              \/ sessions'[k] = [sessions[k] EXCEPT !.stale = TRUE]
    <2>1. ASSUME NEW j \in Key, CloseSession(j)
          PROVE  sessions'[k] = None \/ sessions'[k] = sessions[k]
      BY <1>1, <2>1 DEF CloseSession, Close
    <2>2. ASSUME NEW p \in Project, ExtensionChanges(p)
          PROVE  \/ sessions'[k] = sessions[k]
                 \/ sessions[k] # None /\ sessions'[k] = [sessions[k] EXCEPT !.dirty = TRUE]
      BY <2>2 DEF ExtensionChanges, MarkProjectDirty
    <2>3. CASE ConfigChanges
      BY <2>3 DEF ConfigChanges, MarkAllDirty, MarkedByAll
    <2>4. CASE DescribeServer
      BY <2>4, SweptKeeps DEF DescribeServer, SessionCount
    <2>5. CASE TimePasses
      BY <2>5 DEF TimePasses, IdleTimeoutElapses
    <2> QED BY <2>1, <2>2, <2>3, <2>4, <2>5 DEF Environment
  <1>3. sessions[k] # None => sessions[k] \in SessionRecord
    BY <1>1
  <1>4. CASE sessions[k] # None /\ sessions'[k] = [sessions[k] EXCEPT !.dirty = TRUE]
    BY <1>3, <1>4 DEF RecordKept, SessionRecord
  <1>5. CASE sessions[k] # None /\ sessions'[k] = [sessions[k] EXCEPT !.stale = TRUE]
    BY <1>3, <1>5 DEF RecordKept, SessionRecord
  <1> QED BY <1>2, <1>4, <1>5 DEF RecordKept

\* The calls and pumps of turn t stand still but for its own steps.
PumpKept(t) == pump'[t] = pump[t] /\ agent'[t] = agent[t] /\ cached'[t] = cached[t]

Builds(t) == Created(t) \/ Recreated(t)

LEMMA PumpFrame ==
  ASSUME TypeOK, [Next]_vars, NEW t \in Turn
  PROVE  \/ PumpKept(t)
         \/ Begin(t) \/ Builds(t) \/ SubmitFails(t) \/ AgentStarts(t) \/ AgentEnds(t)
  <1> USE DEF PumpKept
  <1>1. ASSUME NEW u \in Turn, Begin(u), u # t
        PROVE  PumpKept(t)
    BY <1>1 DEF Begin, GetOrCreate, TypeOK
  <1>2. ASSUME NEW u \in Turn, u # t,
               Builds(u) \/ SubmitFails(u) \/ AgentStarts(u) \/ AgentEnds(u)
        PROVE  PumpKept(t)
    BY <1>2 DEF Builds, Created, Recreated, SubmitFails, AgentStarts, AgentEnds, TypeOK
  <1>3. ASSUME NEW u \in Turn,
               \/ Submit(u) \/ RejectBusy(u) \/ Drained(u) \/ Abandon(u) \/ Unwound(u)
               \/ AgentEvent(u)
               \/ \E r \in PermissionReq : AskPermission(u, r)
               \/ \E r \in ElicitReq : AskUser(u, r)
        PROVE  PumpKept(t)
    BY <1>3 DEF Submit, RejectBusy, Drained, Abandon, TurnEnds, Unwound, AgentEvent,
       AskPermission, AskUser, turnVars
  <1>4. CASE OtherStep
    <2>1. UNCHANGED <<pump, agent, cached>>
      BY <1>4 DEF OtherStep, Answer, AbortTurn, AbortStep, AbortLooksUp, AbortReturns,
         Environment, CloseSession, ExtensionChanges, ConfigChanges, DescribeServer,
         TimePasses, gatewayVars, vars, turnVars
    <2> QED BY <2>1
  <1> QED BY <1>1, <1>2, <1>3, <1>4 DEF Next, TurnStep, OtherStep, Builds

LEMMA CallFrame ==
  ASSUME TypeOK, [Next]_vars, NEW t \in Turn
  PROVE  \/ call'[t] = call[t]
         \/ Submit(t) \/ RejectBusy(t) \/ Begin(t) \/ Drained(t) \/ Abandon(t) \/ Unwound(t)
  <1>1. ASSUME NEW u \in Turn, u # t,
               \/ Submit(u) \/ RejectBusy(u) \/ Begin(u) \/ Drained(u) \/ Abandon(u)
               \/ Unwound(u)
        PROVE  call'[t] = call[t]
    BY <1>1 DEF Submit, RejectBusy, Begin, Drained, Abandon, TurnEnds, Unwound, TypeOK
  <1>2. ASSUME NEW u \in Turn,
               \/ Created(u) \/ Recreated(u) \/ SubmitFails(u) \/ AgentStarts(u)
               \/ AgentEnds(u) \/ AgentEvent(u)
               \/ \E r \in PermissionReq : AskPermission(u, r)
               \/ \E r \in ElicitReq : AskUser(u, r)
        PROVE  call'[t] = call[t]
    BY <1>2 DEF Created, Recreated, SubmitFails, AgentStarts, AgentEnds, AgentEvent,
       AskPermission, AskUser, turnVars
  <1>3. CASE OtherStep
    BY <1>3, OtherStepKeeps
  <1> QED BY <1>1, <1>2, <1>3 DEF Next, TurnStep, OtherStep

\* Only the pump that builds a session writes a new record, and under its own key.
LEMMA TableFrame ==
  ASSUME TypeOK, [Next]_vars, NEW k \in Key
  PROVE  RecordKept(k) \/ \E t \in Turn : KeyOf[t] = k /\ Builds(t)
  <1>1. sessions \in [Key -> SessionRecord \cup {None}]
    BY DEF TypeOK, RouterTypeOK
  <1>2. ASSUME sessions' = sessions PROVE RecordKept(k)
    BY <1>2 DEF RecordKept
  <1>3. ASSUME NEW t \in Turn, Begin(t) PROVE RecordKept(k)
    BY <1>3, GetOrCreateKeeps DEF Begin
  <1>4. ASSUME NEW t \in Turn, RejectBusy(t) PROVE RecordKept(k)
    BY <1>4, SweptKeeps DEF RejectBusy, RecordKept
  <1>5. ASSUME NEW t \in Turn, Drained(t) \/ Abandon(t) PROVE RecordKept(k)
    BY <1>5, TouchedKeeps, RouterAssumption DEF Drained, Abandon, TurnEnds
  <1>6. ASSUME NEW t \in Turn, Builds(t), KeyOf[t] # k PROVE RecordKept(k)
    BY <1>1, <1>6 DEF Builds, Created, Recreated, RecordKept
  <1>7. ASSUME NEW t \in Turn,
               \/ Submit(t) \/ Unwound(t) \/ SubmitFails(t) \/ AgentStarts(t)
               \/ AgentEnds(t) \/ AgentEvent(t)
               \/ \E r \in PermissionReq : AskPermission(t, r)
               \/ \E r \in ElicitReq : AskUser(t, r)
        PROVE  RecordKept(k)
    BY <1>2, <1>7 DEF Submit, Unwound, SubmitFails, AgentStarts, AgentEnds, AgentEvent,
       AskPermission, AskUser, routerVars
  <1>8. ASSUME NEW a \in AbortCall, AbortTurn(a) PROVE RecordKept(k)
    BY <1>8, TouchedKeeps, GatewayAssumption DEF AbortTurn
  <1>9. ASSUME NEW a \in AbortCall, AbortStep(a) PROVE RecordKept(k)
    BY <1>2, <1>9 DEF AbortStep, AbortLooksUp, AbortReturns, routerVars
  <1>10. ASSUME NEW r \in Request, Answer(r) PROVE RecordKept(k)
    BY <1>2, <1>10 DEF Answer, routerVars
  <1>11. CASE Environment
    BY <1>11, EnvironmentKeeps
  <1>12. CASE UNCHANGED vars
    BY <1>2, <1>12 DEF vars, routerVars
  <1> QED BY <1>3, <1>4, <1>5, <1>6, <1>7, <1>8, <1>9, <1>10, <1>11, <1>12
          DEF Next, TurnStep, Builds
---------------------------------------------------------------------------
\* A turn never begins on a superseded session.

\* A pump is off exactly until its turn is let in.
PumpPhase ==
  \A t \in Turn : call[t] \in {"idle", "refreshing", "rejected"} => pump[t] = "off"

\* A superseded session object had been built when the change came.
OutdatedStands ==
  \A t \in outdated : pump[t] \notin {"off", "creating", "recreating"}

\* A record that is not marked holds a session of the current configuration.
CleanIsCurrent ==
  \A k \in Key : sessions[k] # None /\ ~sessions[k].dirty => sessions[k].session \notin outdated

FreshInv == TypeOK /\ PumpPhase /\ OutdatedStands /\ CleanIsCurrent

\* The steps that move a pump, in terms of where it was and where it goes.
LEMMA BeginPump ==
  ASSUME TypeOK, NEW t \in Turn, Begin(t)
  PROVE  /\ pump'[t] \in {"creating", "recreating", "attaching"}
         /\ call[t] = "refreshing" /\ call'[t] = "streaming"
  BY DEF Begin, GetOrCreate, TypeOK

LEMMA BuildsPump ==
  ASSUME TypeOK, NEW t \in Turn, Builds(t)
  PROVE  /\ pump[t] \in {"creating", "recreating"}
         /\ pump'[t] = "attaching" /\ agent'[t] = t
         /\ UNCHANGED <<inFlightTurns, call, cached, agentVars, sinkVars, promptVars,
                        abortVars, outdated>>
  BY DEF Builds, Created, Recreated, TypeOK

LEMMA PumpMoves ==
  ASSUME TypeOK, NEW t \in Turn, SubmitFails(t) \/ AgentStarts(t) \/ AgentEnds(t)
  PROVE  /\ pump[t] \notin {"off", "closed"} /\ pump'[t] \in {"running", "closed"}
         /\ agent'[t] = agent[t] /\ cached'[t] = cached[t] /\ call' = call
         /\ outdated' = outdated
  BY DEF SubmitFails, AgentStarts, AgentEnds, TypeOK

LEMMA StepPhase == TypeOK /\ PumpPhase /\ [Next]_vars => PumpPhase'
  <1> SUFFICES ASSUME TypeOK, PumpPhase, [Next]_vars,
                      NEW t \in Turn, call'[t] \in {"idle", "refreshing", "rejected"}
               PROVE  pump'[t] = "off"
    BY DEF PumpPhase
  <1>1. call[t] \in {"idle", "refreshing", "rejected"} /\ ~Begin(t)
    <2>1. CASE call'[t] = call[t]
      BY <2>1, BeginPump
    <2>2. CASE Submit(t) \/ RejectBusy(t)
      BY <2>2 DEF Submit, RejectBusy, Begin, TypeOK
    <2>3. ~(Begin(t) \/ Drained(t) \/ Abandon(t) \/ Unwound(t))
      BY DEF Begin, Drained, Abandon, TurnEnds, Unwound, TypeOK
    <2> QED BY <2>1, <2>2, <2>3, CallFrame
  <1>2. pump[t] = "off"
    BY <1>1 DEF PumpPhase
  <1>3. PumpKept(t)
    BY <1>1, <1>2, PumpFrame, BuildsPump, PumpMoves
  <1> QED BY <1>2, <1>3 DEF PumpKept

\* A change takes in every session that stands; nothing else adds to them.
LEMMA OutdatedFrame ==
  ASSUME [Next]_vars
  PROVE  outdated' = outdated \/ ConfigChanges
  <1>1. ASSUME NEW u \in Turn,
               \/ Submit(u) \/ TurnStep(u) \/ Abandon(u) \/ SubmitFails(u) \/ AgentEvent(u)
               \/ \E r \in PermissionReq : AskPermission(u, r)
               \/ \E r \in ElicitReq : AskUser(u, r)
        PROVE  outdated' = outdated
    BY <1>1 DEF Submit, TurnStep, Abandon, SubmitFails, AgentEvent, AskPermission, AskUser,
       Begin, RejectBusy, Drained, TurnEnds, Unwound, Created, Recreated, AgentStarts,
       AgentEnds
  <1>2. CASE OtherStep
    BY <1>2 DEF OtherStep, Answer, AbortTurn, AbortStep, AbortLooksUp, AbortReturns,
       Environment, CloseSession, ExtensionChanges, DescribeServer, TimePasses,
       gatewayVars, vars
  <1> QED BY <1>1, <1>2 DEF Next, OtherStep

LEMMA ConfigChangesPump ==
  ASSUME ConfigChanges
  PROVE  /\ UNCHANGED <<pump, agent, cached, call>>
         /\ outdated' = {t \in Turn : pump[t] \notin {"off", "creating", "recreating"}}
  BY DEF ConfigChanges, turnVars

LEMMA StepOutdated == FreshInv /\ [Next]_vars => OutdatedStands'
  <1> SUFFICES ASSUME FreshInv, [Next]_vars, NEW t \in outdated'
               PROVE  pump'[t] \notin {"off", "creating", "recreating"}
    BY DEF OutdatedStands
  <1>1. CASE ConfigChanges
    BY <1>1, ConfigChangesPump
  <1>2. CASE outdated' = outdated
    <2>1. t \in Turn /\ pump[t] \notin {"off", "creating", "recreating"}
      BY <1>2 DEF FreshInv, TypeOK, OutdatedStands
    <2>2. ~Begin(t)
      BY <2>1, BeginPump DEF FreshInv, PumpPhase
    <2> QED BY <2>1, <2>2, PumpFrame, BuildsPump, PumpMoves DEF FreshInv, PumpKept
  <1> QED BY <1>1, <1>2, OutdatedFrame

\* The record a pump leaves behind when its session has been built.
LEMMA BuildsRecord ==
  ASSUME TypeOK, NEW t \in Turn, Builds(t), sessions'[KeyOf[t]] # None
  PROVE  \/ sessions'[KeyOf[t]].session = t
         \/ /\ Recreated(t)
            /\ sessions[KeyOf[t]] # None /\ sessions[KeyOf[t]].rec # cached[t]
            /\ sessions'[KeyOf[t]] = sessions[KeyOf[t]]
  <1> DEFINE k == KeyOf[t]
  <1>1. k \in Key /\ sessions \in [Key -> SessionRecord \cup {None}]
    BY RouterAssumption DEF TypeOK, RouterTypeOK
  <1>2. CASE Created(t)
    BY <1>1, <1>2 DEF Created, NewRecord
  <1>3. CASE Recreated(t) /\ sessions[k] # None /\ sessions[k].rec = cached[t]
    <2>1. sessions[k] \in SessionRecord
      BY <1>1, <1>3
    <2>2. sessions'[k] = Rebuilt(sessions[k], t)
      BY <1>1, <1>3 DEF Recreated
    <2> QED BY <2>1, <2>2 DEF Rebuilt, SessionRecord
  <1>4. CASE Recreated(t) /\ ~(sessions[k] # None /\ sessions[k].rec = cached[t])
    BY <1>4 DEF Recreated
  <1> QED BY <1>2, <1>3, <1>4 DEF Builds

LEMMA StepClean == FreshInv /\ [Next]_vars => CleanIsCurrent'
  <1> SUFFICES ASSUME FreshInv, [Next]_vars, NEW k \in Key,
                      sessions'[k] # None, ~sessions'[k].dirty
               PROVE  sessions'[k].session \notin outdated'
    BY DEF CleanIsCurrent
  <1>1. CASE ConfigChanges
    <2>1. sessions[k] # None /\ sessions'[k] = [sessions[k] EXCEPT !.dirty = TRUE]
      BY <1>1 DEF ConfigChanges, MarkAllDirty, MarkedByAll
    <2>2. sessions[k] \in SessionRecord
      BY <2>1 DEF FreshInv, TypeOK, RouterTypeOK
    <2>3. sessions'[k].dirty
      BY <2>1, <2>2 DEF SessionRecord
    <2> QED BY <2>3
  <1>2. CASE outdated' = outdated
    <2>1. CASE RecordKept(k)
      BY <1>2, <2>1 DEF RecordKept, FreshInv, CleanIsCurrent
    <2>2. ASSUME NEW t \in Turn, KeyOf[t] = k, Builds(t)
          PROVE  sessions'[k].session \notin outdated'
      <3>1. t \notin outdated
        BY <2>2, BuildsPump DEF FreshInv, OutdatedStands
      <3>2. CASE sessions'[k].session = t
        BY <1>2, <3>1, <3>2
      <3>3. CASE sessions'[k] = sessions[k]
        BY <1>2, <3>3 DEF FreshInv, CleanIsCurrent
      <3> QED BY <2>2, <3>2, <3>3, BuildsRecord DEF FreshInv
    <2> QED BY <2>1, <2>2, TableFrame DEF FreshInv
  <1> QED BY <1>1, <1>2, OutdatedFrame

LEMMA FreshInvariant == Spec => []FreshInv
  <1>1. Init => FreshInv
    BY InitTypeOK
    DEF Init, RouterInit, FreshInv, PumpPhase, OutdatedStands, CleanIsCurrent
  <1>2. FreshInv /\ [Next]_vars => FreshInv'
    BY StepTypeOK, StepPhase, StepOutdated, StepClean DEF FreshInv
  <1> QED BY <1>1, <1>2, PTL DEF Spec

\* A turn that finds a record to use as it is gets a clean one.
LEMMA BeginIsFresh ==
  ASSUME FreshInv, NEW t \in Turn, Begin(t), pump'[t] = "attaching"
  PROVE  agent'[t] \notin outdated
  <1> DEFINE k == KeyOf[t]
  <1>1. k \in Key
    BY RouterAssumption
  <1>2. Swept[k] # None /\ ~Swept[k].dirty /\ agent'[t] = Swept[k].session
    BY DEF Begin, GetOrCreate, FreshInv, TypeOK
  <1> QED BY <1>1, <1>2, SweptKeeps DEF FreshInv, CleanIsCurrent

\* A turn never starts on a session object that stood when the configuration last
\* changed: neither idle sessions, nor sessions in use, nor sessions under
\* construction at the time, nor sweeps, closes or rebuilds in between leave a
\* way for one to be taken up again.
THEOREM FreshSession == Spec => NextTurnIsFresh
  <1>1. ASSUME FreshInv, [Next]_vars, NEW t \in Turn,
               call[t] = "refreshing", Active(t)', pump'[t] = "attaching"
        PROVE  agent'[t] \notin outdated
    <2>1. Begin(t)
      <3>1. call'[t] = "streaming"
        BY <1>1 DEF Active
      <3>2. ~(Submit(t) \/ RejectBusy(t) \/ Drained(t) \/ Abandon(t) \/ Unwound(t))
        BY <1>1, <3>1 DEF Submit, RejectBusy, Drained, Abandon, TurnEnds, Unwound,
           FreshInv, TypeOK
      <3> QED BY <1>1, <3>1, <3>2, CallFrame DEF FreshInv
    <2> QED BY <1>1, <2>1, BeginIsFresh
  <1>2. FreshInv /\ [Next]_vars =>
          [\A t \in Turn :
             call[t] = "refreshing" /\ Active(t)' /\ pump'[t] = "attaching" =>
               agent'[t] \notin outdated]_vars
    BY <1>1
  <1> QED BY <1>2, FreshInvariant, PTL DEF Spec, NextTurnIsFresh
---------------------------------------------------------------------------
\* One agent per session, if clients drain their streams.

\* A pump lives only under its open stream: this is what abandoning breaks.
PumpUnderStream == \A t \in Turn : PumpAlive(t) => Active(t)

\* Session objects and records never change their key.
KeyOfSession ==
  /\ \A t \in Turn : agent[t] # None => KeyOf[agent[t]] = KeyOf[t]
  /\ \A k \in Key : sessions[k] # None => KeyOf[sessions[k].session] = k

\* The record a pump waits to rebuild, or runs on, is the key's, if it has one.
RecordIsOwn ==
  \A t \in Turn :
    /\ pump[t] = "recreating" /\ sessions[KeyOf[t]] # None =>
         sessions[KeyOf[t]].rec = cached[t]
    /\ pump[t] \in {"attaching", "running"} =>
         /\ agent[t] # None
         /\ sessions[KeyOf[t]] # None => sessions[KeyOf[t]].session = agent[t]

\* The session object a turn runs on listens to that turn's signal.
ControllerIsOwn == \A t \in Turn : pump[t] = "running" => controller[agent[t]] = t

AgentInv ==
  /\ TypeOK /\ SlotOwnership /\ PumpPhase
  /\ PumpUnderStream /\ KeyOfSession /\ RecordIsOwn /\ ControllerIsOwn

LEMMA AloneOnKey ==
  ASSUME AgentInv, NEW t \in Turn, NEW u \in Turn,
         PumpAlive(t), PumpAlive(u), KeyOf[t] = KeyOf[u]
  PROVE  t = u
  BY DEF AgentInv, PumpUnderStream, SlotOwnership

LEMMA StepUnder ==
  ASSUME AbandonTurn = {}, AgentInv, [Next]_vars
  PROVE  PumpUnderStream'
  <1> SUFFICES ASSUME NEW t \in Turn, PumpAlive(t)'
               PROVE  Active(t)'
    BY DEF PumpUnderStream
  <1>1. CASE Begin(t)
    BY <1>1, BeginPump DEF AgentInv, Active
  <1>2. CASE ~Begin(t)
    <2>1. PumpAlive(t)
      BY <1>2, PumpFrame, BuildsPump, PumpMoves DEF AgentInv, PumpKept, PumpAlive
    <2>2. call[t] = "streaming"
      BY <2>1 DEF AgentInv, PumpUnderStream, Active
    <2>3. ~(Submit(t) \/ RejectBusy(t) \/ Drained(t) \/ Abandon(t) \/ Unwound(t))
      BY <2>1, <2>2 DEF Submit, RejectBusy, Drained, PumpSettled, Abandon, Unwound, PumpAlive
    <2> QED BY <1>2, <2>2, <2>3, CallFrame DEF AgentInv, Active
  <1> QED BY <1>1, <1>2

\* What getOrCreate hands to the pump.
LEMMA BeginRecord ==
  ASSUME TypeOK, NEW t \in Turn, Begin(t)
  PROVE  LET k == KeyOf[t]
         IN /\ pump'[t] = "recreating" => sessions'[k].rec = cached'[t]
            /\ pump'[t] = "attaching" => /\ sessions[k] # None
                                         /\ agent'[t] = sessions[k].session
                                         /\ sessions'[k].session = agent'[t]
            /\ pump'[t] # "attaching" => agent' = agent
  <1> DEFINE k == KeyOf[t]
             record == Swept[k]
             merged == [record EXCEPT !.project = MergedProject(record, t)]
  <1>1. k \in Key /\ Swept \in [Key -> SessionRecord \cup {None}]
    BY RouterAssumption, SweptType DEF TypeOK
  <1>2. GetOrCreate(t)
    BY DEF Begin
  <1>3. CASE record = None
    BY <1>2, <1>3 DEF GetOrCreate, TypeOK
  <1>4. CASE record # None
    <2>1. record \in SessionRecord /\ sessions[k] = record
      BY <1>1, <1>4, SweptKeeps
    <2>2. merged.rec = record.rec /\ merged.session = record.session
      BY <2>1, RecordUpdates
    <2>3. [merged EXCEPT !.stale = FALSE].session = merged.session
      BY <2>1 DEF SessionRecord
    <2>4. CASE record.dirty
      <3>1. /\ sessions' = [Swept EXCEPT ![k] = merged]
            /\ pump' = [pump EXCEPT ![t] = "recreating"]
            /\ cached' = [cached EXCEPT ![t] = record.rec]
            /\ agent' = agent
        BY <1>2, <1>4, <2>4 DEF GetOrCreate
      <3> QED BY <1>1, <2>2, <3>1 DEF TypeOK
    <2>5. CASE ~record.dirty
      <3>1. /\ sessions' = [Swept EXCEPT ![k] = [merged EXCEPT !.stale = FALSE]]
            /\ pump' = [pump EXCEPT ![t] = "attaching"]
            /\ agent' = [agent EXCEPT ![t] = record.session]
        BY <1>2, <1>4, <2>5 DEF GetOrCreate
      <3> QED BY <1>1, <1>4, <2>1, <2>2, <2>3, <3>1 DEF TypeOK
    <2> QED BY <2>4, <2>5
  <1> QED BY <1>3, <1>4

LEMMA StepKeyOfSession ==
  ASSUME AgentInv, [Next]_vars
  PROVE  KeyOfSession'
  <1>1. ASSUME NEW t \in Turn, agent'[t] # None
        PROVE  KeyOf[agent'[t]] = KeyOf[t]
    <2>1. CASE Begin(t)
      <3>1. \A j \in Key : sessions[j] # None => KeyOf[sessions[j].session] = j
        BY DEF AgentInv, KeyOfSession
      <3>2. KeyOf[t] \in Key
        BY RouterAssumption
      <3>3. CASE pump'[t] = "attaching"
        BY <2>1, <3>1, <3>2, <3>3, BeginRecord DEF AgentInv
      <3>4. CASE pump'[t] # "attaching"
        BY <1>1, <2>1, <3>4, BeginRecord DEF AgentInv, KeyOfSession
      <3> QED BY <3>3, <3>4
    <2>2. CASE Builds(t)
      BY <2>2, BuildsPump DEF AgentInv
    <2>3. CASE agent'[t] = agent[t]
      BY <1>1, <2>3 DEF AgentInv, KeyOfSession
    <2> QED BY <2>1, <2>2, <2>3, PumpFrame, PumpMoves DEF AgentInv, PumpKept
  <1>2. ASSUME NEW k \in Key, sessions'[k] # None
        PROVE  KeyOf[sessions'[k].session] = k
    <2>1. CASE RecordKept(k)
      BY <1>2, <2>1 DEF RecordKept, AgentInv, KeyOfSession
    <2>2. ASSUME NEW t \in Turn, KeyOf[t] = k, Builds(t)
          PROVE  KeyOf[sessions'[k].session] = k
      BY <1>2, <2>2, BuildsRecord DEF AgentInv, KeyOfSession
    <2> QED BY <2>1, <2>2, TableFrame DEF AgentInv
  <1> QED BY <1>1, <1>2 DEF KeyOfSession

\* While a turn's pump stands still, nobody else replaces the record of its key.
LEMMA OwnRecordKept ==
  ASSUME AgentInv, [Next]_vars, NEW t \in Turn, PumpAlive(t), PumpKept(t)
  PROVE  RecordKept(KeyOf[t])
  <1>1. ASSUME NEW u \in Turn, KeyOf[u] = KeyOf[t], Builds(u)
        PROVE  FALSE
    <2>1. PumpAlive(u) /\ pump'[u] # pump[u]
      BY <1>1, BuildsPump DEF AgentInv, PumpAlive
    <2>2. u = t
      BY <1>1, <2>1, AloneOnKey
    <2> QED BY <2>1, <2>2 DEF PumpKept
  <1>2. KeyOf[t] \in Key
    BY RouterAssumption
  <1> QED BY <1>1, <1>2, TableFrame DEF AgentInv

LEMMA StepRecordIsOwn ==
  ASSUME AgentInv, [Next]_vars
  PROVE  RecordIsOwn'
  <1> SUFFICES ASSUME NEW t \in Turn
               PROVE  /\ pump'[t] = "recreating" /\ sessions'[KeyOf[t]] # None =>
                           sessions'[KeyOf[t]].rec = cached'[t]
                      /\ pump'[t] \in {"attaching", "running"} =>
                           /\ agent'[t] # None
                           /\ sessions'[KeyOf[t]] # None =>
                                sessions'[KeyOf[t]].session = agent'[t]
    BY DEF RecordIsOwn
  <1> DEFINE k == KeyOf[t]
  <1>1. k \in Key
    BY RouterAssumption
  <1>2. CASE Begin(t)
    <2>1. pump'[t] \in {"creating", "recreating", "attaching"}
      BY <1>2, BeginPump DEF AgentInv
    <2>2. CASE pump'[t] = "attaching"
      <3>1. sessions[k] # None /\ agent'[t] = sessions[k].session
        BY <1>2, <2>2, BeginRecord DEF AgentInv
      <3>2. sessions[k].session # None
        BY <1>1, <3>1, RouterAssumption DEF AgentInv, TypeOK, RouterTypeOK, SessionRecord
      <3> QED BY <1>2, <2>2, <3>1, <3>2, BeginRecord DEF AgentInv
    <2>3. CASE pump'[t] # "attaching"
      BY <1>2, <2>1, <2>3, BeginRecord DEF AgentInv
    <2> QED BY <2>2, <2>3
  <1>3. CASE Builds(t)
    <2>1. pump'[t] = "attaching" /\ agent'[t] = t /\ t # None
      BY <1>3, BuildsPump, RouterAssumption DEF AgentInv
    <2>2. ASSUME sessions'[k] # None PROVE sessions'[k].session = t
      <3>1. ~(Recreated(t) /\ sessions[k] # None /\ sessions[k].rec # cached[t])
        BY DEF Recreated, AgentInv, RecordIsOwn
      <3> QED BY <1>3, <2>2, <3>1, BuildsRecord DEF AgentInv
    <2> QED BY <2>1, <2>2
  <1>4. CASE AgentStarts(t)
    BY <1>4 DEF AgentStarts, routerVars, AgentInv, TypeOK, RecordIsOwn
  <1>5. CASE SubmitFails(t) \/ AgentEnds(t)
    BY <1>5 DEF SubmitFails, AgentEnds, AgentInv, TypeOK
  <1>6. CASE PumpKept(t)
    <2>1. CASE PumpAlive(t)
      BY <1>6, <2>1, OwnRecordKept DEF PumpKept, RecordKept, AgentInv, RecordIsOwn
    <2>2. CASE ~PumpAlive(t)
      BY <1>6, <2>2 DEF PumpKept, PumpAlive
    <2> QED BY <2>1, <2>2
  <1> QED BY <1>2, <1>3, <1>4, <1>5, <1>6, PumpFrame DEF AgentInv

LEMMA ControllerFrame ==
  ASSUME [Next]_vars
  PROVE  controller' = controller \/ \E u \in Turn : AgentStarts(u)
  <1>1. ASSUME NEW u \in Turn, ~AgentStarts(u),
               \/ Submit(u) \/ TurnStep(u) \/ Abandon(u) \/ SubmitFails(u) \/ AgentEvent(u)
               \/ \E r \in PermissionReq : AskPermission(u, r)
               \/ \E r \in ElicitReq : AskUser(u, r)
        PROVE  controller' = controller
    <2>1. CASE Begin(u) \/ Submit(u) \/ RejectBusy(u) \/ Unwound(u)
      BY <2>1 DEF Begin, Submit, RejectBusy, Unwound, agentVars
    <2>2. CASE Drained(u) \/ Abandon(u)
      BY <1>1, <2>2 DEF Drained, Abandon, TurnEnds, agentVars
    <2>3. CASE Created(u) \/ Recreated(u) \/ SubmitFails(u) \/ AgentEvent(u) \/ AgentEnds(u)
      BY <2>3 DEF Created, Recreated, SubmitFails, AgentEvent, AgentEnds, agentVars
    <2>4. ASSUME NEW r, AskPermission(u, r) \/ AskUser(u, r)
          PROVE  controller' = controller
      BY <2>4 DEF AskPermission, AskUser, agentVars
    <2> QED BY <1>1, <2>1, <2>2, <2>3, <2>4 DEF TurnStep
  <1>2. CASE OtherStep
    BY <1>2 DEF OtherStep, Answer, AbortTurn, AbortStep, AbortLooksUp, AbortReturns,
       Environment, CloseSession, ExtensionChanges, ConfigChanges, DescribeServer, TimePasses,
       gatewayVars, vars, agentVars
  <1> QED BY <1>1, <1>2 DEF Next, OtherStep

LEMMA StepController ==
  ASSUME AgentInv, [Next]_vars
  PROVE  ControllerIsOwn'
  <1> SUFFICES ASSUME NEW t \in Turn, pump'[t] = "running"
               PROVE  controller'[agent'[t]] = t
    BY DEF ControllerIsOwn
  <1>1. CASE AgentStarts(t)
    <2>1. agent[t] \in Turn
      BY <1>1 DEF AgentStarts, AgentInv, RecordIsOwn, TypeOK
    <2> QED BY <1>1, <2>1 DEF AgentStarts, AgentInv, TypeOK
  <1>2. CASE ~AgentStarts(t)
    <2>1. pump[t] = "running" /\ agent'[t] = agent[t]
      <3>1. ~(Begin(t) \/ Builds(t) \/ SubmitFails(t) \/ AgentEnds(t))
        BY BeginPump, BuildsPump DEF SubmitFails, AgentEnds, AgentInv, TypeOK
      <3> QED BY <1>2, <3>1, PumpFrame DEF PumpKept, AgentInv
    <2>2. agent[t] \in Turn /\ controller[agent[t]] = t /\ KeyOf[agent[t]] = KeyOf[t]
      BY <2>1 DEF AgentInv, RecordIsOwn, ControllerIsOwn, KeyOfSession, TypeOK
    <2>3. ASSUME NEW u \in Turn, AgentStarts(u)
          PROVE  controller'[agent[t]] = t
      <3>1. /\ pump[u] = "attaching"
            /\ controller' = [controller EXCEPT ![agent[u]] = u]
        BY <2>3 DEF AgentStarts
      <3>2. agent[u] # None /\ KeyOf[agent[u]] = KeyOf[u]
        BY <3>1 DEF AgentInv, RecordIsOwn, KeyOfSession
      <3>3. agent[u] # agent[t]
        BY <2>1, <2>2, <3>1, <3>2, AloneOnKey DEF PumpAlive
      <3> QED BY <2>2, <3>1, <3>3 DEF AgentInv, TypeOK
    <2> QED BY <2>1, <2>2, <2>3, ControllerFrame
  <1> QED BY <1>1, <1>2

LEMMA AgentInvariant ==
  ASSUME AbandonTurn = {}
  PROVE  Spec => []AgentInv
  <1>1. Init => AgentInv
    BY InitTypeOK, InitSlot
    DEF Init, RouterInit, AgentInv, PumpPhase, PumpUnderStream, PumpAlive, KeyOfSession,
        RecordIsOwn, ControllerIsOwn
  <1>2. AgentInv /\ [Next]_vars => AgentInv'
    BY StepTypeOK, StepSlot, StepPhase, StepUnder, StepKeyOfSession, StepRecordIsOwn,
       StepController
    DEF AgentInv
  <1> QED BY <1>1, <1>2, PTL DEF Spec

\* Two submitTurn calls never drive an agent on the same session at once, so no two
\* turns share a message history or append to one transcript concurrently, provided
\* clients drain their streams (run gateway_abandon shows what happens otherwise).
THEOREM OneAgentPerSession ==
  ASSUME AbandonTurn = {}
  PROVE  Spec => []OnePumpPerKey
  <1>1. AgentInv => OnePumpPerKey
    BY AloneOnKey DEF OnePumpPerKey
  <1> QED BY <1>1, AgentInvariant, PTL

\* As long as a turn runs, an abortTurn for its session that finds a record finds
\* the session object the turn runs on, and the signal it fires is that turn's.
THEOREM AbortFindsAgent ==
  ASSUME AbandonTurn = {}
  PROVE  Spec => []AbortReachesAgent
  <1>1. AgentInv => AbortReachesAgent
    BY DEF AgentInv, RecordIsOwn, ControllerIsOwn, AbortReachesAgent
  <1> QED BY <1>1, AgentInvariant, PTL

---------------------------------------------------------------------------
\* Prompts and replay buffers, under the same condition.

PromptInv == AgentInv /\ PromptsEndWithTurn /\ ReplayIsOwn

\* The sink and the buffer of a running turn's key are the turn's own.
LEMMA RunningOwns ==
  ASSUME AgentInv, NEW t \in Turn, PumpAlive(t)
  PROVE  /\ KeyOf[t] \in Key /\ Active(t)
         /\ emitSinks[KeyOf[t]] = t
         /\ activeTurnReplays[KeyOf[t]] # None
         /\ activeTurnReplays[KeyOf[t]].runId = t
  <1>1. KeyOf[t] \in Key /\ Active(t) /\ inFlightTurns[KeyOf[t]] = t /\ t # None
    BY RouterAssumption DEF AgentInv, PumpUnderStream, SlotOwnership
  <1> QED BY <1>1 DEF AgentInv, SlotOwnership, SlotAgrees

\* An event of the turn whose buffer it is adds nobody else to it.
LEMMA RecordedIsOwn ==
  ASSUME TypeOK, ReplayIsOwn, NEW t \in Turn,
         activeTurnReplays[KeyOf[t]] # None => activeTurnReplays[KeyOf[t]].runId = t,
         activeTurnReplays' = Recorded(t)
  PROVE  ReplayIsOwn'
  <1> DEFINE k == KeyOf[t]
             replay == activeTurnReplays[k]
             more == [replay EXCEPT !.from = replay.from \cup {t}]
  <1>1. k \in Key
    BY RouterAssumption
  <1>2. CASE replay = None
    BY <1>2 DEF Recorded, ReplayIsOwn
  <1>3. CASE replay # None
    <2>1. replay \in Replay
      BY <1>1, <1>3 DEF TypeOK
    <2>2. more.runId = t /\ more.from = replay.from \cup {t}
      BY <1>3, <2>1 DEF Replay
    <2>3. replay.from \subseteq {t}
      BY <1>1, <1>3 DEF ReplayIsOwn
    <2>4. activeTurnReplays' = [activeTurnReplays EXCEPT ![k] = more]
      BY <1>3 DEF Recorded
    <2>5. more.from \subseteq {more.runId}
      BY <2>2, <2>3
    <2>6. ASSUME NEW j \in Key
          PROVE  activeTurnReplays'[j] = IF j = k THEN more ELSE activeTurnReplays[j]
      BY <1>1, <2>4 DEF TypeOK
    <2> QED BY <2>5, <2>6 DEF ReplayIsOwn
  <1> QED BY <1>2, <1>3

\* The buffers change when a turn begins or ends, and when an open turn's agent,
\* or an abort that cancels a prompt of its, emits an event.
LEMMA ReplayFrame ==
  ASSUME PromptInv, [Next]_vars
  PROVE  \/ activeTurnReplays' = activeTurnReplays
         \/ \E t \in Turn : Begin(t) \/ TurnEnds(t)
         \/ \E t \in Turn : PumpAlive(t) /\ activeTurnReplays' = Recorded(t)
         \/ \E t \in Turn : Active(t) /\ activeTurnReplays' = Recorded(t)
  <1>1. ASSUME NEW u \in Turn,
               \/ Submit(u) \/ TurnStep(u) \/ Abandon(u) \/ SubmitFails(u) \/ AgentEvent(u)
               \/ \E r \in PermissionReq : AskPermission(u, r)
               \/ \E r \in ElicitReq : AskUser(u, r)
        PROVE  \/ activeTurnReplays' = activeTurnReplays
               \/ Begin(u) \/ TurnEnds(u)
               \/ PumpAlive(u) /\ activeTurnReplays' = Recorded(u)
    <2>1. CASE TurnStep(u) \/ Submit(u) \/ Abandon(u)
      BY <2>1 DEF TurnStep, Submit, Abandon, RejectBusy, Drained, Unwound, Created, Recreated,
         AgentStarts, AgentEnds, sinkVars
    <2>2. CASE SubmitFails(u) \/ AgentEvent(u)
      BY <2>2 DEF SubmitFails, AgentEvent, PumpAlive
    <2>3. ASSUME NEW r, AskPermission(u, r) \/ AskUser(u, r)
          PROVE  \/ activeTurnReplays' = activeTurnReplays
                 \/ PumpAlive(u) /\ activeTurnReplays' = Recorded(u)
      BY <2>3 DEF AskPermission, AskUser, PumpAlive
    <2> QED BY <1>1, <2>1, <2>2, <2>3
  <1>2. ASSUME NEW a \in AbortCall, AbortTurn(a)
        PROVE  \/ activeTurnReplays' = activeTurnReplays
               \/ \E t \in Turn : Active(t) /\ activeTurnReplays' = Recorded(t)
    <2> DEFINE k == AbortKeyOf[a]
               turn == IF sessions[k] = None THEN None ELSE controller[sessions[k].session]
               ended == EndedBySignal(turn)
    <2>1. turn \in Turn \cup {None}
      BY GatewayAssumption DEF PromptInv, AgentInv, TypeOK, RouterTypeOK, SessionRecord
    <2>2. CASE turn = None \/ ended \cap ElicitReq = {}
      BY <1>2, <2>2 DEF AbortTurn
    <2>3. CASE turn \in Turn /\ ended \cap ElicitReq # {}
      <3>1. \E r \in waiting : asker[r] = turn
        BY <2>3 DEF EndedBySignal
      <3>2. Active(turn)
        BY <3>1 DEF PromptInv, PromptsEndWithTurn
      <3> QED BY <1>2, <2>3, <3>2 DEF AbortTurn
    <2> QED BY <2>1, <2>2, <2>3
  <1>3. CASE OtherStep /\ ~\E a \in AbortCall : AbortTurn(a)
    BY <1>3 DEF OtherStep, Answer, AbortStep, AbortLooksUp, AbortReturns, Environment,
       CloseSession, ExtensionChanges, ConfigChanges, DescribeServer, TimePasses,
       gatewayVars, vars, sinkVars
  <1> QED BY <1>1, <1>2, <1>3 DEF Next, OtherStep

LEMMA StepReplay ==
  ASSUME PromptInv, [Next]_vars
  PROVE  ReplayIsOwn'
  <1> USE DEF PromptInv, AgentInv
  <1>1. CASE activeTurnReplays' = activeTurnReplays
    BY <1>1 DEF ReplayIsOwn
  <1>2. ASSUME NEW t \in Turn, Begin(t)
        PROVE  ReplayIsOwn'
    <2>1. /\ KeyOf[t] \in Key
          /\ activeTurnReplays' =
               [activeTurnReplays EXCEPT ![KeyOf[t]] = [runId |-> t, from |-> {}]]
      BY <1>2, RouterAssumption DEF Begin
    <2> QED BY <2>1 DEF ReplayIsOwn, TypeOK
  <1>3. ASSUME NEW t \in Turn, TurnEnds(t)
        PROVE  ReplayIsOwn'
    BY <1>3 DEF TurnEnds, ReplayIsOwn, TypeOK
  <1>4. ASSUME NEW t \in Turn, Active(t), activeTurnReplays' = Recorded(t)
        PROVE  ReplayIsOwn'
    <2>1. KeyOf[t] \in Key /\ inFlightTurns[KeyOf[t]] = t /\ t # None
      BY <1>4, RouterAssumption DEF SlotOwnership
    <2>2. activeTurnReplays[KeyOf[t]].runId = t
      BY <2>1 DEF SlotOwnership, SlotAgrees
    <2> QED BY <1>4, <2>2, RecordedIsOwn
  <1>5. ASSUME NEW t \in Turn, PumpAlive(t), activeTurnReplays' = Recorded(t)
        PROVE  ReplayIsOwn'
    BY <1>4, <1>5, RunningOwns
  <1> QED BY <1>1, <1>2, <1>3, <1>4, <1>5, ReplayFrame

\* A turn that ends takes every prompt of its key along, and they were its own.
LEMMA TurnEndsPrompts ==
  ASSUME PromptInv, NEW t \in Turn, Active(t), TurnEnds(t)
  PROVE  PromptsEndWithTurn'
  <1> USE DEF PromptInv, AgentInv
  <1>1. /\ registered' = registered \ {r \in registered : KeyOf[asker[r]] = KeyOf[t]}
        /\ waiting' = waiting \ {r \in registered : KeyOf[asker[r]] = KeyOf[t]}
        /\ asker' = asker /\ shownIn' = shownIn
        /\ call' = [call EXCEPT ![t] = "unwinding"]
    BY DEF TurnEnds, Rejected, PendingOf
  <1>2. waiting' \subseteq registered'
    BY <1>1 DEF PromptsEndWithTurn
  <1>3. ASSUME NEW r \in registered'
        PROVE  Active(asker[r])' /\ shownIn'[r] = asker'[r]
    <2>1. r \in registered /\ asker[r] # t
      BY <1>1
    <2>2. Active(asker[r]) /\ shownIn[r] = asker[r]
      BY <2>1 DEF PromptsEndWithTurn
    <2>3. asker[r] \in Turn
      BY <2>1, RouterAssumption DEF TypeOK
    <2> QED BY <1>1, <2>1, <2>2, <2>3 DEF Active, TypeOK
  <1> QED BY <1>2, <1>3 DEF PromptsEndWithTurn

LEMMA AskPrompts ==
  ASSUME PromptInv, NEW t \in Turn, NEW r \in Request, AskPermission(t, r) \/ AskUser(t, r)
  PROVE  PromptsEndWithTurn'
  <1> USE DEF PromptInv, AgentInv
  <1>1. emitSinks[KeyOf[t]] = t /\ Active(t) /\ t # None
    BY RunningOwns, RouterAssumption DEF AskPermission, AskUser, PumpAlive
  <1>2. /\ asker' = [asker EXCEPT ![r] = t]
        /\ shownIn' = [shownIn EXCEPT ![r] = t]
        /\ call' = call
    BY <1>1 DEF AskPermission, AskUser, turnVars
  <1>3. /\ registered' \subseteq registered \cup {r}
        /\ waiting' \subseteq registered'
    BY <1>1 DEF AskPermission, AskUser, PromptsEndWithTurn
  <1>4. r \notin registered
    BY RouterAssumption DEF AskPermission, AskUser, TypeOK
  <1>5. ASSUME NEW q \in registered'
        PROVE  Active(asker'[q]) /\ shownIn'[q] = asker'[q]
    <2>1. CASE q = r
      BY <1>1, <1>2, <2>1 DEF TypeOK
    <2>2. CASE q # r
      <3>1. q \in registered /\ q \in Request
        BY <1>3, <1>5, <2>2 DEF TypeOK
      <3> QED BY <1>2, <2>2, <3>1 DEF TypeOK, PromptsEndWithTurn
    <2> QED BY <2>1, <2>2
  <1> QED BY <1>2, <1>3, <1>5 DEF PromptsEndWithTurn, Active

\* Answers and aborts only take prompts away, and never an entry whose agent would
\* still wait.
LEMMA AnswerPrompts ==
  ASSUME PromptInv,
         \/ \E r \in Request : Answer(r)
         \/ \E a \in AbortCall : AbortTurn(a)
  PROVE  PromptsEndWithTurn'
  <1>1. UNCHANGED <<asker, shownIn, call>>
    BY DEF Answer, AbortTurn, turnVars
  <1>2. registered' \subseteq registered
    BY DEF Answer, AbortTurn
  <1>3. waiting' \subseteq registered'
    <2>1. ASSUME NEW r \in Request, Answer(r) PROVE waiting' \subseteq registered'
      BY <2>1 DEF Answer, Resolved, PromptInv, PromptsEndWithTurn
    <2>2. ASSUME NEW a \in AbortCall, AbortTurn(a) PROVE waiting' \subseteq registered'
      BY <2>2 DEF AbortTurn, EndedBySignal, PromptInv, PromptsEndWithTurn
    <2> QED BY <2>1, <2>2
  <1> QED BY <1>1, <1>2, <1>3 DEF PromptInv, PromptsEndWithTurn, Active

\* No other step touches the prompts.
LEMMA PromptFrame ==
  ASSUME [Next]_vars
  PROVE  \/ UNCHANGED promptVars
         \/ \E t \in Turn : Drained(t) \/ Abandon(t)
         \/ \E t \in Turn, r \in Request : AskPermission(t, r) \/ AskUser(t, r)
         \/ \E r \in Request : Answer(r)
         \/ \E a \in AbortCall : AbortTurn(a)
  <1>1. ASSUME NEW u \in Turn,
               \/ Submit(u) \/ TurnStep(u) \/ Abandon(u) \/ SubmitFails(u) \/ AgentEvent(u)
        PROVE  UNCHANGED promptVars \/ Drained(u) \/ Abandon(u)
    BY <1>1 DEF Submit, TurnStep, SubmitFails, AgentEvent, Begin, RejectBusy, Unwound, Created,
       Recreated, AgentStarts, AgentEnds
  <1>2. CASE OtherStep
    BY <1>2 DEF OtherStep, AbortStep, AbortLooksUp, AbortReturns, Environment, CloseSession,
       ExtensionChanges, ConfigChanges, DescribeServer, TimePasses, gatewayVars, vars
  <1> QED BY <1>1, <1>2 DEF Next, OtherStep, Request

LEMMA StepPrompts ==
  ASSUME PromptInv, [Next]_vars
  PROVE  PromptsEndWithTurn'
  <1> USE DEF PromptInv, AgentInv
  <1>1. CASE UNCHANGED promptVars /\ ~\E t \in Turn : Drained(t) \/ Abandon(t)
    <2>1. ASSUME NEW r \in registered
          PROVE  Active(asker[r])'
      <3>1. asker[r] \in Turn /\ Active(asker[r])
        BY <2>1, RouterAssumption DEF PromptsEndWithTurn, TypeOK
      <3>2. call'[asker[r]] = "streaming"
        BY <1>1, <3>1, CallFrame DEF Submit, RejectBusy, Begin, Unwound, Active, TypeOK
      <3> QED BY <1>1, <3>2 DEF Active, promptVars
    <2> QED BY <1>1, <2>1 DEF promptVars, PromptsEndWithTurn
  <1>2. ASSUME NEW t \in Turn, Drained(t) \/ Abandon(t)
        PROVE  PromptsEndWithTurn'
    BY <1>2, TurnEndsPrompts DEF Drained, Abandon, Active
  <1> QED BY <1>1, <1>2, AskPrompts, AnswerPrompts, PromptFrame

LEMMA PromptInvariant ==
  ASSUME AbandonTurn = {}
  PROVE  Spec => []PromptInv
  <1>1. Init /\ AgentInv => PromptInv
    BY DEF Init, PromptInv, PromptsEndWithTurn, ReplayIsOwn
  <1>2. PromptInv /\ [Next]_vars /\ AgentInv' => PromptInv'
    BY StepPrompts, StepReplay DEF PromptInv
  <1> QED BY <1>1, <1>2, AgentInvariant, PTL DEF Spec

\* Permission and elicitation prompts never outlive the turn that asked, never go
\* out in another turn's stream, and no agent waits for an answer that no client
\* could give and no unwinding would reject.
THEOREM PromptsAreOwn ==
  ASSUME AbandonTurn = {}
  PROVE  Spec => []PromptsEndWithTurn
  BY PromptInvariant, PTL DEF PromptInv

\* What a late subscriber is replayed is the open turn's and nobody else's, though
\* events are recorded under the session key and not under the turn.
THEOREM ReplaysAreOwn ==
  ASSUME AbandonTurn = {}
  PROVE  Spec => []ReplayIsOwn
  BY PromptInvariant, PTL DEF PromptInv

=============================================================================
