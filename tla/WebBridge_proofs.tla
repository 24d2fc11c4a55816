----------------------------- MODULE WebBridge_proofs -----------------------------
(***************************************************************************)
(* Proofs about WebBridge, for any sessions, chats and stop buttons, and   *)
(* for turns of any length: a lost connection stops the turns that had     *)
(* their session to themselves, a chat is never turned away because of the *)
(* turn it has stopped, the stream a chat waits for comes to an end, and a *)
(* chat that is told it is complete has been shown everything.             *)
(***************************************************************************)
EXTENDS WebBridge, TLAPS

UpFrame ==
  [type : {"submit_turn"}, id : Turn] \cup [type : {"abort_turn"}, id : Requests]
    \cup [type : {"close"}]
DownFrame ==
  [type : {"response"}, id : Requests] \cup [type : {"event"}, id : Turn, event : Event]
    \cup [type : {"final"}, id : Turn] \cup [type : {"close"}]

IsSubmit(f, t) == f.type = "submit_turn" /\ f.id = t
IsAbort(f, a) == f.type = "abort_turn" /\ f.id = a
Waits(t) == chat[t] \in {"idle", "stopping"}
IsServed(t) == served[t] \in {"refreshing", "streaming"}
Begun(t) == served[t] \in {"streaming", "over"}

Types == TypeOK /\ up \in Seq(UpFrame) /\ down \in Seq(DownFrame)

\* A request goes out once, and the server knows nothing of it before it arrives.
UpInv ==
  /\ \A t \in Turn : Waits(t) => served[t] = "none"
  /\ \A t \in Turn : \A i \in DOMAIN up : IsSubmit(up[i], t) =>
       /\ ~Waits(t) /\ served[t] = "none"
       /\ \A j \in DOMAIN up : IsSubmit(up[j], t) => j = i
  /\ \A t \in Turn : chat[t] = "idle" =>
       /\ abort[BeforeTurn(t)] = "idle" /\ stale[t] = None
       /\ \A i \in DOMAIN up : ~IsAbort(up[i], BeforeTurn(t))

\* The slot is held by the turn that streams.
HolderInv ==
  \A t \in Turn : served[t] = "streaming" <=> holder[KeyOf[t]] = t
KeyInv == \A k \in Key : holder[k] # None => KeyOf[holder[k]] = k

\* A turn that has its session to itself on the connection is in flight there.
AloneInv ==
  /\ \A t, u \in Turn : IsServed(t) /\ IsServed(u) /\ KeyOf[t] = KeyOf[u] /\ t # u => t \in crowded
  /\ serverWs = "open" =>
       \A t \in Turn : IsServed(t) /\ t \notin crowded => KeyOf[t] \in inFlightSessions

\* What the client has heard of a turn, the turn has sent.
SeenInv ==
  /\ \A i \in DOMAIN down : down[i].type = "event" => Begun(down[i].id)
  /\ \A t \in Turn : queue[t] # <<>> \/ shown[t] # <<>> => Begun(t)
  /\ \A k \in Key : runId[k] # None => KeyOf[runId[k]] = k

\* What is known of the turn that a chat has stopped, from the request to its answer.
StaleInv ==
  /\ \A i \in DOMAIN down : down[i].type = "response" => abort[down[i].id] = "returned"
  /\ \A t \in Turn :
       /\ reply[BeforeTurn(t)] = "ok" => abort[BeforeTurn(t)] = "returned"
       /\ stale[t] # None =>
            /\ KeyOf[stale[t]] = KeyOf[t] /\ Begun(stale[t])
            /\ abort[BeforeTurn(t)] = "pending" =>
                 target[BeforeTurn(t)] = stale[t] \/ served[stale[t]] = "over"
            /\ abort[BeforeTurn(t)] = "returned" => served[stale[t]] = "over"

Inv == Types /\ UpInv /\ HolderInv /\ KeyInv /\ AloneInv /\ SeenInv /\ StaleInv

---------------------------------------------------------------------------
LEMMA Popped ==
  ASSUME NEW S, NEW s \in Seq(S), s # <<>>
  PROVE  /\ 1 \in DOMAIN s /\ Head(s) = s[1] /\ Head(s) \in S /\ Tail(s) \in Seq(S)
         /\ \A i \in DOMAIN Tail(s) : i + 1 \in DOMAIN s /\ i + 1 # 1 /\ Tail(s)[i] = s[i + 1]
  OBVIOUS

LEMMA Appended ==
  ASSUME NEW S, NEW s \in Seq(S), NEW e \in S
  PROVE  /\ Append(s, e) \in Seq(S) /\ Append(s, e) # <<>>
         /\ \A i \in DOMAIN Append(s, e) :
              \/ i \in DOMAIN s /\ Append(s, e)[i] = s[i]
              \/ i \notin DOMAIN s /\ i = Len(s) + 1 /\ Append(s, e)[i] = e
  OBVIOUS

LEMMA Joined ==
  ASSUME NEW S, NEW s \in Seq(S), NEW r \in Seq(S)
  PROVE  /\ s \o r \in Seq(S)
         /\ \A i \in DOMAIN (s \o r) :
              \/ i \in DOMAIN s /\ (s \o r)[i] = s[i]
              \/ \E j \in DOMAIN r : (s \o r)[i] = r[j]
  <1> DEFINE q == s \o r
  <1>1. q \in Seq(S) /\ Len(q) = Len(s) + Len(r)
    OBVIOUS
  <1>2. ASSUME NEW i \in DOMAIN q PROVE \/ i \in DOMAIN s /\ q[i] = s[i]
                                        \/ \E j \in DOMAIN r : q[i] = r[j]
    <2>1. CASE i <= Len(s)
      BY <1>1, <2>1
    <2>2. CASE i > Len(s)
      <3>1. i - Len(s) \in DOMAIN r /\ q[i] = r[i - Len(s)]
        BY <1>1, <2>2
      <3> QED BY <3>1
    <2> QED BY <1>1, <2>1, <2>2
  <1> QED BY <1>1, <1>2

LEMMA KeyOfCall ==
  ASSUME NEW t \in Turn
  PROVE  BeforeTurn(t) \in Requests /\ BeforeTurn(t) \in AbortCall
         /\ AbortKeyOf[BeforeTurn(t)] = KeyOf[t]
  BY DEF BeforeTurn, Requests, AbortCall, AbortKeyOf

LEMMA CallsDiffer ==
  ASSUME NEW t, NEW u, NEW s, NEW k
  PROVE  /\ BeforeTurn(t) = BeforeTurn(u) => t = u
         /\ BeforeTurn(t) # ByUser(s) /\ BeforeTurn(t) # OnLoss(k)
  BY DEF BeforeTurn, ByUser, OnLoss

LEMMA CallTypes ==
  /\ Requests \subseteq AbortCall
  /\ \A a \in AbortCall : AbortKeyOf[a] \in Key
  <1>1. Requests \subseteq AbortCall
    BY DEF AbortCall
  <1>2. ASSUME NEW t \in Turn PROVE AbortKeyOf[BeforeTurn(t)] \in Key
    BY KeyOfCall, ConnectionAssumption
  <1>3. ASSUME NEW s \in Stop PROVE AbortKeyOf[ByUser(s)] \in Key
    BY ConnectionAssumption DEF ByUser, Requests, AbortCall, AbortKeyOf
  <1>4. ASSUME NEW k \in Key PROVE AbortKeyOf[OnLoss(k)] \in Key
    BY DEF OnLoss, AbortCall, AbortKeyOf
  <1> QED BY <1>1, <1>2, <1>3, <1>4 DEF AbortCall, Requests

LEMMA InitInv == Init => Inv
  <1> SUFFICES ASSUME Init PROVE Inv
    OBVIOUS
  <1> USE ConnectionAssumption DEF Init, ConnectionInit, Slot!Init
  <1>1. Types
    <2>1. up \in Seq(UpFrame) /\ down \in Seq(DownFrame)
      OBVIOUS
    <2>2. /\ emitted \in [Turn -> Seq(Event)] /\ queue \in [Turn -> Seq(Event)]
          /\ shown \in [Turn -> Seq(Event)]
      OBVIOUS
    <2>3. /\ holder \in [Key -> Turn \cup {None}] /\ admitted \subseteq Turn
          /\ abort \in [AbortCall -> {"idle", "pending", "returned"}]
          /\ target \in [AbortCall -> Turn \cup {None}]
      OBVIOUS
    <2> QED BY <2>1, <2>2, <2>3 DEF Types, TypeOK, ConnectionTypeOK
  <1>2. UpInv
    BY KeyOfCall DEF UpInv, Waits
  <1>3. HolderInv /\ KeyInv
    BY DEF HolderInv, KeyInv
  <1>4. AloneInv /\ SeenInv
    BY DEF AloneInv, IsServed, SeenInv, Begun
  <1>5. StaleInv
    BY KeyOfCall DEF StaleInv
  <1> QED BY <1>1, <1>2, <1>3, <1>4, <1>5 DEF Inv

---------------------------------------------------------------------------
\* The types, one lemma for each part that writes on the wire.

LEMMA SentType ==
  ASSUME Types, NEW f \in UpFrame, Sent(f) PROVE up' \in Seq(UpFrame)
  BY Appended DEF Sent, Types

LEMMA WrittenType ==
  ASSUME Types, NEW r \in Seq(DownFrame), Written(r) PROVE down' \in Seq(DownFrame)
  BY Joined DEF Written, Types

LEMMA FrameTypes ==
  /\ \A t \in Turn : [type |-> "submit_turn", id |-> t] \in UpFrame
  /\ \A a \in Requests : [type |-> "abort_turn", id |-> a] \in UpFrame
  /\ [type |-> "close"] \in UpFrame
  /\ \A t \in Turn : \A e \in Event :
       /\ <<EventFrame(t, e)>> \in Seq(DownFrame)
       /\ FinalFrames(t) \in Seq(DownFrame)
       /\ <<EventFrame(t, e), FinalFrame(t)>> \in Seq(DownFrame)
  /\ \A a \in Requests : <<[type |-> "response", id |-> a]>> \in Seq(DownFrame)
  /\ <<[type |-> "close"]>> \in Seq(DownFrame)
  BY DEF UpFrame, DownFrame, EventFrame, FinalFrame, FinalFrames

LEMMA UpFrameKinds ==
  ASSUME NEW f \in UpFrame
  PROVE  /\ f.type = "submit_turn" => f.id \in Turn
         /\ f.type = "abort_turn" => f.id \in Requests
         /\ f.type \in {"submit_turn", "abort_turn", "close"}
  BY DEF UpFrame

LEMMA DownFrameKinds ==
  ASSUME NEW f \in DownFrame
  PROVE  /\ f.type = "response" => f.id \in Requests
         /\ f.type = "event" => f.id \in Turn /\ f.event \in Event
         /\ f.type = "final" => f.id \in Turn
  BY DEF DownFrame

LEMMA SubmitTurnTypes ==
  ASSUME Types, NEW t \in Turn, SubmitTurn(t)
  PROVE  /\ up' \in Seq(UpFrame)
         /\ stream' \in [Turn -> {"none", "open", "closed", "failed"}]
         /\ chat' \in [Turn -> {"idle", "stopping", "streaming", "complete", "failed"}]
         /\ runId' \in [Key -> Turn \cup {None}]
         /\ UNCHANGED <<clientWs, queue>>
  <1>1. up' \in Seq(UpFrame)
    BY SentType, FrameTypes DEF SubmitTurn, OpenStream, Types
  <1>2. stream' = [stream EXCEPT ![t] = "open"] /\ UNCHANGED <<clientWs, queue>>
    BY DEF SubmitTurn, OpenStream
  <1>3. /\ \E c \in {"streaming", "failed"} : chat' = [chat EXCEPT ![t] = c]
        /\ \E r \in Turn \cup {None} : runId' = [runId EXCEPT ![KeyOf[t]] = r]
    BY DEF SubmitTurn
  <1>4. stream' \in [Turn -> {"none", "open", "closed", "failed"}]
    BY <1>2 DEF Types, TypeOK, ConnectionTypeOK
  <1>5. chat' \in [Turn -> {"idle", "stopping", "streaming", "complete", "failed"}]
    BY <1>3 DEF Types, TypeOK
  <1>6. runId' \in [Key -> Turn \cup {None}]
    BY <1>3 DEF Types, TypeOK
  <1>7. QED
    BY <1>1, <1>2, <1>4, <1>5, <1>6

LEMMA AskTypes ==
  ASSUME Types, NEW a \in Requests, Ask(a)
  PROVE  /\ up' \in Seq(UpFrame)
         /\ reply' \in [Requests -> {"none", "pending", "ok", "failed"}]
         /\ UNCHANGED <<clientWs, stream, queue>>
  <1>1. up' \in Seq(UpFrame)
    BY SentType, FrameTypes DEF Ask, Types
  <1>2. QED
    BY <1>1 DEF Ask, Types, TypeOK, ConnectionTypeOK

LEMMA ClearedType ==
  ASSUME Types, NEW t \in Turn PROVE Cleared(t) \in [Key -> Turn \cup {None}]
  BY DEF Cleared, Types, TypeOK

LEMMA SignalledTypes ==
  ASSUME Types, NEW turns \in SUBSET Turn, Signals(turns) PROVE signalled' \subseteq Turn
  BY DEF Signals, Types, TypeOK, ConnectionTypeOK

LEMMA TypesKept == Types /\ [Next]_vars => Types'
  <1> SUFFICES ASSUME Types, [Next]_vars PROVE Types'
    OBVIOUS
  <1> USE ConnectionAssumption DEF Types, TypeOK, ConnectionTypeOK, slotVars, turnVars,
        serverVars, clientVars, wireVars, bridgeVars
  <1>1. ASSUME ServerReceivesSubmit, UNCHANGED bridgeVars PROVE Types'
    <2>1. Head(up).id \in Turn /\ up' \in Seq(UpFrame)
      BY <1>1, Popped, UpFrameKinds DEF ServerReceivesSubmit
    <2>2. crowded' \subseteq Turn
      BY <1>1, <2>1 DEF ServerReceivesSubmit, Serving
    <2> QED BY <1>1, <2>1, <2>2 DEF ServerReceivesSubmit
  <1>2. ASSUME ServerReceivesAbort, UNCHANGED bridgeVars PROVE Types'
    <2>1. Head(up).id \in Requests /\ up' \in Seq(UpFrame)
      BY <1>2, Popped, UpFrameKinds DEF ServerReceivesAbort
    <2>2. signalled' \subseteq Turn
      BY <1>2, <2>1, CallTypes DEF ServerReceivesAbort, Signals
    <2>3. abort' \in [AbortCall -> {"idle", "pending", "returned"}]
          /\ target' \in [AbortCall -> Turn \cup {None}]
      BY <1>2, <2>1, CallTypes DEF ServerReceivesAbort, Slot!CallAbort
    <2> QED BY <1>2, <2>1, <2>2, <2>3 DEF ServerReceivesAbort, Slot!CallAbort
  <1>3. ASSUME ServerReceivesClose, UNCHANGED bridgeVars PROVE Types'
    <2>1. up' \in Seq(UpFrame) /\ down' \in Seq(DownFrame)
      BY <1>3, Popped, WrittenType, FrameTypes DEF ServerReceivesClose
    <2> QED BY <1>3, <2>1 DEF ServerReceivesClose
  <1>4. ASSUME ServerSeesLoss, UNCHANGED bridgeVars PROVE Types'
    <2>1. signalled' \subseteq Turn
      <3>1. AbortedSessions \subseteq Key
        BY DEF AbortedSessions
      <3>2. {OnLoss(k) : k \in AbortedSessions} \subseteq AbortCall
        BY <3>1 DEF AbortCall
      <3>3. {holder[AbortKeyOf[a]] : a \in {OnLoss(k) : k \in AbortedSessions}} \ {None}
              \subseteq Turn
        BY <3>2, CallTypes
      <3> QED BY <1>4, <3>3, SignalledTypes DEF ServerSeesLoss
    <2>2. abort' \in [AbortCall -> {"idle", "pending", "returned"}]
      BY <1>4 DEF ServerSeesLoss
    <2>3. target' \in [AbortCall -> Turn \cup {None}]
      BY <1>4, CallTypes DEF ServerSeesLoss
    <2> QED BY <1>4, <2>1, <2>2, <2>3 DEF ServerSeesLoss
  <1>5. ASSUME NEW t \in Turn, TurnBegins(t), UNCHANGED bridgeVars PROVE Types'
    BY <1>5 DEF TurnBegins, Slot!Acquire
  <1>6. ASSUME NEW t \in Turn, TurnRefused(t), UNCHANGED bridgeVars PROVE Types'
    <2>1. down' \in Seq(DownFrame)
      BY <1>6, WrittenType, FrameTypes DEF TurnRefused, Event
    <2>2. emitted' \in [Turn -> Seq(Event)]
      BY <1>6 DEF TurnRefused, Event
    <2> QED BY <1>6, <2>1, <2>2 DEF TurnRefused
  <1>7. ASSUME NEW t \in Turn, TurnEmits(t), UNCHANGED bridgeVars PROVE Types'
    <2>1. PICK e \in {"event", "turn_completed"} :
            emitted' = [emitted EXCEPT ![t] = Append(@, e)] /\ Written(<<EventFrame(t, e)>>)
      BY <1>7 DEF TurnEmits
    <2>2. e \in Event
      BY DEF Event
    <2>3. down' \in Seq(DownFrame)
      BY <2>1, <2>2, WrittenType, FrameTypes
    <2>4. emitted' \in [Turn -> Seq(Event)]
      BY <2>1, <2>2, Appended
    <2> QED BY <1>7, <2>3, <2>4 DEF TurnEmits
  <1>8. ASSUME NEW t \in Turn, TurnEnds(t), UNCHANGED bridgeVars PROVE Types'
    <2>1. down' \in Seq(DownFrame)
      BY <1>8, WrittenType, FrameTypes DEF TurnEnds, Event
    <2>2. inFlightSessions' \subseteq Key
      BY <1>8 DEF TurnEnds, SessionsAfter
    <2> QED BY <1>8, <2>1, <2>2 DEF TurnEnds, Slot!Release
  <1>9. ASSUME NEW a \in Requests, AbortReturns(a), UNCHANGED bridgeVars PROVE Types'
    <2>1. down' \in Seq(DownFrame)
      BY <1>9, WrittenType, FrameTypes DEF AbortReturns
    <2> QED BY <1>9, <2>1, CallTypes DEF AbortReturns, Slot!ReturnAbort
  <1>10. ASSUME ClientCloses, UNCHANGED bridgeVars PROVE Types'
    <2>1. up' \in Seq(UpFrame)
      BY <1>10, SentType, FrameTypes DEF ClientCloses
    <2> QED BY <1>10, <2>1 DEF ClientCloses
  <1>11. ASSUME ClientSeesClose, UNCHANGED bridgeVars PROVE Types'
    <2>1. reply' \in [Requests -> {"none", "pending", "ok", "failed"}]
      BY <1>11 DEF ClientSeesClose, PendingRejected
    <2>2. stream' \in [Turn -> {"none", "open", "closed", "failed"}]
      BY <1>11 DEF ClientSeesClose, StreamsFail
    <2> QED BY <1>11, <2>1, <2>2 DEF ClientSeesClose
  <1>12. ASSUME ClientReceives, UNCHANGED bridgeVars PROVE Types'
    <2>1. Head(down) \in DownFrame /\ down' \in Seq(DownFrame)
      BY <1>12, Popped DEF ClientReceives
    <2>2. CASE Head(down).type = "response"
      <3>1. UNCHANGED <<stream, queue>>
            /\ reply' = [reply EXCEPT ![Head(down).id] = IF @ = "pending" THEN "ok" ELSE @]
        BY <1>12, <2>2 DEF ClientReceives
      <3>2. reply' \in [Requests -> {"none", "pending", "ok", "failed"}]
        BY <2>1, <2>2, <3>1, DownFrameKinds
      <3> QED BY <1>12, <2>1, <3>1, <3>2 DEF ClientReceives
    <2>3. CASE Head(down).type = "event" /\ stream[Head(down).id] = "open"
      <3>1. UNCHANGED <<reply, stream>>
            /\ queue' = [queue EXCEPT ![Head(down).id] = Append(@, Head(down).event)]
        BY <1>12, <2>3 DEF ClientReceives
      <3>2. queue' \in [Turn -> Seq(Event)]
        BY <2>1, <2>3, <3>1, DownFrameKinds, Appended
      <3> QED BY <1>12, <2>1, <3>1, <3>2 DEF ClientReceives
    <2>4. CASE Head(down).type = "final" /\ stream[Head(down).id] = "open"
      <3>1. UNCHANGED <<reply, queue>>
            /\ stream' = [stream EXCEPT ![Head(down).id] = "closed"]
        BY <1>12, <2>4 DEF ClientReceives
      <3>2. stream' \in [Turn -> {"none", "open", "closed", "failed"}]
        BY <2>1, <2>4, <3>1, DownFrameKinds
      <3> QED BY <1>12, <2>1, <3>1, <3>2 DEF ClientReceives
    <2>5. CASE ~(Head(down).type = "response")
               /\ ~(Head(down).type = "event" /\ stream[Head(down).id] = "open")
               /\ ~(Head(down).type = "final" /\ stream[Head(down).id] = "open")
      BY <1>12, <2>1, <2>5 DEF ClientReceives
    <2> QED BY <2>2, <2>3, <2>4, <2>5
  <1>13. ASSUME Loses, UNCHANGED bridgeVars PROVE Types'
    BY <1>13 DEF Loses
  <1>14. ASSUME NEW t \in Turn, Submits(t) \/ Resubmits(t) PROVE Types'
    BY <1>14, SubmitTurnTypes DEF Submits, Resubmits
  <1>15. ASSUME NEW t \in Turn, StopsStaleTurn(t) PROVE Types'
    <2>1. stale' \in [Turn -> Turn \cup {None}]
      BY <1>15 DEF StopsStaleTurn
    <2> QED BY <1>15, <2>1, AskTypes, KeyOfCall DEF StopsStaleTurn
  <1>16. ASSUME NEW s \in Stop, StopPressed(s) PROVE Types'
    <2>1. ByUser(s) \in Requests
      BY DEF Requests
    <2> QED BY <1>16, <2>1, AskTypes DEF StopPressed
  <1>17. ASSUME NEW t \in Turn, ChatReads(t) PROVE Types'
    <2>1. Head(queue[t]) \in Event /\ Tail(queue[t]) \in Seq(Event)
      BY <1>17, Popped DEF ChatReads
    <2>2. shown' \in [Turn -> Seq(Event)]
      BY <1>17, <2>1, Appended DEF ChatReads
    <2>3. runId' \in [Key -> Turn \cup {None}]
      BY <1>17, ClearedType DEF ChatReads
    <2> QED BY <1>17, <2>1, <2>2, <2>3 DEF ChatReads
  <1>18. ASSUME NEW t \in Turn, ChatCompletes(t) \/ ChatFails(t) PROVE Types'
    <2>1. runId' \in [Key -> Turn \cup {None}]
      BY <1>18, ClearedType DEF ChatCompletes, ChatFails
    <2>2. PICK s \in {"complete", "failed"} : chat' = [chat EXCEPT ![t] = s]
      BY <1>18 DEF ChatCompletes, ChatFails
    <2>3. UNCHANGED <<connectionVars, stale, shown>>
      BY <1>18 DEF ChatCompletes, ChatFails
    <2>4. ConnectionTypeOK' /\ UNCHANGED <<up, down>>
      BY <2>3 DEF connectionVars
    <2> QED BY <2>1, <2>2, <2>3, <2>4
  <1>19. CASE UNCHANGED vars
    BY <1>19 DEF vars, connectionVars
  <1> QED
    BY <1>1, <1>2, <1>3, <1>4, <1>5, <1>6, <1>7, <1>8, <1>9, <1>10, <1>11, <1>12, <1>13, <1>14,
       <1>15, <1>16, <1>17, <1>18, <1>19 DEF Next, ConnectionSteps, Server

---------------------------------------------------------------------------
\* Frames are only taken from the front, and the submits and aborts among them are the ones
\* that a chat or a stop button has sent.
LEMMA FrameTaken ==
  ASSUME Types, UpInv, up # <<>>, up' = Tail(up)
  PROVE  /\ \A i \in DOMAIN up' : i + 1 \in DOMAIN up /\ up'[i] = up[i + 1]
         /\ \A t \in Turn : \A i \in DOMAIN up' : IsSubmit(up'[i], t) =>
              /\ ~IsSubmit(Head(up), t)
              /\ \A j \in DOMAIN up' : IsSubmit(up'[j], t) => j = i
  <1>1. /\ 1 \in DOMAIN up /\ Head(up) = up[1] /\ DOMAIN up' \subseteq Nat
        /\ \A i \in DOMAIN up' : i + 1 \in DOMAIN up /\ i + 1 # 1 /\ up'[i] = up[i + 1]
    BY Popped DEF Types
  <1>2. ASSUME NEW t \in Turn, NEW i \in DOMAIN up', IsSubmit(up'[i], t),
               NEW j \in DOMAIN up, IsSubmit(up[j], t)
        PROVE  j = i + 1
    BY <1>1, <1>2 DEF UpInv
  <1>3. ASSUME NEW t \in Turn, NEW i \in DOMAIN up', IsSubmit(up'[i], t)
        PROVE  /\ ~IsSubmit(Head(up), t)
               /\ \A j \in DOMAIN up' : IsSubmit(up'[j], t) => j = i
    BY <1>1, <1>2, <1>3
  <1> QED BY <1>1, <1>3

LEMMA UpKept == Types /\ UpInv /\ [Next]_vars => UpInv'
  <1> SUFFICES ASSUME Types, UpInv, [Next]_vars PROVE UpInv'
    OBVIOUS
  <1>1. ASSUME ServerReceivesSubmit, UNCHANGED bridgeVars PROVE UpInv'
    <2> DEFINE u == Head(up).id
    <2>1. /\ u \in Turn /\ 1 \in DOMAIN up /\ Head(up) = up[1] /\ IsSubmit(Head(up), u)
          /\ up # <<>> /\ up' = Tail(up)
      BY <1>1, Popped, UpFrameKinds DEF ServerReceivesSubmit, Types, IsSubmit
    <2>2. ~Waits(u)
      BY <2>1 DEF UpInv
    <2>3. served' = [served EXCEPT ![u] = "refreshing"] /\ UNCHANGED <<chat, stale, abort>>
      BY <1>1 DEF ServerReceivesSubmit, bridgeVars, slotVars
    <2>4. \A t \in Turn : t # u => served'[t] = served[t]
      BY <2>3 DEF Types, TypeOK, ConnectionTypeOK
    <2>5. \A t \in Turn : \A i \in DOMAIN up' : IsSubmit(up'[i], t) => t # u
      BY <2>1, FrameTaken
    <2> QED BY <2>1, <2>2, <2>3, <2>4, <2>5, FrameTaken DEF UpInv, Waits
  <1>2. ASSUME ServerReceivesAbort, UNCHANGED bridgeVars PROVE UpInv'
    <2> DEFINE a == Head(up).id
    <2>1. /\ 1 \in DOMAIN up /\ Head(up) = up[1] /\ IsAbort(Head(up), a)
          /\ up # <<>> /\ up' = Tail(up)
      BY <1>2, Popped DEF ServerReceivesAbort, Types, IsAbort
    <2>2. \A t \in Turn : chat[t] = "idle" => BeforeTurn(t) # a
      BY <2>1 DEF UpInv
    <2>3. abort' = [abort EXCEPT ![a] = "pending"] /\ UNCHANGED <<chat, stale, served>>
      BY <1>2 DEF ServerReceivesAbort, Slot!CallAbort, bridgeVars, serverVars
    <2>4. \A t \in Turn : chat[t] = "idle" => abort'[BeforeTurn(t)] = abort[BeforeTurn(t)]
      BY <2>2, <2>3, KeyOfCall DEF Types, TypeOK, ConnectionTypeOK
    <2> QED BY <2>1, <2>3, <2>4, FrameTaken DEF UpInv, Waits
  <1>3. ASSUME ServerReceivesClose, UNCHANGED bridgeVars PROVE UpInv'
    <2>1. up # <<>> /\ up' = Tail(up) /\ UNCHANGED <<served, chat, abort, stale>>
      BY <1>3 DEF ServerReceivesClose, slotVars, bridgeVars
    <2> QED BY <2>1, FrameTaken DEF UpInv, Waits
  <1>4. ASSUME ServerSeesLoss, UNCHANGED bridgeVars PROVE UpInv'
    <2>1. up' = <<>> /\ UNCHANGED <<served, chat, stale>>
      BY <1>4 DEF ServerSeesLoss, bridgeVars
    <2>2. \A t \in Turn : abort'[BeforeTurn(t)] = abort[BeforeTurn(t)]
      BY <1>4, KeyOfCall, CallsDiffer DEF ServerSeesLoss
    <2> QED BY <2>1, <2>2 DEF UpInv, Waits
  <1>5. ASSUME NEW t \in Turn, TurnBegins(t) \/ TurnRefused(t) \/ TurnEnds(t), UNCHANGED bridgeVars
        PROVE  UpInv'
    <2>1. served[t] # "none" /\ UNCHANGED <<chat, stale, up, abort>>
      BY <1>5 DEF TurnBegins, TurnRefused, TurnEnds, Slot!Acquire, Slot!Release, bridgeVars,
                  wireVars, slotVars
    <2>2. \A u \in Turn : served[u] = "none" => served'[u] = "none"
      BY <1>5 DEF TurnBegins, TurnRefused, TurnEnds, Types, TypeOK, ConnectionTypeOK
    <2> QED BY <2>1, <2>2 DEF UpInv, Waits
  <1>6. ASSUME NEW a \in Requests, AbortReturns(a), UNCHANGED bridgeVars PROVE UpInv'
    <2>1. abort[a] = "pending" /\ UNCHANGED <<chat, stale, up, served>>
      BY <1>6 DEF AbortReturns, Slot!ReturnAbort, bridgeVars, serverVars
    <2>2. \A u \in Turn : abort[BeforeTurn(u)] = "idle" => abort'[BeforeTurn(u)] = "idle"
      BY <1>6, <2>1, KeyOfCall DEF AbortReturns, Slot!ReturnAbort, Types, TypeOK, ConnectionTypeOK
    <2> QED BY <2>1, <2>2 DEF UpInv, Waits
  <1>7. ASSUME ClientCloses, UNCHANGED bridgeVars PROVE UpInv'
    <2>1. UNCHANGED <<chat, stale, served, abort>>
          /\ (up' = up \/ up' = Append(up, [type |-> "close"]))
      BY <1>7 DEF ClientCloses, Sent, bridgeVars, serverVars, slotVars
    <2>2. \A i \in DOMAIN up' : \/ i \in DOMAIN up /\ up'[i] = up[i]
                                \/ up'[i].type = "close"
      <3>1. up \in Seq(UpFrame) /\ [type |-> "close"] \in UpFrame
        BY FrameTypes DEF Types
      <3>2. CASE up' = up
        BY <3>2
      <3>3. CASE up' = Append(up, [type |-> "close"])
        BY <3>1, <3>3, Appended
      <3> QED BY <2>1, <3>2, <3>3
    <2> QED BY <2>1, <2>2 DEF UpInv, Waits, IsSubmit, IsAbort
  <1>8. ASSUME NEW t \in Turn, Submits(t) \/ Resubmits(t) PROVE UpInv'
    <2>1. Waits(t) /\ UNCHANGED <<served, stale, abort>> /\ SubmitTurn(t)
      BY <1>8 DEF Submits, Resubmits, Stopped, Waits, slotVars, serverVars
    <2>2. PICK s \in {"streaming", "failed"} : chat' = [chat EXCEPT ![t] = s]
      BY <2>1 DEF SubmitTurn
    <2>3. /\ chat'[t] \notin {"idle", "stopping"}
          /\ \A u \in Turn : u # t => chat'[u] = chat[u]
      BY <2>2 DEF Types, TypeOK
    <2>4. up' = up \/ up' = Append(up, [type |-> "submit_turn", id |-> t])
      BY <2>1 DEF SubmitTurn, OpenStream, Sent
    <2>5. \A i \in DOMAIN up' : \/ i \in DOMAIN up /\ up'[i] = up[i]
                                \/ i = Len(up) + 1 /\ up'[i] = [type |-> "submit_turn", id |-> t]
      <3>1. up \in Seq(UpFrame) /\ [type |-> "submit_turn", id |-> t] \in UpFrame
        BY FrameTypes DEF Types
      <3>2. CASE up' = up
        BY <3>2
      <3>3. CASE up' = Append(up, [type |-> "submit_turn", id |-> t])
        BY <3>1, <3>3, Appended
      <3> QED BY <2>4, <3>2, <3>3
    <2>6. \A i \in DOMAIN up : ~IsSubmit(up[i], t)
      BY <2>1 DEF UpInv
    <2>7. \A u \in Turn : u # t => \A i \in DOMAIN up' :
            IsSubmit(up'[i], u) => i \in DOMAIN up /\ up'[i] = up[i]
      BY <2>5 DEF IsSubmit
    <2>8. \A i, j \in DOMAIN up' : IsSubmit(up'[i], t) /\ IsSubmit(up'[j], t) => i = j
      BY <2>5, <2>6 DEF IsSubmit
    <2>9. \A a : \A i \in DOMAIN up' : IsAbort(up'[i], a) => i \in DOMAIN up /\ up'[i] = up[i]
      BY <2>5 DEF IsAbort
    <2>10. \A u \in Turn : Waits(u)' => Waits(u)
      BY <2>3 DEF Waits
    <2>11. ASSUME NEW u \in Turn, NEW i \in DOMAIN up', IsSubmit(up'[i], u)
           PROVE  /\ ~Waits(u)' /\ served[u] = "none"
                  /\ \A j \in DOMAIN up' : IsSubmit(up'[j], u) => j = i
      <3>1. CASE u = t
        BY <3>1, <2>1, <2>3, <2>8, <2>11 DEF UpInv, Waits
      <3>2. CASE u # t
        BY <3>2, <2>7, <2>10, <2>11 DEF UpInv
      <3> QED BY <3>1, <3>2
    <2>12. \A u \in Turn : chat'[u] = "idle" => chat[u] = "idle"
      BY <2>3
    <2> QED BY <2>1, <2>9, <2>10, <2>11, <2>12 DEF UpInv
  <1>9. ASSUME NEW t \in Turn, StopsStaleTurn(t) PROVE UpInv'
    <2>1. /\ chat[t] = "idle" /\ chat' = [chat EXCEPT ![t] = "stopping"]
          /\ UNCHANGED <<served, abort>> /\ Ask(BeforeTurn(t))
          /\ \A u \in Turn : u # t => stale'[u] = stale[u]
      BY <1>9 DEF StopsStaleTurn, serverVars, slotVars, Types, TypeOK
    <2>2. chat'[t] = "stopping" /\ \A u \in Turn : u # t => chat'[u] = chat[u]
      BY <2>1 DEF Types, TypeOK
    <2>3. up' = up \/ up' = Append(up, [type |-> "abort_turn", id |-> BeforeTurn(t)])
      BY <2>1 DEF Ask, Sent
    <2>4. \A i \in DOMAIN up' :
            \/ i \in DOMAIN up /\ up'[i] = up[i]
            \/ up'[i] = [type |-> "abort_turn", id |-> BeforeTurn(t)]
      <3>1. up \in Seq(UpFrame) /\ [type |-> "abort_turn", id |-> BeforeTurn(t)] \in UpFrame
        BY FrameTypes, KeyOfCall DEF Types
      <3>2. CASE up' = up
        BY <3>2
      <3>3. CASE up' = Append(up, [type |-> "abort_turn", id |-> BeforeTurn(t)])
        BY <3>1, <3>3, Appended
      <3> QED BY <2>3, <3>2, <3>3
    <2>5. \A u \in Turn : \A i \in DOMAIN up' : IsSubmit(up'[i], u) => i \in DOMAIN up /\ up'[i] = up[i]
      BY <2>4 DEF IsSubmit
    <2>6. \A u \in Turn : u # t => \A i \in DOMAIN up' :
            IsAbort(up'[i], BeforeTurn(u)) => i \in DOMAIN up /\ up'[i] = up[i]
      BY <2>4, CallsDiffer DEF IsAbort
    <2>7. \A u \in Turn : Waits(u)' <=> Waits(u)
      BY <2>1, <2>2 DEF Waits
    <2> QED BY <2>1, <2>2, <2>5, <2>6, <2>7 DEF UpInv
  <1>10. ASSUME NEW s \in Stop, StopPressed(s) PROVE UpInv'
    <2>1. UNCHANGED <<chat, stale, served, abort>>
          /\ (up' = up \/ up' = Append(up, [type |-> "abort_turn", id |-> ByUser(s)]))
      BY <1>10 DEF StopPressed, Ask, Sent, bridgeVars, serverVars, slotVars
    <2>2. ByUser(s) \in Requests
      BY DEF Requests
    <2>5. [type |-> "abort_turn", id |-> ByUser(s)] \in UpFrame
      BY <2>2, FrameTypes
    <2>3. \A i \in DOMAIN up' :
            \/ i \in DOMAIN up /\ up'[i] = up[i]
            \/ up'[i] = [type |-> "abort_turn", id |-> ByUser(s)]
      <3>1. CASE up' = up
        BY <3>1
      <3>2. CASE up' = Append(up, [type |-> "abort_turn", id |-> ByUser(s)])
        <4>1. up \in Seq(UpFrame)
          BY DEF Types
        <4> QED BY <2>5, <3>2, <4>1, Appended
      <3> QED BY <2>1, <3>1, <3>2
    <2>4. \A u \in Turn : \A i \in DOMAIN up' :
            IsSubmit(up'[i], u) \/ IsAbort(up'[i], BeforeTurn(u)) => i \in DOMAIN up /\ up'[i] = up[i]
      BY <2>3, CallsDiffer DEF IsSubmit, IsAbort
    <2> QED BY <2>1, <2>4 DEF UpInv, Waits
  <1>11. ASSUME NEW t \in Turn, ChatCompletes(t) \/ ChatFails(t) PROVE UpInv'
    <2>1. PICK s \in {"complete", "failed"} : chat' = [chat EXCEPT ![t] = s]
      BY <1>11 DEF ChatCompletes, ChatFails
    <2>2. UNCHANGED <<served, up, abort, stale>>
      BY <1>11 DEF ChatCompletes, ChatFails, connectionVars, serverVars, wireVars, slotVars
    <2>3. \A u \in Turn : /\ Waits(u)' => Waits(u)
                          /\ chat'[u] = "idle" => chat[u] = "idle"
      BY <2>1 DEF Types, TypeOK, Waits
    <2> QED BY <2>2, <2>3 DEF UpInv
  <1>12. CASE UNCHANGED <<served, up, abort, stale, chat>>
    BY <1>12 DEF UpInv, Waits
  <1>13. ASSUME NEW t \in Turn, TurnEmits(t), UNCHANGED bridgeVars PROVE UpInv'
    BY <1>13, <1>12 DEF TurnEmits, slotVars, serverVars, bridgeVars
  <1>14. ASSUME ClientSeesClose \/ ClientReceives \/ Loses, UNCHANGED bridgeVars PROVE UpInv'
    BY <1>14, <1>12 DEF ClientSeesClose, ClientReceives, Loses, slotVars, serverVars, bridgeVars
  <1>15. ASSUME NEW t \in Turn, ChatReads(t) PROVE UpInv'
    BY <1>15, <1>12 DEF ChatReads, slotVars, serverVars, wireVars
  <1>16. CASE UNCHANGED vars
    BY <1>16, <1>12 DEF vars, connectionVars, bridgeVars, slotVars, serverVars, wireVars
  <1> QED
    BY <1>1, <1>2, <1>3, <1>4, <1>5, <1>6, <1>7, <1>8, <1>9, <1>10, <1>11, <1>13, <1>14, <1>15,
       <1>16 DEF Next, ConnectionSteps, Server

---------------------------------------------------------------------------
\* How far a turn is on the server, whatever the step.
LEMMA ServedKept ==
  ASSUME Types, UpInv, [Next]_vars
  PROVE  \A t \in Turn : /\ Begun(t) => Begun(t)'
                         /\ served[t] = "over" => served'[t] = "over"
                         /\ served[t] # "over" /\ served'[t] = "over" => TurnRefused(t) \/ TurnEnds(t)
                         /\ served'[t] = "streaming" /\ served[t] # "streaming" => TurnBegins(t)
                         /\ IsServed(t)' /\ ~IsServed(t) => ServerReceivesSubmit /\ t = Head(up).id
  <1>1. ASSUME ServerReceivesSubmit
        PROVE  /\ Head(up).id \in Turn /\ served[Head(up).id] = "none"
               /\ served' = [served EXCEPT ![Head(up).id] = "refreshing"]
    <2>1. /\ Head(up).id \in Turn /\ 1 \in DOMAIN up /\ Head(up) = up[1]
          /\ IsSubmit(Head(up), Head(up).id)
      BY <1>1, Popped, UpFrameKinds DEF ServerReceivesSubmit, Types, IsSubmit
    <2> QED BY <1>1, <2>1 DEF ServerReceivesSubmit, UpInv
  <1>2. \/ ServerReceivesSubmit
        \/ \E t \in Turn : TurnBegins(t) \/ TurnRefused(t) \/ TurnEnds(t)
        \/ served' = served
    BY DEF Next, ConnectionSteps, Server, vars, connectionVars, serverVars, ServerReceivesAbort,
       ServerReceivesClose, ServerSeesLoss, TurnEmits, AbortReturns, ClientCloses, ClientSeesClose,
       ClientReceives, Loses, Submits, StopsStaleTurn, Resubmits, ChatReads, ChatCompletes,
       ChatFails, StopPressed
  <1> DEFINE P == \A t \in Turn :
                    /\ Begun(t) => Begun(t)'
                    /\ served[t] = "over" => served'[t] = "over"
                    /\ served[t] # "over" /\ served'[t] = "over" => TurnRefused(t) \/ TurnEnds(t)
                    /\ served'[t] = "streaming" /\ served[t] # "streaming" => TurnBegins(t)
                    /\ IsServed(t)' /\ ~IsServed(t) => ServerReceivesSubmit /\ t = Head(up).id
  <1>3. ASSUME ServerReceivesSubmit PROVE P
    BY <1>1, <1>3 DEF Types, TypeOK, ConnectionTypeOK, Begun, IsServed
  <1>4. ASSUME NEW t \in Turn, TurnBegins(t) PROVE P
    <2>1. served[t] = "refreshing" /\ served' = [served EXCEPT ![t] = "streaming"]
      BY <1>4 DEF TurnBegins
    <2> QED BY <1>4, <2>1 DEF Types, TypeOK, ConnectionTypeOK, Begun, IsServed
  <1>5. ASSUME NEW t \in Turn, TurnRefused(t) \/ TurnEnds(t) PROVE P
    <2>1. served[t] \in {"refreshing", "streaming"} /\ served' = [served EXCEPT ![t] = "over"]
      BY <1>5 DEF TurnRefused, TurnEnds
    <2> QED BY <1>5, <2>1 DEF Types, TypeOK, ConnectionTypeOK, Begun, IsServed
  <1>6. CASE served' = served
    BY <1>6 DEF Begun, IsServed
  <1> QED BY <1>2, <1>3, <1>4, <1>5, <1>6

LEMMA HolderKept == Types /\ UpInv /\ HolderInv /\ KeyInv /\ [Next]_vars => HolderInv' /\ KeyInv'
  <1> SUFFICES ASSUME Types, UpInv, HolderInv, KeyInv, [Next]_vars PROVE HolderInv' /\ KeyInv'
    OBVIOUS
  <1> USE ConnectionAssumption
  <1>1. ASSUME ServerReceivesSubmit PROVE HolderInv' /\ KeyInv'
    <2>1. /\ Head(up).id \in Turn /\ 1 \in DOMAIN up /\ Head(up) = up[1]
          /\ IsSubmit(Head(up), Head(up).id)
      BY <1>1, Popped, UpFrameKinds DEF ServerReceivesSubmit, Types, IsSubmit
    <2>2. served[Head(up).id] = "none" /\ served' = [served EXCEPT ![Head(up).id] = "refreshing"]
      BY <1>1, <2>1 DEF ServerReceivesSubmit, UpInv
    <2>3. holder' = holder
      BY <1>1 DEF ServerReceivesSubmit, slotVars
    <2> QED BY <2>1, <2>2, <2>3 DEF HolderInv, KeyInv, Types, TypeOK, ConnectionTypeOK
  <1>2. ASSUME NEW t \in Turn, TurnBegins(t) PROVE HolderInv' /\ KeyInv'
    <2>1. /\ holder[KeyOf[t]] = None /\ holder' = [holder EXCEPT ![KeyOf[t]] = t]
          /\ served' = [served EXCEPT ![t] = "streaming"]
      BY <1>2 DEF TurnBegins, Slot!Acquire
    <2>2. KeyOf[t] \in Key /\ t # None
      OBVIOUS
    <2>3. ASSUME NEW u \in Turn, u # t
          PROVE  served'[u] = "streaming" <=> holder'[KeyOf[u]] = u
      <3>1. served'[u] = served[u] /\ KeyOf[u] \in Key /\ u # None
        BY <2>1, <2>3 DEF Types, TypeOK, ConnectionTypeOK
      <3>2. CASE KeyOf[u] = KeyOf[t]
        BY <2>1, <2>2, <2>3, <3>1, <3>2 DEF HolderInv, Types, TypeOK, ConnectionTypeOK
      <3>3. CASE KeyOf[u] # KeyOf[t]
        BY <2>1, <2>2, <2>3, <3>1, <3>3 DEF HolderInv, Types, TypeOK, ConnectionTypeOK
      <3> QED BY <3>2, <3>3
    <2>4. served'[t] = "streaming" /\ holder'[KeyOf[t]] = t
      BY <2>1, <2>2 DEF Types, TypeOK, ConnectionTypeOK
    <2>5. KeyInv'
      BY <2>1, <2>2 DEF KeyInv, Types, TypeOK, ConnectionTypeOK
    <2> QED BY <2>3, <2>4, <2>5 DEF HolderInv
  <1>3. ASSUME NEW t \in Turn, TurnRefused(t) PROVE HolderInv' /\ KeyInv'
    <2>1. /\ served[t] = "refreshing" /\ served' = [served EXCEPT ![t] = "over"]
          /\ holder' = holder
      BY <1>3 DEF TurnRefused, slotVars
    <2> QED BY <2>1 DEF HolderInv, KeyInv, Types, TypeOK, ConnectionTypeOK
  <1>4. ASSUME NEW t \in Turn, TurnEnds(t) PROVE HolderInv' /\ KeyInv'
    <2>1. /\ holder[KeyOf[t]] = t /\ holder' = [holder EXCEPT ![KeyOf[t]] = None]
          /\ served' = [served EXCEPT ![t] = "over"]
      BY <1>4 DEF TurnEnds, Slot!Release
    <2>2. KeyOf[t] \in Key /\ t # None
      OBVIOUS
    <2>3. ASSUME NEW u \in Turn, u # t
          PROVE  served'[u] = "streaming" <=> holder'[KeyOf[u]] = u
      <3>1. served'[u] = served[u] /\ KeyOf[u] \in Key /\ u # None
        BY <2>1, <2>3 DEF Types, TypeOK, ConnectionTypeOK
      <3>2. CASE KeyOf[u] = KeyOf[t]
        BY <2>1, <2>2, <2>3, <3>1, <3>2 DEF HolderInv, Types, TypeOK, ConnectionTypeOK
      <3>3. CASE KeyOf[u] # KeyOf[t]
        BY <2>1, <2>2, <2>3, <3>1, <3>3 DEF HolderInv, Types, TypeOK, ConnectionTypeOK
      <3> QED BY <3>2, <3>3
    <2>4. served'[t] # "streaming" /\ holder'[KeyOf[t]] # t
      BY <2>1, <2>2 DEF Types, TypeOK, ConnectionTypeOK
    <2>5. KeyInv'
      BY <2>1, <2>2 DEF KeyInv, Types, TypeOK, ConnectionTypeOK
    <2> QED BY <2>3, <2>4, <2>5 DEF HolderInv
  <1>5. CASE UNCHANGED <<served, holder>>
    BY <1>5 DEF HolderInv, KeyInv
  <1>6. \/ ServerReceivesSubmit \/ UNCHANGED <<served, holder>>
        \/ \E t \in Turn : TurnBegins(t) \/ TurnRefused(t) \/ TurnEnds(t)
    BY DEF Next, ConnectionSteps, Server, vars, connectionVars, serverVars, slotVars,
       ServerReceivesAbort, Slot!CallAbort, ServerReceivesClose, ServerSeesLoss, TurnEmits,
       AbortReturns, Slot!ReturnAbort, ClientCloses, ClientSeesClose, ClientReceives, Loses, Submits,
       StopsStaleTurn, Resubmits, ChatReads, ChatCompletes, ChatFails, StopPressed
  <1> QED BY <1>1, <1>2, <1>3, <1>4, <1>5, <1>6

LEMMA AloneKept == Types /\ UpInv /\ AloneInv /\ [Next]_vars => AloneInv'
  <1> SUFFICES ASSUME Types, UpInv, AloneInv, [Next]_vars PROVE AloneInv'
    OBVIOUS
  <1> USE ConnectionAssumption
  <1>1. ASSUME ServerReceivesSubmit PROVE AloneInv'
    <2> DEFINE v == Head(up).id
    <2>1. v \in Turn
      BY <1>1, Popped, UpFrameKinds DEF ServerReceivesSubmit, Types
    <2>2. /\ \A t \in Turn : IsServed(t)' /\ ~IsServed(t) => t = v
          /\ inFlightSessions' = inFlightSessions \cup {KeyOf[v]} /\ serverWs' = serverWs
          /\ crowded' = IF Serving(KeyOf[v]) = {} THEN crowded
                        ELSE crowded \cup Serving(KeyOf[v]) \cup {v}
      BY <1>1, ServedKept DEF ServerReceivesSubmit
    <2>3. \A t \in Turn : IsServed(t) /\ KeyOf[t] = KeyOf[v] <=> t \in Serving(KeyOf[v])
      BY DEF Serving, IsServed
    <2>4. crowded \subseteq crowded'
      BY <2>2
    <2>5. ASSUME NEW t \in Turn, NEW u \in Turn, IsServed(t)', IsServed(u)', KeyOf[t] = KeyOf[u],
                 t # u
          PROVE  t \in crowded'
      <3>1. CASE IsServed(t) /\ IsServed(u)
        BY <2>4, <2>5, <3>1 DEF AloneInv
      <3>2. CASE ~IsServed(t)
        BY <2>2, <2>3, <2>5, <3>2
      <3>3. CASE ~IsServed(u)
        BY <2>2, <2>3, <2>5, <3>3
      <3> QED BY <3>1, <3>2, <3>3
    <2>6. ASSUME serverWs' = "open", NEW t \in Turn, IsServed(t)', t \notin crowded'
          PROVE  KeyOf[t] \in inFlightSessions'
      BY <2>2, <2>4, <2>6 DEF AloneInv
    <2> QED BY <2>5, <2>6 DEF AloneInv
  <1>2. ASSUME NEW v \in Turn, TurnRefused(v) \/ TurnEnds(v) PROVE AloneInv'
    <2>1. /\ inFlightSessions' = inFlightSessions \ {KeyOf[v]} /\ UNCHANGED <<crowded, serverWs>>
          /\ IsServed(v) /\ served' = [served EXCEPT ![v] = "over"]
      BY <1>2 DEF TurnRefused, TurnEnds, SessionsAfter, IsServed
    <2>2. ~IsServed(v)' /\ \A t \in Turn : IsServed(t)' => IsServed(t)
      BY <2>1 DEF IsServed, Types, TypeOK, ConnectionTypeOK
    <2>3. \A t \in Turn : IsServed(t)' /\ KeyOf[t] = KeyOf[v] => t \in crowded
      BY <2>1, <2>2 DEF AloneInv
    <2> QED BY <2>1, <2>2, <2>3 DEF AloneInv
  <1>3. ASSUME NEW v \in Turn, TurnBegins(v) PROVE AloneInv'
    <2>1. /\ UNCHANGED <<crowded, inFlightSessions, serverWs>>
          /\ served[v] = "refreshing" /\ served' = [served EXCEPT ![v] = "streaming"]
      BY <1>3 DEF TurnBegins
    <2>2. \A t \in Turn : IsServed(t)' => IsServed(t)
      BY <2>1 DEF IsServed, Types, TypeOK, ConnectionTypeOK
    <2> QED BY <2>1, <2>2 DEF AloneInv
  <1>4. ASSUME ServerReceivesClose \/ ServerSeesLoss PROVE AloneInv'
    BY <1>4 DEF ServerReceivesClose, ServerSeesLoss, AloneInv, IsServed
  <1>5. CASE UNCHANGED serverVars
    BY <1>5 DEF serverVars, AloneInv, IsServed
  <1>6. \/ ServerReceivesSubmit \/ ServerReceivesClose \/ ServerSeesLoss \/ UNCHANGED serverVars
        \/ \E t \in Turn : TurnBegins(t) \/ TurnRefused(t) \/ TurnEnds(t)
    BY DEF Next, ConnectionSteps, Server, vars, connectionVars, ServerReceivesAbort, TurnEmits,
       AbortReturns, ClientCloses, ClientSeesClose, ClientReceives, Loses, Submits, StopsStaleTurn,
       Resubmits, ChatReads, ChatCompletes, ChatFails, StopPressed
  <1> QED BY <1>1, <1>2, <1>3, <1>4, <1>5, <1>6

---------------------------------------------------------------------------
\* How far a request's abort is, whatever the step.
LEMMA AbortKept ==
  ASSUME Types, [Next]_vars
  PROVE  \A a \in Requests :
           /\ abort[a] = "returned" => abort'[a] = "returned"
           /\ abort[a] = "pending" => abort'[a] # "idle" /\ target'[a] = target[a]
           /\ abort[a] = "idle" => abort'[a] # "returned"
           /\ abort[a] = "idle" /\ abort'[a] = "pending" =>
                target'[a] = holder[AbortKeyOf[a]] /\ served' = served
           /\ abort[a] = "pending" /\ abort'[a] = "returned" =>
                /\ target[a] = None \/ holder[AbortKeyOf[a]] # target[a]
                /\ served' = served
  <1> USE CallTypes
  <1> DEFINE P(a) ==
        /\ abort[a] = "returned" => abort'[a] = "returned"
        /\ abort[a] = "pending" => abort'[a] # "idle" /\ target'[a] = target[a]
        /\ abort[a] = "idle" => abort'[a] # "returned"
        /\ abort[a] = "idle" /\ abort'[a] = "pending" =>
             target'[a] = holder[AbortKeyOf[a]] /\ served' = served
        /\ abort[a] = "pending" /\ abort'[a] = "returned" =>
             /\ target[a] = None \/ holder[AbortKeyOf[a]] # target[a]
             /\ served' = served
  <1>1. ASSUME ServerReceivesAbort, NEW a \in Requests PROVE P(a)
    <2>1. /\ Head(up).id \in AbortCall /\ abort[Head(up).id] = "idle" /\ served' = served
          /\ abort' = [abort EXCEPT ![Head(up).id] = "pending"]
          /\ target' = [target EXCEPT ![Head(up).id] = holder[AbortKeyOf[Head(up).id]]]
      BY <1>1, Popped, UpFrameKinds DEF ServerReceivesAbort, Slot!CallAbort, Types, serverVars
    <2> QED BY <2>1 DEF Types, TypeOK, ConnectionTypeOK
  <1>2. ASSUME ServerSeesLoss, NEW a \in Requests PROVE P(a)
    <2>1. a \notin {OnLoss(k) : k \in AbortedSessions}
      BY DEF OnLoss, Requests, BeforeTurn, ByUser
    <2>2. abort'[a] = abort[a] /\ target'[a] = target[a]
      BY <1>2, <2>1 DEF ServerSeesLoss
    <2> QED BY <2>2 DEF Types, TypeOK, ConnectionTypeOK
  <1>3. ASSUME NEW b \in Requests, AbortReturns(b), NEW a \in Requests PROVE P(a)
    <2>1. /\ abort[b] = "pending" /\ abort' = [abort EXCEPT ![b] = "returned"]
          /\ target[b] = None \/ holder[AbortKeyOf[b]] # target[b]
          /\ target' = target /\ served' = served
      BY <1>3 DEF AbortReturns, Slot!ReturnAbort, serverVars
    <2> QED BY <2>1 DEF Types, TypeOK, ConnectionTypeOK
  <1>4. ASSUME UNCHANGED <<abort, target>>, NEW a \in Requests PROVE P(a)
    BY <1>4
  <1>5. \/ ServerReceivesAbort \/ ServerSeesLoss \/ UNCHANGED <<abort, target>>
        \/ \E b \in Requests : AbortReturns(b)
    BY DEF Next, ConnectionSteps, Server, vars, connectionVars, slotVars, ServerReceivesSubmit,
       ServerReceivesClose, TurnBegins, Slot!Acquire, TurnRefused, TurnEmits, TurnEnds, Slot!Release,
       ClientCloses, ClientSeesClose, ClientReceives, Loses, Submits, StopsStaleTurn, Resubmits,
       ChatReads, ChatCompletes, ChatFails, StopPressed
  <1> QED BY <1>1, <1>2, <1>3, <1>4, <1>5

\* What is on its way to the client tells of turns that have begun and of aborts that have
\* returned.
Telling(frame, at, of) ==
  /\ frame.type = "event" => at[frame.id] \in {"streaming", "over"}
  /\ frame.type = "response" => of[frame.id] = "returned"

LEMMA Told ==
  ASSUME Types, UpInv, [Next]_vars, \A i \in DOMAIN down : Telling(down[i], served, abort)
  PROVE  \A i \in DOMAIN down' : Telling(down'[i], served', abort')
  <1> DEFINE P == \A i \in DOMAIN down' : Telling(down'[i], served', abort')
  <1>1. \A i \in DOMAIN down : Telling(down[i], served', abort')
    <2> SUFFICES ASSUME NEW i \in DOMAIN down PROVE Telling(down[i], served', abort')
      OBVIOUS
    <2>1. down[i] \in DownFrame /\ Telling(down[i], served, abort)
      BY DEF Types
    <2>2. down[i].type = "event" => served'[down[i].id] \in {"streaming", "over"}
      BY <2>1, ServedKept, DownFrameKinds DEF Telling, Begun
    <2>3. down[i].type = "response" => abort'[down[i].id] = "returned"
      BY <2>1, AbortKept, DownFrameKinds DEF Telling
    <2> QED BY <2>2, <2>3 DEF Telling
  <1>2. ASSUME NEW r \in Seq(DownFrame), Written(r), \A i \in DOMAIN r : Telling(r[i], served', abort')
        PROVE  P
    <2>1. \A i \in DOMAIN down' : \/ i \in DOMAIN down /\ down'[i] = down[i]
                                  \/ \E j \in DOMAIN r : down'[i] = r[j]
      BY <1>2, Joined DEF Written, Types
    <2> QED BY <1>1, <1>2, <2>1
  <1>3. ASSUME ServerReceivesClose PROVE P
    <2> DEFINE r == <<[type |-> "close"]>>
    <2>1. r \in Seq(DownFrame) /\ Written(r)
      BY <1>3, FrameTypes DEF ServerReceivesClose
    <2>2. \A i \in DOMAIN r : Telling(r[i], served', abort')
      BY DEF Telling
    <2> QED BY <1>2, <2>1, <2>2
  <1>4. ASSUME NEW t \in Turn, TurnRefused(t) PROVE P
    <2> DEFINE r == <<EventFrame(t, "session_busy"), FinalFrame(t)>>
    <2>1. r \in Seq(DownFrame) /\ Written(r)
      BY <1>4, FrameTypes DEF TurnRefused, Event
    <2>2. served'[t] = "over"
      BY <1>4 DEF TurnRefused, Types, TypeOK, ConnectionTypeOK
    <2>3. \A i \in DOMAIN r : Telling(r[i], served', abort')
      BY <2>2 DEF Telling, EventFrame, FinalFrame
    <2> QED BY <1>2, <2>1, <2>3
  <1>5. ASSUME NEW t \in Turn, TurnEmits(t) PROVE P
    <2>1. PICK e \in {"event", "turn_completed"} : Written(<<EventFrame(t, e)>>)
      BY <1>5 DEF TurnEmits
    <2> DEFINE r == <<EventFrame(t, e)>>
    <2>2. r \in Seq(DownFrame)
      BY FrameTypes DEF Event
    <2>3. served'[t] = "streaming"
      BY <1>5 DEF TurnEmits, serverVars
    <2>4. \A i \in DOMAIN r : Telling(r[i], served', abort')
      BY <2>3 DEF Telling, EventFrame
    <2> QED BY <1>2, <2>1, <2>2, <2>4
  <1>6. ASSUME NEW t \in Turn, TurnEnds(t) PROVE P
    <2> DEFINE r == <<FinalFrame(t)>>
    <2>1. r \in Seq(DownFrame) /\ Written(r)
      BY <1>6, FrameTypes DEF TurnEnds, FinalFrames, Event
    <2>2. \A i \in DOMAIN r : Telling(r[i], served', abort')
      BY DEF Telling, FinalFrame
    <2> QED BY <1>2, <2>1, <2>2
  <1>7. ASSUME NEW a \in Requests, AbortReturns(a) PROVE P
    <2> DEFINE r == <<[type |-> "response", id |-> a]>>
    <2>1. r \in Seq(DownFrame) /\ Written(r)
      BY <1>7, FrameTypes DEF AbortReturns
    <2>2. abort'[a] = "returned"
      BY <1>7, CallTypes DEF AbortReturns, Slot!ReturnAbort, Types, TypeOK, ConnectionTypeOK
    <2>3. \A i \in DOMAIN r : Telling(r[i], served', abort')
      BY <2>2 DEF Telling
    <2> QED BY <1>2, <2>1, <2>3
  <1>8. ASSUME down # <<>>, down' = Tail(down) PROVE P
    BY <1>1, <1>8, Popped DEF Types
  <1>9. ASSUME down' = <<>> PROVE P
    BY <1>9
  <1>10. ASSUME down' = down PROVE P
    BY <1>1, <1>10
  <1>11. \/ down # <<>> /\ down' = Tail(down)
         \/ down' = <<>> \/ down' = down \/ ServerReceivesClose
         \/ \E t \in Turn : TurnRefused(t) \/ TurnEmits(t) \/ TurnEnds(t)
         \/ \E a \in Requests : AbortReturns(a)
    BY DEF Next, ConnectionSteps, Server, vars, connectionVars, wireVars, ServerReceivesSubmit,
       ServerReceivesAbort, ServerSeesLoss, TurnBegins, ClientCloses, ClientSeesClose,
       ClientReceives, Loses, Submits, StopsStaleTurn, Resubmits, ChatReads, ChatCompletes,
       ChatFails, StopPressed
  <1> QED BY <1>3, <1>4, <1>5, <1>6, <1>7, <1>8, <1>9, <1>10, <1>11

LEMMA SeenKept ==
  ASSUME Types, UpInv, SeenInv, [Next]_vars, \A i \in DOMAIN down : Telling(down[i], served, abort)
  PROVE  SeenInv'
  <1> USE ConnectionAssumption
  <1>1. \A i \in DOMAIN down' :
          down'[i].type = "event" => served'[down'[i].id] \in {"streaming", "over"}
    BY Told DEF Telling
  <1>2. \A t \in Turn : Begun(t) => Begun(t)'
    BY ServedKept
  <1>3. \A t \in Turn : queue'[t] # <<>> \/ shown'[t] # <<>> => Begun(t)'
    <2>1. CASE ClientReceives /\ UNCHANGED bridgeVars
      <3>1. /\ 1 \in DOMAIN down /\ Head(down) = down[1] /\ Head(down) \in DownFrame
        BY <2>1, Popped DEF ClientReceives, Types
      <3>2. \/ queue' = queue
            \/ /\ Head(down).type = "event"
               /\ queue' = [queue EXCEPT ![Head(down).id] = Append(@, Head(down).event)]
        BY <2>1 DEF ClientReceives
      <3>3. Head(down).type = "event" => Begun(Head(down).id)
        BY <3>1 DEF Telling, Begun
      <3>4. \A t \in Turn : queue'[t] # queue[t] => Begun(t)
        BY <3>1, <3>2, <3>3 DEF Types, TypeOK, ConnectionTypeOK
      <3>5. shown' = shown
        BY <2>1 DEF bridgeVars
      <3> QED BY <1>2, <3>4, <3>5 DEF SeenInv
    <2>2. ASSUME NEW t \in Turn, ChatReads(t)
          PROVE  \A u \in Turn : queue'[u] # <<>> \/ shown'[u] # <<>> => Begun(u)'
      <3>1. /\ queue[t] # <<>> /\ queue' = [queue EXCEPT ![t] = Tail(@)]
            /\ shown' = [shown EXCEPT ![t] = Append(@, Head(queue[t]))]
        BY <2>2 DEF ChatReads
      <3>2. \A u \in Turn : u # t => queue'[u] = queue[u] /\ shown'[u] = shown[u]
        BY <3>1 DEF Types, TypeOK, ConnectionTypeOK
      <3>3. Begun(t)
        BY <3>1 DEF SeenInv
      <3> QED BY <1>2, <3>2, <3>3 DEF SeenInv
    <2>3. CASE UNCHANGED <<queue, shown>>
      BY <1>2, <2>3 DEF SeenInv
    <2>4. \/ ClientReceives /\ UNCHANGED bridgeVars
          \/ UNCHANGED <<queue, shown>> \/ \E t \in Turn : ChatReads(t)
      BY DEF Next, ConnectionSteps, Server, vars, connectionVars, clientVars, bridgeVars,
         ServerReceivesSubmit, ServerReceivesAbort, ServerReceivesClose, ServerSeesLoss, TurnBegins,
         TurnRefused, TurnEmits, TurnEnds, AbortReturns, ClientCloses, ClientSeesClose, Loses,
         Submits, StopsStaleTurn, Resubmits, SubmitTurn, OpenStream, Ask, ChatCompletes, ChatFails,
         StopPressed
    <2> QED BY <2>1, <2>2, <2>3, <2>4
  <1>4. \A k \in Key : runId'[k] # None => KeyOf[runId'[k]] = k
    <2>1. ASSUME NEW t \in Turn, runId' = Cleared(t)
          PROVE  \A k \in Key : runId'[k] # None => KeyOf[runId'[k]] = k
      BY <2>1 DEF Cleared, SeenInv, Types, TypeOK
    <2>2. ASSUME NEW t \in Turn, SubmitTurn(t)
          PROVE  \A k \in Key : runId'[k] # None => KeyOf[runId'[k]] = k
      <3>1. \/ runId' = [runId EXCEPT ![KeyOf[t]] = t]
            \/ runId' = [runId EXCEPT ![KeyOf[t]] = None]
        BY <2>2 DEF SubmitTurn
      <3>2. runId \in [Key -> Turn \cup {None}] /\ \A k \in Key : runId[k] # None => KeyOf[runId[k]] = k
        BY DEF SeenInv, Types, TypeOK
      <3> QED BY <3>1, <3>2
    <2>3. CASE runId' = runId
      BY <2>3 DEF SeenInv
    <2>4. \/ runId' = runId \/ \E t \in Turn : runId' = Cleared(t) \/ SubmitTurn(t)
      BY DEF Next, vars, bridgeVars, Submits, StopsStaleTurn, Resubmits, ChatReads, ChatCompletes,
         ChatFails, StopPressed
    <2> QED BY <2>1, <2>2, <2>3, <2>4
  <1> QED BY <1>1, <1>3, <1>4 DEF SeenInv, Begun

LEMMA StaleKept ==
  ASSUME Types, UpInv, HolderInv, SeenInv, StaleInv, [Next]_vars PROVE StaleInv'
  <1> USE ConnectionAssumption
  <1>1. \A i \in DOMAIN down : Telling(down[i], served, abort)
    BY DEF Telling, SeenInv, StaleInv, Begun
  <1>2. \A i \in DOMAIN down' : down'[i].type = "response" => abort'[down'[i].id] = "returned"
    BY <1>1, Told DEF Telling
  <1>3. ASSUME NEW t \in Turn, reply'[BeforeTurn(t)] = "ok" PROVE abort'[BeforeTurn(t)] = "returned"
    <2> DEFINE b == BeforeTurn(t)
    <2>1. b \in Requests
      BY KeyOfCall
    <2>2. CASE reply[b] = "ok"
      BY <2>1, <2>2, AbortKept DEF StaleInv
    <2>3. CASE ClientReceives /\ reply[b] # "ok"
      <3>1. 1 \in DOMAIN down /\ Head(down) = down[1] /\ Head(down) \in DownFrame
        BY <2>3, Popped DEF ClientReceives, Types
      <3>2. \/ reply' = reply
            \/ /\ Head(down).type = "response"
               /\ reply' = [reply EXCEPT ![Head(down).id] = IF @ = "pending" THEN "ok" ELSE @]
        BY <2>3 DEF ClientReceives
      <3>3. Head(down).type = "response" /\ Head(down).id = b
        BY <1>3, <2>1, <2>3, <3>2 DEF Types, TypeOK, ConnectionTypeOK
      <3> QED BY <2>1, <3>1, <3>3, AbortKept DEF StaleInv
    <2>4. CASE reply[b] # "ok" /\ ~ClientReceives
      <3>1. ASSUME NEW a \in Requests, Ask(a) PROVE FALSE
        BY <1>3, <2>1, <2>4, <3>1 DEF Ask, Types, TypeOK, ConnectionTypeOK
      <3>2. ASSUME ClientSeesClose PROVE FALSE
        BY <1>3, <2>1, <2>4, <3>2 DEF ClientSeesClose, PendingRejected
      <3>3. ASSUME reply' = reply PROVE FALSE
        BY <1>3, <2>4, <3>3
      <3>4. \A s \in Stop : ByUser(s) \in Requests
        BY DEF Requests
      <3>5. \/ ClientSeesClose \/ reply' = reply \/ \E a \in Requests : Ask(a)
        BY <2>4, <3>4, KeyOfCall
        DEF Next, ConnectionSteps, Server, vars, connectionVars, clientVars, ServerReceivesSubmit,
            ServerReceivesAbort, ServerReceivesClose, ServerSeesLoss, TurnBegins, TurnRefused,
            TurnEmits, TurnEnds, AbortReturns, ClientCloses, Loses, Submits, StopsStaleTurn,
            Resubmits, ChatReads, ChatCompletes, ChatFails, StopPressed
      <3> QED BY <3>1, <3>2, <3>3, <3>5
    <2> QED BY <2>2, <2>3, <2>4
  <1>4. ASSUME NEW t \in Turn, stale'[t] # None
        PROVE  /\ KeyOf[stale'[t]] = KeyOf[t] /\ served'[stale'[t]] \in {"streaming", "over"}
               /\ abort'[BeforeTurn(t)] = "pending" =>
                    target'[BeforeTurn(t)] = stale'[t] \/ served'[stale'[t]] = "over"
               /\ abort'[BeforeTurn(t)] = "returned" => served'[stale'[t]] = "over"
    <2> DEFINE b == BeforeTurn(t)
    <2>1. b \in Requests /\ AbortKeyOf[b] = KeyOf[t]
      BY KeyOfCall
    <2>2. CASE stale'[t] = stale[t]
      <3>1. /\ stale[t] \in Turn /\ KeyOf[stale[t]] = KeyOf[t] /\ Begun(stale[t])
            /\ served'[stale[t]] \in {"streaming", "over"}
        BY <1>4, <2>2, ServedKept DEF StaleInv, Types, TypeOK, Begun
      <3>2. served[stale[t]] = "over" \/ holder[KeyOf[t]] = stale[t]
        BY <3>1 DEF HolderInv, Begun
      <3>3. abort[b] \in {"idle", "pending", "returned"}
        BY <2>1, CallTypes DEF Types, TypeOK, ConnectionTypeOK
      <3>4. served[stale[t]] = "over" => served'[stale[t]] = "over"
        BY <3>1, ServedKept
      <3>5. CASE abort[b] = "idle"
        <4>1. /\ abort'[b] # "returned"
              /\ abort'[b] = "pending" => target'[b] = holder[KeyOf[t]]
          BY <2>1, <3>5, AbortKept
        <4> QED BY <2>2, <3>1, <3>2, <3>4, <4>1
      <3>6. CASE abort[b] = "pending"
        <4>1. target[b] = stale[t] \/ served[stale[t]] = "over"
          BY <1>4, <2>2, <3>6 DEF StaleInv
        <4>2. /\ target'[b] = target[b] /\ abort'[b] # "idle"
              /\ abort'[b] = "returned" => target[b] = None \/ holder[KeyOf[t]] # target[b]
          BY <2>1, <3>6, AbortKept
        <4> QED BY <1>4, <2>2, <3>1, <3>2, <3>4, <4>1, <4>2
      <3>7. CASE abort[b] = "returned"
        <4>1. served[stale[t]] = "over" /\ abort'[b] = "returned"
          BY <1>4, <2>1, <2>2, <3>7, AbortKept DEF StaleInv
        <4> QED BY <2>2, <3>1, <3>4, <4>1
      <3> QED BY <3>3, <3>5, <3>6, <3>7
    <2>3. CASE stale'[t] # stale[t]
      <3>1. \/ stale' = stale \/ \E u \in Turn : StopsStaleTurn(u)
        BY DEF Next, vars, bridgeVars, Submits, Resubmits, ChatReads, ChatCompletes, ChatFails,
           StopPressed
      <3>2. StopsStaleTurn(t)
        BY <2>3, <3>1 DEF StopsStaleTurn, Types, TypeOK
      <3>3. /\ chat[t] = "idle" /\ runId[KeyOf[t]] # None /\ UNCHANGED <<served, abort>>
            /\ stale'[t] = IF shown[runId[KeyOf[t]]] = <<>> THEN None ELSE runId[KeyOf[t]]
        BY <3>2 DEF StopsStaleTurn, serverVars, slotVars, Types, TypeOK
      <3>4. /\ stale'[t] = runId[KeyOf[t]] /\ runId[KeyOf[t]] \in Turn
            /\ shown[runId[KeyOf[t]]] # <<>>
        BY <1>4, <3>3 DEF Types, TypeOK
      <3>5. KeyOf[stale'[t]] = KeyOf[t] /\ served[stale'[t]] \in {"streaming", "over"}
        BY <3>4 DEF SeenInv, Begun
      <3>6. abort'[b] = "idle"
        BY <3>3 DEF UpInv
      <3>7. served'[stale'[t]] \in {"streaming", "over"}
        BY <3>3, <3>5
      <3>8. abort'[b] # "pending" /\ abort'[b] # "returned"
        BY <3>6
      <3> QED BY <3>5, <3>7, <3>8
    <2> QED BY <2>2, <2>3
  <1> QED BY <1>2, <1>3, <1>4 DEF StaleInv, Begun

---------------------------------------------------------------------------
LEMMA InvAlways == Spec => []Inv
  <1>1. Inv /\ [Next]_vars => Inv'
    <2> SUFFICES ASSUME Inv, [Next]_vars PROVE Inv'
      OBVIOUS
    <2>1. \A i \in DOMAIN down : Telling(down[i], served, abort)
      BY DEF Inv, Telling, SeenInv, StaleInv, Begun
    <2> QED BY <2>1, TypesKept, UpKept, HolderKept, AloneKept, SeenKept, StaleKept DEF Inv
  <1> QED BY <1>1, InitInv, PTL DEF Spec

\* The variables of connection and bridge keep their types.
THEOREM TypeCorrect == Spec => []TypeOK
  <1>1. Inv => TypeOK
    BY DEF Inv, Types
  <1> QED BY <1>1, InvAlways, PTL

\* abortInFlightTurns: a connection that is lost stops the turns that are in flight on it,
\* although the set of sessions counts nothing, as long as a turn has had its session to
\* itself on the connection.
THEOREM LossStops == Spec => LossStopsTurns
  <1>1. Inv /\ [Next]_vars =>
          \A t \in Turn :
            (/\ serverWs = "open" /\ serverWs' = "closed" /\ ~OnTheWay(up, [type |-> "close"])
             /\ served[t] = "streaming" /\ emitted[t] # <<>> /\ t \notin crowded)
              => t \in signalled'
    <2> SUFFICES ASSUME Inv, [Next]_vars, NEW t \in Turn, serverWs = "open", serverWs' = "closed",
                        ~OnTheWay(up, [type |-> "close"]), served[t] = "streaming",
                        emitted[t] # <<>>, t \notin crowded
                 PROVE  t \in signalled'
      OBVIOUS
    <2> USE ConnectionAssumption
    <2>1. \/ ServerReceivesClose \/ ServerSeesLoss \/ serverWs' = serverWs
      BY DEF Next, ConnectionSteps, Server, vars, connectionVars, serverVars, ServerReceivesSubmit,
         ServerReceivesAbort, TurnBegins, TurnRefused, TurnEmits, TurnEnds, AbortReturns,
         ClientCloses, ClientSeesClose, ClientReceives, Loses, Submits, StopsStaleTurn, Resubmits,
         ChatReads, ChatCompletes, ChatFails, StopPressed
    <2>2. ~ServerReceivesClose
      <3> SUFFICES ASSUME ServerReceivesClose PROVE FALSE
        OBVIOUS
      <3>1. 1 \in DOMAIN up /\ up[1] \in UpFrame /\ up[1].type = "close"
        BY Popped DEF ServerReceivesClose, Inv, Types
      <3>2. up[1] = [type |-> "close"]
        BY <3>1 DEF UpFrame
      <3> QED BY <3>1, <3>2 DEF OnTheWay
    <2>3. ServerSeesLoss
      BY <2>1, <2>2
    <2>4. KeyOf[t] \in AbortedSessions /\ holder[KeyOf[t]] = t /\ t # None
      BY DEF Inv, AloneInv, HolderInv, IsServed, AbortedSessions
    <2> DEFINE calls == {OnLoss(k) : k \in AbortedSessions}
    <2>5. OnLoss(KeyOf[t]) \in calls /\ AbortKeyOf[OnLoss(KeyOf[t])] = KeyOf[t]
      BY <2>4 DEF OnLoss, AbortCall, AbortKeyOf
    <2>6. t \in {holder[AbortKeyOf[a]] : a \in calls} \ {None}
      BY <2>4, <2>5
    <2>7. Signals({holder[AbortKeyOf[a]] : a \in calls} \ {None})
      BY <2>3 DEF ServerSeesLoss
    <2> QED BY <2>6, <2>7 DEF Signals
  <1> QED BY <1>1, InvAlways, PTL DEF LossStopsTurns, Spec

\* runChatViaGateway: a chat that has stopped the turn of its session, which it had heard
\* of, is never answered session_busy because of that turn.
THEOREM NeverBusyWithStopped == Spec => NotBusyWithStopped
  <1>1. Inv /\ [Next]_vars =>
          \A t \in Turn :
            (served[t] = "refreshing" /\ served'[t] = "over" /\ reply[BeforeTurn(t)] = "ok")
              => stale[t] = None \/ holder[KeyOf[t]] # stale[t]
    <2> SUFFICES ASSUME Inv, NEW t \in Turn, reply[BeforeTurn(t)] = "ok", stale[t] # None,
                        holder[KeyOf[t]] = stale[t]
                 PROVE  FALSE
      OBVIOUS
    <2>1. served[stale[t]] = "over" /\ KeyOf[stale[t]] = KeyOf[t] /\ stale[t] \in Turn
      BY DEF Inv, StaleInv, Types, TypeOK
    <2>2. served[stale[t]] = "streaming"
      BY <2>1 DEF Inv, HolderInv
    <2> QED BY <2>1, <2>2
  <1> QED BY <1>1, InvAlways, PTL DEF NotBusyWithStopped, Spec

CloseFrame == [type |-> "close"]
SubmitFrame(t) == [type |-> "submit_turn", id |-> t]

---------------------------------------------------------------------------
\* Frames on their way.

LEMMA WayKept ==
  ASSUME NEW S, NEW s \in Seq(S), NEW r \in Seq(S), NEW f, OnTheWay(s, f)
  PROVE  OnTheWay(s \o r, f)
  BY DEF OnTheWay

LEMMA WayWritten ==
  ASSUME NEW S, NEW s \in Seq(S), NEW r \in Seq(S), NEW j \in DOMAIN r
  PROVE  OnTheWay(s \o r, r[j])
  <1>1. /\ Len(s) + j \in DOMAIN (s \o r) /\ (s \o r)[Len(s) + j] = r[j]
    OBVIOUS
  <1> QED BY <1>1 DEF OnTheWay

LEMMA WayAppended ==
  ASSUME NEW S, NEW s \in Seq(S), NEW e \in S
  PROVE  /\ OnTheWay(Append(s, e), e)
         /\ \A f : OnTheWay(s, f) => OnTheWay(Append(s, e), f)
  <1>1. Append(s, e)[Len(s) + 1] = e /\ Len(s) + 1 \in DOMAIN Append(s, e)
    OBVIOUS
  <1>2. ASSUME NEW f, OnTheWay(s, f) PROVE OnTheWay(Append(s, e), f)
    <2>1. PICK i \in DOMAIN s : s[i] = f
      BY <1>2 DEF OnTheWay
    <2>2. i \in DOMAIN Append(s, e) /\ Append(s, e)[i] = f
      BY <2>1
    <2> QED BY <2>2 DEF OnTheWay
  <1> QED BY <1>1, <1>2 DEF OnTheWay

LEMMA WayPopped ==
  ASSUME NEW S, NEW s \in Seq(S), s # <<>>, NEW f, OnTheWay(s, f), Head(s) # f
  PROVE  OnTheWay(Tail(s), f)
  <1>1. PICK i \in DOMAIN s : s[i] = f
    BY DEF OnTheWay
  <1>2. i # 1
    BY <1>1
  <1>3. i - 1 \in DOMAIN Tail(s) /\ Tail(s)[i - 1] = s[i]
    BY <1>1, <1>2
  <1> QED BY <1>1, <1>3 DEF OnTheWay

---------------------------------------------------------------------------
\* Which steps move which part of the connection.

\* Who writes to the client, and what. Nothing is written once the socket is closed or lost.
Writes(frames) == frames \in Seq(DownFrame) /\ Written(frames)
Refuses(t) == TurnRefused(t) /\ Writes(<<EventFrame(t, "session_busy"), FinalFrame(t)>>)
Emits(t, e) ==
  /\ TurnEmits(t) /\ e \in Event /\ Writes(<<EventFrame(t, e)>>)
  /\ emitted' = [emitted EXCEPT ![t] = Append(@, e)]
Finishes(t) == TurnEnds(t) /\ Writes(<<FinalFrame(t)>>)
Answers(a) == AbortReturns(a) /\ Writes(<<[type |-> "response", id |-> a]>>)

LEMMA DownStep ==
  ASSUME Types, [Next]_vars
  PROVE  \/ UNCHANGED <<down, emitted>>
         \/ (ClientReceives \/ ClientSeesClose) /\ UNCHANGED bridgeVars
         \/ ServerReceivesClose /\ Writes(<<CloseFrame>>)
         \/ \E t \in Turn : Refuses(t) \/ Finishes(t) \/ \E e : Emits(t, e)
         \/ \E a \in Requests : Answers(a)
  <1>1. ASSUME ServerReceivesClose PROVE Writes(<<CloseFrame>>)
    BY <1>1, FrameTypes DEF ServerReceivesClose, Writes, CloseFrame
  <1>2. ASSUME NEW t \in Turn, TurnRefused(t) PROVE Refuses(t)
    BY <1>2, FrameTypes DEF TurnRefused, Event, Refuses, Writes
  <1>3. ASSUME NEW t \in Turn, TurnEnds(t) PROVE Finishes(t)
    BY <1>3, FrameTypes DEF TurnEnds, FinalFrames, Event, Finishes, Writes
  <1>4. ASSUME NEW t \in Turn, TurnEmits(t) PROVE \E e : Emits(t, e)
    <2>1. PICK e \in {"event", "turn_completed"} :
            /\ emitted' = [emitted EXCEPT ![t] = Append(@, e)]
            /\ Written(<<EventFrame(t, e)>>)
      BY <1>4 DEF TurnEmits
    <2>2. e \in Event
      BY DEF Event
    <2> QED BY <1>4, <2>1, <2>2, FrameTypes DEF Emits, Writes
  <1>5. ASSUME NEW a \in Requests, AbortReturns(a) PROVE Answers(a)
    BY <1>5, FrameTypes DEF AbortReturns, Answers, Writes
  <1>6. \/ UNCHANGED <<down, emitted>>
        \/ (ClientReceives \/ ClientSeesClose) /\ UNCHANGED bridgeVars
        \/ ServerReceivesClose
        \/ \E t \in Turn : TurnRefused(t) \/ TurnEmits(t) \/ TurnEnds(t)
        \/ \E a \in Requests : AbortReturns(a)
    BY DEF Next, ConnectionSteps, Server, vars, connectionVars, wireVars, turnVars,
       ServerReceivesSubmit, ServerReceivesAbort, ServerSeesLoss, TurnBegins, ClientCloses, Loses,
       Submits, StopsStaleTurn, Resubmits, ChatReads, ChatCompletes, ChatFails, StopPressed
  <1> QED BY <1>1, <1>2, <1>3, <1>4, <1>5, <1>6

LEMMA UpStep ==
  ASSUME Types, [Next]_vars
  PROVE  \/ up' = up
         \/ \E f \in UpFrame : up' = Append(up, f)
         \/ up # <<>> /\ up' = Tail(up) /\ (Head(up).type = "submit_turn" => ServerReceivesSubmit)
         \/ ServerSeesLoss
  <1>1. ASSUME NEW f \in UpFrame, Sent(f)
        PROVE  up' = up \/ \E g \in UpFrame : up' = Append(up, g)
    BY <1>1 DEF Sent
  <1>2. ASSUME NEW t \in Turn, SubmitTurn(t)
        PROVE  up' = up \/ \E g \in UpFrame : up' = Append(up, g)
    BY <1>1, <1>2, FrameTypes DEF SubmitTurn, OpenStream
  <1>3. ASSUME NEW a \in Requests, Ask(a)
        PROVE  up' = up \/ \E g \in UpFrame : up' = Append(up, g)
    BY <1>1, <1>3, FrameTypes DEF Ask
  <1>4. ASSUME ClientCloses PROVE up' = up \/ \E g \in UpFrame : up' = Append(up, g)
    BY <1>1, <1>4, FrameTypes DEF ClientCloses
  <1>5. ASSUME ServerReceivesAbort \/ ServerReceivesClose
        PROVE  up # <<>> /\ up' = Tail(up) /\ Head(up).type # "submit_turn"
    BY <1>5 DEF ServerReceivesAbort, ServerReceivesClose
  <1>6. \A s \in Stop : ByUser(s) \in Requests
    BY DEF Requests
  <1>7. \/ up' = up \/ ServerSeesLoss \/ ClientCloses
        \/ ServerReceivesSubmit \/ ServerReceivesAbort \/ ServerReceivesClose
        \/ \E t \in Turn : SubmitTurn(t)
        \/ \E a \in Requests : Ask(a)
    BY <1>6, KeyOfCall
    DEF Next, ConnectionSteps, Server, vars, connectionVars, wireVars, TurnBegins, TurnRefused,
        TurnEmits, TurnEnds, AbortReturns, ClientSeesClose, ClientReceives, Loses, Submits,
        StopsStaleTurn, Resubmits, ChatReads, ChatCompletes, ChatFails, StopPressed
  <1> QED BY <1>2, <1>3, <1>4, <1>5, <1>7 DEF ServerReceivesSubmit

\* The ends of the connection only ever close.
LEMMA EndsStep ==
  ASSUME Types, [Next]_vars
  PROVE  /\ lost => lost'
         /\ serverWs = "closed" => serverWs' = "closed"
         /\ serverWs' # serverWs => ServerReceivesClose \/ ServerSeesLoss
         /\ clientWs = "closed" => clientWs' = "closed"
         /\ clientWs' = "closed" => clientWs = "closed" \/ ClientSeesClose
  <1>1. \/ UNCHANGED <<lost, serverWs, clientWs>>
        \/ ServerReceivesClose \/ ServerSeesLoss \/ ClientCloses \/ ClientSeesClose \/ Loses
    BY DEF Next, ConnectionSteps, Server, vars, connectionVars, wireVars, serverVars, clientVars,
       ServerReceivesSubmit, ServerReceivesAbort, TurnBegins, TurnRefused, TurnEmits, TurnEnds,
       AbortReturns, ClientReceives, Submits, StopsStaleTurn, Resubmits, SubmitTurn, OpenStream,
       Ask, ChatReads, ChatCompletes, ChatFails, StopPressed
  <1>2. ServerReceivesClose => UNCHANGED <<lost, clientWs>> /\ serverWs' = "closed"
    BY DEF ServerReceivesClose, clientVars
  <1>3. ServerSeesLoss => UNCHANGED <<lost, clientWs>> /\ serverWs' = "closed"
    BY DEF ServerSeesLoss, clientVars
  <1>4. ClientCloses => UNCHANGED <<lost, serverWs>> /\ clientWs' = "closing" /\ clientWs # "closed"
    BY DEF ClientCloses, serverVars
  <1>5. ClientSeesClose => UNCHANGED <<lost, serverWs>> /\ clientWs' = "closed"
    BY DEF ClientSeesClose, serverVars
  <1>6. Loses => UNCHANGED <<serverWs, clientWs>> /\ lost'
    BY DEF Loses, serverVars, clientVars
  <1> QED BY <1>1, <1>2, <1>3, <1>4, <1>5, <1>6

\* A turn that is being served goes on being served, or its last frame is written.
LEMMA ServingStep ==
  ASSUME Types, UpInv, [Next]_vars, NEW t \in Turn, IsServed(t)
  PROVE  IsServed(t)' \/ Refuses(t) \/ Finishes(t)
  <1>1. ASSUME ServerReceivesSubmit PROVE IsServed(t)'
    <2>1. /\ Head(up).id \in Turn /\ 1 \in DOMAIN up /\ Head(up) = up[1]
          /\ IsSubmit(Head(up), Head(up).id)
      BY <1>1, Popped, UpFrameKinds DEF ServerReceivesSubmit, Types, IsSubmit
    <2>2. served[Head(up).id] = "none"
      BY <2>1 DEF UpInv
    <2> QED BY <1>1, <2>1, <2>2 DEF ServerReceivesSubmit, IsServed, Types, TypeOK, ConnectionTypeOK
  <1>2. ASSUME NEW u \in Turn, TurnBegins(u) PROVE IsServed(t)'
    BY <1>2 DEF TurnBegins, IsServed, Types, TypeOK, ConnectionTypeOK
  <1>3. ASSUME NEW u \in Turn, TurnRefused(u) \/ TurnEnds(u), u # t PROVE IsServed(t)'
    BY <1>3 DEF TurnRefused, TurnEnds, IsServed, Types, TypeOK, ConnectionTypeOK
  <1>4. TurnRefused(t) => Refuses(t)
    BY FrameTypes DEF TurnRefused, Event, Refuses, Writes
  <1>5. TurnEnds(t) => Finishes(t)
    BY FrameTypes DEF TurnEnds, FinalFrames, Event, Finishes, Writes
  <1>6. CASE served' = served
    BY <1>6 DEF IsServed
  <1>7. \/ ServerReceivesSubmit
        \/ \E u \in Turn : TurnBegins(u) \/ TurnRefused(u) \/ TurnEnds(u)
        \/ served' = served
    BY DEF Next, ConnectionSteps, Server, vars, connectionVars, serverVars, ServerReceivesAbort,
       ServerReceivesClose, ServerSeesLoss, TurnEmits, AbortReturns, ClientCloses, ClientSeesClose,
       ClientReceives, Loses, Submits, StopsStaleTurn, Resubmits, ChatReads, ChatCompletes,
       ChatFails, StopPressed
  <1> QED BY <1>1, <1>2, <1>3, <1>4, <1>5, <1>6, <1>7

\* The streams and the chats.
LEMMA StreamStep ==
  ASSUME Types, [Next]_vars, NEW t \in Turn
  PROVE  \/ stream'[t] = stream[t]
         \/ (Submits(t) \/ Resubmits(t)) /\ stream'[t] = "open"
         \/ ClientSeesClose /\ stream[t] = "open" /\ stream'[t] = "failed"
         \/ /\ ClientReceives /\ Head(down).type = "final" /\ Head(down).id = t
            /\ stream[t] = "open" /\ stream'[t] = "closed"
  <1>1. ASSUME NEW u \in Turn, Submits(u) \/ Resubmits(u)
        PROVE  IF u = t THEN stream'[t] = "open" ELSE stream'[t] = stream[t]
    BY <1>1 DEF Submits, Resubmits, SubmitTurn, OpenStream, Types, TypeOK, ConnectionTypeOK
  <1>2. ASSUME ClientSeesClose
        PROVE  stream'[t] = stream[t] \/ (stream[t] = "open" /\ stream'[t] = "failed")
    BY <1>2 DEF ClientSeesClose, StreamsFail
  <1>3. ASSUME ClientReceives
        PROVE  \/ stream'[t] = stream[t]
               \/ /\ Head(down).type = "final" /\ Head(down).id = t
                  /\ stream[t] = "open" /\ stream'[t] = "closed"
    <2>1. \/ stream' = stream
          \/ /\ Head(down).type = "final" /\ stream[Head(down).id] = "open"
             /\ stream' = [stream EXCEPT ![Head(down).id] = "closed"]
      BY <1>3 DEF ClientReceives
    <2> QED BY <2>1 DEF Types, TypeOK, ConnectionTypeOK
  <1>4. \/ stream' = stream \/ ClientSeesClose \/ ClientReceives
        \/ \E u \in Turn : Submits(u) \/ Resubmits(u)
    BY DEF Next, ConnectionSteps, Server, vars, connectionVars, clientVars, ServerReceivesSubmit,
       ServerReceivesAbort, ServerReceivesClose, ServerSeesLoss, TurnBegins, TurnRefused, TurnEmits,
       TurnEnds, AbortReturns, ClientCloses, Loses, StopsStaleTurn, Ask, ChatReads, ChatCompletes,
       ChatFails, StopPressed
  <1> QED BY <1>1, <1>2, <1>3, <1>4

LEMMA ChatStep ==
  ASSUME Types, [Next]_vars, NEW t \in Turn
  PROVE  \/ chat'[t] = chat[t]
         \/ Submits(t) \/ Resubmits(t)
         \/ StopsStaleTurn(t) /\ chat'[t] = "stopping"
         \/ ChatCompletes(t) /\ chat'[t] = "complete"
         \/ ChatFails(t) /\ chat'[t] = "failed"
  <1>1. \/ chat' = chat
        \/ \E u \in Turn : \/ Submits(u) \/ Resubmits(u) \/ StopsStaleTurn(u)
                           \/ ChatCompletes(u) \/ ChatFails(u)
    BY DEF Next, vars, bridgeVars, ChatReads, StopPressed
  <1>2. ASSUME NEW u \in Turn, u # t,
               \/ Submits(u) \/ Resubmits(u) \/ StopsStaleTurn(u)
               \/ ChatCompletes(u) \/ ChatFails(u)
        PROVE  chat'[t] = chat[t]
    BY <1>2 DEF Submits, Resubmits, SubmitTurn, StopsStaleTurn, ChatCompletes, ChatFails, Types,
       TypeOK
  <1>3. /\ StopsStaleTurn(t) => chat'[t] = "stopping"
        /\ ChatCompletes(t) => chat'[t] = "complete"
        /\ ChatFails(t) => chat'[t] = "failed"
    BY DEF StopsStaleTurn, ChatCompletes, ChatFails, Types, TypeOK
  <1> QED BY <1>1, <1>2, <1>3

---------------------------------------------------------------------------
\* A stream is owed its end.

\* A server that was told to close has told the client, who has not noticed yet.
ClosingInv ==
  serverWs = "closed" /\ clientWs # "closed" /\ ~lost => OnTheWay(down, CloseFrame)

EndInv == Inv /\ ClosingInv /\ StreamIsOwedItsEnd

\* What is on its way to the client stays there until the client takes it.
LEMMA DownKept ==
  ASSUME Types, [Next]_vars, NEW f, OnTheWay(down, f), ~ClientSeesClose
  PROVE  OnTheWay(down', f) \/ (ClientReceives /\ Head(down) = f)
  <1>1. ASSUME NEW r, Writes(r) PROVE OnTheWay(down', f)
    BY <1>1, WayKept DEF Writes, Written, Types
  <1>2. ASSUME ClientReceives, Head(down) # f PROVE OnTheWay(down', f)
    BY <1>2, WayPopped DEF ClientReceives, Types
  <1>3. CASE down' = down
    BY <1>3
  <1> QED BY <1>1, <1>2, <1>3, DownStep DEF Refuses, Emits, Finishes, Answers

\* What is written to an open connection is on its way.
LEMMA WritesReach ==
  ASSUME Types, NEW r, Writes(r), serverWs = "open", ~lost, NEW j \in DOMAIN r
  PROVE  OnTheWay(down', r[j])
  BY WayWritten DEF Writes, Written, Types

LEMMA StepClosing ==
  ASSUME EndInv, [Next]_vars
  PROVE  ClosingInv'
  <1> SUFFICES ASSUME serverWs' = "closed", clientWs' # "closed", ~lost'
               PROVE  OnTheWay(down', CloseFrame)
    BY DEF ClosingInv
  <1> USE DEF EndInv, Inv
  <1>1. clientWs # "closed" /\ ~lost /\ ~ClientSeesClose /\ ~ServerSeesLoss
    BY EndsStep DEF ClientSeesClose, ServerSeesLoss
  <1>2. CASE serverWs = "closed"
    <2>1. OnTheWay(down, CloseFrame)
      BY <1>1, <1>2 DEF ClosingInv
    <2>2. ~(ClientReceives /\ Head(down) = CloseFrame)
      BY DEF ClientReceives, CloseFrame
    <2> QED BY <1>1, <2>1, <2>2, DownKept
  <1>3. CASE serverWs # "closed"
    <2>1. ServerReceivesClose /\ serverWs = "open"
      BY <1>1, <1>3, EndsStep DEF Types, TypeOK, ConnectionTypeOK
    <2>2. Writes(<<CloseFrame>>)
      BY <2>1, FrameTypes DEF ServerReceivesClose, Writes, CloseFrame
    <2>3. OnTheWay(down', <<CloseFrame>>[1])
      BY <1>1, <2>1, <2>2, WritesReach
    <2> QED BY <2>3
  <1> QED BY <1>2, <1>3

\* A chat that has just got its stream has its request on the way.
LEMMA SubmitIsOnItsWay ==
  ASSUME Types, NEW t \in Turn, Submits(t) \/ Resubmits(t), chat'[t] = "streaming"
  PROVE  /\ clientWs = "open" /\ clientWs' = "open"
         /\ lost \/ OnTheWay(up', SubmitFrame(t))
  <1>1. SubmitTurn(t)
    BY DEF Submits, Resubmits
  <1>2. clientWs = "open" /\ Sent(SubmitFrame(t)) /\ clientWs' = clientWs
    BY <1>1 DEF SubmitTurn, OpenStream, SubmitFrame, Types, TypeOK
  <1> QED BY <1>2, FrameTypes, WayAppended DEF Sent, SubmitFrame, Types

\* A request reaches the server, which begins to serve the turn.
LEMMA SubmitStep ==
  ASSUME Inv, [Next]_vars, NEW t \in Turn, OnTheWay(up, SubmitFrame(t)), ~lost
  PROVE  OnTheWay(up', SubmitFrame(t)) \/ IsServed(t)'
  <1> USE DEF Inv
  <1>1. CASE up' = up
    BY <1>1
  <1>2. ASSUME NEW f \in UpFrame, up' = Append(up, f) PROVE OnTheWay(up', SubmitFrame(t))
    BY <1>2, WayAppended DEF Types
  <1>3. ASSUME up # <<>>, up' = Tail(up), Head(up) # SubmitFrame(t)
        PROVE  OnTheWay(up', SubmitFrame(t))
    BY <1>3, WayPopped DEF Types
  <1>4. ASSUME ServerReceivesSubmit, Head(up) = SubmitFrame(t) PROVE IsServed(t)'
    BY <1>4 DEF ServerReceivesSubmit, SubmitFrame, IsServed, Types, TypeOK, ConnectionTypeOK
  <1>5. ~ServerSeesLoss
    BY DEF ServerSeesLoss
  <1> QED BY <1>1, <1>2, <1>3, <1>4, <1>5, UpStep DEF SubmitFrame

LEMMA StepOwed ==
  ASSUME EndInv, [Next]_vars
  PROVE  StreamIsOwedItsEnd'
  <1> USE DEF EndInv, Inv
  <1> SUFFICES ASSUME NEW t \in Turn, chat'[t] = "streaming", stream'[t] = "open"
               PROVE  /\ clientWs' # "closed"
                      /\ \/ lost'
                         \/ OnTheWay(up', SubmitFrame(t))
                         \/ IsServed(t)' /\ serverWs' = "open"
                         \/ OnTheWay(down', FinalFrame(t))
                         \/ OnTheWay(down', CloseFrame)
    BY DEF StreamIsOwedItsEnd, SubmitFrame, CloseFrame, IsServed
  <1>1. CASE Submits(t) \/ Resubmits(t)
    BY <1>1, SubmitIsOnItsWay, EndsStep
  <1>2. CASE ~(Submits(t) \/ Resubmits(t))
    <2>1. chat[t] = "streaming" /\ stream[t] = "open" /\ ~ClientSeesClose
      <3>1. ~ClientSeesClose
        BY <1>2 DEF ClientSeesClose, StreamsFail
      <3>2. stream[t] = "open"
        BY <1>2, StreamStep
      <3>3. chat[t] = "streaming"
        BY <1>2, ChatStep
      <3> QED BY <3>1, <3>2, <3>3
    <2>2. clientWs # "closed"
      BY <2>1 DEF StreamIsOwedItsEnd
    <2>3. clientWs' # "closed"
      BY <2>1, <2>2, EndsStep
    <2>4. CASE ~lost' /\ serverWs' = "open"
      <3>1. ~lost /\ serverWs = "open"
        BY <2>4, EndsStep DEF Types, TypeOK, ConnectionTypeOK
      <3>2. CASE OnTheWay(up, SubmitFrame(t))
        BY <2>3, <2>4, <3>1, <3>2, SubmitStep
      <3>3. CASE IsServed(t)
        <4>1. ASSUME Refuses(t) PROVE OnTheWay(down', FinalFrame(t))
          <5> DEFINE r == <<EventFrame(t, "session_busy"), FinalFrame(t)>>
          <5>1. Writes(r) /\ 2 \in DOMAIN r /\ r[2] = FinalFrame(t)
            BY <4>1 DEF Refuses
          <5> QED BY <3>1, <5>1, WritesReach
        <4>2. ASSUME Finishes(t) PROVE OnTheWay(down', FinalFrame(t))
          <5> DEFINE r == <<FinalFrame(t)>>
          <5>1. Writes(r) /\ 1 \in DOMAIN r /\ r[1] = FinalFrame(t)
            BY <4>2 DEF Finishes
          <5> QED BY <3>1, <5>1, WritesReach
        <4> QED BY <2>3, <2>4, <3>3, <4>1, <4>2, ServingStep
      <3>4. CASE OnTheWay(down, FinalFrame(t))
        <4>1. ASSUME ClientReceives, Head(down) = FinalFrame(t) PROVE FALSE
          <5>1. stream' = [stream EXCEPT ![t] = "closed"]
            BY <2>1, <4>1 DEF ClientReceives, FinalFrame
          <5> QED BY <5>1 DEF Types, TypeOK, ConnectionTypeOK
        <4> QED BY <2>1, <2>3, <3>4, <4>1, DownKept
      <3>5. CASE OnTheWay(down, CloseFrame)
        <4>1. ~(ClientReceives /\ Head(down) = CloseFrame)
          BY DEF ClientReceives, CloseFrame
        <4> QED BY <2>1, <2>3, <3>5, <4>1, DownKept
      <3> QED BY <2>1, <3>1, <3>2, <3>3, <3>4, <3>5
          DEF StreamIsOwedItsEnd, SubmitFrame, CloseFrame, IsServed
    <2>5. CASE ~lost' /\ serverWs' # "open"
      <3>1. serverWs' = "closed"
        BY <2>5, EndsStep DEF Types, TypeOK, ConnectionTypeOK, ServerReceivesClose, ServerSeesLoss
      <3> QED BY <2>3, <2>5, <3>1, StepClosing DEF ClosingInv
    <2> QED BY <2>3, <2>4, <2>5
  <1> QED BY <1>1, <1>2

LEMMA EndInvariant == Spec => []EndInv
  <1>1. Init => ClosingInv /\ StreamIsOwedItsEnd
    BY DEF Init, ConnectionInit, ClosingInv, StreamIsOwedItsEnd
  <1>2. EndInv /\ [Next]_vars => ClosingInv' /\ StreamIsOwedItsEnd'
    BY StepClosing, StepOwed
  <1> QED BY <1>1, <1>2, InvAlways, PTL DEF Spec, EndInv

\* AsyncEventQueue, closePending, abortInFlightTurns: a chat never waits on a stream that
\* nothing will end any more. As long as it waits, its request, its turn, its last frame or
\* the end of the connection is still to come, in whatever order the two ends of the
\* connection close, lose and notice.
THEOREM StreamsEnd == Spec => []StreamIsOwedItsEnd
  BY EndInvariant, PTL DEF EndInv

---------------------------------------------------------------------------
\* A chat has been shown everything.

IsEvent(f, t) == f.type = "event" /\ f.id = t
IsFinal(f, t) == f.type = "final" /\ f.id = t

\* What the chat of t has taken from the connection, shown or still queued.
Heard(t) == shown[t] \o queue[t]

\* p[i] is how many of the turn's events have arrived with the i-th frame of d: every
\* event frame of t carries the next event, and its final frame comes after the last one.
Delivers(t, d, from, sent, p) ==
  /\ p \in [0 .. Len(d) -> Nat] /\ p[0] = from /\ p[Len(d)] <= Len(sent)
  /\ \A i \in 1 .. Len(d) :
       IF IsEvent(d[i], t)
       THEN p[i] = p[i - 1] + 1 /\ p[i] \in 1 .. Len(sent) /\ sent[p[i]] = d[i].event
       ELSE p[i] = p[i - 1]
  /\ \A i \in 1 .. Len(d) : IsFinal(d[i], t) => p[i] = Len(sent)
Reaches(t, d, from, sent, n) == \E p : Delivers(t, d, from, sent, p) /\ p[Len(d)] = n

IsPrefixOf(s, r) == Len(s) <= Len(r) /\ \A i \in 1 .. Len(s) : s[i] = r[i]

\* Nothing is heard of a turn that has not begun, and its last frame is written when it is over.
QuietInv ==
  /\ \A t \in Turn : served[t] \in {"none", "refreshing"} => emitted[t] = <<>>
  /\ \A t \in Turn : \A i \in DOMAIN down : IsFinal(down[i], t) => served[t] = "over"

\* A chat whose stream is open has heard the beginning of what its turn has sent, and the
\* frames on the way continue it: up to the last event as long as the connection stands.
OpenInv ==
  \A t \in Turn : stream[t] = "open" =>
    /\ IsPrefixOf(Heard(t), emitted[t])
    /\ \E n \in Nat :
         /\ Reaches(t, down, Len(Heard(t)), emitted[t], n)
         /\ serverWs = "open" /\ ~lost => n = Len(emitted[t])

\* A stream that was closed by its last frame has delivered everything.
ClosedInv ==
  \A t \in Turn :
    /\ stream[t] = "closed" => served[t] = "over" /\ Heard(t) = emitted[t]
    /\ chat[t] = "complete" => stream[t] = "closed" /\ queue[t] = <<>>

WholeInv == Inv /\ QuietInv /\ OpenInv /\ ClosedInv

\* One more frame, which brings the next event, ends the turn or is somebody else's.
LEMMA FrameWritten ==
  ASSUME NEW t, NEW d \in Seq(DownFrame), NEW from, NEW sent \in Seq(Event), NEW n \in Nat,
         Reaches(t, d, from, sent, n), NEW f \in DownFrame,
         IsEvent(f, t) => n + 1 <= Len(sent) /\ sent[n + 1] = f.event,
         IsFinal(f, t) => n = Len(sent)
  PROVE  Reaches(t, Append(d, f), from, sent, IF IsEvent(f, t) THEN n + 1 ELSE n)
  <1> DEFINE m == IF IsEvent(f, t) THEN n + 1 ELSE n
             e == Append(d, f)
  <1>1. PICK p : Delivers(t, d, from, sent, p) /\ p[Len(d)] = n
    BY DEF Reaches
  <1> DEFINE q == [i \in 0 .. Len(e) |-> IF i = Len(e) THEN m ELSE p[i]]
  <1>2. /\ e \in Seq(DownFrame) /\ Len(e) = Len(d) + 1 /\ Len(d) \in Nat /\ e[Len(e)] = f
        /\ \A i \in 1 .. Len(d) : e[i] = d[i]
    OBVIOUS
  <1>3. p \in [0 .. Len(d) -> Nat] /\ p[0] = from /\ n <= Len(sent) /\ Len(sent) \in Nat
    BY <1>1 DEF Delivers
  <1>4. /\ \A i \in 0 .. Len(d) : q[i] = p[i]
        /\ q[Len(e)] = m /\ m \in Nat /\ m <= Len(sent)
        /\ q \in [0 .. Len(e) -> Nat]
    <2> HIDE DEF e
    <2>1. m \in Nat /\ m <= Len(sent)
      BY <1>3
    <2> HIDE DEF m
    <2> QED BY <1>2, <1>3, <2>1
  <1> HIDE DEF q, e
  <1>5. ASSUME NEW i \in 1 .. Len(e)
        PROVE  /\ IF IsEvent(e[i], t)
                  THEN q[i] = q[i - 1] + 1 /\ q[i] \in 1 .. Len(sent) /\ sent[q[i]] = e[i].event
                  ELSE q[i] = q[i - 1]
               /\ IsFinal(e[i], t) => q[i] = Len(sent)
    <2>1. CASE i \in 1 .. Len(d)
      <3>1. i \in 0 .. Len(d) /\ i - 1 \in 0 .. Len(d) /\ e[i] = d[i]
        BY <1>2, <2>1
      <3>2. q[i] = p[i] /\ q[i - 1] = p[i - 1]
        BY <1>4, <3>1
      <3>3. /\ IF IsEvent(d[i], t)
               THEN p[i] = p[i - 1] + 1 /\ p[i] \in 1 .. Len(sent) /\ sent[p[i]] = d[i].event
               ELSE p[i] = p[i - 1]
            /\ IsFinal(d[i], t) => p[i] = Len(sent)
        BY <1>1, <2>1 DEF Delivers
      <3> QED BY <3>1, <3>2, <3>3
    <2>2. CASE i = Len(d) + 1
      <3>1. e[i] = f /\ q[i] = m /\ i - 1 = Len(d) /\ q[i - 1] = n
        <4> HIDE DEF m
        <4>1. e[i] = f /\ q[i] = m
          BY <1>2, <1>4, <2>2
        <4>2. i - 1 = Len(d) /\ Len(d) \in 0 .. Len(d)
          BY <1>2, <2>2
        <4>3. q[Len(d)] = p[Len(d)]
          BY <1>4, <4>2
        <4> QED BY <1>1, <4>1, <4>2, <4>3
      <3>2. IsFinal(f, t) => ~IsEvent(f, t)
        BY DEF IsFinal, IsEvent
      <3>3. CASE IsEvent(f, t)
        <4>1. m = n + 1 /\ m \in 1 .. Len(sent) /\ sent[m] = f.event
          BY <1>3, <3>3
        <4> HIDE DEF m
        <4> QED BY <3>1, <3>2, <3>3, <4>1
      <3>4. CASE ~IsEvent(f, t)
        <4>1. m = n
          BY <3>4
        <4> HIDE DEF m
        <4> QED BY <3>1, <3>4, <4>1
      <3> QED BY <3>3, <3>4
    <2> QED BY <1>2, <2>1, <2>2
  <1>6. q[0] = from
    BY <1>3, <1>4, <1>2
  <1>7. Delivers(t, e, from, sent, q) /\ q[Len(e)] = m
    BY <1>4, <1>5, <1>6 DEF Delivers
  <1>8. Reaches(t, e, from, sent, m)
    BY <1>7 DEF Reaches
  <1> QED BY <1>8 DEF e

\* One more event of a turn that has not written its last frame.
LEMMA EventAdded ==
  ASSUME NEW t, NEW d \in Seq(DownFrame), NEW from, NEW sent \in Seq(Event), NEW n \in Nat,
         Reaches(t, d, from, sent, n), NEW e \in Event,
         \A i \in DOMAIN d : ~IsFinal(d[i], t)
  PROVE  Reaches(t, d, from, Append(sent, e), n)
  <1>1. PICK p : Delivers(t, d, from, sent, p) /\ p[Len(d)] = n
    BY DEF Reaches
  <1>2. /\ Len(sent) \in Nat /\ Len(Append(sent, e)) = Len(sent) + 1
        /\ \A i \in 1 .. Len(sent) : Append(sent, e)[i] = sent[i] /\ i \in 1 .. Len(sent) + 1
    OBVIOUS
  <1>3. n <= Len(sent) + 1
    BY <1>1, <1>2 DEF Delivers
  <1>4. Delivers(t, d, from, Append(sent, e), p)
    BY <1>1, <1>2, <1>3 DEF Delivers
  <1> QED BY <1>1, <1>4 DEF Reaches

\* The client takes the first frame.
LEMMA FrameRead ==
  ASSUME NEW t, NEW d \in Seq(DownFrame), d # <<>>, NEW from \in Nat, NEW sent \in Seq(Event),
         NEW n \in Nat, Reaches(t, d, from, sent, n)
  PROVE  /\ Reaches(t, Tail(d), IF IsEvent(Head(d), t) THEN from + 1 ELSE from, sent, n)
         /\ IsEvent(Head(d), t) => from + 1 <= Len(sent) /\ sent[from + 1] = Head(d).event
         /\ IsFinal(Head(d), t) => from = Len(sent)
  <1>1. PICK p : Delivers(t, d, from, sent, p) /\ p[Len(d)] = n
    BY DEF Reaches
  <1> DEFINE r == Tail(d)
             q == [i \in 0 .. Len(r) |-> p[i + 1]]
  <1>2. /\ r \in Seq(DownFrame) /\ Len(r) \in Nat /\ Len(d) = Len(r) + 1 /\ Head(d) = d[1]
        /\ \A i \in 1 .. Len(r) : r[i] = d[i + 1]
    OBVIOUS
  <1> HIDE DEF r
  <1>3. p \in [0 .. Len(r) + 1 -> Nat] /\ p[0] = from /\ n <= Len(sent) /\ Len(sent) \in Nat
    BY <1>1, <1>2 DEF Delivers
  <1>4. /\ IF IsEvent(d[1], t)
           THEN p[1] = p[0] + 1 /\ p[1] \in 1 .. Len(sent) /\ sent[p[1]] = d[1].event
           ELSE p[1] = p[0]
        /\ IsFinal(d[1], t) => p[1] = Len(sent)
    <2>1. 1 \in 1 .. Len(d) /\ 1 - 1 = 0
      BY <1>2
    <2> QED BY <1>1, <2>1 DEF Delivers
  <1>5. /\ q \in [0 .. Len(r) -> Nat] /\ q[0] = p[1] /\ q[Len(r)] = n
        /\ \A i \in 0 .. Len(r) : q[i] = p[i + 1]
    BY <1>1, <1>2, <1>3
  <1> HIDE DEF q
  <1>6. ASSUME NEW i \in 1 .. Len(r)
        PROVE  /\ IF IsEvent(r[i], t)
                  THEN q[i] = q[i - 1] + 1 /\ q[i] \in 1 .. Len(sent) /\ sent[q[i]] = r[i].event
                  ELSE q[i] = q[i - 1]
               /\ IsFinal(r[i], t) => q[i] = Len(sent)
    <2>1. i + 1 \in 1 .. Len(d) /\ (i + 1) - 1 = (i - 1) + 1 /\ r[i] = d[i + 1]
      BY <1>2
    <2>2. q[i] = p[i + 1] /\ q[i - 1] = p[(i + 1) - 1]
      <3>1. i \in 0 .. Len(r) /\ i - 1 \in 0 .. Len(r)
        BY <1>2
      <3> QED BY <1>5, <2>1, <3>1
    <2>3. /\ IF IsEvent(d[i + 1], t)
             THEN /\ p[i + 1] = p[(i + 1) - 1] + 1 /\ p[i + 1] \in 1 .. Len(sent)
                  /\ sent[p[i + 1]] = d[i + 1].event
             ELSE p[i + 1] = p[(i + 1) - 1]
          /\ IsFinal(d[i + 1], t) => p[i + 1] = Len(sent)
      BY <1>1, <2>1 DEF Delivers
    <2> QED BY <2>1, <2>2, <2>3
  <1>7. Delivers(t, r, p[1], sent, q)
    BY <1>3, <1>5, <1>6 DEF Delivers
  <1>8. Reaches(t, r, p[1], sent, n)
    BY <1>5, <1>7 DEF Reaches
  <1>9. p[1] = IF IsEvent(d[1], t) THEN from + 1 ELSE from
    BY <1>3, <1>4
  <1>10. /\ IsEvent(d[1], t) => from + 1 <= Len(sent) /\ sent[from + 1] = d[1].event
         /\ IsFinal(d[1], t) => from = Len(sent)
    <2>1. IsFinal(d[1], t) => ~IsEvent(d[1], t)
      BY DEF IsFinal, IsEvent
    <2> QED BY <1>3, <1>4, <2>1
  <1> QED BY <1>2, <1>8, <1>9, <1>10 DEF r

\* Nothing of a turn is on its way.
LEMMA NothingToHear ==
  ASSUME NEW t, NEW d \in Seq(DownFrame), \A i \in DOMAIN d : ~IsEvent(d[i], t) /\ ~IsFinal(d[i], t)
  PROVE  Reaches(t, d, 0, <<>>, 0)
  <1> DEFINE p == [i \in 0 .. Len(d) |-> 0]
  <1>1. Len(d) \in Nat /\ DOMAIN d = 1 .. Len(d) /\ Len(<<>>) = 0
    OBVIOUS
  <1>2. /\ p \in [0 .. Len(d) -> Nat] /\ p[0] = 0 /\ p[Len(d)] = 0
        /\ \A i \in 1 .. Len(d) : p[i] = 0 /\ p[i - 1] = 0
    BY <1>1
  <1> HIDE DEF p
  <1>3. Delivers(t, d, 0, <<>>, p)
    BY <1>1, <1>2 DEF Delivers
  <1> QED BY <1>2, <1>3 DEF Reaches

LEMMA PrefixGrows ==
  ASSUME NEW s \in Seq(Event), NEW r \in Seq(Event), IsPrefixOf(s, r), NEW e \in Event
  PROVE  /\ IsPrefixOf(s, Append(r, e))
         /\ Len(s) + 1 <= Len(r) /\ r[Len(s) + 1] = e => IsPrefixOf(Append(s, e), r)
         /\ Len(s) = Len(r) => s = r
  <1>1. IsPrefixOf(s, Append(r, e))
    BY DEF IsPrefixOf
  <1>2. ASSUME Len(s) + 1 <= Len(r), r[Len(s) + 1] = e PROVE IsPrefixOf(Append(s, e), r)
    BY <1>2 DEF IsPrefixOf
  <1>3. ASSUME Len(s) = Len(r) PROVE s = r
    BY <1>3 DEF IsPrefixOf
  <1> QED BY <1>1, <1>2, <1>3

LEMMA SameValues ==
  ASSUME NEW s \in Seq(Event), NEW r \in Seq(Event), Len(s) = Len(r),
         \A i \in 1 .. Len(s) : s[i] = r[i]
  PROVE  s = r
  OBVIOUS

LEMMA ValuesInOrder ==
  ASSUME NEW s \in Seq(Event), NEW r \in Seq(Event)
  PROVE  /\ \A e \in Event : s \o Append(r, e) = Append(s \o r, e)
         /\ r # <<>> => Append(s, Head(r)) \o Tail(r) = s \o r
  <1>1. ASSUME NEW e \in Event PROVE s \o Append(r, e) = Append(s \o r, e)
    <2> DEFINE x == s \o Append(r, e)
               y == Append(s \o r, e)
    <2>1. /\ x \in Seq(Event) /\ y \in Seq(Event) /\ Len(x) = Len(y)
          /\ Len(x) = Len(s) + Len(r) + 1
      OBVIOUS
    <2>2. ASSUME NEW i \in 1 .. Len(x) PROVE x[i] = y[i]
      <3>1. CASE i <= Len(s)
        BY <2>1, <3>1
      <3>2. CASE i > Len(s) /\ i <= Len(s) + Len(r)
        BY <2>1, <3>2
      <3>3. CASE i = Len(s) + Len(r) + 1
        BY <2>1, <3>3
      <3> QED BY <2>1, <3>1, <3>2, <3>3
    <2> HIDE DEF x, y
    <2>3. x = y
      BY <2>1, <2>2, SameValues
    <2> QED BY <2>3 DEF x, y
  <1>2. ASSUME r # <<>> PROVE Append(s, Head(r)) \o Tail(r) = s \o r
    <2> DEFINE x == Append(s, Head(r)) \o Tail(r)
               y == s \o r
    <2>1. /\ Head(r) \in Event /\ Head(r) = r[1] /\ Tail(r) \in Seq(Event)
          /\ Len(Tail(r)) = Len(r) - 1
          /\ \A i \in 1 .. Len(r) - 1 : Tail(r)[i] = r[i + 1]
      BY <1>2
    <2>2. /\ x \in Seq(Event) /\ y \in Seq(Event) /\ Len(x) = Len(y)
          /\ Len(x) = Len(s) + Len(r)
      BY <2>1
    <2>3. ASSUME NEW i \in 1 .. Len(x) PROVE x[i] = y[i]
      <3>1. CASE i <= Len(s)
        BY <2>1, <2>2, <3>1
      <3>2. CASE i = Len(s) + 1
        BY <1>2, <2>1, <2>2, <3>2
      <3>3. CASE i > Len(s) + 1
        <4>1. x[i] = Tail(r)[i - (Len(s) + 1)]
          BY <2>1, <2>2, <3>3
        <4>2. i - (Len(s) + 1) \in 1 .. Len(r) - 1 /\ i - (Len(s) + 1) + 1 = i - Len(s)
          BY <2>2, <3>3
        <4>3. y[i] = r[i - Len(s)]
          BY <2>2, <3>3
        <4> QED BY <2>1, <4>1, <4>2, <4>3
      <3> QED BY <2>2, <3>1, <3>2, <3>3
    <2> HIDE DEF x, y
    <2>4. x = y
      BY <2>2, <2>3, SameValues
    <2> QED BY <2>4 DEF x, y
  <1> QED BY <1>1, <1>2

LEMMA HeardTypes ==
  ASSUME Types, NEW t \in Turn
  PROVE  shown[t] \in Seq(Event) /\ queue[t] \in Seq(Event) /\ Heard(t) \in Seq(Event)
  BY DEF Types, TypeOK, ConnectionTypeOK, Heard

\* A chat hears what the client takes from the connection while its stream is open.
LEMMA HeardStep ==
  ASSUME Types, [Next]_vars, NEW t \in Turn
  PROVE  \/ Heard(t)' = Heard(t)
         \/ /\ ClientReceives /\ IsEvent(Head(down), t) /\ stream[t] = "open"
            /\ Heard(t)' = Append(Heard(t), Head(down).event)
  <1>1. CASE ClientReceives /\ UNCHANGED bridgeVars
    <2>1. Head(down) \in DownFrame
      BY <1>1, Popped DEF ClientReceives, Types
    <2>2. \/ queue' = queue
          \/ /\ Head(down).type = "event" /\ stream[Head(down).id] = "open"
             /\ queue' = [queue EXCEPT ![Head(down).id] = Append(@, Head(down).event)]
      BY <1>1 DEF ClientReceives
    <2>3. \/ queue'[t] = queue[t]
          \/ /\ IsEvent(Head(down), t) /\ stream[t] = "open"
             /\ queue'[t] = Append(queue[t], Head(down).event)
      <3>1. CASE queue' = queue
        BY <3>1
      <3>2. CASE /\ Head(down).type = "event" /\ stream[Head(down).id] = "open"
                 /\ queue' = [queue EXCEPT ![Head(down).id] = Append(@, Head(down).event)]
        <4> DEFINE u == Head(down).id
                   e == Head(down).event
        <4>1. u \in Turn /\ queue \in [Turn -> Seq(Event)]
          BY <2>1, <3>2, DownFrameKinds DEF Types, TypeOK, ConnectionTypeOK
        <4>2. queue' = [queue EXCEPT ![u] = Append(@, e)] /\ (u = t => IsEvent(Head(down), t))
          BY <3>2 DEF IsEvent
        <4>3. u = t => stream[t] = "open"
          BY <3>2
        <4> HIDE DEF u, e
        <4>4. queue'[t] = queue[t] \/ (u = t /\ queue'[t] = Append(queue[t], e))
          BY <4>1, <4>2
        <4> QED BY <4>2, <4>3, <4>4 DEF e
      <3> QED BY <2>2, <3>1, <3>2
    <2>4. shown' = shown
      BY <1>1 DEF bridgeVars
    <2>5. CASE queue'[t] = queue[t]
      BY <2>4, <2>5 DEF Heard
    <2>6. CASE IsEvent(Head(down), t) /\ stream[t] = "open"
               /\ queue'[t] = Append(queue[t], Head(down).event)
      <3>1. Head(down).event \in Event
        BY <2>1, <2>6, DownFrameKinds DEF IsEvent
      <3>2. shown[t] \o Append(queue[t], Head(down).event)
              = Append(shown[t] \o queue[t], Head(down).event)
        BY <3>1, HeardTypes, ValuesInOrder
      <3> QED BY <1>1, <2>4, <2>6, <3>2 DEF Heard
    <2> QED BY <2>3, <2>5, <2>6
  <1>2. ASSUME NEW u \in Turn, ChatReads(u) PROVE Heard(t)' = Heard(t)
    <2>1. /\ queue[u] # <<>> /\ queue' = [queue EXCEPT ![u] = Tail(@)]
          /\ shown' = [shown EXCEPT ![u] = Append(@, Head(queue[u]))]
      BY <1>2 DEF ChatReads
    <2>2. CASE u # t
      BY <2>1, <2>2 DEF Heard, Types, TypeOK, ConnectionTypeOK
    <2>3. CASE u = t
      <3>1. queue'[t] = Tail(queue[t]) /\ shown'[t] = Append(shown[t], Head(queue[t]))
        BY <2>1, <2>3 DEF Types, TypeOK, ConnectionTypeOK
      <3>2. Append(shown[t], Head(queue[t])) \o Tail(queue[t]) = shown[t] \o queue[t]
        BY <2>1, <2>3, HeardTypes, ValuesInOrder
      <3> QED BY <3>1, <3>2 DEF Heard
    <2> QED BY <2>2, <2>3
  <1>3. CASE UNCHANGED <<queue, shown>>
    BY <1>3 DEF Heard
  <1>4. \/ ClientReceives /\ UNCHANGED bridgeVars
        \/ UNCHANGED <<queue, shown>> \/ \E u \in Turn : ChatReads(u)
    BY DEF Next, ConnectionSteps, Server, vars, connectionVars, clientVars, bridgeVars,
       ServerReceivesSubmit, ServerReceivesAbort, ServerReceivesClose, ServerSeesLoss, TurnBegins,
       TurnRefused, TurnEmits, TurnEnds, AbortReturns, ClientCloses, ClientSeesClose, Loses,
       Submits, StopsStaleTurn, Resubmits, SubmitTurn, OpenStream, Ask, ChatCompletes, ChatFails,
       StopPressed
  <1> QED BY <1>1, <1>2, <1>3, <1>4

\* A turn sends nothing once it is over.
LEMMA EmittedStep ==
  ASSUME Types, [Next]_vars, NEW t \in Turn
  PROVE  \/ emitted'[t] = emitted[t]
         \/ Refuses(t) /\ emitted'[t] = <<"session_busy">>
         \/ \E e : Emits(t, e) /\ emitted'[t] = Append(emitted[t], e)
  <1>1. ASSUME NEW u \in Turn, Refuses(u)
        PROVE  IF u = t THEN emitted'[t] = <<"session_busy">> ELSE emitted'[t] = emitted[t]
    BY <1>1 DEF Refuses, TurnRefused, Types, TypeOK, ConnectionTypeOK
  <1>2. ASSUME NEW u \in Turn, NEW e, Emits(u, e)
        PROVE  IF u = t THEN emitted'[t] = Append(emitted[t], e) ELSE emitted'[t] = emitted[t]
    BY <1>2 DEF Emits, Types, TypeOK, ConnectionTypeOK
  <1>3. ASSUME \/ ClientReceives \/ ClientSeesClose \/ ServerReceivesClose
               \/ \E u \in Turn : Finishes(u)
               \/ \E a \in Requests : Answers(a)
        PROVE  emitted' = emitted
    BY <1>3 DEF ClientReceives, ClientSeesClose, ServerReceivesClose, Finishes, TurnEnds, Answers,
       AbortReturns, turnVars
  <1> QED BY <1>1, <1>2, <1>3, DownStep

LEMMA StepQuiet ==
  ASSUME WholeInv, [Next]_vars
  PROVE  QuietInv'
  <1> USE DEF WholeInv, Inv
  <1>1. ASSUME NEW t \in Turn, served'[t] \in {"none", "refreshing"}
        PROVE  emitted'[t] = <<>>
    <2>1. served[t] \in {"none", "refreshing"}
      BY <1>1, ServedKept DEF Begun, Types, TypeOK, ConnectionTypeOK
    <2>2. ~Refuses(t)
      BY <1>1 DEF Refuses, TurnRefused, Types, TypeOK, ConnectionTypeOK
    <2>3. \A e : ~Emits(t, e)
      BY <2>1 DEF Emits, TurnEmits
    <2> QED BY <2>1, <2>2, <2>3, EmittedStep DEF QuietInv
  <1>2. ASSUME NEW t \in Turn, NEW i \in DOMAIN down', IsFinal(down'[i], t)
        PROVE  served'[t] = "over"
    <2>1. ASSUME NEW j \in DOMAIN down, down'[i] = down[j] PROVE served'[t] = "over"
      <3>1. served[t] = "over"
        BY <1>2, <2>1 DEF QuietInv
      <3> QED BY <3>1, ServedKept
    <2>2. ASSUME NEW r, Writes(r), \A j \in DOMAIN r : IsFinal(r[j], t) => served'[t] = "over"
          PROVE  served'[t] = "over"
      <3>1. CASE down' = down
        BY <1>2, <2>1, <3>1
      <3>2. CASE down' = down \o r
        <4>1. \/ i \in DOMAIN down /\ down'[i] = down[i]
              \/ \E j \in DOMAIN r : down'[i] = r[j]
          BY <1>2, <2>2, <3>2, Joined DEF Writes, Types
        <4> QED BY <1>2, <2>1, <2>2, <4>1
      <3> QED BY <2>2, <3>1, <3>2 DEF Writes, Written
    <2>3. CASE down' = down
      BY <1>2, <2>1, <2>3
    <2>4. CASE ClientSeesClose
      BY <1>2, <2>4 DEF ClientSeesClose
    <2>5. CASE ClientReceives
      <3>1. i + 1 \in DOMAIN down /\ down'[i] = down[i + 1]
        BY <1>2, <2>5, Popped DEF ClientReceives, Types
      <3> QED BY <2>1, <3>1
    <2>6. CASE ServerReceivesClose /\ Writes(<<CloseFrame>>)
      <3>1. \A j \in DOMAIN <<CloseFrame>> : ~IsFinal(<<CloseFrame>>[j], t)
        BY DEF CloseFrame, IsFinal
      <3> QED BY <2>2, <2>6, <3>1
    <2>7. ASSUME NEW u \in Turn, Refuses(u) PROVE served'[t] = "over"
      <3> DEFINE r == <<EventFrame(u, "session_busy"), FinalFrame(u)>>
      <3>1. served'[u] = "over"
        BY <2>7 DEF Refuses, TurnRefused, Types, TypeOK, ConnectionTypeOK
      <3>2. \A j \in DOMAIN r : IsFinal(r[j], t) => u = t
        BY DEF EventFrame, FinalFrame, IsFinal
      <3> QED BY <2>2, <2>7, <3>1, <3>2 DEF Refuses
    <2>8. ASSUME NEW u \in Turn, Finishes(u) PROVE served'[t] = "over"
      <3> DEFINE r == <<FinalFrame(u)>>
      <3>1. served'[u] = "over"
        BY <2>8 DEF Finishes, TurnEnds, Types, TypeOK, ConnectionTypeOK
      <3>2. \A j \in DOMAIN r : IsFinal(r[j], t) => u = t
        BY DEF FinalFrame, IsFinal
      <3> QED BY <2>2, <2>8, <3>1, <3>2 DEF Finishes
    <2>9. ASSUME NEW u \in Turn, NEW e, Emits(u, e) PROVE served'[t] = "over"
      <3> DEFINE r == <<EventFrame(u, e)>>
      <3>1. \A j \in DOMAIN r : ~IsFinal(r[j], t)
        BY DEF EventFrame, IsFinal
      <3> QED BY <2>2, <2>9, <3>1 DEF Emits
    <2>10. ASSUME NEW a \in Requests, Answers(a) PROVE served'[t] = "over"
      <3> DEFINE r == <<[type |-> "response", id |-> a]>>
      <3>1. \A j \in DOMAIN r : ~IsFinal(r[j], t)
        BY DEF IsFinal
      <3> QED BY <2>2, <2>10, <3>1 DEF Answers
    <2> QED BY <2>3, <2>4, <2>5, <2>6, <2>7, <2>8, <2>9, <2>10, DownStep
  <1> QED BY <1>1, <1>2 DEF QuietInv

\* What one frame does to what is on its way.
LEMMA WrittenReaches ==
  ASSUME Types, NEW t \in Turn, NEW f \in DownFrame, Writes(<<f>>),
         NEW from, NEW sent \in Seq(Event), NEW n \in Nat, Reaches(t, down, from, sent, n),
         serverWs = "open" /\ ~lost =>
           IF IsEvent(f, t) THEN n + 1 = Len(sent) /\ sent[n + 1] = f.event ELSE n = Len(sent)
  PROVE  \E m \in Nat : /\ Reaches(t, down', from, sent, m)
                        /\ serverWs = "open" /\ ~lost => m = Len(sent)
  <1>1. CASE serverWs = "open" /\ ~lost
    <2>1. down' = Append(down, f)
      BY <1>1 DEF Writes, Written, Types
    <2>2. IsFinal(f, t) => ~IsEvent(f, t)
      BY DEF IsFinal, IsEvent
    <2>3. /\ IsEvent(f, t) => n + 1 <= Len(sent) /\ sent[n + 1] = f.event
          /\ IsFinal(f, t) => n = Len(sent)
      BY <1>1, <2>2
    <2>4. Reaches(t, Append(down, f), from, sent, IF IsEvent(f, t) THEN n + 1 ELSE n)
      BY <2>3, FrameWritten DEF Types
    <2>5. CASE IsEvent(f, t)
      BY <1>1, <2>1, <2>4, <2>5
    <2>6. CASE ~IsEvent(f, t)
      BY <1>1, <2>1, <2>4, <2>6
    <2> QED BY <2>5, <2>6
  <1>2. CASE ~(serverWs = "open" /\ ~lost)
    <2>1. down' = down
      BY <1>2 DEF Writes, Written, Types, TypeOK, ConnectionTypeOK
    <2> QED BY <1>2, <2>1
  <1> QED BY <1>1, <1>2

\* A chat that opens its stream has missed nothing, since its turn has not begun.
LEMMA StreamOpens ==
  ASSUME WholeInv, [Next]_vars, NEW t \in Turn, Submits(t) \/ Resubmits(t)
  PROVE  /\ IsPrefixOf(Heard(t)', emitted'[t])
         /\ \E n \in Nat : Reaches(t, down', Len(Heard(t)'), emitted'[t], n) /\ n = Len(emitted'[t])
  <1> USE DEF WholeInv, Inv
  <1>1. Waits(t) /\ served[t] = "none"
    BY DEF Submits, Resubmits, Stopped, Waits, UpInv
  <1>2. UNCHANGED <<down, emitted, queue, shown>>
    BY DEF Submits, Resubmits, SubmitTurn, OpenStream, turnVars
  <1>3. emitted[t] = <<>> /\ shown[t] = <<>> /\ queue[t] = <<>>
    BY <1>1 DEF QuietInv, SeenInv, Begun
  <1>4. \A i \in DOMAIN down : ~IsEvent(down[i], t) /\ ~IsFinal(down[i], t)
    BY <1>1 DEF QuietInv, SeenInv, Begun, IsEvent
  <1>5. Reaches(t, down, 0, <<>>, 0)
    BY <1>4, NothingToHear DEF Types
  <1>6. Heard(t)' = <<>> /\ emitted'[t] = <<>> /\ down' = down /\ Len(<<>>) = 0
    BY <1>2, <1>3 DEF Heard
  <1>7. IsPrefixOf(Heard(t)', emitted'[t])
    BY <1>6 DEF IsPrefixOf
  <1>8. Reaches(t, down', Len(Heard(t)'), emitted'[t], 0) /\ 0 = Len(emitted'[t])
    BY <1>5, <1>6
  <1> QED BY <1>7, <1>8

\* A chat that takes a frame takes the next event, or the frame means nothing to it.
LEMMA StreamReceives ==
  ASSUME WholeInv, [Next]_vars, ClientReceives, NEW t \in Turn, stream[t] = "open",
         ~IsFinal(Head(down), t), NEW n \in Nat,
         Reaches(t, down, Len(Heard(t)), emitted[t], n)
  PROVE  /\ IsPrefixOf(Heard(t)', emitted'[t])
         /\ Reaches(t, down', Len(Heard(t)'), emitted'[t], n)
  <1> USE DEF WholeInv, Inv
  <1>1. down # <<>> /\ down' = Tail(down) /\ emitted' = emitted
    BY DEF ClientReceives, turnVars
  <1>2. /\ Heard(t) \in Seq(Event) /\ Len(Heard(t)) \in Nat /\ emitted[t] \in Seq(Event)
        /\ down \in Seq(DownFrame) /\ Head(down) \in DownFrame
    BY <1>1, HeardTypes, Popped DEF Types, TypeOK, ConnectionTypeOK
  <1>3. IsPrefixOf(Heard(t), emitted[t])
    BY DEF OpenInv
  <1>4. /\ Reaches(t, Tail(down),
             IF IsEvent(Head(down), t) THEN Len(Heard(t)) + 1 ELSE Len(Heard(t)), emitted[t], n)
        /\ IsEvent(Head(down), t) =>
             /\ Len(Heard(t)) + 1 <= Len(emitted[t])
             /\ emitted[t][Len(Heard(t)) + 1] = Head(down).event
    BY <1>1, <1>2, FrameRead
  <1>5. CASE IsEvent(Head(down), t)
    <2>1. Head(down).event \in Event
      BY <1>2, <1>5, DownFrameKinds DEF IsEvent
    <2>2. Heard(t)' = Append(Heard(t), Head(down).event)
      <3>1. queue' = [queue EXCEPT ![t] = Append(@, Head(down).event)]
        BY <1>5 DEF ClientReceives, IsEvent
      <3>2. queue'[t] = Append(queue[t], Head(down).event)
        BY <3>1 DEF Types, TypeOK, ConnectionTypeOK
      <3>3. queue[t] # queue'[t]
        BY <2>1, <3>2, HeardTypes
      <3>4. \/ UNCHANGED bridgeVars \/ \E u \in Turn : ChatReads(u)
        BY <3>3 DEF Next, vars, connectionVars, clientVars, Submits, StopsStaleTurn, Resubmits,
           SubmitTurn, OpenStream, Ask, ChatCompletes, ChatFails, StopPressed
      <3>5. \A u \in Turn : ~ChatReads(u)
        <4>1. ASSUME NEW u \in Turn, ChatReads(u) PROVE FALSE
          <5>1. down' = down
            BY <4>1 DEF ChatReads, wireVars
          <5>2. down \in Seq(DownFrame) /\ Len(Tail(down)) # Len(down)
            BY <1>1, <1>2
          <5> QED BY <1>1, <5>1, <5>2
        <4> QED BY <4>1
      <3>6. shown' = shown
        BY <3>4, <3>5 DEF bridgeVars
      <3>7. shown[t] \o Append(queue[t], Head(down).event) = Append(Heard(t), Head(down).event)
        BY <2>1, HeardTypes, ValuesInOrder DEF Heard
      <3> QED BY <3>2, <3>6, <3>7 DEF Heard
    <2>3. Len(Heard(t)') = Len(Heard(t)) + 1
      BY <1>2, <2>1, <2>2
    <2>4. IsPrefixOf(Heard(t)', emitted[t])
      BY <1>2, <1>3, <1>4, <1>5, <2>1, <2>2, PrefixGrows
    <2> QED BY <1>1, <1>4, <1>5, <2>3, <2>4
  <1>6. CASE ~IsEvent(Head(down), t)
    <2>1. Heard(t)' = Heard(t)
      BY <1>6, HeardStep
    <2> QED BY <1>1, <1>3, <1>4, <1>6, <2>1
  <1> QED BY <1>5, <1>6

\* The server writes, and the streams of the client stand.
LEMMA StreamWritten ==
  ASSUME WholeInv, [Next]_vars, NEW t \in Turn, stream[t] = "open",
         ~ClientReceives, ~ClientSeesClose, NEW n \in Nat,
         Reaches(t, down, Len(Heard(t)), emitted[t], n),
         serverWs = "open" /\ ~lost => n = Len(emitted[t])
  PROVE  \E m \in Nat :
           /\ Reaches(t, down', Len(Heard(t)), emitted'[t], m)
           /\ serverWs = "open" /\ ~lost /\ serverWs' = "open" => m = Len(emitted'[t])
  <1> USE DEF WholeInv, Inv
  <1> DEFINE from == Len(Heard(t))
             Goal == \E m \in Nat :
               /\ Reaches(t, down', from, emitted'[t], m)
               /\ serverWs = "open" /\ ~lost /\ serverWs' = "open" => m = Len(emitted'[t])
  <1>1. emitted[t] \in Seq(Event) /\ down \in Seq(DownFrame) /\ from \in Nat
    BY HeardTypes DEF Types, TypeOK, ConnectionTypeOK
  <1> HIDE DEF from
  <1>2. Reaches(t, down, from, emitted[t], n)
    BY DEF from
  <1>3. ASSUME NEW f \in DownFrame, Writes(<<f>>), ~IsEvent(f, t), emitted'[t] = emitted[t]
        PROVE  Goal
    BY <1>1, <1>2, <1>3, WrittenReaches
  <1>4. ASSUME UNCHANGED <<down, emitted>> PROVE Goal
    BY <1>2, <1>4 DEF from
  <1>5. ASSUME ServerReceivesClose, Writes(<<CloseFrame>>) PROVE Goal
    <2>1. emitted' = emitted
      BY <1>5 DEF ServerReceivesClose, turnVars
    <2>2. CloseFrame \in DownFrame /\ ~IsEvent(CloseFrame, t)
      BY DEF CloseFrame, DownFrame, IsEvent
    <2> QED BY <1>3, <1>5, <2>1, <2>2
  <1>6. ASSUME NEW u \in Turn, Finishes(u) PROVE Goal
    <2>1. emitted' = emitted
      BY <1>6 DEF Finishes, TurnEnds, turnVars
    <2>2. FinalFrame(u) \in DownFrame /\ ~IsEvent(FinalFrame(u), t)
      BY DEF FinalFrame, DownFrame, IsEvent
    <2> QED BY <1>3, <1>6, <2>1, <2>2 DEF Finishes
  <1>7. ASSUME NEW a \in Requests, Answers(a) PROVE Goal
    <2>1. emitted' = emitted
      BY <1>7 DEF Answers, AbortReturns, turnVars
    <2> DEFINE f == [type |-> "response", id |-> a]
    <2>2. f \in DownFrame /\ ~IsEvent(f, t)
      BY DEF DownFrame, IsEvent
    <2>3. Writes(<<f>>)
      BY <1>7 DEF Answers
    <2> HIDE DEF f
    <2> QED BY <1>3, <2>1, <2>2, <2>3
  <1>8. ASSUME NEW u \in Turn, NEW e, Emits(u, e) PROVE Goal
    <2>1. /\ e \in Event /\ Writes(<<EventFrame(u, e)>>) /\ served[u] = "streaming"
          /\ EventFrame(u, e) \in DownFrame
          /\ emitted' = [emitted EXCEPT ![u] = Append(@, e)]
      BY <1>8 DEF Emits, TurnEmits, EventFrame, DownFrame
    <2>2. CASE u # t
      <3>1. emitted'[t] = emitted[t] /\ ~IsEvent(EventFrame(u, e), t)
        BY <2>1, <2>2 DEF EventFrame, IsEvent, Types, TypeOK, ConnectionTypeOK
      <3> QED BY <1>3, <2>1, <3>1
    <2>3. CASE u = t
      <3>1. emitted'[t] = Append(emitted[t], e)
        BY <2>1, <2>3 DEF Types, TypeOK, ConnectionTypeOK
      <3>2. \A i \in DOMAIN down : ~IsFinal(down[i], t)
        BY <2>1, <2>3 DEF QuietInv
      <3> DEFINE sent == Append(emitted[t], e)
      <3>3. Reaches(t, down, from, sent, n)
        BY <1>1, <1>2, <2>1, <3>2, EventAdded
      <3>4. /\ sent \in Seq(Event) /\ Len(sent) = Len(emitted[t]) + 1
            /\ sent[Len(emitted[t]) + 1] = e
        BY <1>1, <2>1
      <3>5. EventFrame(t, e).event = e /\ IsEvent(EventFrame(t, e), t)
        BY DEF EventFrame, IsEvent
      <3>6. EventFrame(t, e) \in DownFrame /\ Writes(<<EventFrame(t, e)>>) /\ emitted'[t] = sent
        BY <2>1, <2>3, <3>1
      <3> HIDE DEF sent
      <3>7. serverWs = "open" /\ ~lost => n + 1 = Len(sent) /\ sent[n + 1] = EventFrame(t, e).event
        BY <3>4, <3>5
      <3>8. \E m \in Nat : /\ Reaches(t, down', from, sent, m)
                           /\ serverWs = "open" /\ ~lost => m = Len(sent)
        BY <3>3, <3>4, <3>5, <3>6, <3>7, WrittenReaches
      <3> QED BY <3>6, <3>8
    <2> QED BY <2>2, <2>3
  <1>9. ASSUME NEW u \in Turn, Refuses(u) PROVE Goal
    <2> DEFINE f == EventFrame(u, "session_busy")
               g == FinalFrame(u)
    <2>1. /\ Writes(<<f, g>>) /\ served[u] = "refreshing"
          /\ f \in DownFrame /\ g \in DownFrame /\ ~IsEvent(g, t)
          /\ emitted' = [emitted EXCEPT ![u] = <<"session_busy">>]
      BY <1>9 DEF Refuses, TurnRefused, EventFrame, FinalFrame, DownFrame, Event, IsEvent
    <2>2. u = t => /\ emitted[t] = <<>> /\ emitted'[t] = Append(<<>>, "session_busy")
                   /\ \A i \in DOMAIN down : ~IsFinal(down[i], t)
      BY <2>1 DEF QuietInv, Types, TypeOK, ConnectionTypeOK
    <2>3. u # t => emitted'[t] = emitted[t]
      BY <2>1 DEF Types, TypeOK, ConnectionTypeOK
    <2>4. IsEvent(f, t) => u = t
      BY DEF EventFrame, IsEvent
    <2>5. u = t => IsEvent(f, t) /\ f.event = "session_busy"
      BY DEF EventFrame, IsEvent
    <2>6. ~IsFinal(f, t) /\ (IsFinal(g, t) => u = t)
      BY DEF EventFrame, FinalFrame, IsFinal
    <2> HIDE DEF f, g
    <2>7. /\ emitted'[t] \in Seq(Event) /\ Len(emitted'[t]) \in Nat
          /\ u = t => /\ emitted'[t] = Append(emitted[t], "session_busy")
                      /\ Len(emitted'[t]) = Len(emitted[t]) + 1
                      /\ emitted'[t][Len(emitted[t]) + 1] = "session_busy"
      <3>1. "session_busy" \in Event
        BY DEF Event
      <3>2. /\ Append(emitted[t], "session_busy") \in Seq(Event)
            /\ Len(Append(emitted[t], "session_busy")) = Len(emitted[t]) + 1
            /\ Append(emitted[t], "session_busy")[Len(emitted[t]) + 1] = "session_busy"
        BY <1>1, <3>1
      <3>3. u = t => emitted'[t] = Append(emitted[t], "session_busy")
        BY <2>2
      <3>4. emitted'[t] \in Seq(Event)
        BY <1>1, <2>3, <3>2, <3>3
      <3> QED BY <3>2, <3>3, <3>4
    <2>8. Reaches(t, down, from, emitted'[t], n)
      <3>1. CASE u = t
        <4>1. "session_busy" \in Event
          BY DEF Event
        <4>2. Reaches(t, down, from, Append(emitted[t], "session_busy"), n)
          BY <1>1, <1>2, <2>2, <3>1, <4>1, EventAdded
        <4> QED BY <2>7, <3>1, <4>2
      <3> QED BY <1>2, <2>3, <3>1
    <2>9. CASE serverWs = "open" /\ ~lost
      <3>1. down' = Append(Append(down, f), g)
        BY <1>1, <2>1, <2>9 DEF Writes, Written
      <3>2. n = Len(emitted[t])
        BY <2>9
      <3> DEFINE m == IF IsEvent(f, t) THEN n + 1 ELSE n
      <3>3. m = Len(emitted'[t])
        <4>1. CASE u = t
          <5>1. m = n + 1
            BY <2>5, <4>1
          <5> HIDE DEF m
          <5> QED BY <2>7, <3>2, <4>1, <5>1
        <4>2. CASE u # t
          <5>1. m = n
            BY <2>4, <4>2
          <5> HIDE DEF m
          <5> QED BY <2>3, <3>2, <4>2, <5>1
        <4> QED BY <4>1, <4>2
      <3>4. IsEvent(f, t) => n + 1 <= Len(emitted'[t]) /\ emitted'[t][n + 1] = f.event
        BY <2>4, <2>5, <2>7, <3>2
      <3>5. Reaches(t, Append(down, f), from, emitted'[t], m)
        BY <1>1, <2>1, <2>6, <2>7, <2>8, <3>4, FrameWritten
      <3> HIDE DEF m
      <3>6. m \in Nat /\ Append(down, f) \in Seq(DownFrame)
        BY <1>1, <2>1, <2>7, <3>3
      <3>7. Reaches(t, Append(Append(down, f), g), from, emitted'[t],
              IF IsEvent(g, t) THEN m + 1 ELSE m)
        BY <2>1, <2>7, <3>3, <3>5, <3>6, FrameWritten
      <3> QED BY <2>1, <3>1, <3>3, <3>6, <3>7
    <2>10. CASE ~(serverWs = "open" /\ ~lost)
      <3>1. down' = down
        BY <2>1, <2>10 DEF Writes, Written, Types, TypeOK, ConnectionTypeOK
      <3> QED BY <2>8, <2>10, <3>1
    <2> QED BY <2>9, <2>10
  <1>10. Goal
    BY <1>4, <1>5, <1>6, <1>7, <1>8, <1>9, DownStep
  <1> QED BY <1>10 DEF from

LEMMA StepOpen ==
  ASSUME WholeInv, [Next]_vars
  PROVE  OpenInv'
  <1> USE DEF WholeInv, Inv
  <1> SUFFICES ASSUME NEW t \in Turn, stream'[t] = "open"
               PROVE  /\ IsPrefixOf(Heard(t)', emitted'[t])
                      /\ \E n \in Nat :
                           /\ Reaches(t, down', Len(Heard(t)'), emitted'[t], n)
                           /\ serverWs' = "open" /\ ~lost' => n = Len(emitted'[t])
    BY DEF OpenInv
  <1>1. CASE Submits(t) \/ Resubmits(t)
    BY <1>1, StreamOpens
  <1>2. CASE ~(Submits(t) \/ Resubmits(t))
    <2>1. stream[t] = "open" /\ ~ClientSeesClose
      BY <1>2, StreamStep DEF ClientSeesClose, StreamsFail
    <2>2. PICK n \in Nat : /\ Reaches(t, down, Len(Heard(t)), emitted[t], n)
                           /\ serverWs = "open" /\ ~lost => n = Len(emitted[t])
      BY <2>1 DEF OpenInv
    <2>3. serverWs' = "open" /\ ~lost' => serverWs = "open" /\ ~lost
      BY EndsStep DEF Types, TypeOK, ConnectionTypeOK
    <2>4. CASE ClientReceives
      <3>1. ~IsFinal(Head(down), t)
        <4>1. ASSUME IsFinal(Head(down), t) PROVE FALSE
          <5>1. stream' = [stream EXCEPT ![t] = "closed"]
            BY <2>1, <2>4, <4>1 DEF ClientReceives, IsFinal
          <5> QED BY <5>1 DEF Types, TypeOK, ConnectionTypeOK
        <4> QED BY <4>1
      <3>2. /\ IsPrefixOf(Heard(t)', emitted'[t])
            /\ Reaches(t, down', Len(Heard(t)'), emitted'[t], n)
        BY <2>1, <2>2, <2>4, <3>1, StreamReceives
      <3>3. emitted' = emitted
        BY <2>4 DEF ClientReceives, turnVars
      <3> QED BY <2>2, <2>3, <3>2, <3>3
    <2>5. CASE ~ClientReceives
      <3>1. Heard(t)' = Heard(t)
        BY <2>5, HeardStep
      <3>2. \E m \in Nat :
              /\ Reaches(t, down', Len(Heard(t)), emitted'[t], m)
              /\ serverWs = "open" /\ ~lost /\ serverWs' = "open" => m = Len(emitted'[t])
        BY <2>1, <2>2, <2>5, StreamWritten
      <3>3. IsPrefixOf(Heard(t), emitted'[t])
        <4>1. IsPrefixOf(Heard(t), emitted[t])
          BY <2>1 DEF OpenInv
        <4>2. Heard(t) \in Seq(Event) /\ emitted[t] \in Seq(Event)
          BY HeardTypes DEF Types, TypeOK, ConnectionTypeOK
        <4>3. ASSUME Refuses(t), emitted'[t] = <<"session_busy">>
              PROVE  IsPrefixOf(Heard(t), emitted'[t])
          <5>1. emitted[t] = <<>>
            BY <4>3 DEF QuietInv, Refuses, TurnRefused
          <5>2. Len(Heard(t)) = 0
            BY <4>1, <4>2, <5>1 DEF IsPrefixOf
          <5>3. Len(<<"session_busy">>) = 1
            OBVIOUS
          <5> QED BY <4>3, <5>2, <5>3 DEF IsPrefixOf
        <4>4. ASSUME NEW e, Emits(t, e), emitted'[t] = Append(emitted[t], e)
              PROVE  IsPrefixOf(Heard(t), emitted'[t])
          <5>1. e \in Event
            BY <4>4 DEF Emits
          <5> QED BY <4>1, <4>2, <4>4, <5>1, PrefixGrows
        <4> QED BY <4>1, <4>3, <4>4, EmittedStep
      <3> QED BY <2>3, <3>1, <3>2, <3>3
    <2> QED BY <2>4, <2>5
  <1> QED BY <1>1, <1>2

\* A chat ends when its stream has, and its stream when everything has come.
LEMMA StepClosed ==
  ASSUME WholeInv, [Next]_vars
  PROVE  ClosedInv'
  <1> USE DEF WholeInv, Inv
  <1>1. ASSUME NEW t \in Turn, stream'[t] = "closed"
        PROVE  served'[t] = "over" /\ Heard(t)' = emitted'[t]
    <2>1. ~Submits(t) /\ ~Resubmits(t)
      BY <1>1 DEF Submits, Resubmits, SubmitTurn, OpenStream, Types, TypeOK, ConnectionTypeOK
    <2>2. CASE stream[t] = "closed"
      <3>1. served[t] = "over" /\ Heard(t) = emitted[t]
        BY <2>2 DEF ClosedInv
      <3>2. served'[t] = "over"
        BY <3>1, ServedKept
      <3>3. emitted'[t] = emitted[t]
        BY <3>1, EmittedStep DEF Refuses, TurnRefused, Emits, TurnEmits
      <3>4. Heard(t)' = Heard(t)
        BY <2>2, HeardStep
      <3> QED BY <3>1, <3>2, <3>3, <3>4
    <2>3. CASE stream[t] # "closed"
      <3>1. ClientReceives /\ IsFinal(Head(down), t) /\ stream[t] = "open"
        BY <1>1, <2>1, <2>3, StreamStep DEF IsFinal
      <3>2. down # <<>> /\ 1 \in DOMAIN down /\ Head(down) = down[1]
        BY <3>1, Popped DEF ClientReceives, Types
      <3>3. served[t] = "over" /\ UNCHANGED <<served, emitted>>
        BY <3>1, <3>2 DEF QuietInv, ClientReceives, serverVars, turnVars
      <3>4. Heard(t) \in Seq(Event) /\ emitted[t] \in Seq(Event) /\ down \in Seq(DownFrame)
        BY HeardTypes DEF Types, TypeOK, ConnectionTypeOK
      <3>5. IsPrefixOf(Heard(t), emitted[t])
        BY <3>1 DEF OpenInv
      <3>6. Len(Heard(t)) = Len(emitted[t])
        <4>1. PICK n \in Nat : Reaches(t, down, Len(Heard(t)), emitted[t], n)
          BY <3>1 DEF OpenInv
        <4>2. Len(Heard(t)) \in Nat
          BY <3>4
        <4> QED BY <3>1, <3>2, <3>4, <4>1, <4>2, FrameRead
      <3>7. Heard(t) = emitted[t]
        BY <3>4, <3>6, <3>5, SameValues DEF IsPrefixOf
      <3>8. Heard(t)' = Heard(t)
        BY <3>1, HeardStep DEF IsFinal, IsEvent
      <3> QED BY <3>3, <3>7, <3>8
    <2> QED BY <2>2, <2>3
  <1>2. ASSUME NEW t \in Turn, chat'[t] = "complete"
        PROVE  stream'[t] = "closed" /\ queue'[t] = <<>>
    <2>1. CASE ChatCompletes(t)
      BY <2>1 DEF ChatCompletes, connectionVars, clientVars
    <2>2. CASE chat[t] = "complete"
      <3>1. stream[t] = "closed" /\ queue[t] = <<>>
        BY <2>2 DEF ClosedInv
      <3>2. ~Submits(t) /\ ~Resubmits(t)
        BY <2>2 DEF Submits, Resubmits, Stopped
      <3>3. stream'[t] = "closed"
        BY <3>1, <3>2, StreamStep
      <3>4. queue'[t] = queue[t]
        <4>1. ASSUME NEW u \in Turn, ChatReads(u) PROVE queue'[t] = queue[t]
          BY <2>2, <4>1 DEF ChatReads, Types, TypeOK, ConnectionTypeOK
        <4>2. ASSUME ClientReceives PROVE queue'[t] = queue[t]
          <5>1. \/ queue' = queue
                \/ /\ stream[Head(down).id] = "open"
                   /\ queue' = [queue EXCEPT ![Head(down).id] = Append(@, Head(down).event)]
            BY <4>2 DEF ClientReceives
          <5> QED BY <3>1, <5>1 DEF Types, TypeOK, ConnectionTypeOK
        <4>3. ClientReceives \/ queue' = queue \/ \E u \in Turn : ChatReads(u)
          BY DEF Next, ConnectionSteps, Server, vars, connectionVars, clientVars,
             ServerReceivesSubmit, ServerReceivesAbort, ServerReceivesClose, ServerSeesLoss,
             TurnBegins, TurnRefused, TurnEmits, TurnEnds, AbortReturns, ClientCloses,
             ClientSeesClose, Loses, Submits, StopsStaleTurn, Resubmits, SubmitTurn, OpenStream,
             Ask, ChatCompletes, ChatFails, StopPressed
        <4> QED BY <4>1, <4>2, <4>3
      <3> QED BY <3>1, <3>3, <3>4
    <2>3. ASSUME Submits(t) \/ Resubmits(t) PROVE FALSE
      <3>1. chat' = [chat EXCEPT ![t] = "streaming"] \/ chat' = [chat EXCEPT ![t] = "failed"]
        BY <2>3 DEF Submits, Resubmits, SubmitTurn
      <3> QED BY <1>2, <3>1 DEF Types, TypeOK
    <2> QED BY <1>2, <2>1, <2>2, <2>3, ChatStep
  <1> QED BY <1>1, <1>2 DEF ClosedInv

LEMMA WholeInvariant == Spec => []WholeInv
  <1>1. Init => QuietInv /\ OpenInv /\ ClosedInv
    BY DEF Init, ConnectionInit, QuietInv, OpenInv, ClosedInv
  <1>2. WholeInv /\ [Next]_vars => QuietInv' /\ OpenInv' /\ ClosedInv'
    BY StepQuiet, StepOpen, StepClosed
  <1> QED BY <1>1, <1>2, InvAlways, PTL DEF Spec, WholeInv

\* AsyncEventQueue, handleMessage, runChatViaGateway: whatever the connection goes through, a
\* chat that is told it is complete has been shown every event of its turn, in order, and the
\* turn is over on the server. A stream that breaks off never looks like one that ended.
THEOREM CompleteShowsAll == Spec => []CompleteIsWhole
  <1>1. WholeInv => CompleteIsWhole
    <2> SUFFICES ASSUME WholeInv, NEW t \in Turn, chat[t] = "complete"
                 PROVE  served[t] = "over" /\ shown[t] = emitted[t]
      BY DEF CompleteIsWhole
    <2>1. served[t] = "over" /\ shown[t] \o queue[t] = emitted[t] /\ queue[t] = <<>>
      BY DEF WholeInv, ClosedInv, Heard
    <2>2. shown[t] \o <<>> = shown[t]
      BY HeardTypes DEF WholeInv, Inv
    <2> QED BY <2>1, <2>2
  <1> QED BY <1>1, WholeInvariant, PTL

=============================================================================
