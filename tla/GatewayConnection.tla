---------------------------- MODULE GatewayConnection ----------------------------
(***************************************************************************)
(* One WebSocket connection between a GatewayWsClient and the server's     *)
(* GatewayWsConnection: streams of turns, requests, and the three ways a   *)
(* connection ends (the client closes it, it is lost, one end notices      *)
(* first). Behind the server stands the gateway as TurnSlot has it; its    *)
(* turns emit events and end.                                              *)
(*                                                                         *)
(* A connection is modelled from its hello_ok on. What the server handles  *)
(* of one frame up to its first await is one step.                         *)
(***************************************************************************)
EXTENDS Naturals, Sequences

CONSTANTS
  Key,        \* session keys
  Turn,       \* submit_turn requests, by request id
  KeyOf,      \* the session each of them names
  Stop,       \* abort_turn requests of a user
  StopKeyOf,  \* the session each of them names
  MaxEvents,  \* events of a turn before its turn_completed
  None

\* Calls of abortTurn: by a turn's caller before it submits, by a user, and by the
\* server for each session whose turn was in flight when its connection was lost.
BeforeTurn(t) == [by |-> "chat", of |-> t]
ByUser(s) == [by |-> "user", of |-> s]
OnLoss(k) == [by |-> "server", of |-> k]
Requests == {BeforeTurn(t) : t \in Turn} \cup {ByUser(s) : s \in Stop}
AbortCall == Requests \cup {OnLoss(k) : k \in Key}
AbortKeyOf == [a \in AbortCall |->
  IF a.by = "chat" THEN KeyOf[a.of] ELSE IF a.by = "user" THEN StopKeyOf[a.of] ELSE a.of]

ASSUME ConnectionAssumption ==
  /\ KeyOf \in [Turn -> Key]
  /\ StopKeyOf \in [Stop -> Key]
  /\ MaxEvents \in Nat
  /\ None \notin Turn

VARIABLES
  holder, admitted, abort, target,  \* the gateway's slots, see TurnSlot
  emitted,    \* Turn -> the events it has sent, in order
  signalled,  \* turns whose abort signal has fired
  served,     \* where the for-await of each submit_turn stands
  inFlightSessions,
  crowded,    \* turns that were served beside another one of their session
  serverWs,   \* TextWebSocketConnection.closed
  clientWs,   \* readyState of the client's WebSocket
  lost,       \* whether the network has dropped the connection
  up, down,   \* frames on their way to the server and to the client
  reply,      \* request -> none, pending, ok or failed: the client's pending map
  stream,     \* turn -> none, open, closed or failed: its AsyncEventQueue
  queue       \* turn -> the values in it

slotVars == <<holder, admitted, abort, target>>
turnVars == <<emitted, signalled>>
serverVars == <<served, inFlightSessions, crowded, serverWs>>
clientVars == <<clientWs, reply, stream, queue>>
wireVars == <<lost, up, down>>
connectionVars == <<slotVars, turnVars, serverVars, clientVars, wireVars>>

Slot == INSTANCE TurnSlot

Event == {"event", "turn_completed", "session_busy"}
ConnectionTypeOK ==
  /\ holder \in [Key -> Turn \cup {None}] /\ admitted \subseteq Turn
  /\ abort \in [AbortCall -> {"idle", "pending", "returned"}]
  /\ target \in [AbortCall -> Turn \cup {None}]
  /\ emitted \in [Turn -> Seq(Event)] /\ signalled \subseteq Turn
  /\ served \in [Turn -> {"none", "refreshing", "streaming", "over"}]
  /\ inFlightSessions \subseteq Key /\ crowded \subseteq Turn
  /\ serverWs \in {"open", "closed"} /\ clientWs \in {"open", "closing", "closed"}
  /\ lost \in BOOLEAN
  /\ reply \in [Requests -> {"none", "pending", "ok", "failed"}]
  /\ stream \in [Turn -> {"none", "open", "closed", "failed"}]
  /\ queue \in [Turn -> Seq(Event)]

ConnectionInit ==
  /\ Slot!Init
  /\ emitted = [t \in Turn |-> <<>>] /\ signalled = {}
  /\ served = [t \in Turn |-> "none"] /\ inFlightSessions = {} /\ crowded = {}
  /\ serverWs = "open" /\ clientWs = "open"
  /\ lost = FALSE /\ up = <<>> /\ down = <<>>
  /\ reply = [a \in Requests |-> "none"]
  /\ stream = [t \in Turn |-> "none"] /\ queue = [t \in Turn |-> <<>>]

---------------------------------------------------------------------------
\* The client.

\* send() refuses to write unless the socket is open.
Sent(frame) == up' = IF lost THEN up ELSE Append(up, frame)

\* stream(): the queue is in the map before send() can throw.
OpenStream(t) ==
  /\ stream' = [stream EXCEPT ![t] = "open"]
  /\ IF clientWs = "open" THEN Sent([type |-> "submit_turn", id |-> t]) ELSE UNCHANGED up
  /\ UNCHANGED <<clientWs, queue>>

\* request(): send() throws before the promise is made.
Ask(a) ==
  /\ IF clientWs = "open"
     THEN Sent([type |-> "abort_turn", id |-> a]) /\ reply' = [reply EXCEPT ![a] = "pending"]
     ELSE UNCHANGED up /\ reply' = [reply EXCEPT ![a] = "failed"]
  /\ UNCHANGED <<clientWs, stream, queue>>

\* close(): the WebSocket sends a close frame and goes on receiving. It is part of what
\* the client offers; the bridge never calls it while it lives, so for the bridge this step
\* is its process going away in order.
ClientCloses ==
  /\ clientWs = "open"
  /\ clientWs' = "closing"
  /\ Sent([type |-> "close"])
  /\ UNCHANGED <<slotVars, turnVars, serverVars, reply, stream, queue, lost, down>>

\* closePending: everybody who waits is told that the connection is gone.
PendingRejected == [a \in Requests |-> IF reply[a] = "pending" THEN "failed" ELSE reply[a]]
StreamsFail_AsClosed == [t \in Turn |-> IF stream[t] = "open" THEN "closed" ELSE stream[t]]
StreamsFail == [t \in Turn |-> IF stream[t] = "open" THEN "failed" ELSE stream[t]]
ClientSeesClose ==
  /\ clientWs # "closed"
  /\ lost \/ (down # <<>> /\ Head(down).type = "close")
  /\ clientWs' = "closed"
  /\ reply' = PendingRejected
  /\ stream' = StreamsFail
  /\ down' = <<>>
  /\ UNCHANGED <<slotVars, turnVars, serverVars, queue, lost, up>>

\* handleMessage: a frame that nobody waits for is dropped.
ClientReceives ==
  /\ clientWs # "closed"
  /\ down # <<>> /\ Head(down).type # "close"
  /\ down' = Tail(down)
  /\ LET frame == Head(down) IN
     CASE frame.type = "response" ->
            /\ reply' = [reply EXCEPT ![frame.id] = IF @ = "pending" THEN "ok" ELSE @]
            /\ UNCHANGED <<stream, queue>>
       [] frame.type = "event" /\ stream[frame.id] = "open" ->
            /\ queue' = [queue EXCEPT ![frame.id] = Append(@, frame.event)]
            /\ UNCHANGED <<reply, stream>>
       [] frame.type = "final" /\ stream[frame.id] = "open" ->
            /\ stream' = [stream EXCEPT ![frame.id] = "closed"]
            /\ UNCHANGED <<reply, queue>>
       [] OTHER -> UNCHANGED <<reply, stream, queue>>
  /\ UNCHANGED <<slotVars, turnVars, serverVars, clientWs, lost, up>>

---------------------------------------------------------------------------
\* The server.

\* sendText: nothing is written to a socket that is closed, and what is written to one
\* that has been lost does not arrive.
Written(frames) == down' = IF serverWs = "closed" \/ lost THEN down ELSE down \o frames
EventFrame(t, e) == [type |-> "event", id |-> t, event |-> e]
FinalFrame(t) == [type |-> "final", id |-> t]

Serving(k) == {t \in Turn : KeyOf[t] = k /\ served[t] \in {"refreshing", "streaming"}}

\* The abort reaches the agent session if the turn has one: certainly after its first
\* event, perhaps before.
Signals(turns) ==
  \E reached \in SUBSET {t \in turns : emitted[t] = <<>>} :
    signalled' = signalled \cup reached \cup {t \in turns : emitted[t] # <<>>}

\* handleRequest up to its first await: a submit_turn is entered in the set of sessions
\* and waits for the refresh of the configuration, an abort_turn reads slot and session.
ServerReceivesSubmit ==
  /\ serverWs = "open"
  /\ up # <<>> /\ Head(up).type = "submit_turn"
  /\ LET t == Head(up).id IN
     /\ served' = [served EXCEPT ![t] = "refreshing"]
     /\ inFlightSessions' = inFlightSessions \cup {KeyOf[t]}
     /\ crowded' = IF Serving(KeyOf[t]) = {} THEN crowded
                   ELSE crowded \cup Serving(KeyOf[t]) \cup {t}
  /\ up' = Tail(up)
  /\ UNCHANGED <<slotVars, turnVars, serverWs, clientVars, lost, down>>

ServerReceivesAbort ==
  /\ serverWs = "open"
  /\ up # <<>> /\ Head(up).type = "abort_turn"
  /\ LET a == Head(up).id IN
     Slot!CallAbort(a) /\ Signals({holder[AbortKeyOf[a]]} \ {None})
  /\ up' = Tail(up)
  /\ UNCHANGED <<emitted, serverVars, clientVars, lost, down>>

\* handleData of a close frame: close() sets closed, so that the close handlers, which
\* would abort the turns in flight, do not run when the socket is closed.
ServerReceivesClose ==
  /\ serverWs = "open"
  /\ up # <<>> /\ Head(up).type = "close"
  /\ Written(<<[type |-> "close"]>>)
  /\ serverWs' = "closed"
  /\ up' = Tail(up)
  /\ UNCHANGED <<slotVars, turnVars, served, inFlightSessions, crowded, clientVars, lost>>

\* emitClose and abortInFlightTurns.
AbortedSessions_None == {}
AbortedSessions == inFlightSessions
ServerSeesLoss ==
  /\ serverWs = "open" /\ lost
  /\ serverWs' = "closed"
  /\ LET calls == {OnLoss(k) : k \in AbortedSessions} IN
     /\ abort' = [a \in AbortCall |-> IF a \in calls THEN "pending" ELSE abort[a]]
     /\ target' = [a \in AbortCall |-> IF a \in calls THEN holder[AbortKeyOf[a]] ELSE target[a]]
     /\ Signals({holder[AbortKeyOf[a]] : a \in calls} \ {None})
  /\ inFlightSessions' = {}
  /\ up' = <<>>
  /\ UNCHANGED <<holder, admitted, emitted, served, crowded, clientVars, lost, down>>

\* submitTurn after its refresh: the turn is let in, or its only event says that the
\* session is busy. The finally takes the session out of the set, whoever else is in it.
TurnBegins(t) ==
  /\ served[t] = "refreshing"
  /\ Slot!Acquire(t)
  /\ served' = [served EXCEPT ![t] = "streaming"]
  /\ UNCHANGED <<turnVars, inFlightSessions, crowded, serverWs, clientVars, wireVars>>

TurnRefused(t) ==
  /\ served[t] = "refreshing"
  /\ holder[KeyOf[t]] # None
  /\ emitted' = [emitted EXCEPT ![t] = <<"session_busy">>]
  /\ served' = [served EXCEPT ![t] = "over"]
  /\ inFlightSessions' = inFlightSessions \ {KeyOf[t]}
  /\ Written(<<EventFrame(t, "session_busy"), FinalFrame(t)>>)
  /\ UNCHANGED <<slotVars, signalled, crowded, serverWs, clientVars, lost, up>>

Completed(t) == emitted[t] # <<>> /\ emitted[t][Len(emitted[t])] = "turn_completed"
TurnEmits(t) ==
  /\ served[t] = "streaming" /\ ~Completed(t)
  /\ \E e \in {"event", "turn_completed"} :
     /\ e = "event" => Len(emitted[t]) < MaxEvents
     /\ emitted' = [emitted EXCEPT ![t] = Append(@, e)]
     /\ Written(<<EventFrame(t, e)>>)
  /\ UNCHANGED <<slotVars, signalled, serverVars, clientVars, lost, up>>

\* The generator ends, the slot is free, the last frame goes out.
SessionsAfter(t) == inFlightSessions \ {KeyOf[t]}
FinalFrames_Dropped(t) == <<>>
FinalFrames(t) == <<FinalFrame(t)>>
TurnEnds(t) ==
  /\ served[t] = "streaming"
  /\ Slot!Release(t)
  /\ served' = [served EXCEPT ![t] = "over"]
  /\ inFlightSessions' = SessionsAfter(t)
  /\ Written(FinalFrames(t))
  /\ UNCHANGED <<turnVars, crowded, serverWs, clientVars, lost, up>>

\* abortTurn returns when the turn it found is over, and the server answers. (Nobody waits
\* for the aborts that the server makes itself.)
AbortReturns_Early(a) ==
  /\ abort[a] = "pending"
  /\ abort' = [abort EXCEPT ![a] = "returned"]
  /\ UNCHANGED <<holder, admitted, target>>
  /\ Written(<<[type |-> "response", id |-> a]>>)
  /\ UNCHANGED <<turnVars, serverVars, clientVars, lost, up>>
AbortReturns(a) ==
  /\ Slot!ReturnAbort(a)
  /\ Written(<<[type |-> "response", id |-> a]>>)
  /\ UNCHANGED <<turnVars, serverVars, clientVars, lost, up>>

\* The network drops the connection; each end notices in its own time.
Loses ==
  /\ ~lost
  /\ lost' = TRUE
  /\ UNCHANGED <<slotVars, turnVars, serverVars, clientVars, up, down>>

Server ==
  \/ ServerReceivesSubmit \/ ServerReceivesAbort \/ ServerReceivesClose \/ ServerSeesLoss
  \/ \E t \in Turn :
       TurnBegins(t) \/ TurnRefused(t) \/ TurnEmits(t) \/ TurnEnds(t)
  \/ \E a \in Requests : AbortReturns(a)
ConnectionSteps == Server \/ ClientCloses \/ ClientSeesClose \/ ClientReceives \/ Loses
=============================================================================
