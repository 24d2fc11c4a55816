-------------------------------- MODULE WebBridge --------------------------------
(***************************************************************************)
(* The web server's bridge (ui/server/pilotdeck-bridge.js): the chats of   *)
(* all its browsers go through one GatewayWsClient. It remembers for each  *)
(* session which turn it believes active, aborts that turn before it       *)
(* submits another one, and reads the turn's stream to its end.            *)
(***************************************************************************)
EXTENDS GatewayConnection

VARIABLES
  chat,   \* where each call of runChatViaGateway stands
  runId,  \* Key -> state.runId; state.active is true exactly when there is one
  stale,  \* the turn a chat has stopped, if the bridge had seen an event of it
  shown   \* the events a chat has passed on

bridgeVars == <<chat, runId, stale, shown>>
vars == <<connectionVars, bridgeVars>>

TypeOK ==
  /\ ConnectionTypeOK
  /\ chat \in [Turn -> {"idle", "stopping", "streaming", "complete", "failed"}]
  /\ runId \in [Key -> Turn \cup {None}]
  /\ stale \in [Turn -> Turn \cup {None}]
  /\ shown \in [Turn -> Seq(Event)]

Init ==
  /\ ConnectionInit
  /\ chat = [t \in Turn |-> "idle"]
  /\ runId = [k \in Key |-> None]
  /\ stale = [t \in Turn |-> None]
  /\ shown = [t \in Turn |-> <<>>]

\* clearActiveRunIfCurrent
Cleared_Deleted(t) == [k \in Key \ {KeyOf[t]} |-> runId[k]]
Cleared(t) == [runId EXCEPT ![KeyOf[t]] = IF @ = t THEN None ELSE @]

\* From the new runId to the stream; if the client is not connected submitTurn throws,
\* and the finally clears the run again.
SubmitTurn(t) ==
  /\ OpenStream(t)
  /\ IF clientWs = "open"
     THEN /\ chat' = [chat EXCEPT ![t] = "streaming"]
          /\ runId' = [runId EXCEPT ![KeyOf[t]] = t]
     ELSE /\ chat' = [chat EXCEPT ![t] = "failed"]
          /\ runId' = [runId EXCEPT ![KeyOf[t]] = None]

Submits(t) ==
  /\ chat[t] = "idle" /\ runId[KeyOf[t]] = None
  /\ SubmitTurn(t)
  /\ UNCHANGED <<slotVars, turnVars, serverVars, reply, lost, down, stale, shown>>

\* The bridge believes that a turn of the session is still active, and aborts it.
StopsStaleTurn(t) ==
  /\ chat[t] = "idle" /\ runId[KeyOf[t]] # None
  /\ Ask(BeforeTurn(t))
  /\ chat' = [chat EXCEPT ![t] = "stopping"]
  /\ stale' = [stale EXCEPT ![t] = IF shown[runId[KeyOf[t]]] = <<>> THEN None
                                   ELSE runId[KeyOf[t]]]
  /\ UNCHANGED <<slotVars, turnVars, serverVars, lost, down, runId, shown>>

\* The abort has been answered, or has failed and the bridge goes on all the same.
Stopped(t) == chat[t] = "stopping" /\ reply[BeforeTurn(t)] \in {"ok", "failed"}
Resubmits(t) ==
  /\ Stopped(t)
  /\ SubmitTurn(t)
  /\ UNCHANGED <<slotVars, turnVars, serverVars, reply, lost, down, stale, shown>>

\* abortViaGateway: the stop button, which a browser shows while its chat is active.
StopPressed(s) ==
  /\ reply[ByUser(s)] = "none" /\ runId[StopKeyOf[s]] # None
  /\ Ask(ByUser(s))
  /\ UNCHANGED <<slotVars, turnVars, serverVars, lost, down, bridgeVars>>

\* One pull on the stream. An error comes before the values that are still queued. At
\* turn_completed the run is no longer active, although its stream has not ended yet.
ChatReads(t) ==
  /\ chat[t] = "streaming" /\ stream[t] # "failed" /\ queue[t] # <<>>
  /\ queue' = [queue EXCEPT ![t] = Tail(@)]
  /\ shown' = [shown EXCEPT ![t] = Append(@, Head(queue[t]))]
  /\ runId' = IF Head(queue[t]) = "turn_completed" THEN Cleared(t) ELSE runId
  /\ UNCHANGED <<slotVars, turnVars, serverVars, clientWs, reply, stream, wireVars, chat, stale>>

ChatCompletes(t) ==
  /\ chat[t] = "streaming" /\ stream[t] = "closed" /\ queue[t] = <<>>
  /\ chat' = [chat EXCEPT ![t] = "complete"]
  /\ runId' = Cleared(t)
  /\ UNCHANGED <<connectionVars, stale, shown>>

ChatFails(t) ==
  /\ chat[t] = "streaming" /\ stream[t] = "failed"
  /\ chat' = [chat EXCEPT ![t] = "failed"]
  /\ runId' = Cleared(t)
  /\ UNCHANGED <<connectionVars, stale, shown>>

Next ==
  \/ ConnectionSteps /\ UNCHANGED bridgeVars
  \/ \E t \in Turn :
       \/ Submits(t) \/ StopsStaleTurn(t) \/ Resubmits(t)
       \/ ChatReads(t) \/ ChatCompletes(t) \/ ChatFails(t)
  \/ \E s \in Stop : StopPressed(s)

Spec == Init /\ [][Next]_vars

---------------------------------------------------------------------------
OnTheWay(frames, frame) == \E i \in DOMAIN frames : frames[i] = frame

\* A browser is told that its turn is complete only if it has been shown everything that
\* the turn has sent and the turn is over on the server, however the connection ended.
CompleteIsWhole ==
  \A t \in Turn : chat[t] = "complete" => served[t] = "over" /\ shown[t] = emitted[t]

\* A chat that has stopped its session's turn (and had heard of it before) is not turned
\* away because of that turn: the promise of the comment at pilotdeck-bridge.js:696-700.
NotBusyWithStopped ==
  [][\A t \in Turn :
       (served[t] = "refreshing" /\ served'[t] = "over" /\ reply[BeforeTurn(t)] = "ok")
         => stale[t] = None \/ holder[KeyOf[t]] # stale[t]]_vars

\* The server that loses a connection stops its turns, which nobody watches any more: the
\* signal reaches every turn that has begun to send and has had its session to itself on
\* the connection. (A close frame stops nothing: websocket.ts:60.)
LossStopsTurns ==
  [][\A t \in Turn :
       (/\ serverWs = "open" /\ serverWs' = "closed" /\ ~OnTheWay(up, [type |-> "close"])
        /\ served[t] = "streaming" /\ emitted[t] # <<>> /\ t \notin crowded)
         => t \in signalled']_vars

\* A chat that waits for its turn's stream is owed its end: its frame, its turn, its last
\* frame or the end of the connection is still to come, or the connection is lost.
StreamIsOwedItsEnd ==
  \A t \in Turn :
    chat[t] = "streaming" /\ stream[t] = "open" =>
      /\ clientWs # "closed"
      /\ \/ lost
         \/ OnTheWay(up, [type |-> "submit_turn", id |-> t])
         \/ served[t] \in {"refreshing", "streaming"} /\ serverWs = "open"
         \/ OnTheWay(down, FinalFrame(t))
         \/ OnTheWay(down, [type |-> "close"])
=============================================================================
