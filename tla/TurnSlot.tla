-------------------------------- MODULE TurnSlot --------------------------------
(***************************************************************************)
(* What the gateway promises about turns (the comment on turnCompletions   *)
(* in src/gateway/client/InProcessGateway.ts): a session runs one turn at  *)
(* a time, a submitted turn is admitted at most once, and when an abort    *)
(* returns, the turn it was aimed at no longer occupies the session, so    *)
(* that turn cannot make the next submit fail with session_busy.           *)
(***************************************************************************)
CONSTANTS Key, Turn, KeyOf, AbortCall, AbortKeyOf, None

VARIABLES
  holder,    \* Key -> the turn that occupies the session, or None
  admitted,  \* turns that have been let in, now or earlier
  abort,     \* AbortCall -> idle, pending or returned
  target     \* AbortCall -> the holder when the call was made

vars == <<holder, admitted, abort, target>>

Init ==
  /\ holder = [k \in Key |-> None]
  /\ admitted = {}
  /\ abort = [a \in AbortCall |-> "idle"]
  /\ target = [a \in AbortCall |-> None]

Acquire(t) ==
  /\ t \notin admitted
  /\ holder[KeyOf[t]] = None
  /\ holder' = [holder EXCEPT ![KeyOf[t]] = t]
  /\ admitted' = admitted \cup {t}
  /\ UNCHANGED <<abort, target>>

Release(t) ==
  /\ holder[KeyOf[t]] = t
  /\ holder' = [holder EXCEPT ![KeyOf[t]] = None]
  /\ UNCHANGED <<admitted, abort, target>>

CallAbort(a) ==
  /\ abort[a] = "idle"
  /\ abort' = [abort EXCEPT ![a] = "pending"]
  /\ target' = [target EXCEPT ![a] = holder[AbortKeyOf[a]]]
  /\ UNCHANGED <<holder, admitted>>

ReturnAbort(a) ==
  /\ abort[a] = "pending"
  /\ target[a] = None \/ holder[AbortKeyOf[a]] # target[a]
  /\ abort' = [abort EXCEPT ![a] = "returned"]
  /\ UNCHANGED <<holder, admitted, target>>

Next ==
  \/ \E t \in Turn : Acquire(t) \/ Release(t)
  \/ \E a \in AbortCall : CallAbort(a) \/ ReturnAbort(a)

Spec == Init /\ [][Next]_vars
=============================================================================
