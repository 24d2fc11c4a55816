------------------------------- MODULE MCWebBridge -------------------------------
(***************************************************************************)
(* Instances of WebBridge for TLC.                                         *)
(***************************************************************************)
EXTENDS WebBridge, TLC

CONSTANTS k1, c1, c2, c3, s1
\* The chats are alike.
ChatsAreAlike == Permutations(Turn)
OneSession == [t \in Turn |-> k1]
StopOnSession == [s \in Stop |-> k1]
=============================================================================
