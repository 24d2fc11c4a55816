--------------------------- MODULE MCInProcessGateway ---------------------------
(* Instances of InProcessGateway for TLC. *)
EXTENDS InProcessGateway, TLC

CONSTANTS t1, t2, t3, k1, k2, project

\* Every call names the same session, or the last turn has a session of its own.
OneKey == [t \in Turn |-> k1]
TwoKeys == [t \in Turn |-> IF t = t3 THEN k2 ELSE k1]
InProject == [t \in Turn |-> project]
AbortOnKey1 == [a \in AbortCall |-> k1]
=============================================================================
