--------------------------------- MODULE RunLock ---------------------------------
(***************************************************************************)
(* What the lock file of always-on promises, whoever schedules the runs:   *)
(* it passes from nobody to one run and back to nobody, and is taken away  *)
(* from a run only by that run. A run that dies leaves it locked for ever. *)
(***************************************************************************)
CONSTANTS Holder, Nobody, Left

VARIABLES lock, alive  \* alive: the runs that are between their start and their end

Acquire(h) == lock = Nobody /\ lock' = h /\ alive' = alive \cup {h}
Release(h) == lock = h /\ lock' = Nobody /\ alive' = alive \ {h}
Die == lock' = (IF lock = Nobody THEN Nobody ELSE Left) /\ alive' = {}

Init == lock = Nobody /\ alive = {}
Next == Die \/ \E h \in Holder : Acquire(h) \/ Release(h)
Spec == Init /\ [][Next]_<<lock, alive>>
=============================================================================
