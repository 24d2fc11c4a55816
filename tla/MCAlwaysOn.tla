-------------------------------- MODULE MCAlwaysOn --------------------------------
(***************************************************************************)
(* Instances of AlwaysOnScheduler for TLC.                                 *)
(***************************************************************************)
EXTENDS AlwaysOnScheduler, TLC

CONSTANTS k1, k2, h1, u1, g1, g2
\* The ticks are alike.
TicksAreAlike == Permutations(Tick)
Writers == Tick \cup Handler \cup Unlocked
=============================================================================
