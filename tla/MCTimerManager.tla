--------------------------- MODULE MCTimerManager ---------------------------
(***************************************************************************)
(* Model-checking instances of TimerManager.                               *)
(***************************************************************************)
EXTENDS TimerManager, TLC

Symmetry == Permutations(Threads)
=============================================================================
