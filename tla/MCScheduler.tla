---------------------------- MODULE MCScheduler ----------------------------
(***************************************************************************)
(* Model-checking instances of Scheduler.                                  *)
(***************************************************************************)
EXTENDS Scheduler
=============================================================================
