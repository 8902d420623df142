----------------------------- MODULE MCFdEvents -----------------------------
(***************************************************************************)
(* Model-checking instance of FdEvents: one thread with two descriptors,   *)
(* and two threads that share one.                                         *)
(***************************************************************************)
EXTENDS FdEvents

CONSTANTS t1, t2, d1, d2

OneAndTwo == {<<{t1}, {d1, d2}>>, <<{t1, t2}, {d1}>>}
=============================================================================
