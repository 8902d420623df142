------------------------------ MODULE MCHookIO ------------------------------
(***************************************************************************)
(* Model-checking instances of HookIO.                                     *)
(***************************************************************************)
EXTENDS HookIO, TLC

CONSTANTS f1, f2, f3

ThreeCalls == f1 :> "io" @@ f2 :> "connect" @@ f3 :> "sleep"

OneConnect == f1 :> "connect"
=============================================================================
