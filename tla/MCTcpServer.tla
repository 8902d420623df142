----------------------------- MODULE MCTcpServer -----------------------------
(***************************************************************************)
(* Model-checking instances of TcpServer: a server that is started twice   *)
(* and stopped twice on one thread; one that was bound outside a           *)
(* scheduler; and one that is stopped once on two threads.                 *)
(***************************************************************************)
EXTENDS TcpServer

CONSTANTS t1, t2, l1, l2, c1, c2

Instances ==
    {[threads |-> {t1}, hooked |-> TRUE, binds |-> {l1, l2}, peers |-> {c1}, starts |-> 2, stops |-> 2],
     [threads |-> {t1}, hooked |-> FALSE, binds |-> {l1}, peers |-> {c1}, starts |-> 1, stops |-> 1],
     [threads |-> {t1, t2}, hooked |-> TRUE, binds |-> {l1}, peers |-> {c1, c2}, starts |-> 1, stops |-> 1]}
=============================================================================
