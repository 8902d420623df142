------------------------------- MODULE TaskPool -------------------------------
(***************************************************************************)
(* What Scheduler promises its user, without threads, queue or counters: a *)
(* submitted task is run, possibly in several slices, until it is done;    *)
(* while the pool is closing only running tasks submit more; and the pool  *)
(* is closed only when every task that was submitted is done               *)
(* (scheduler.h, stop(): returns after all tasks have been executed).      *)
(***************************************************************************)
CONSTANT Tasks

VARIABLES status, phase

vars == <<status, phase>>

Init ==
    /\ status = [k \in Tasks |-> "new"]
    /\ phase = "open"

Submit(k) ==
    /\ status[k] = "new"
    /\ phase = "open" \/ (phase = "closing" /\ \E r \in Tasks : status[r] = "running")
    /\ status' = [status EXCEPT ![k] = "pending"]
    /\ UNCHANGED phase

\* A slice of k begins.
Begin(k) ==
    /\ status[k] = "pending"
    /\ phase # "closed"
    /\ status' = [status EXCEPT ![k] = "running"]
    /\ UNCHANGED phase

\* A slice of k ends with the task pending again, or done.
End(k) ==
    /\ status[k] = "running"
    /\ \E s \in {"pending", "done"} : status' = [status EXCEPT ![k] = s]
    /\ UNCHANGED phase

Close ==
    /\ phase = "open"
    /\ phase' = "closing"
    /\ UNCHANGED status

Closed ==
    /\ phase = "closing"
    /\ \A k \in Tasks : status[k] \in {"new", "done"}
    /\ phase' = "closed"
    /\ UNCHANGED status

Next ==
    \/ \E k \in Tasks : Submit(k) \/ Begin(k) \/ End(k)
    \/ Close
    \/ Closed

Spec == Init /\ [][Next]_vars
===============================================================================
