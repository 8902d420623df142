--------------------------- MODULE MCIOManagerIdle ---------------------------
(***************************************************************************)
(* Model-checking instances of IOManagerIdle.                              *)
(***************************************************************************)
EXTENDS IOManagerIdle, TLC

CONSTANTS i1, i2

Symmetry == Permutations(Threads)

\* Two timers; a timer and an event; a submission from outside with an
\* interrupted epoll_wait; a timer with an interrupted epoll_wait.
Mixed == {
    [tasks |-> 2, timers |-> {i1, i2}, spawns |-> 0, adds |-> 0, externals |-> 0, interrupts |-> 0],
    [tasks |-> 1, timers |-> {i1}, spawns |-> 0, adds |-> 1, externals |-> 0, interrupts |-> 0],
    [tasks |-> 1, timers |-> {}, spawns |-> 1, adds |-> 0, externals |-> 1, interrupts |-> 1],
    [tasks |-> 1, timers |-> {i1}, spawns |-> 0, adds |-> 0, externals |-> 0, interrupts |-> 1]}

\* Two events that tasks register one after the other.
TwoEvents ==
    {[tasks |-> 1, timers |-> {}, spawns |-> 1, adds |-> 2, externals |-> 0, interrupts |-> 0]}
=============================================================================
