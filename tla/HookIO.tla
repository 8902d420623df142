------------------------------- MODULE HookIO -------------------------------
(***************************************************************************)
(* The blocking calls of luwu/hook.cpp: do_io (read, write, accept, ...),  *)
(* connect_with_timeout, sleep and usleep, as a fiber executes them on the *)
(* threads of an IOManager.                                                *)
(*                                                                         *)
(* A call that would block adds a timer whose callback cancels the event   *)
(* when the timeout expires, registers the event and yields; the fiber is  *)
(* put back in the queue when the event is triggered or cancelled.  Every  *)
(* fiber makes one call, on a descriptor of its own.  The scheduler, the   *)
(* timers and the events are those of Scheduler, TimerManager and FdEvents *)
(* reduced to what a call can see of them; a timer may expire at any time  *)
(* after it was added.                                                     *)
(***************************************************************************)
EXTENDS Integers, FiniteSets

CONSTANTS
    Pools,         \* the sets of threads an IOManager may be built with
    Fibers,        \* fibers, one hooked call each
    Nobody,
    Kind,          \* Kind[f] is "io", "connect" or "sleep"
    Timed,         \* the io and connect calls with a timeout
    MaxFailures    \* how often epoll_ctl fails in addEvent, or another call is first

ASSUME HookAssumption ==
    /\ IsFiniteSet(UNION Pools) /\ {} \notin Pools
    /\ Nobody \notin Fibers
    /\ Kind \in [Fibers -> {"io", "connect", "sleep"}]
    /\ Timed \subseteq Fibers
    /\ MaxFailures \in Nat

Threads == UNION Pools

VARIABLES
    pool,         \* the threads of the IOManager
    fpc,          \* where each fiber is in its call
    queued,       \* how often it is in the task queue
    run, cb,      \* what each thread executes: a fiber, or the timer callback of one
    timer,        \* the Timer of the current wait
    late,         \* expired callbacks in the task queue
    cancelled,    \* timer_info::cancelled
    event,        \* the fiber is registered with addEvent
    ready,        \* its descriptor is ready
    result,       \* what the call has returned
    fault, failures

threadVars == <<pool, run, cb>>
callVars   == <<timer, late, cancelled, event, ready, result>>
vars == <<fpc, queued, threadVars, callVars, fault, failures>>

Points == {"start", "call", "timer", "event", "yield", "parked", "woken", "failed", "check", "done"}

TypeOK ==
    /\ pool \in Pools
    /\ fpc \in [Fibers -> Points]
    /\ queued \in [Fibers -> Nat]
    /\ run \in [Threads -> Fibers \cup {Nobody}] /\ cb \in [Threads -> Fibers \cup {Nobody}]
    /\ timer \in [Fibers -> {"none", "armed", "expired", "cancelled"}]
    /\ late \in [Fibers -> Nat]
    /\ cancelled \in [Fibers -> BOOLEAN] /\ event \in [Fibers -> BOOLEAN]
    /\ ready \in [Fibers -> BOOLEAN]
    /\ result \in [Fibers -> {"none", "ok", "timeout", "error"}]
    /\ fault \in {"none", "assert", "erase"}
    /\ failures \in 0..MaxFailures

Init ==
    /\ pool \in Pools
    /\ fpc = [f \in Fibers |-> "start"]
    /\ queued = [f \in Fibers |-> 1]
    /\ run = [t \in Threads |-> Nobody] /\ cb = [t \in Threads |-> Nobody]
    /\ timer = [f \in Fibers |-> "none"]
    /\ late = [f \in Fibers |-> 0]
    /\ cancelled = [f \in Fibers |-> FALSE] /\ event = [f \in Fibers |-> FALSE]
    /\ ready = [f \in Fibers |-> FALSE]
    /\ result = [f \in Fibers |-> "none"]
    /\ fault = "none" /\ failures = 0

\* Thread t is in Scheduler::run or idle(), between two tasks.
Free(t) == fault = "none" /\ run[t] = Nobody /\ cb[t] = Nobody

\* Thread t executes a fiber that is at this point of its call.
At(t, point) == fault = "none" /\ run[t] # Nobody /\ fpc[run[t]] = point

Goto(f, point) == fpc' = [fpc EXCEPT ![f] = point]

\* The call returns; the fiber ends and its timer_info dies with it.
Return(t, value) ==
    /\ Goto(run[t], "done")
    /\ result' = [result EXCEPT ![run[t]] = value]
    /\ run' = [run EXCEPT ![t] = Nobody]

----------------------------------------------------------------------------
(***************************************************************************)
(* The pool.                                                               *)
(***************************************************************************)
TakeFiber(t, f) ==
    /\ Free(t)
    /\ queued[f] > 0
    /\ fpc[f] \in {"start", "parked"}
    /\ queued' = [queued EXCEPT ![f] = @ - 1]
    /\ run' = [run EXCEPT ![t] = f]
    /\ Goto(f, IF fpc[f] = "start" THEN "call" ELSE "woken")
    /\ UNCHANGED <<pool, cb, callVars, fault, failures>>

\* Fiber::resume asserts that the fiber is READY: here it is not, because it
\* has not yielded yet.
TakeRunning(t, f) ==
    /\ Free(t)
    /\ queued[f] > 0
    /\ fpc[f] \notin {"start", "parked"}
    /\ fault' = "assert"
    /\ UNCHANGED <<fpc, queued, threadVars, callVars, failures>>

\* idle() of a free thread: the timer has expired, its callback is queued.
Expire(t, f) ==
    /\ Free(t)
    /\ timer[f] = "armed"
    /\ timer' = [timer EXCEPT ![f] = "expired"]
    /\ late' = [late EXCEPT ![f] = @ + 1]
    /\ UNCHANGED <<fpc, queued, threadVars, cancelled, event, ready, result, fault, failures>>

\* idle() of a free thread: the event is triggered.
Trigger(t, f) ==
    /\ Free(t)
    /\ event[f] /\ ready[f]
    /\ event' = [event EXCEPT ![f] = FALSE]
    /\ queued' = [queued EXCEPT ![f] = @ + 1]
    /\ UNCHANGED <<fpc, threadVars, timer, late, cancelled, ready, result, fault, failures>>

\* The callback of a sleeping fiber's timer: schedule it.
WakeSleeper(t, f) ==
    /\ Free(t)
    /\ late[f] > 0
    /\ Kind[f] = "sleep"
    /\ late' = [late EXCEPT ![f] = @ - 1]
    /\ queued' = [queued EXCEPT ![f] = @ + 1]
    /\ UNCHANGED <<fpc, threadVars, timer, cancelled, event, ready, result, fault, failures>>

\* The callback finds the call gone, or already cancelled.
CallbackIgnored(t, f) ==
    /\ Free(t)
    /\ late[f] > 0
    /\ Kind[f] # "sleep"
    /\ fpc[f] = "done" \/ cancelled[f]
    /\ late' = [late EXCEPT ![f] = @ - 1]
    /\ UNCHANGED <<fpc, queued, threadVars, timer, cancelled, event, ready, result, fault, failures>>

\* The callback sets cancelled = ETIMEDOUT ...
CallbackTimesOut(t, f) ==
    /\ Free(t)
    /\ late[f] > 0
    /\ Kind[f] # "sleep"
    /\ fpc[f] # "done" /\ ~cancelled[f]
    /\ late' = [late EXCEPT ![f] = @ - 1]
    /\ cancelled' = [cancelled EXCEPT ![f] = TRUE]
    /\ cb' = [cb EXCEPT ![t] = f]
    /\ UNCHANGED <<pool, fpc, queued, run, timer, event, ready, result, fault, failures>>

\* Mutant: the flag is set but the event stays.
CallbackCancelsNot(t) ==
    /\ fault = "none"
    /\ cb[t] # Nobody
    /\ cb' = [cb EXCEPT ![t] = Nobody]
    /\ UNCHANGED <<pool, fpc, run, queued, timer, late, cancelled, event, ready, result, fault, failures>>

\* Mutant: the fiber is scheduled whether or not it was registered.
CallbackWakesAlways(t) ==
    /\ fault = "none"
    /\ cb[t] # Nobody
    /\ queued' = [queued EXCEPT ![cb[t]] = @ + 1]
    /\ event' = [event EXCEPT ![cb[t]] = FALSE]
    /\ cb' = [cb EXCEPT ![t] = Nobody]
    /\ UNCHANGED <<pool, fpc, run, timer, late, cancelled, ready, result, fault, failures>>

\* ... and calls cancelEvent, which schedules the fiber if it is registered.
CallbackCancels(t) ==
    /\ fault = "none"
    /\ cb[t] # Nobody
    /\ queued' = [queued EXCEPT ![cb[t]] = IF event[cb[t]] THEN @ + 1 ELSE @]
    /\ event' = [event EXCEPT ![cb[t]] = FALSE]
    /\ cb' = [cb EXCEPT ![t] = Nobody]
    /\ UNCHANGED <<pool, fpc, run, timer, late, cancelled, ready, result, fault, failures>>

----------------------------------------------------------------------------
(***************************************************************************)
(* The call.                                                               *)
(***************************************************************************)
\* The system call succeeds at once.
CallSucceeds(t) ==
    /\ At(t, "call")
    /\ Kind[run[t]] # "sleep" /\ ready[run[t]]
    /\ ready' = [ready EXCEPT ![run[t]] = FALSE]
    /\ Return(t, "ok")
    /\ UNCHANGED <<pool, queued, cb, timer, late, cancelled, event, fault, failures>>

\* EAGAIN, EINPROGRESS, or a sleep.
CallBlocks(t) ==
    /\ At(t, "call")
    /\ Kind[run[t]] = "sleep" \/ ~ready[run[t]]
    /\ timer' = [timer EXCEPT ![run[t]] = "none"]
    /\ Goto(run[t], "timer")
    /\ UNCHANGED <<queued, threadVars, late, cancelled, event, ready, result, fault, failures>>

AddTimer(t) ==
    /\ At(t, "timer")
    /\ LET f == run[t] IN
         /\ timer' = [timer EXCEPT ![f] = IF f \in Timed \/ Kind[f] = "sleep" THEN "armed" ELSE @]
         /\ Goto(f, IF Kind[f] = "sleep" THEN "yield" ELSE "event")
    /\ UNCHANGED <<queued, threadVars, late, cancelled, event, ready, result, fault, failures>>

\* Mutant: the fiber yields without being registered.
AddEventForgotten(t) ==
    /\ At(t, "event")
    /\ Goto(run[t], "yield")
    /\ UNCHANGED <<queued, threadVars, callVars, fault, failures>>

AddEvent(t) ==
    /\ At(t, "event")
    /\ event' = [event EXCEPT ![run[t]] = TRUE]
    /\ Goto(run[t], "yield")
    /\ UNCHANGED <<queued, threadVars, timer, late, cancelled, ready, result, fault, failures>>

AddEventFails(t) ==
    /\ At(t, "event")
    /\ failures < MaxFailures
    /\ failures' = failures + 1
    /\ Goto(run[t], "failed")
    /\ UNCHANGED <<queued, threadVars, callVars, fault>>

Yield(t) ==
    /\ At(t, "yield")
    /\ Goto(run[t], "parked")
    /\ run' = [run EXCEPT ![t] = Nobody]
    /\ UNCHANGED <<pool, queued, cb, callVars, fault, failures>>

WakeFromSleep(t) ==
    /\ At(t, "woken")
    /\ Kind[run[t]] = "sleep"
    /\ Return(t, "ok")
    /\ UNCHANGED <<pool, queued, cb, timer, late, cancelled, event, ready, fault, failures>>

\* timer->cancel() of a timer that has expired is undefined behaviour (see
\* CancelExpired in TimerManager): it ends the process here, or has no effect,
\* which the actions below allow.
CancelBreaks(t) ==
    /\ At(t, "woken") \/ At(t, "failed")
    /\ Kind[run[t]] # "sleep"
    /\ timer[run[t]] = "expired"
    /\ fault' = "erase"
    /\ UNCHANGED <<fpc, queued, threadVars, callVars, failures>>

StopTimer(f) == timer' = [timer EXCEPT ![f] = IF @ = "armed" THEN "cancelled" ELSE @]

\* Woken: cancel the timer, then look at the flag.
Woken(t) ==
    /\ At(t, "woken")
    /\ Kind[run[t]] # "sleep"
    /\ StopTimer(run[t])
    /\ Goto(run[t], "check")
    /\ UNCHANGED <<queued, threadVars, late, cancelled, event, ready, result, fault, failures>>

\* addEvent failed: do_io returns -1; connect goes on to SO_ERROR, which is 0
\* while the connection is still being made.
Failed(t) ==
    /\ At(t, "failed")
    /\ StopTimer(run[t])
    /\ Return(t, IF Kind[run[t]] = "io" THEN "error" ELSE "ok")
    /\ UNCHANGED <<pool, queued, cb, late, cancelled, event, ready, fault, failures>>

TimedOut(t) ==
    /\ At(t, "check")
    /\ cancelled[run[t]]
    /\ Return(t, "timeout")
    /\ UNCHANGED <<pool, queued, cb, timer, late, cancelled, event, ready, fault, failures>>

\* do_io: goto retry.
Retry(t) ==
    /\ At(t, "check")
    /\ ~cancelled[run[t]]
    /\ Kind[run[t]] = "io"
    /\ Goto(run[t], "call")
    /\ UNCHANGED <<queued, threadVars, callVars, fault, failures>>

Connected(t) ==
    /\ At(t, "check")
    /\ ~cancelled[run[t]]
    /\ Kind[run[t]] = "connect"
    /\ Return(t, "ok")
    /\ UNCHANGED <<pool, queued, cb, timer, late, cancelled, event, ready, fault, failures>>

\* The peer answers.
BecomeReady(f) ==
    /\ ~ready[f]
    /\ Kind[f] # "sleep"
    /\ fpc[f] # "done"
    /\ ready' = [ready EXCEPT ![f] = TRUE]
    /\ UNCHANGED <<fpc, queued, threadVars, timer, late, cancelled, event, result, fault, failures>>

\* What made the descriptor ready is taken by another call on it, and the next
\* system call of f says EAGAIN once more.
Drained(f) ==
    /\ ready[f] /\ Kind[f] = "io"
    /\ failures < MaxFailures
    /\ failures' = failures + 1
    /\ ready' = [ready EXCEPT ![f] = FALSE]
    /\ UNCHANGED <<fpc, queued, threadVars, timer, late, cancelled, event, result, fault>>

PoolStep(t) ==
    \/ CallbackCancels(t)
    \/ \E f \in Fibers :
         \/ TakeFiber(t, f) \/ TakeRunning(t, f) \/ Expire(t, f) \/ Trigger(t, f)
         \/ WakeSleeper(t, f) \/ CallbackIgnored(t, f) \/ CallbackTimesOut(t, f)

CallStep(t) ==
    \/ CallSucceeds(t) \/ CallBlocks(t) \/ AddTimer(t) \/ AddEvent(t) \/ AddEventFails(t)
    \/ Yield(t) \/ WakeFromSleep(t) \/ CancelBreaks(t) \/ Woken(t) \/ Failed(t)
    \/ TimedOut(t) \/ Retry(t) \/ Connected(t)

\* All calls have returned, or the process is gone.
Finished == (fault # "none" \/ \A f \in Fibers : fpc[f] \in {"done", "parked"}) /\ UNCHANGED vars

Next ==
    \/ \E t \in pool : PoolStep(t) \/ CallStep(t)
    \/ \E f \in Fibers : BecomeReady(f) \/ Drained(f)
    \/ Finished

Spec == Init /\ [][Next]_vars

\* Threads run what is queued, poll when they have nothing to run, and time
\* passes; whether the peer ever answers is not assumed.
Fairness == \A t \in Threads : WF_vars(t \in pool /\ (PoolStep(t) \/ CallStep(t)))

FairSpec == Spec /\ Fairness

----------------------------------------------------------------------------
(***************************************************************************)
(* Properties.                                                             *)
(***************************************************************************)
\* What will still happen because of the timer of f.
TimeoutComing(f) ==
    timer[f] = "armed" \/ late[f] > 0 \/ \E t \in Threads : cb[t] = f

\* With several threads the callback may run on another thread before the
\* fiber has called addEvent, or its wake-up be taken before it has yielded;
\* then WokenOnce and CallsEnd fail, so they are claimed of one thread.
OneThread == Cardinality(pool) = 1

\* A fiber that has yielded is registered for its event, queued, or asleep
\* with a timer: nobody is left behind.
NobodyStranded ==
    /\ TypeOK
    /\ fault = "none" =>
        \A f \in Fibers : fpc[f] = "parked" => event[f] \/ queued[f] > 0 \/ TimeoutComing(f)

\* The event and the timeout race to wake the fiber; only one of them does, and
\* not before the fiber has yielded (fiber.cpp:116).
WokenOnce ==
    OneThread =>
    /\ fault # "assert"
    /\ \A f \in Fibers : queued[f] > 0 => queued[f] = 1 /\ fpc[f] \in {"start", "parked"}

\* A call "that has timed out sets the error and returns" (hook.cpp:260).
TimeoutReturns == fault # "erase"

\* Every sleep, and every call with a timeout, ends even if the peer never
\* answers.
CallsEnd ==
    OneThread =>
        \A f \in Fibers :
            f \in Timed \/ Kind[f] = "sleep" => <>(fpc[f] = "done" \/ fault # "none")
=============================================================================
