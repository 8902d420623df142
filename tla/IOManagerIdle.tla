---------------------------- MODULE IOManagerIdle ----------------------------
(***************************************************************************)
(* How the threads of an IOManager go to sleep, wake up and stop:          *)
(* IOManager::idle, tickle, stopping and onTimerInsertAtFront with the     *)
(* parts of Scheduler::run, Scheduler::scheduler and TimerManager they     *)
(* interact with.                                                          *)
(*                                                                         *)
(* Tasks are anonymous (the queue is its length), an event is one          *)
(* (fd, READ/WRITE) pair, timers are one-shot.  Time is relative: left[i]  *)
(* is the time until timer i is due (-1: overdue) and sleep[t] the time    *)
(* until epoll_wait of thread t returns (negative: it has no timeout), so  *)
(* a run covers unbounded time.                                            *)
(* The tickle pipe is watched edge-triggered: what matters is whether an   *)
(* edge is waiting to be reported, not how many bytes are in the pipe.     *)
(***************************************************************************)
EXTENDS Integers, FiniteSets

CONSTANTS
    Threads,         \* the scheduling threads
    Timers,          \* timers that tasks may add
    Events,          \* (fd, event) pairs that tasks may register
    Delays,          \* the ms argument of addTimer
    MaxTimeout,      \* MAX_TIMEOUT of idle(), 3000 ms in the code
    IntMax,          \* the largest int, 2^31 - 1 in the code
    Loads            \* the workloads to consider: bounds on
                     \*   tasks      scheduled before the threads start
                     \*   timers     the timers that may be added
                     \*   spawns     tasks that tasks may schedule
                     \*   adds       event registrations
                     \*   externals  tasks that a thread outside the pool may schedule
                     \*   interrupts how often epoll_wait may return EINTR

ASSUME IdleAssumption ==
    /\ IsFiniteSet(Threads) /\ Threads # {}
    /\ IsFiniteSet(Timers)
    /\ Delays \subseteq Nat
    /\ MaxTimeout \in Nat \ {0} /\ IntMax \in Nat /\ MaxTimeout <= IntMax
    /\ \A w \in Loads :
         /\ {w.tasks, w.spawns, w.adds, w.externals, w.interrupts} \subseteq Nat
         /\ w.timers \subseteq Timers

VARIABLES
    queue, active, idle, stopping,   \* Scheduler: m_fibers, the counters, m_stopping
    pc, ret, term,                   \* threads: program point, return point of tickle(), idle fiber TERM
    armed, left, used, tickled,      \* TimerManager: m_timers, times, timers created, m_tickled
    estate, pending,                 \* events, m_pendingEventCount
    edge,                            \* an edge of the tickle pipe not yet reported
    sleep, got, cbs,                 \* per idle(): time to sleep, events reported, expired callbacks
    stopTickles, ext,                \* stop()'s remaining tickles, the outside thread
    load, spawns, adds, externals, interrupts   \* the workload and what is used of it

schedVars  == <<queue, active, idle, stopping>>
threadVars == <<pc, ret, term>>
timerVars  == <<armed, left, used, tickled>>
eventVars  == <<estate, pending>>
idleVars   == <<sleep, got, cbs>>
outerVars  == <<stopTickles, ext>>
budgets    == <<load, spawns, adds, externals, interrupts>>
vars == <<schedVars, threadVars, timerVars, eventVars, edge, idleVars, outerVars, budgets>>

\* What epoll_wait is given.
Timeouts == (-(IntMax + 1))..MaxTimeout

Points == {"take", "none", "next", "pend", "sched", "wait", "expire", "post", "trig",
           "dec", "leave", "run", "tickle", "exit"}

TypeOK ==
    /\ {queue, active, idle, pending, stopTickles} \subseteq Nat
    /\ stopping \in BOOLEAN /\ tickled \in BOOLEAN /\ edge \in BOOLEAN
    /\ pc \in [Threads -> Points] /\ ret \in [Threads -> Points]
    /\ term \in [Threads -> BOOLEAN]
    /\ armed \subseteq used /\ used \subseteq Timers
    /\ left \in [Timers -> Int]
    /\ estate \in [Events -> {"off", "armed", "ready", "taken"}]
    /\ sleep \in [Threads -> Timeouts]
    /\ got \in [Threads -> SUBSET Events]
    /\ cbs \in [Threads -> Nat]
    /\ ext \in {"outside", "tickle"}
    /\ load \in Loads
    /\ spawns \in 0..load.spawns /\ adds \in 0..load.adds /\ externals \in 0..load.externals
    /\ interrupts \in 0..load.interrupts

Init ==
    /\ load \in Loads
    /\ queue = load.tasks /\ active = 0 /\ idle = 0 /\ stopping = FALSE
    /\ pc = [t \in Threads |-> "take"] /\ ret = [t \in Threads |-> "take"]
    /\ term = [t \in Threads |-> FALSE]
    /\ armed = {} /\ left = [i \in Timers |-> 0] /\ used = {} /\ tickled = FALSE
    /\ estate = [e \in Events |-> "off"] /\ pending = 0
    /\ edge = FALSE
    /\ sleep = [t \in Threads |-> 0] /\ got = [t \in Threads |-> {}]
    /\ cbs = [t \in Threads |-> 0]
    /\ stopTickles = 0 /\ ext = "outside"
    /\ spawns = 0 /\ adds = 0 /\ externals = 0 /\ interrupts = 0

Goto(t, point) == pc' = [pc EXCEPT ![t] = point] /\ UNCHANGED ret

\* Continue at point, after calling tickle() if need holds.
TickleThen(t, need, point) ==
    /\ pc' = [pc EXCEPT ![t] = IF need THEN "tickle" ELSE point]
    /\ ret' = [ret EXCEPT ![t] = point]

\* IOManager::tickle(): nobody counted as idle, nothing written.
Tickle(t) ==
    /\ pc[t] = "tickle"
    /\ edge' = (edge \/ idle > 0)
    /\ Goto(t, ret[t])
    /\ UNCHANGED <<schedVars, term, timerVars, eventVars, idleVars, outerVars, budgets>>

----------------------------------------------------------------------------
(***************************************************************************)
(* Scheduler::run around the idle fiber.                                   *)
(***************************************************************************)
Take(t) ==
    /\ pc[t] = "take"
    /\ queue > 0
    /\ queue' = queue - 1
    /\ active' = active + 1
    /\ TickleThen(t, queue' > 0, "run")
    /\ UNCHANGED <<idle, stopping, term, timerVars, eventVars, edge, idleVars, outerVars, budgets>>

FindNoTask(t) ==
    /\ pc[t] = "take"
    /\ queue = 0
    /\ Goto(t, IF term[t] THEN "exit" ELSE "none")
    /\ UNCHANGED <<schedVars, term, timerVars, eventVars, edge, idleVars, outerVars, budgets>>

\* ++m_idleThreadCount: only from here on does tickle() see this thread.
EnterIdle(t) ==
    /\ pc[t] = "none"
    /\ idle' = idle + 1
    /\ Goto(t, "next")
    /\ UNCHANGED <<queue, active, stopping, term, timerVars, eventVars, edge, idleVars, outerVars, budgets>>

\* Mutant: run() ends as soon as m_stopping is set.
LeaveIdleStopping(t) ==
    /\ pc[t] = "leave"
    /\ idle' = idle - 1
    /\ Goto(t, IF stopping THEN "exit" ELSE "take")
    /\ UNCHANGED <<queue, active, stopping, term, timerVars, eventVars, edge, idleVars, outerVars, budgets>>

LeaveIdle(t) ==
    /\ pc[t] = "leave"
    /\ idle' = idle - 1
    /\ Goto(t, "take")
    /\ UNCHANGED <<queue, active, stopping, term, timerVars, eventVars, edge, idleVars, outerVars, budgets>>

\* Mutant: m_activeThreadCount is not decremented.
EndTaskForgets(t) ==
    /\ pc[t] = "run"
    /\ Goto(t, "take")
    /\ UNCHANGED <<schedVars, term, timerVars, eventVars, edge, idleVars, outerVars, budgets>>

EndTask(t) ==
    /\ pc[t] = "run"
    /\ active' = active - 1
    /\ Goto(t, "take")
    /\ UNCHANGED <<queue, idle, stopping, term, timerVars, eventVars, edge, idleVars, outerVars, budgets>>

----------------------------------------------------------------------------
(***************************************************************************)
(* What a running task does to the IOManager.                              *)
(***************************************************************************)
Spawn(t) ==
    /\ pc[t] = "run"
    /\ spawns < load.spawns
    /\ spawns' = spawns + 1
    /\ queue' = queue + 1
    /\ TickleThen(t, queue = 0, "run")
    /\ UNCHANGED <<active, idle, stopping, term, timerVars, eventVars, edge, idleVars, outerVars,
                   load, adds, externals, interrupts>>

\* Mutant: addTimer never tickles.
AddTimerSilently(t, i, ms) ==
    /\ pc[t] = "run"
    /\ i \in load.timers \ used
    /\ used' = used \cup {i}
    /\ armed' = armed \cup {i}
    /\ left' = [left EXCEPT ![i] = ms]
    /\ UNCHANGED <<schedVars, threadVars, tickled, eventVars, edge, idleVars, outerVars, budgets>>

\* addTimer: insert under the lock; tickle if it became the front and nobody
\* was tickled since the last getNextTimer().  Equal times are ordered by
\* address, so a tie may go either way.
AddTimer(t, i, ms) ==
    /\ pc[t] = "run"
    /\ i \in load.timers \ used
    /\ used' = used \cup {i}
    /\ armed' = armed \cup {i}
    /\ left' = [left EXCEPT ![i] = ms]
    /\ \E front \in BOOLEAN :
         /\ (\A j \in armed : left[j] > ms) => front
         /\ (\E j \in armed : left[j] < ms) => ~front
         /\ tickled' = (tickled \/ front)
         /\ TickleThen(t, front /\ ~tickled, "run")
    /\ UNCHANGED <<schedVars, term, eventVars, edge, idleVars, outerVars, budgets>>

\* Timer::cancel on a timer that has not expired.
CancelTimer(t, i) ==
    /\ pc[t] = "run"
    /\ i \in armed
    /\ armed' = armed \ {i}
    /\ UNCHANGED <<schedVars, threadVars, left, used, tickled, eventVars, edge, idleVars, outerVars, budgets>>

\* Mutant: the event is not counted.
AddEventUncounted(t, e) ==
    /\ pc[t] = "run"
    /\ estate[e] = "off"
    /\ adds < load.adds
    /\ adds' = adds + 1
    /\ estate' = [estate EXCEPT ![e] = "armed"]
    /\ UNCHANGED <<schedVars, threadVars, timerVars, pending, edge, idleVars, outerVars,
                   load, spawns, externals, interrupts>>

AddEvent(t, e) ==
    /\ pc[t] = "run"
    /\ estate[e] = "off"
    /\ adds < load.adds
    /\ adds' = adds + 1
    /\ estate' = [estate EXCEPT ![e] = "armed"]
    /\ pending' = pending + 1
    /\ UNCHANGED <<schedVars, threadVars, timerVars, edge, idleVars, outerVars,
                   load, spawns, externals, interrupts>>

----------------------------------------------------------------------------
(***************************************************************************)
(* IOManager::idle.  stopping(timeout) reads three things one after the    *)
(* other, without a common lock.                                           *)
(***************************************************************************)
\* (int) next_timeout: what does not fit keeps its low bits, as a signed number.
ToInt(ms) ==
    LET word == 2 * (IntMax + 1)
    IN IF ms <= IntMax THEN ms ELSE IF ms % word <= IntMax THEN ms % word ELSE (ms % word) - word

\* getNextTimer() gives 0 for a timer that is due; then std::min((int) ms, MAX_TIMEOUT).
Clip(ms) == IF ms < 0 THEN 0 ELSE IF ToInt(ms) > MaxTimeout THEN MaxTimeout ELSE ToInt(ms)

\* The time to sleep: until the first of the timers, if there is one.
Timeout(ms) ==
    \/ armed = {} /\ ms = MaxTimeout
    \/ \E i \in armed : (\A j \in armed : left[i] <= left[j]) /\ ms = Clip(left[i])

\* getNextTimer(): re-enables the tickle of addTimer; a timer means no stop.
NextTimer(t) ==
    /\ pc[t] = "next"
    /\ tickled' = FALSE
    /\ \E ms \in Timeouts : Timeout(ms) /\ sleep' = [sleep EXCEPT ![t] = ms]
    /\ Goto(t, IF armed # {} THEN "wait" ELSE "pend")
    /\ UNCHANGED <<schedVars, term, armed, left, used, eventVars, edge, got, cbs, outerVars, budgets>>

CheckPending(t) ==
    /\ pc[t] = "pend"
    /\ Goto(t, IF pending = 0 THEN "sched" ELSE "wait")
    /\ UNCHANGED <<schedVars, term, timerVars, eventVars, edge, idleVars, outerVars, budgets>>

\* Scheduler::stopping(), one lock region; if true the idle fiber ends.
CheckSched(t) ==
    /\ pc[t] = "sched"
    /\ LET done == stopping /\ queue = 0 /\ active = 0 IN
         /\ term' = [term EXCEPT ![t] = done]
         /\ Goto(t, IF done THEN "leave" ELSE "wait")
    /\ UNCHANGED <<schedVars, timerVars, eventVars, edge, idleVars, outerVars, budgets>>

ReadyEvents == {e \in Events : estate[e] = "ready"}

\* epoll_wait returns: an edge of the pipe, ready events, or the timeout.
Wake(t) ==
    /\ pc[t] = "wait"
    /\ edge \/ ReadyEvents # {} \/ sleep[t] = 0
    /\ edge' = FALSE
    /\ got' = [got EXCEPT ![t] = ReadyEvents]
    /\ estate' = [e \in Events |-> IF e \in ReadyEvents THEN "taken" ELSE estate[e]]
    /\ sleep' = [sleep EXCEPT ![t] = 0]
    /\ Goto(t, "expire")
    /\ UNCHANGED <<schedVars, term, timerVars, pending, cbs, outerVars, budgets>>

\* EINTR: the wait starts again with the whole timeout; how much of it has
\* passed is not recorded, so the time left becomes anything up to MAX_TIMEOUT.
\* Without a timeout it goes on without one, except that -1, now a uint64_t,
\* reads as "no timer".
Again(ms) == IF ms >= 0 THEN ms..MaxTimeout ELSE IF ms = -1 THEN {MaxTimeout} ELSE {ms}

Interrupt(t) ==
    /\ pc[t] = "wait"
    /\ interrupts < load.interrupts
    /\ interrupts' = interrupts + 1
    /\ \E full \in Again(sleep[t]) : sleep' = [sleep EXCEPT ![t] = full]
    /\ UNCHANGED <<schedVars, threadVars, timerVars, eventVars, edge, got, cbs, outerVars,
                   load, spawns, adds, externals>>

\* listExpiredCb: every timer before now; a timer due exactly now is taken or
\* not, depending on how its address compares with the probe's.
Expire(t) ==
    /\ pc[t] = "expire"
    /\ \E due \in SUBSET {i \in armed : left[i] <= 0} :
         /\ {i \in armed : left[i] < 0} \subseteq due
         /\ armed' = armed \ due
         /\ cbs' = [cbs EXCEPT ![t] = Cardinality(due)]
    /\ Goto(t, "post")
    /\ UNCHANGED <<schedVars, term, left, used, tickled, eventVars, edge, sleep, got, outerVars, budgets>>

\* scheduler(cb) for one expired callback.
Post(t) ==
    /\ pc[t] = "post"
    /\ cbs[t] > 0
    /\ cbs' = [cbs EXCEPT ![t] = @ - 1]
    /\ queue' = queue + 1
    /\ TickleThen(t, queue = 0, "post")
    /\ UNCHANGED <<active, idle, stopping, term, timerVars, eventVars, edge, sleep, got, outerVars, budgets>>

Posted(t) ==
    /\ pc[t] = "post"
    /\ cbs[t] = 0
    /\ Goto(t, "trig")
    /\ UNCHANGED <<schedVars, term, timerVars, eventVars, edge, idleVars, outerVars, budgets>>

\* triggerEvent: the waiting fiber is scheduled first ...
Trigger(t, e) ==
    /\ pc[t] = "trig"
    /\ e \in got[t]
    /\ got' = [got EXCEPT ![t] = @ \ {e}]
    /\ estate' = [estate EXCEPT ![e] = "off"]
    /\ queue' = queue + 1
    /\ TickleThen(t, queue = 0, "dec")
    /\ UNCHANGED <<active, idle, stopping, term, timerVars, pending, edge, sleep, cbs, outerVars, budgets>>

\* ... and m_pendingEventCount decremented afterwards.
Decrement(t) ==
    /\ pc[t] = "dec"
    /\ pending' = pending - 1
    /\ Goto(t, "trig")
    /\ UNCHANGED <<schedVars, term, timerVars, estate, edge, idleVars, outerVars, budgets>>

Triggered(t) ==
    /\ pc[t] = "trig"
    /\ got[t] = {}
    /\ Goto(t, "leave")
    /\ UNCHANGED <<schedVars, term, timerVars, eventVars, edge, idleVars, outerVars, budgets>>

----------------------------------------------------------------------------
(***************************************************************************)
(* The owner, a thread outside the pool, the kernel and time.              *)
(***************************************************************************)
\* stop(): m_stopping, then one tickle per thread, then join.
StopBegin ==
    /\ ~stopping
    /\ stopping' = TRUE
    /\ stopTickles' = Cardinality(Threads)
    /\ UNCHANGED <<queue, active, idle, threadVars, timerVars, eventVars, edge, idleVars, ext, budgets>>

StopTickle ==
    /\ stopTickles > 0
    /\ stopTickles' = stopTickles - 1
    /\ edge' = (edge \/ idle > 0)
    /\ UNCHANGED <<schedVars, threadVars, timerVars, eventVars, idleVars, ext, budgets>>

\* scheduler() called outside the pool, before stop().
ExternalSubmit ==
    /\ ext = "outside"
    /\ ~stopping
    /\ externals < load.externals
    /\ externals' = externals + 1
    /\ queue' = queue + 1
    /\ ext' = IF queue = 0 THEN "tickle" ELSE "outside"
    /\ UNCHANGED <<active, idle, stopping, threadVars, timerVars, eventVars, edge, idleVars,
                   stopTickles, load, spawns, adds, interrupts>>

ExternalTickle ==
    /\ ext = "tickle"
    /\ edge' = (edge \/ idle > 0)
    /\ ext' = "outside"
    /\ UNCHANGED <<schedVars, threadVars, timerVars, eventVars, idleVars, stopTickles, budgets>>

EventReady(e) ==
    /\ estate[e] = "armed"
    /\ estate' = [estate EXCEPT ![e] = "ready"]
    /\ UNCHANGED <<schedVars, threadVars, timerVars, pending, edge, idleVars, outerVars, budgets>>

\* One millisecond passes for everyone.
Tick ==
    /\ left' = [i \in Timers |-> IF i \in armed /\ left[i] >= 0 THEN left[i] - 1 ELSE left[i]]
    /\ sleep' = [t \in Threads |->
                    IF pc[t] = "wait" /\ sleep[t] > 0 THEN sleep[t] - 1 ELSE sleep[t]]
    /\ <<left', sleep'>> # <<left, sleep>>
    /\ UNCHANGED <<schedVars, threadVars, armed, used, tickled, eventVars, edge, got, cbs, outerVars, budgets>>

ThreadStep(t) ==
    \/ Tickle(t) \/ Take(t) \/ FindNoTask(t) \/ EnterIdle(t) \/ LeaveIdle(t) \/ EndTask(t)
    \/ NextTimer(t) \/ CheckPending(t) \/ CheckSched(t) \/ Wake(t)
    \/ Expire(t) \/ Post(t) \/ Posted(t) \/ Decrement(t) \/ Triggered(t)
    \/ \E e \in Events : Trigger(t, e)

TaskStep(t) ==
    \/ Spawn(t)
    \/ \E i \in Timers : CancelTimer(t, i) \/ \E ms \in Delays : AddTimer(t, i, ms)
    \/ \E e \in Events : AddEvent(t, e)

AllExited == \A t \in Threads : pc[t] = "exit"

Next ==
    \/ \E t \in Threads : ThreadStep(t) \/ TaskStep(t) \/ Interrupt(t)
    \/ StopBegin \/ StopTickle \/ ExternalSubmit \/ ExternalTickle
    \/ \E e \in Events : EventReady(e)
    \/ Tick
    \/ AllExited /\ UNCHANGED vars

Spec == Init /\ [][Next]_vars

\* The kernel runs the threads and time passes; a registered descriptor
\* becomes ready in the end (a peer that never answers keeps stop() waiting).
Fairness ==
    /\ \A t \in Threads : WF_vars(ThreadStep(t))
    /\ \A e \in Events : WF_vars(EventReady(e))
    /\ WF_vars(Tick)
    /\ WF_vars(StopTickle)

FairSpec == Spec /\ Fairness

----------------------------------------------------------------------------
(***************************************************************************)
(* Properties.                                                             *)
(***************************************************************************)
\* stop() "waits until all tasks have been executed before it returns"
\* (scheduler.h:53): when the last thread has left run() no task is queued or
\* running, no timer is armed and nobody waits for an event.  stopping() reads
\* timers, pending events and the queue one after the other
\* (iomanager.cpp:275-278), so this is where several threads can go wrong.
StopLeavesNothing ==
    AllExited => queue = 0 /\ active = 0 /\ armed = {} /\ pending = 0

\* What several threads do guarantee: a thread whose idle fiber ended too
\* early still takes what it finds, so no queued task is ever left behind.
StopLeavesNoTask == AllExited => queue = 0 /\ active = 0

\* Everyone that is left is in epoll_wait, and only time will wake them.
Asleep ==
    /\ ~AllExited
    /\ \A t \in Threads : pc[t] = "exit" \/ (pc[t] = "wait" /\ sleep[t] # 0)
    /\ ~edge /\ ReadyEvents = {}
    /\ ext = "outside" /\ stopTickles = 0

\* m_tickled suppresses the tickle for a new front timer when one is already
\* on its way; still, when all threads are asleep, one of them wakes up in
\* time for every timer (timer.cpp:94-105, 119-133; iomanager.cpp:297-313).
\* tickle() "notifies the scheduler that there is a task to schedule"
\* (iomanager.cpp:259-268): the threads are not all asleep while one is queued,
\* unless a thread outside the pool has submitted it.  An epoll_wait that a
\* signal interrupts starts again with the whole timeout and may oversleep, and
\* a delay that is no int (25 days) may come out of the cast of iomanager.cpp:301
\* as a shorter time, or as a negative one, which means to wait without limit.
InRange == \A ms \in Delays : ms <= IntMax

NoOversleep ==
    Asleep =>
        /\ interrupts = 0 /\ InRange => \A i \in armed :
              \E t \in Threads : pc[t] = "wait" /\ sleep[t] \in 0..Clip(left[i])
        /\ externals = 0 => queue = 0

\* m_pendingEventCount, changed outside any lock that stopping() takes, is
\* never below the number of events somebody still waits for.
PendingCoversEvents ==
    TypeOK /\ pending >= Cardinality({e \in Events : estate[e] # "off"})

\* After stop() has been called all threads leave run(), whichever of timers,
\* events and tasks they still have to serve, if every delay is an int.
StopEnds == stopping /\ InRange ~> AllExited
=============================================================================
