------------------------------ MODULE Scheduler ------------------------------
(***************************************************************************)
(* The N:M fiber scheduler of luwu/scheduler.{h,cpp} with the part of      *)
(* luwu/fiber.cpp and luwu/thread.cpp it runs on.                          *)
(*                                                                         *)
(* Every pool thread, and with use_caller also the thread that built the   *)
(* scheduler, executes Scheduler::run: take a task under m_mutex, resume   *)
(* its fiber, and when there is none resume the idle fiber, which ends     *)
(* once stopping() is true.  The steps of a thread are the program points  *)
(* of run() and of Fiber::resume/yield between which another thread can    *)
(* act; a lock region is one step.                                         *)
(*                                                                         *)
(* A callback task is identified with the fiber that run() makes for it    *)
(* (cb_fiber is fresh for every callback), so a task is a fiber.  What the *)
(* user code of a fiber does is chosen freely: submit other tasks, put     *)
(* itself back in the queue and yield (at most MaxYields times, in the     *)
(* order tests/test_scheduler.cpp shows: schedule first, then yield), or   *)
(* return.                                                                 *)
(***************************************************************************)
EXTENDS Integers, FiniteSets, SequencesExt

CONSTANTS
    Workers,     \* the threads start() creates
    Caller,      \* the thread that owns the scheduler and calls start, stop
    UseCaller,   \* m_useCaller: Caller also schedules, from inside stop()
    Fibers,      \* the tasks that may ever be submitted
    AnyThread,   \* the thread argument -1
    NoFiber,     \* an empty SchedulerTask
    PinnedFibers,\* those that name their own thread when they re-submit themselves
    MaxYields    \* how often one fiber yields before it returns

Threads == Workers \cup (IF UseCaller THEN {Caller} ELSE {})

ASSUME SchedulerAssumption ==
    /\ UseCaller \in BOOLEAN
    /\ IsFiniteSet(Workers)
    /\ Caller \notin Workers
    /\ Threads # {}                          \* LUWU_ASSERT(threads > 0)
    /\ AnyThread \notin Threads
    /\ NoFiber \notin Fibers
    /\ PinnedFibers \subseteq Fibers
    /\ MaxYields \in Nat

VARIABLES
    queue,       \* m_fibers
    active,      \* m_activeThreadCount
    idle,        \* m_idleThreadCount
    stopping,    \* m_stopping
    mpc,         \* where the owner thread is in build / start / stop
    pc,          \* where each scheduling thread is in run()
    cur,         \* the task it has in hand
    idleTerm,    \* whether its idle fiber is TERM
    fstate,      \* m_state of each fiber ("NONE" before it is submitted)
    stack,       \* the threads whose stack pointer is in the fiber's stack
    yields,      \* how often the fiber has re-submitted itself
    fault        \* "none", or what took the process down

mainVars   == <<stopping, mpc>>
threadVars == <<pc, cur, idleTerm>>
fiberVars  == <<fstate, stack, yields>>
vars == <<queue, active, idle, mainVars, threadVars, fiberVars, fault>>

Task == [fiber : Fibers, thread : Threads \cup {AnyThread}]

\* Program points at which a thread holds a task that active counts.
BusyPoints == {"resume", "running", "resubmitted", "switch", "release"}
IdlePoints == {"idle", "idled"}
Busy   == {t \in Threads : pc[t] \in BusyPoints}
Idling == {t \in Threads : pc[t] \in IdlePoints}

TypeOK ==
    /\ queue \in Seq(Task)
    /\ active \in Nat
    /\ idle \in Nat
    /\ stopping \in BOOLEAN
    /\ mpc \in {"built", "started", "root", "join", "stopped"}
    /\ pc \in [Threads -> {"new", "take", "none", "exit"} \cup BusyPoints \cup IdlePoints]
    /\ cur \in [Threads -> Fibers \cup {NoFiber}]
    /\ idleTerm \in [Threads -> BOOLEAN]
    /\ fstate \in [Fibers -> {"NONE", "READY", "RUNNING", "TERM"}]
    /\ stack \in [Fibers -> SUBSET Threads]
    /\ yields \in [Fibers -> 0..MaxYields]
    /\ fault \in {"none", "assert", "stack"}

Init ==
    /\ queue = <<>>
    /\ active = 0
    /\ idle = 0
    /\ stopping = FALSE
    /\ mpc = "built"
    /\ pc = [t \in Threads |-> "new"]
    /\ cur = [t \in Threads |-> NoFiber]
    /\ idleTerm = [t \in Threads |-> FALSE]
    /\ fstate = [f \in Fibers |-> "NONE"]
    /\ stack = [f \in Fibers |-> {}]
    /\ yields = [f \in Fibers |-> 0]
    /\ fault = "none"

(***************************************************************************)
(* Submitting.  scheduler() appends under the lock; tickle() is a no-op in *)
(* the base class (IOManager overrides it).                                *)
(***************************************************************************)
Schedule(f, target) == queue' = Append(queue, [fiber |-> f, thread |-> target])

SubmitNew(f, target) ==
    /\ fstate[f] = "NONE"
    /\ fstate' = [fstate EXCEPT ![f] = "READY"]
    /\ Schedule(f, target)

\* Mutant: stopping() forgets the threads that are still running a task.
CanStopIgnoringActive == stopping /\ queue = <<>>

\* Scheduler::stopping(), one lock region.
CanStop == stopping /\ queue = <<>> /\ active = 0

----------------------------------------------------------------------------
(***************************************************************************)
(* The owner thread.                                                       *)
(***************************************************************************)
\* The owner submits tasks before or after start(), until it calls stop().
OwnerSubmit(f, target) ==
    /\ mpc \in {"built", "started"}
    /\ SubmitNew(f, target)
    /\ UNCHANGED <<active, idle, mainVars, threadVars, stack, yields, fault>>

\* start(): the worker threads are created inside one lock region.
Start ==
    /\ mpc = "built"
    /\ ~stopping
    /\ mpc' = "started"
    /\ pc' = [t \in Threads |-> IF t \in Workers THEN "take" ELSE pc[t]]
    /\ UNCHANGED <<queue, active, idle, stopping, cur, idleTerm, fiberVars, fault>>

\* stop() up to m_rootFiber->resume(): with use_caller the owner now runs run().
StopBegin ==
    /\ mpc = "started"
    /\ ~CanStop
    /\ stopping' = TRUE
    /\ IF UseCaller
         THEN mpc' = "root" /\ pc' = [pc EXCEPT ![Caller] = "take"]
         ELSE mpc' = "join" /\ pc' = pc
    /\ UNCHANGED <<queue, active, idle, cur, idleTerm, fiberVars, fault>>

\* The root fiber's run() has returned.
StopRootDone ==
    /\ mpc = "root"
    /\ pc[Caller] = "exit"
    /\ mpc' = "join"
    /\ UNCHANGED <<queue, active, idle, stopping, threadVars, fiberVars, fault>>

\* Every Thread::join() has returned.
StopJoined ==
    /\ mpc = "join"
    /\ \A t \in Workers : pc[t] = "exit"
    /\ mpc' = "stopped"
    /\ UNCHANGED <<queue, active, idle, stopping, threadVars, fiberVars, fault>>

----------------------------------------------------------------------------
(***************************************************************************)
(* A scheduling thread in run().                                           *)
(***************************************************************************)
\* Mutant: the scan gives up at a task pinned to another thread.
RunnableAtHead(t) == {i \in 1..Len(queue) : i = 1 /\ queue[i].thread \in {AnyThread, t}}

\* Positions of the queue that thread t may take; it takes the first.
Runnable(t) == {i \in 1..Len(queue) : queue[i].thread \in {AnyThread, t}}

IsFirst(i, S) == i \in S /\ \A j \in S : i <= j

\* Mutant: erases the front of the list instead of the task it found.
TakeErasesFront(t) ==
    /\ pc[t] = "take"
    /\ \E i \in Runnable(t) :
         /\ IsFirst(i, Runnable(t))
         /\ cur' = [cur EXCEPT ![t] = queue[i].fiber]
         /\ queue' = Tail(queue)
    /\ active' = active + 1
    /\ pc' = [pc EXCEPT ![t] = "resume"]
    /\ UNCHANGED <<idle, mainVars, idleTerm, fiberVars, fault>>

\* The loop over m_fibers: take the first task this thread may run.
TakeTask(t) ==
    /\ pc[t] = "take"
    /\ \E i \in Runnable(t) :
         /\ IsFirst(i, Runnable(t))
         /\ cur' = [cur EXCEPT ![t] = queue[i].fiber]
         /\ queue' = RemoveAt(queue, i)
    /\ active' = active + 1
    /\ pc' = [pc EXCEPT ![t] = "resume"]
    /\ UNCHANGED <<idle, mainVars, idleTerm, fiberVars, fault>>

FindNoTask(t) ==
    /\ pc[t] = "take"
    /\ Runnable(t) = {}
    /\ pc' = [pc EXCEPT ![t] = "none"]
    /\ UNCHANGED <<queue, active, idle, mainVars, cur, idleTerm, fiberVars, fault>>

\* No task and the idle fiber has ended: run() returns.
LeaveRun(t) ==
    /\ pc[t] = "none"
    /\ idleTerm[t]
    /\ pc' = [pc EXCEPT ![t] = "exit"]
    /\ UNCHANGED <<queue, active, idle, mainVars, cur, idleTerm, fiberVars, fault>>

EnterIdle(t) ==
    /\ pc[t] = "none"
    /\ ~idleTerm[t]
    /\ idle' = idle + 1
    /\ pc' = [pc EXCEPT ![t] = "idle"]
    /\ UNCHANGED <<queue, active, mainVars, cur, idleTerm, fiberVars, fault>>

\* idle(): one evaluation of stopping(); the idle fiber ends or yields.
IdleCheck(t) ==
    /\ pc[t] = "idle"
    /\ idleTerm' = [idleTerm EXCEPT ![t] = CanStop]
    /\ pc' = [pc EXCEPT ![t] = "idled"]
    /\ UNCHANGED <<queue, active, idle, mainVars, cur, fiberVars, fault>>

\* Mutant: m_idleThreadCount is not given back.
LeaveIdleUncounted(t) ==
    /\ pc[t] = "idled"
    /\ pc' = [pc EXCEPT ![t] = "take"]
    /\ UNCHANGED <<queue, active, idle, mainVars, cur, idleTerm, fiberVars, fault>>

LeaveIdle(t) ==
    /\ pc[t] = "idled"
    /\ idle' = idle - 1
    /\ pc' = [pc EXCEPT ![t] = "take"]
    /\ UNCHANGED <<queue, active, mainVars, cur, idleTerm, fiberVars, fault>>

----------------------------------------------------------------------------
(***************************************************************************)
(* Fiber::resume and Fiber::yield around the user's code.                  *)
(***************************************************************************)
\* LUWU_ASSERT(m_state == READY) fails and the process aborts.
ResumeAbort(t) ==
    /\ pc[t] = "resume"
    /\ fstate[cur[t]] # "READY"
    /\ fault' = "assert"
    /\ UNCHANGED <<queue, active, idle, mainVars, threadVars, fiberVars>>

\* The swap enters the context last saved.  If the thread that is yielding has
\* set READY but not yet saved its registers, two threads now run on one
\* stack from a stale context: anything may follow, and the model ends there.
Resume(t) ==
    LET f == cur[t] IN
    /\ pc[t] = "resume"
    /\ fstate[f] = "READY"
    /\ fstate' = [fstate EXCEPT ![f] = "RUNNING"]
    /\ stack' = [stack EXCEPT ![f] = @ \cup {t}]
    /\ fault' = IF stack[f] = {} THEN "none" ELSE "stack"
    /\ pc' = [pc EXCEPT ![t] = "running"]
    /\ UNCHANGED <<queue, active, idle, mainVars, cur, idleTerm, yields>>

\* The running fiber submits another task.
FiberSubmit(t, f, target) ==
    /\ pc[t] = "running"
    /\ SubmitNew(f, target)
    /\ UNCHANGED <<active, idle, mainVars, threadVars, stack, yields, fault>>

\* Mutant: scheduler() drops its thread argument.
FiberResubmitAnywhere(t, target) ==
    LET f == cur[t] IN
    /\ pc[t] = "running"
    /\ yields[f] < MaxYields
    /\ yields' = [yields EXCEPT ![f] = @ + 1]
    /\ Schedule(f, AnyThread)
    /\ pc' = [pc EXCEPT ![t] = "resubmitted"]
    /\ UNCHANGED <<active, idle, mainVars, cur, idleTerm, fstate, stack, fault>>

\* Scheduler::GetThis()->scheduler(Fiber::GetThis(), target) before yielding.
FiberResubmit(t, target) ==
    LET f == cur[t] IN
    /\ pc[t] = "running"
    /\ f \in PinnedFibers => target = t
    /\ yields[f] < MaxYields
    /\ yields' = [yields EXCEPT ![f] = @ + 1]
    /\ Schedule(f, target)
    /\ pc' = [pc EXCEPT ![t] = "resubmitted"]
    /\ UNCHANGED <<active, idle, mainVars, cur, idleTerm, fstate, stack, fault>>

\* yield(): m_state = READY comes before swapcontext saves the registers.
FiberYield(t) ==
    /\ pc[t] = "resubmitted"
    /\ fstate' = [fstate EXCEPT ![cur[t]] = IF @ = "RUNNING" THEN "READY" ELSE @]
    /\ pc' = [pc EXCEPT ![t] = "switch"]
    /\ UNCHANGED <<queue, active, idle, mainVars, cur, idleTerm, stack, yields, fault>>

\* MainFunc: the callback has returned; m_state = TERM, then yield().
FiberReturn(t) ==
    /\ pc[t] = "running"
    /\ fstate' = [fstate EXCEPT ![cur[t]] = "TERM"]
    /\ pc' = [pc EXCEPT ![t] = "switch"]
    /\ UNCHANGED <<queue, active, idle, mainVars, cur, idleTerm, stack, yields, fault>>

\* swapcontext back to the thread's scheduling fiber.
Switch(t) ==
    /\ pc[t] = "switch"
    /\ stack' = [stack EXCEPT ![cur[t]] = @ \ {t}]
    /\ pc' = [pc EXCEPT ![t] = "release"]
    /\ UNCHANGED <<queue, active, idle, mainVars, cur, idleTerm, fstate, yields, fault>>

\* Mutant: both branches of run() and the end of the loop body decrement.
ReleaseTwice(t) ==
    /\ pc[t] = "release"
    /\ active' = active - 2
    /\ cur' = [cur EXCEPT ![t] = NoFiber]
    /\ pc' = [pc EXCEPT ![t] = "take"]
    /\ UNCHANGED <<queue, idle, mainVars, idleTerm, fiberVars, fault>>

\* Mutant: the decrement is missing.
ReleaseUncounted(t) ==
    /\ pc[t] = "release"
    /\ cur' = [cur EXCEPT ![t] = NoFiber]
    /\ pc' = [pc EXCEPT ![t] = "take"]
    /\ UNCHANGED <<queue, active, idle, mainVars, idleTerm, fiberVars, fault>>

\* --m_activeThreadCount; task.reset().
Release(t) ==
    /\ pc[t] = "release"
    /\ active' = active - 1
    /\ cur' = [cur EXCEPT ![t] = NoFiber]
    /\ pc' = [pc EXCEPT ![t] = "take"]
    /\ UNCHANGED <<queue, idle, mainVars, idleTerm, fiberVars, fault>>

----------------------------------------------------------------------------
RunStep(t) ==
    \/ TakeTask(t)  \/ FindNoTask(t)  \/ LeaveRun(t)
    \/ EnterIdle(t) \/ IdleCheck(t)   \/ LeaveIdle(t)
    \/ Resume(t)    \/ ResumeAbort(t)
    \/ FiberYield(t) \/ FiberReturn(t) \/ Switch(t) \/ Release(t)
    \/ \E target \in {t, AnyThread} : FiberResubmit(t, target)

SubmitStep ==
    \E f \in Fibers, target \in Threads \cup {AnyThread} :
        \/ OwnerSubmit(f, target)
        \/ \E t \in Threads : FiberSubmit(t, f, target)

StopStep == StopRootDone \/ StopJoined

\* stop() has returned, or the process is gone.
Finished == (mpc = "stopped" \/ fault # "none") /\ UNCHANGED vars

Next ==
    \/ /\ fault = "none"
       /\ \/ SubmitStep \/ Start \/ StopBegin \/ StopStep
          \/ \E t \in Threads : RunStep(t)
    \/ Finished

Spec == Init /\ [][Next]_vars

\* A thread of the pool is scheduled by the kernel again and again, so a
\* step it can take it takes; nothing obliges the user to submit or to stop.
Fairness ==
    /\ \A t \in Threads : WF_vars(fault = "none" /\ RunStep(t))
    /\ WF_vars(fault = "none" /\ StopStep)

FairSpec == Spec /\ Fairness

----------------------------------------------------------------------------
(***************************************************************************)
(* Properties.                                                             *)
(***************************************************************************)
\* m_activeThreadCount and m_idleThreadCount are atomics changed outside the
\* lock: at every step they equal the number of threads that hold a task,
\* respectively are inside the idle fiber.  stopping() and hasIdleThreads()
\* rely on it.
CountersExact ==
    /\ active = Cardinality(Busy)
    /\ idle = Cardinality(Idling)

\* "stop() returns after all tasks have been executed" (scheduler.h:51-54):
\* when stop() has returned, nothing is queued, no thread holds a task and
\* every fiber that was ever submitted, by the owner or by a fiber, is TERM.
StopComplete ==
    mpc = "stopped" =>
        /\ queue = <<>>
        /\ Busy = {}
        /\ \A f \in Fibers : fstate[f] \in {"NONE", "TERM"}

\* A thread leaves run() for good only when nothing is left for anyone: from
\* the moment one idle fiber has ended, no thread holds a task or finds one,
\* so a task pinned to a thread that has left cannot be stranded.
NoEarlyExit ==
    (\E t \in Threads : idleTerm[t]) =>
        stopping /\ queue = <<>> /\ Busy = {}

\* No submitted task is lost between the queue, a thread's hand and the end:
\* a fiber that is not TERM is queued or in the hand of a thread that has not
\* yet given it back.
NoLostTask ==
    \A f \in Fibers : fstate[f] \in {"READY", "RUNNING"} =>
        \/ \E i \in 1..Len(queue) : queue[i].fiber = f
        \/ \E t \in Threads : cur[t] = f /\ pc[t] \in {"resume", "running"}

\* The assertion in Fiber::resume (fiber.cpp:116): the fiber being resumed is
\* READY.
ResumeFindsReady == fault # "assert"

\* A fiber that names its own thread when it re-submits itself passes that
\* assertion, whatever the other fibers do.
PinnedFindsReady ==
    \A t \in Threads :
        pc[t] = "resume" /\ cur[t] \in PinnedFibers => fstate[cur[t]] = "READY"

\* Two threads never run on the stack of one such fiber (fiber.cpp:132-150).
PinnedOwnsStack == \A f \in PinnedFibers : Cardinality(stack[f]) <= 1

\* Once stop() has been called it returns (every fiber yields finitely often),
\* unless Fiber::resume has taken the process down.
StopReturns == stopping ~> (mpc = "stopped" \/ fault # "none")

\* A started pool runs a queued task that one of its threads may take, whether
\* or not stop() is ever called, and whatever other tasks are pinned elsewhere.
QueuedTaskRuns ==
    \A f \in Fibers :
        (/\ mpc = "started"
         /\ \E i \in 1..Len(queue) : /\ queue[i].fiber = f
                                     /\ queue[i].thread \in Workers \cup {AnyThread})
            ~> (fstate[f] = "TERM" \/ fault # "none")

\* What the pool's user sees of a fiber and of the owner's progress.
PoolStatus ==
    [f \in Fibers |-> CASE fstate[f] = "NONE"    -> "new"
                        [] fstate[f] = "READY"   -> "pending"
                        [] fstate[f] = "RUNNING" -> "running"
                        [] OTHER                 -> "done"]

PoolPhase ==
    CASE mpc \in {"built", "started"} -> "open"
      [] mpc = "stopped"              -> "closed"
      [] OTHER                        -> "closing"

\* The abstract task pool this scheduler implements.
Pool == INSTANCE TaskPool WITH Tasks <- Fibers, status <- PoolStatus, phase <- PoolPhase

\* Every step of the scheduler is a step of the abstract pool or changes
\* nothing that the pool's user sees.
ImplementsPool == Pool!Spec
=============================================================================
