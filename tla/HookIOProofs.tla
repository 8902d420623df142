---------------------------- MODULE HookIOProofs ----------------------------
(***************************************************************************)
(* Proofs about HookIO, for any number of threads, fibers, calls and       *)
(* failures.                                                               *)
(*                                                                         *)
(* That nobody is stranded needs, before the fiber yields, to know already *)
(* who will wake it: the event for a call on a descriptor, the timer for a *)
(* sleep (WaitInv).  The timeout of a call is not enough, because its      *)
(* callback does nothing when the flag is already set.  That one of event  *)
(* and timeout wakes the fiber, once and not before it has yielded, needs  *)
(* that on one thread nothing runs while the fiber does (OneInv).          *)
(***************************************************************************)
EXTENDS HookIO, FiniteSetTheorems, TLAPS

----------------------------------------------------------------------------
(***************************************************************************)
(* The inductive invariant.                                                *)
(***************************************************************************)
\* Who wakes a fiber that yields or has yielded.
WaitInv ==
    /\ fault = "none" => \A f \in Fibers : fpc[f] \in {"yield", "parked"} =>
        \/ queued[f] > 0
        \/ Kind[f] = "sleep" /\ (timer[f] = "armed" \/ late[f] > 0)
        \/ Kind[f] # "sleep" /\ event[f]
    /\ \A f \in Fibers : fpc[f] = "event" => Kind[f] # "sleep"

Resting == {"start", "parked", "done"}

\* One thread executes one thing at a time: the fiber it runs, or a callback.
ThreadInv ==
    /\ fault # "assert"
    /\ \A t \in Threads : t \notin pool => run[t] = Nobody /\ cb[t] = Nobody
    /\ \A t \in Threads : run[t] # Nobody => cb[t] = Nobody /\ fpc[run[t]] \notin Resting
    /\ \A f \in Fibers : fpc[f] \notin Resting => \E t \in pool : run[t] = f

\* A fiber is queued, registered, or asleep with its timer, and only one of
\* them.
FiberInv(f) ==
    /\ queued[f] > 0 => queued[f] = 1 /\ fpc[f] \in {"start", "parked"} /\ ~event[f]
    /\ event[f] => fpc[f] \in {"yield", "parked"} /\ Kind[f] # "sleep"
    /\ Kind[f] = "sleep" =>
         /\ timer[f] = "armed" => late[f] = 0 /\ queued[f] = 0 /\ fpc[f] \in {"yield", "parked"}
         /\ late[f] > 0 => late[f] = 1 /\ queued[f] = 0 /\ fpc[f] \in {"yield", "parked"}

OneInv == OneThread => ThreadInv /\ \A f \in Fibers : FiberInv(f)

IInv == TypeOK /\ WaitInv /\ OneInv

----------------------------------------------------------------------------
\* A pool of one thread has no second thread.
LEMMA Pool ==
    ASSUME TypeOK
    PROVE  pool \subseteq Threads /\ (OneThread => \A t, u \in pool : t = u)
<1>1. pool \subseteq Threads  BY DEF TypeOK, Threads
<1>2. IsFiniteSet(pool)  BY <1>1, HookAssumption, FS_Subset DEF Threads
<1>3. OneThread => \A t, u \in pool : t = u
  <2>1. SUFFICES ASSUME Cardinality(pool) = 1 PROVE \A t, u \in pool : t = u
    BY DEF OneThread
  <2>2. PICK x : pool = {x}  BY <1>2, <2>1, FS_Singleton
  <2>3. QED  BY <2>2
<1>4. QED  BY <1>1, <1>3

\* Types.
LEMMA TypeStep ==
    ASSUME IInv, [Next]_vars
    PROVE  TypeOK'
<1> TypeOK  BY DEF IInv
<1> USE HookAssumption DEF Points
<1>1. CASE UNCHANGED vars
  BY <1>1, Pool DEF vars, threadVars, callVars, Free, At, Goto, Return, StopTimer, TypeOK
<1>2. ASSUME NEW t \in pool, CallbackCancels(t)
      PROVE  TypeOK'
  BY <1>2, Pool DEF CallbackCancels, threadVars, callVars, Free, At, Goto, Return, StopTimer, TypeOK
<1>3. ASSUME NEW t \in pool, NEW f \in Fibers, TakeFiber(t, f)
      PROVE  TypeOK'
  BY <1>3, Pool DEF TakeFiber, threadVars, callVars, Free, At, Goto, Return, StopTimer, TypeOK
<1>4. ASSUME NEW t \in pool, NEW f \in Fibers, TakeRunning(t, f)
      PROVE  TypeOK'
  BY <1>4, Pool DEF TakeRunning, threadVars, callVars, Free, At, Goto, Return, StopTimer, TypeOK
<1>5. ASSUME NEW t \in pool, NEW f \in Fibers, Expire(t, f)
      PROVE  TypeOK'
  BY <1>5, Pool DEF Expire, threadVars, callVars, Free, At, Goto, Return, StopTimer, TypeOK
<1>6. ASSUME NEW t \in pool, NEW f \in Fibers, Trigger(t, f)
      PROVE  TypeOK'
  BY <1>6, Pool DEF Trigger, threadVars, callVars, Free, At, Goto, Return, StopTimer, TypeOK
<1>7. ASSUME NEW t \in pool, NEW f \in Fibers, WakeSleeper(t, f)
      PROVE  TypeOK'
  BY <1>7, Pool DEF WakeSleeper, threadVars, callVars, Free, At, Goto, Return, StopTimer, TypeOK
<1>8. ASSUME NEW t \in pool, NEW f \in Fibers, CallbackIgnored(t, f)
      PROVE  TypeOK'
  BY <1>8, Pool DEF CallbackIgnored, threadVars, callVars, Free, At, Goto, Return, StopTimer, TypeOK
<1>9. ASSUME NEW t \in pool, NEW f \in Fibers, CallbackTimesOut(t, f)
      PROVE  TypeOK'
  BY <1>9, Pool DEF CallbackTimesOut, threadVars, callVars, Free, At, Goto, Return, StopTimer, TypeOK
<1>10. ASSUME NEW t \in pool, CallSucceeds(t)
      PROVE  TypeOK'
  BY <1>10, Pool DEF CallSucceeds, threadVars, callVars, Free, At, Goto, Return, StopTimer, TypeOK
<1>11. ASSUME NEW t \in pool, CallBlocks(t)
      PROVE  TypeOK'
  BY <1>11, Pool DEF CallBlocks, threadVars, callVars, Free, At, Goto, Return, StopTimer, TypeOK
<1>12. ASSUME NEW t \in pool, AddTimer(t)
      PROVE  TypeOK'
  BY <1>12, Pool DEF AddTimer, threadVars, callVars, Free, At, Goto, Return, StopTimer, TypeOK
<1>13. ASSUME NEW t \in pool, AddEvent(t)
      PROVE  TypeOK'
  BY <1>13, Pool DEF AddEvent, threadVars, callVars, Free, At, Goto, Return, StopTimer, TypeOK
<1>14. ASSUME NEW t \in pool, AddEventFails(t)
      PROVE  TypeOK'
  BY <1>14, Pool DEF AddEventFails, threadVars, callVars, Free, At, Goto, Return, StopTimer, TypeOK
<1>15. ASSUME NEW t \in pool, Yield(t)
      PROVE  TypeOK'
  BY <1>15, Pool DEF Yield, threadVars, callVars, Free, At, Goto, Return, StopTimer, TypeOK
<1>16. ASSUME NEW t \in pool, WakeFromSleep(t)
      PROVE  TypeOK'
  BY <1>16, Pool DEF WakeFromSleep, threadVars, callVars, Free, At, Goto, Return, StopTimer, TypeOK
<1>17. ASSUME NEW t \in pool, CancelBreaks(t)
      PROVE  TypeOK'
  BY <1>17, Pool DEF CancelBreaks, threadVars, callVars, Free, At, Goto, Return, StopTimer, TypeOK
<1>18. ASSUME NEW t \in pool, Woken(t)
      PROVE  TypeOK'
  BY <1>18, Pool DEF Woken, threadVars, callVars, Free, At, Goto, Return, StopTimer, TypeOK
<1>19. ASSUME NEW t \in pool, Failed(t)
      PROVE  TypeOK'
  BY <1>19, Pool DEF Failed, threadVars, callVars, Free, At, Goto, Return, StopTimer, TypeOK
<1>20. ASSUME NEW t \in pool, TimedOut(t)
      PROVE  TypeOK'
  BY <1>20, Pool DEF TimedOut, threadVars, callVars, Free, At, Goto, Return, StopTimer, TypeOK
<1>21. ASSUME NEW t \in pool, Retry(t)
      PROVE  TypeOK'
  BY <1>21, Pool DEF Retry, threadVars, callVars, Free, At, Goto, Return, StopTimer, TypeOK
<1>22. ASSUME NEW t \in pool, Connected(t)
      PROVE  TypeOK'
  BY <1>22, Pool DEF Connected, threadVars, callVars, Free, At, Goto, Return, StopTimer, TypeOK
<1>23. ASSUME NEW f \in Fibers, BecomeReady(f)
      PROVE  TypeOK'
  BY <1>23, Pool DEF BecomeReady, threadVars, callVars, Free, At, Goto, Return, StopTimer, TypeOK
<1>24. ASSUME NEW f \in Fibers, Drained(f)
      PROVE  TypeOK'
  BY <1>24, Pool DEF Drained, threadVars, callVars, Free, At, Goto, Return, StopTimer, TypeOK
<1>25. CASE Finished
  BY <1>25, Pool DEF Finished, vars, threadVars, callVars, Free, At, Goto, Return, StopTimer, TypeOK
<1>26. QED
  BY <1>1, <1>2, <1>3, <1>4, <1>5, <1>6, <1>7, <1>8, <1>9, <1>10, <1>11, <1>12, <1>13, <1>14, <1>15, <1>16, <1>17, <1>18, <1>19, <1>20, <1>21, <1>22, <1>23, <1>24, <1>25 DEF Next, PoolStep, CallStep

\* Somebody will wake every fiber that yields.
LEMMA WaitStep ==
    ASSUME IInv, [Next]_vars
    PROVE  WaitInv'
<1> TypeOK /\ WaitInv  BY DEF IInv
<1>1. CASE UNCHANGED vars
  BY <1>1, Pool DEF vars, threadVars, callVars, Free, At, Goto, Return, StopTimer, TypeOK, WaitInv
<1>2. ASSUME NEW t \in pool, CallbackCancels(t)
      PROVE  WaitInv'
  BY <1>2, Pool DEF CallbackCancels, threadVars, callVars, Free, At, Goto, Return, StopTimer, TypeOK, WaitInv
<1>3. ASSUME NEW t \in pool, NEW f \in Fibers, TakeFiber(t, f)
      PROVE  WaitInv'
  BY <1>3, Pool DEF TakeFiber, threadVars, callVars, Free, At, Goto, Return, StopTimer, TypeOK, WaitInv
<1>4. ASSUME NEW t \in pool, NEW f \in Fibers, TakeRunning(t, f)
      PROVE  WaitInv'
  BY <1>4, Pool DEF TakeRunning, threadVars, callVars, Free, At, Goto, Return, StopTimer, TypeOK, WaitInv
<1>5. ASSUME NEW t \in pool, NEW f \in Fibers, Expire(t, f)
      PROVE  WaitInv'
  BY <1>5, Pool DEF Expire, threadVars, callVars, Free, At, Goto, Return, StopTimer, TypeOK, WaitInv
<1>6. ASSUME NEW t \in pool, NEW f \in Fibers, Trigger(t, f)
      PROVE  WaitInv'
  BY <1>6, Pool DEF Trigger, threadVars, callVars, Free, At, Goto, Return, StopTimer, TypeOK, WaitInv
<1>7. ASSUME NEW t \in pool, NEW f \in Fibers, WakeSleeper(t, f)
      PROVE  WaitInv'
  BY <1>7, Pool DEF WakeSleeper, threadVars, callVars, Free, At, Goto, Return, StopTimer, TypeOK, WaitInv
<1>8. ASSUME NEW t \in pool, NEW f \in Fibers, CallbackIgnored(t, f)
      PROVE  WaitInv'
  BY <1>8, Pool DEF CallbackIgnored, threadVars, callVars, Free, At, Goto, Return, StopTimer, TypeOK, WaitInv
<1>9. ASSUME NEW t \in pool, NEW f \in Fibers, CallbackTimesOut(t, f)
      PROVE  WaitInv'
  BY <1>9, Pool DEF CallbackTimesOut, threadVars, callVars, Free, At, Goto, Return, StopTimer, TypeOK, WaitInv
<1>10. ASSUME NEW t \in pool, CallSucceeds(t)
      PROVE  WaitInv'
  BY <1>10, Pool DEF CallSucceeds, threadVars, callVars, Free, At, Goto, Return, StopTimer, TypeOK, WaitInv
<1>11. ASSUME NEW t \in pool, CallBlocks(t)
      PROVE  WaitInv'
  BY <1>11, Pool DEF CallBlocks, threadVars, callVars, Free, At, Goto, Return, StopTimer, TypeOK, WaitInv
<1>12. ASSUME NEW t \in pool, AddTimer(t)
      PROVE  WaitInv'
  BY <1>12, Pool DEF AddTimer, threadVars, callVars, Free, At, Goto, Return, StopTimer, TypeOK, WaitInv
<1>13. ASSUME NEW t \in pool, AddEvent(t)
      PROVE  WaitInv'
  BY <1>13, Pool DEF AddEvent, threadVars, callVars, Free, At, Goto, Return, StopTimer, TypeOK, WaitInv
<1>14. ASSUME NEW t \in pool, AddEventFails(t)
      PROVE  WaitInv'
  BY <1>14, Pool DEF AddEventFails, threadVars, callVars, Free, At, Goto, Return, StopTimer, TypeOK, WaitInv
<1>15. ASSUME NEW t \in pool, Yield(t)
      PROVE  WaitInv'
  BY <1>15, Pool DEF Yield, threadVars, callVars, Free, At, Goto, Return, StopTimer, TypeOK, WaitInv
<1>16. ASSUME NEW t \in pool, WakeFromSleep(t)
      PROVE  WaitInv'
  BY <1>16, Pool DEF WakeFromSleep, threadVars, callVars, Free, At, Goto, Return, StopTimer, TypeOK, WaitInv
<1>17. ASSUME NEW t \in pool, CancelBreaks(t)
      PROVE  WaitInv'
  BY <1>17, Pool DEF CancelBreaks, threadVars, callVars, Free, At, Goto, Return, StopTimer, TypeOK, WaitInv
<1>18. ASSUME NEW t \in pool, Woken(t)
      PROVE  WaitInv'
  BY <1>18, Pool DEF Woken, threadVars, callVars, Free, At, Goto, Return, StopTimer, TypeOK, WaitInv
<1>19. ASSUME NEW t \in pool, Failed(t)
      PROVE  WaitInv'
  BY <1>19, Pool DEF Failed, threadVars, callVars, Free, At, Goto, Return, StopTimer, TypeOK, WaitInv
<1>20. ASSUME NEW t \in pool, TimedOut(t)
      PROVE  WaitInv'
  BY <1>20, Pool DEF TimedOut, threadVars, callVars, Free, At, Goto, Return, StopTimer, TypeOK, WaitInv
<1>21. ASSUME NEW t \in pool, Retry(t)
      PROVE  WaitInv'
  BY <1>21, Pool DEF Retry, threadVars, callVars, Free, At, Goto, Return, StopTimer, TypeOK, WaitInv
<1>22. ASSUME NEW t \in pool, Connected(t)
      PROVE  WaitInv'
  BY <1>22, Pool DEF Connected, threadVars, callVars, Free, At, Goto, Return, StopTimer, TypeOK, WaitInv
<1>23. ASSUME NEW f \in Fibers, BecomeReady(f)
      PROVE  WaitInv'
  BY <1>23, Pool DEF BecomeReady, threadVars, callVars, Free, At, Goto, Return, StopTimer, TypeOK, WaitInv
<1>24. ASSUME NEW f \in Fibers, Drained(f)
      PROVE  WaitInv'
  BY <1>24, Pool DEF Drained, threadVars, callVars, Free, At, Goto, Return, StopTimer, TypeOK, WaitInv
<1>25. CASE Finished
  BY <1>25, Pool DEF Finished, vars, threadVars, callVars, Free, At, Goto, Return, StopTimer, TypeOK, WaitInv
<1>26. QED
  BY <1>1, <1>2, <1>3, <1>4, <1>5, <1>6, <1>7, <1>8, <1>9, <1>10, <1>11, <1>12, <1>13, <1>14, <1>15, <1>16, <1>17, <1>18, <1>19, <1>20, <1>21, <1>22, <1>23, <1>24, <1>25 DEF Next, PoolStep, CallStep

\* One thread.
LEMMA ThreadStep ==
    ASSUME IInv, [Next]_vars, OneThread'
    PROVE  ThreadInv'
<1> TypeOK /\ WaitInv  BY DEF IInv
<1>30. pool' = pool
  BY DEF Next, PoolStep, CallStep, TakeFiber, TakeRunning, Expire, Trigger, WakeSleeper, CallbackIgnored, CallbackTimesOut, CallSucceeds, CallBlocks, AddTimer, AddEvent, AddEventFails, Yield, WakeFromSleep, CancelBreaks, Woken, Failed, TimedOut, Retry, Connected, CallbackCancels, BecomeReady, Drained, Finished, vars, threadVars
<1>31. OneThread /\ ThreadInv /\ \A f \in Fibers : FiberInv(f)
  BY <1>30 DEF OneThread, IInv, OneInv
<1>32. \A t, u \in pool : t = u  BY <1>31, Pool
<1> USE HookAssumption DEF Resting
<1>1. CASE UNCHANGED vars
  BY <1>1, <1>31, <1>32, Pool DEF vars, threadVars, callVars, Free, At, Goto, Return, StopTimer, TypeOK, ThreadInv, FiberInv
<1>2. ASSUME NEW t \in pool, CallbackCancels(t)
      PROVE  ThreadInv'
  BY <1>2, <1>31, <1>32, Pool DEF CallbackCancels, threadVars, callVars, Free, At, Goto, Return, StopTimer, TypeOK, ThreadInv, FiberInv
<1>3. ASSUME NEW t \in pool, NEW f \in Fibers, TakeFiber(t, f)
      PROVE  ThreadInv'
  BY <1>3, <1>31, <1>32, Pool DEF TakeFiber, threadVars, callVars, Free, At, Goto, Return, StopTimer, TypeOK, ThreadInv, FiberInv
<1>4. ASSUME NEW t \in pool, NEW f \in Fibers, TakeRunning(t, f)
      PROVE  ThreadInv'
  BY <1>4, <1>31, <1>32, Pool DEF TakeRunning, threadVars, callVars, Free, At, Goto, Return, StopTimer, TypeOK, ThreadInv, FiberInv
<1>5. ASSUME NEW t \in pool, NEW f \in Fibers, Expire(t, f)
      PROVE  ThreadInv'
  BY <1>5, <1>31, <1>32, Pool DEF Expire, threadVars, callVars, Free, At, Goto, Return, StopTimer, TypeOK, ThreadInv, FiberInv
<1>6. ASSUME NEW t \in pool, NEW f \in Fibers, Trigger(t, f)
      PROVE  ThreadInv'
  BY <1>6, <1>31, <1>32, Pool DEF Trigger, threadVars, callVars, Free, At, Goto, Return, StopTimer, TypeOK, ThreadInv, FiberInv
<1>7. ASSUME NEW t \in pool, NEW f \in Fibers, WakeSleeper(t, f)
      PROVE  ThreadInv'
  BY <1>7, <1>31, <1>32, Pool DEF WakeSleeper, threadVars, callVars, Free, At, Goto, Return, StopTimer, TypeOK, ThreadInv, FiberInv
<1>8. ASSUME NEW t \in pool, NEW f \in Fibers, CallbackIgnored(t, f)
      PROVE  ThreadInv'
  BY <1>8, <1>31, <1>32, Pool DEF CallbackIgnored, threadVars, callVars, Free, At, Goto, Return, StopTimer, TypeOK, ThreadInv, FiberInv
<1>9. ASSUME NEW t \in pool, NEW f \in Fibers, CallbackTimesOut(t, f)
      PROVE  ThreadInv'
  BY <1>9, <1>31, <1>32, Pool DEF CallbackTimesOut, threadVars, callVars, Free, At, Goto, Return, StopTimer, TypeOK, ThreadInv, FiberInv
<1>10. ASSUME NEW t \in pool, CallSucceeds(t)
      PROVE  ThreadInv'
  BY <1>10, <1>31, <1>32, Pool DEF CallSucceeds, threadVars, callVars, Free, At, Goto, Return, StopTimer, TypeOK, ThreadInv, FiberInv
<1>11. ASSUME NEW t \in pool, CallBlocks(t)
      PROVE  ThreadInv'
  BY <1>11, <1>31, <1>32, Pool DEF CallBlocks, threadVars, callVars, Free, At, Goto, Return, StopTimer, TypeOK, ThreadInv, FiberInv
<1>12. ASSUME NEW t \in pool, AddTimer(t)
      PROVE  ThreadInv'
  BY <1>12, <1>31, <1>32, Pool DEF AddTimer, threadVars, callVars, Free, At, Goto, Return, StopTimer, TypeOK, ThreadInv, FiberInv
<1>13. ASSUME NEW t \in pool, AddEvent(t)
      PROVE  ThreadInv'
  BY <1>13, <1>31, <1>32, Pool DEF AddEvent, threadVars, callVars, Free, At, Goto, Return, StopTimer, TypeOK, ThreadInv, FiberInv
<1>14. ASSUME NEW t \in pool, AddEventFails(t)
      PROVE  ThreadInv'
  BY <1>14, <1>31, <1>32, Pool DEF AddEventFails, threadVars, callVars, Free, At, Goto, Return, StopTimer, TypeOK, ThreadInv, FiberInv
<1>15. ASSUME NEW t \in pool, Yield(t)
      PROVE  ThreadInv'
  BY <1>15, <1>31, <1>32, Pool DEF Yield, threadVars, callVars, Free, At, Goto, Return, StopTimer, TypeOK, ThreadInv, FiberInv
<1>16. ASSUME NEW t \in pool, WakeFromSleep(t)
      PROVE  ThreadInv'
  BY <1>16, <1>31, <1>32, Pool DEF WakeFromSleep, threadVars, callVars, Free, At, Goto, Return, StopTimer, TypeOK, ThreadInv, FiberInv
<1>17. ASSUME NEW t \in pool, CancelBreaks(t)
      PROVE  ThreadInv'
  BY <1>17, <1>31, <1>32, Pool DEF CancelBreaks, threadVars, callVars, Free, At, Goto, Return, StopTimer, TypeOK, ThreadInv, FiberInv
<1>18. ASSUME NEW t \in pool, Woken(t)
      PROVE  ThreadInv'
  BY <1>18, <1>31, <1>32, Pool DEF Woken, threadVars, callVars, Free, At, Goto, Return, StopTimer, TypeOK, ThreadInv, FiberInv
<1>19. ASSUME NEW t \in pool, Failed(t)
      PROVE  ThreadInv'
  BY <1>19, <1>31, <1>32, Pool DEF Failed, threadVars, callVars, Free, At, Goto, Return, StopTimer, TypeOK, ThreadInv, FiberInv
<1>20. ASSUME NEW t \in pool, TimedOut(t)
      PROVE  ThreadInv'
  BY <1>20, <1>31, <1>32, Pool DEF TimedOut, threadVars, callVars, Free, At, Goto, Return, StopTimer, TypeOK, ThreadInv, FiberInv
<1>21. ASSUME NEW t \in pool, Retry(t)
      PROVE  ThreadInv'
  BY <1>21, <1>31, <1>32, Pool DEF Retry, threadVars, callVars, Free, At, Goto, Return, StopTimer, TypeOK, ThreadInv, FiberInv
<1>22. ASSUME NEW t \in pool, Connected(t)
      PROVE  ThreadInv'
  BY <1>22, <1>31, <1>32, Pool DEF Connected, threadVars, callVars, Free, At, Goto, Return, StopTimer, TypeOK, ThreadInv, FiberInv
<1>23. ASSUME NEW f \in Fibers, BecomeReady(f)
      PROVE  ThreadInv'
  BY <1>23, <1>31, <1>32, Pool DEF BecomeReady, threadVars, callVars, Free, At, Goto, Return, StopTimer, TypeOK, ThreadInv, FiberInv
<1>24. ASSUME NEW f \in Fibers, Drained(f)
      PROVE  ThreadInv'
  BY <1>24, <1>31, <1>32, Pool DEF Drained, threadVars, callVars, Free, At, Goto, Return, StopTimer, TypeOK, ThreadInv, FiberInv
<1>25. CASE Finished
  BY <1>25, <1>31, <1>32, Pool DEF Finished, vars, threadVars, callVars, Free, At, Goto, Return, StopTimer, TypeOK, ThreadInv, FiberInv
<1>26. QED
  BY <1>1, <1>2, <1>3, <1>4, <1>5, <1>6, <1>7, <1>8, <1>9, <1>10, <1>11, <1>12, <1>13, <1>14, <1>15, <1>16, <1>17, <1>18, <1>19, <1>20, <1>21, <1>22, <1>23, <1>24, <1>25 DEF Next, PoolStep, CallStep

\* The fibers of one thread.
LEMMA FiberStep ==
    ASSUME IInv, [Next]_vars, OneThread'
    PROVE  \A g \in Fibers : FiberInv(g)'
<1> TypeOK /\ WaitInv  BY DEF IInv
<1>30. pool' = pool
  BY DEF Next, PoolStep, CallStep, TakeFiber, TakeRunning, Expire, Trigger, WakeSleeper, CallbackIgnored, CallbackTimesOut, CallSucceeds, CallBlocks, AddTimer, AddEvent, AddEventFails, Yield, WakeFromSleep, CancelBreaks, Woken, Failed, TimedOut, Retry, Connected, CallbackCancels, BecomeReady, Drained, Finished, vars, threadVars
<1>31. OneThread /\ ThreadInv /\ \A f \in Fibers : FiberInv(f)
  BY <1>30 DEF OneThread, IInv, OneInv
<1>32. \A t, u \in pool : t = u  BY <1>31, Pool
<1> USE HookAssumption DEF Resting
<1>1. CASE UNCHANGED vars
  BY <1>1, <1>31, <1>32, Pool DEF vars, threadVars, callVars, Free, At, Goto, Return, StopTimer, TypeOK, ThreadInv, FiberInv, WaitInv
<1>2. ASSUME NEW t \in pool, CallbackCancels(t)
      PROVE  \A g \in Fibers : FiberInv(g)'
  BY <1>2, <1>31, <1>32, Pool DEF CallbackCancels, threadVars, callVars, Free, At, Goto, Return, StopTimer, TypeOK, ThreadInv, FiberInv, WaitInv
<1>3. ASSUME NEW t \in pool, NEW f \in Fibers, TakeFiber(t, f)
      PROVE  \A g \in Fibers : FiberInv(g)'
  BY <1>3, <1>31, <1>32, Pool DEF TakeFiber, threadVars, callVars, Free, At, Goto, Return, StopTimer, TypeOK, ThreadInv, FiberInv, WaitInv
<1>4. ASSUME NEW t \in pool, NEW f \in Fibers, TakeRunning(t, f)
      PROVE  \A g \in Fibers : FiberInv(g)'
  BY <1>4, <1>31, <1>32, Pool DEF TakeRunning, threadVars, callVars, Free, At, Goto, Return, StopTimer, TypeOK, ThreadInv, FiberInv, WaitInv
<1>5. ASSUME NEW t \in pool, NEW f \in Fibers, Expire(t, f)
      PROVE  \A g \in Fibers : FiberInv(g)'
  BY <1>5, <1>31, <1>32, Pool DEF Expire, threadVars, callVars, Free, At, Goto, Return, StopTimer, TypeOK, ThreadInv, FiberInv, WaitInv
<1>6. ASSUME NEW t \in pool, NEW f \in Fibers, Trigger(t, f)
      PROVE  \A g \in Fibers : FiberInv(g)'
  BY <1>6, <1>31, <1>32, Pool DEF Trigger, threadVars, callVars, Free, At, Goto, Return, StopTimer, TypeOK, ThreadInv, FiberInv, WaitInv
<1>7. ASSUME NEW t \in pool, NEW f \in Fibers, WakeSleeper(t, f)
      PROVE  \A g \in Fibers : FiberInv(g)'
  <2>1. /\ late[f] > 0 /\ Kind[f] = "sleep" /\ run[t] = Nobody /\ f # Nobody
        /\ late' = [late EXCEPT ![f] = @ - 1] /\ queued' = [queued EXCEPT ![f] = @ + 1]
        /\ UNCHANGED <<fpc, timer, event>>
    BY <1>7 DEF WakeSleeper, Free
  <2>2. fpc[f] = "parked" /\ late[f] = 1 /\ queued[f] = 0 /\ ~event[f] /\ timer[f] # "armed"
    BY <1>31, <1>32, <2>1 DEF ThreadInv, FiberInv
  <2>3. late'[f] = 0 /\ queued'[f] = 1 /\ \A g \in Fibers : g # f => late'[g] = late[g] /\ queued'[g] = queued[g]
    BY <2>1, <2>2 DEF TypeOK
  <2>4. FiberInv(f)'  BY <2>1, <2>2, <2>3 DEF FiberInv
  <2>5. \A g \in Fibers : g # f => FiberInv(g)'  BY <1>31, <2>1, <2>3 DEF FiberInv
  <2>6. QED  BY <2>4, <2>5
<1>8. ASSUME NEW t \in pool, NEW f \in Fibers, CallbackIgnored(t, f)
      PROVE  \A g \in Fibers : FiberInv(g)'
  BY <1>8, <1>31, <1>32, Pool DEF CallbackIgnored, threadVars, callVars, Free, At, Goto, Return, StopTimer, TypeOK, ThreadInv, FiberInv, WaitInv
<1>9. ASSUME NEW t \in pool, NEW f \in Fibers, CallbackTimesOut(t, f)
      PROVE  \A g \in Fibers : FiberInv(g)'
  BY <1>9, <1>31, <1>32, Pool DEF CallbackTimesOut, threadVars, callVars, Free, At, Goto, Return, StopTimer, TypeOK, ThreadInv, FiberInv, WaitInv
<1>10. ASSUME NEW t \in pool, CallSucceeds(t)
      PROVE  \A g \in Fibers : FiberInv(g)'
  BY <1>10, <1>31, <1>32, Pool DEF CallSucceeds, threadVars, callVars, Free, At, Goto, Return, StopTimer, TypeOK, ThreadInv, FiberInv, WaitInv
<1>11. ASSUME NEW t \in pool, CallBlocks(t)
      PROVE  \A g \in Fibers : FiberInv(g)'
  BY <1>11, <1>31, <1>32, Pool DEF CallBlocks, threadVars, callVars, Free, At, Goto, Return, StopTimer, TypeOK, ThreadInv, FiberInv, WaitInv
<1>12. ASSUME NEW t \in pool, AddTimer(t)
      PROVE  \A g \in Fibers : FiberInv(g)'
  BY <1>12, <1>31, <1>32, Pool DEF AddTimer, threadVars, callVars, Free, At, Goto, Return, StopTimer, TypeOK, ThreadInv, FiberInv, WaitInv
<1>13. ASSUME NEW t \in pool, AddEvent(t)
      PROVE  \A g \in Fibers : FiberInv(g)'
  BY <1>13, <1>31, <1>32, Pool DEF AddEvent, threadVars, callVars, Free, At, Goto, Return, StopTimer, TypeOK, ThreadInv, FiberInv, WaitInv
<1>14. ASSUME NEW t \in pool, AddEventFails(t)
      PROVE  \A g \in Fibers : FiberInv(g)'
  BY <1>14, <1>31, <1>32, Pool DEF AddEventFails, threadVars, callVars, Free, At, Goto, Return, StopTimer, TypeOK, ThreadInv, FiberInv, WaitInv
<1>15. ASSUME NEW t \in pool, Yield(t)
      PROVE  \A g \in Fibers : FiberInv(g)'
  BY <1>15, <1>31, <1>32, Pool DEF Yield, threadVars, callVars, Free, At, Goto, Return, StopTimer, TypeOK, ThreadInv, FiberInv, WaitInv
<1>16. ASSUME NEW t \in pool, WakeFromSleep(t)
      PROVE  \A g \in Fibers : FiberInv(g)'
  BY <1>16, <1>31, <1>32, Pool DEF WakeFromSleep, threadVars, callVars, Free, At, Goto, Return, StopTimer, TypeOK, ThreadInv, FiberInv, WaitInv
<1>17. ASSUME NEW t \in pool, CancelBreaks(t)
      PROVE  \A g \in Fibers : FiberInv(g)'
  BY <1>17, <1>31, <1>32, Pool DEF CancelBreaks, threadVars, callVars, Free, At, Goto, Return, StopTimer, TypeOK, ThreadInv, FiberInv, WaitInv
<1>18. ASSUME NEW t \in pool, Woken(t)
      PROVE  \A g \in Fibers : FiberInv(g)'
  BY <1>18, <1>31, <1>32, Pool DEF Woken, threadVars, callVars, Free, At, Goto, Return, StopTimer, TypeOK, ThreadInv, FiberInv, WaitInv
<1>19. ASSUME NEW t \in pool, Failed(t)
      PROVE  \A g \in Fibers : FiberInv(g)'
  BY <1>19, <1>31, <1>32, Pool DEF Failed, threadVars, callVars, Free, At, Goto, Return, StopTimer, TypeOK, ThreadInv, FiberInv, WaitInv
<1>20. ASSUME NEW t \in pool, TimedOut(t)
      PROVE  \A g \in Fibers : FiberInv(g)'
  BY <1>20, <1>31, <1>32, Pool DEF TimedOut, threadVars, callVars, Free, At, Goto, Return, StopTimer, TypeOK, ThreadInv, FiberInv, WaitInv
<1>21. ASSUME NEW t \in pool, Retry(t)
      PROVE  \A g \in Fibers : FiberInv(g)'
  BY <1>21, <1>31, <1>32, Pool DEF Retry, threadVars, callVars, Free, At, Goto, Return, StopTimer, TypeOK, ThreadInv, FiberInv, WaitInv
<1>22. ASSUME NEW t \in pool, Connected(t)
      PROVE  \A g \in Fibers : FiberInv(g)'
  BY <1>22, <1>31, <1>32, Pool DEF Connected, threadVars, callVars, Free, At, Goto, Return, StopTimer, TypeOK, ThreadInv, FiberInv, WaitInv
<1>23. ASSUME NEW f \in Fibers, BecomeReady(f)
      PROVE  \A g \in Fibers : FiberInv(g)'
  BY <1>23, <1>31, <1>32, Pool DEF BecomeReady, threadVars, callVars, Free, At, Goto, Return, StopTimer, TypeOK, ThreadInv, FiberInv, WaitInv
<1>24. ASSUME NEW f \in Fibers, Drained(f)
      PROVE  \A g \in Fibers : FiberInv(g)'
  BY <1>24, <1>31, <1>32, Pool DEF Drained, threadVars, callVars, Free, At, Goto, Return, StopTimer, TypeOK, ThreadInv, FiberInv, WaitInv
<1>25. CASE Finished
  BY <1>25, <1>31, <1>32, Pool DEF Finished, vars, threadVars, callVars, Free, At, Goto, Return, StopTimer, TypeOK, ThreadInv, FiberInv, WaitInv
<1>26. QED
  BY <1>1, <1>2, <1>3, <1>4, <1>5, <1>6, <1>7, <1>8, <1>9, <1>10, <1>11, <1>12, <1>13, <1>14, <1>15, <1>16, <1>17, <1>18, <1>19, <1>20, <1>21, <1>22, <1>23, <1>24, <1>25 DEF Next, PoolStep, CallStep

----------------------------------------------------------------------------
LEMMA InitIInv == Init => IInv
<1> SUFFICES ASSUME Init PROVE IInv
  OBVIOUS
<1> USE HookAssumption DEF Init
<1>1. TypeOK  BY DEF TypeOK, Points
<1>2. WaitInv  BY DEF WaitInv
<1>3. OneInv  BY DEF OneInv, ThreadInv, FiberInv, Resting
<1>4. QED  BY <1>1, <1>2, <1>3 DEF IInv

LEMMA NextIInv == IInv /\ [Next]_vars => IInv'
<1> SUFFICES ASSUME IInv, [Next]_vars PROVE IInv'
  OBVIOUS
<1>1. OneInv'  BY ThreadStep, FiberStep DEF OneInv
<1>2. QED  BY <1>1, TypeStep, WaitStep DEF IInv

\* The inductive invariant holds in every state of every execution.
THEOREM Invariance == Spec => []IInv
BY InitIInv, NextIInv, PTL DEF Spec

\* A fiber that has yielded in a hooked call is registered, queued or asleep
\* with a timer, on any number of threads, also when addEvent has failed or the
\* timeout came first (hook.cpp:91-158, 173-198, 210-285).
THEOREM NobodyIsStranded == Spec => []NobodyStranded
<1>1. ASSUME IInv PROVE NobodyStranded
  <2>1. TypeOK /\ WaitInv  BY <1>1 DEF IInv
  <2>2. ASSUME fault = "none", NEW f \in Fibers, fpc[f] = "parked"
        PROVE  event[f] \/ queued[f] > 0 \/ TimeoutComing(f)
    BY <2>1, <2>2 DEF WaitInv, TimeoutComing
  <2>3. QED  BY <2>1, <2>2 DEF NobodyStranded
<1>2. QED  BY <1>1, Invariance, PTL

\* On one thread the event and the timeout never both wake the fiber, and
\* neither does before it has yielded: the assertion of Fiber::resume
\* (fiber.cpp:116) holds.
THEOREM WokenOnceOnly == Spec => []WokenOnce
<1>1. IInv => WokenOnce  BY DEF IInv, OneInv, ThreadInv, FiberInv, WokenOnce
<1>2. QED  BY <1>1, Invariance, PTL
=============================================================================
