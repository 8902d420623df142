------------------------- MODULE IOManagerIdleProofs -------------------------
(***************************************************************************)
(* Proofs about IOManagerIdle, for any number of threads, timers, events   *)
(* and tasks, and any MAX_TIMEOUT.                                         *)
(*                                                                         *)
(* The counters are sums over the threads (CountInv).  A queued task has a *)
(* thread that will look at the queue before it sleeps (QueueInv).  When   *)
(* nothing announces itself to the threads in idle(), every timer has a    *)
(* thread that wakes up in time, and addTimer is free to tickle (Quiet,    *)
(* TimerInv): that m_tickled is set while nobody has been or will be woken *)
(* is what could go wrong, and a thread whose idle fiber has ended but     *)
(* still runs tasks cannot be relied on to look at the timers.             *)
(***************************************************************************)
EXTENDS IOManagerIdle, FiniteSetTheorems, TLAPS

----------------------------------------------------------------------------
(***************************************************************************)
(* The inductive invariant.                                                *)
(***************************************************************************)
\* Where a thread counts as active, as idle, and as owing a decrement of
\* m_pendingEventCount, inside tickle() by where it returns to.
IsActive(p, r) == p = "run" \/ (p = "tickle" /\ r = "run")
IsIdle(p, r)   == \/ p \in {"next", "pend", "sched", "wait", "expire", "post", "trig", "dec", "leave"}
                  \/ p = "tickle" /\ r \in {"post", "dec"}
IsOwing(p, r)  == p = "dec" \/ (p = "tickle" /\ r = "dec")

ActiveThreads == {t \in Threads : IsActive(pc[t], ret[t])}
IdleThreads   == {t \in Threads : IsIdle(pc[t], ret[t])}
OwingThreads  == {t \in Threads : IsOwing(pc[t], ret[t])}

\* Events somebody waits for.
On == {e \in Events : estate[e] # "off"}

CountInv ==
    /\ active = Cardinality(ActiveThreads)
    /\ idle = Cardinality(IdleThreads)
    /\ IsFiniteSet(On) /\ pending = Cardinality(On) + Cardinality(OwingThreads)

\* tickle() is called from three places; a reported event is in the hands of
\* one thread.
HandInv ==
    /\ \A t \in Threads : pc[t] = "tickle" => ret[t] \in {"run", "post", "dec"}
    /\ \A t \in Threads, e \in Events : e \in got[t] => estate[e] = "taken"
    /\ \A t, u \in Threads, e \in Events : e \in got[t] /\ e \in got[u] => t = u

\* The threads that will look at the queue before they sleep.
Looking(t) == pc[t] \in {"take", "run", "tickle", "expire", "post", "trig", "dec", "leave"}

QueueInv == queue > 0 /\ externals = 0 => \E t \in Threads : Looking(t)

\* An idle fiber ends only after stop(); its thread leaves run() when it finds
\* the queue empty, so the last one leaves nothing.
ExitInv ==
    /\ \A t \in Threads : term[t] \/ pc[t] = "exit" => stopping
    /\ AllExited => queue = 0

\* The threads that have asked for the next timer, or are past it, and sleep
\* or are about to.
Dozing(t) == pc[t] \in {"pend", "sched", "wait"}

\* A thread that will ask for the next timer before it sleeps.
Fresh(t) == ~term[t] /\ ~Dozing(t) /\ pc[t] # "exit"

Announced ==
    \/ edge \/ ReadyEvents # {} \/ ext = "tickle" \/ stopTickles > 0
    \/ \E t \in Threads : pc[t] = "tickle" \/ Fresh(t)

Quiet == (\E t \in Threads : Dozing(t)) /\ ~Announced

\* A timer is at most one step overdue; no time to go exceeds an int if no delay does.
Within(ms) == ms >= -1 /\ (InRange => ms <= IntMax)

TimerInv ==
    /\ \A t \in Threads : pc[t] \in {"none", "next", "pend", "sched", "wait"} => ~term[t]
    /\ \A i \in Timers : Within(left[i])
    /\ Quiet => ~tickled
    /\ Quiet /\ interrupts = 0 /\ InRange =>
         \A i \in armed : \E t \in Threads : pc[t] = "wait" /\ sleep[t] \in 0..Clip(left[i])

IInv == TypeOK /\ CountInv /\ HandInv /\ QueueInv /\ ExitInv /\ TimerInv

----------------------------------------------------------------------------
One(b) == IF b THEN 1 ELSE 0

\* Two sets of threads that differ in one.
LEMMA Counted ==
    ASSUME NEW A \in SUBSET Threads, NEW B \in SUBSET Threads, NEW t \in Threads, A \ {t} = B \ {t}
    PROVE  /\ Cardinality(A) \in Nat /\ Cardinality(B) \in Nat
           /\ Cardinality(B) = Cardinality(A) + One(t \in B) - One(t \in A)
<1>1. IsFiniteSet(A) /\ IsFiniteSet(B)  BY IdleAssumption, FS_Subset
<1>2. Cardinality(A) \in Nat /\ Cardinality(B) \in Nat  BY <1>1, FS_CardinalityType
<1>3. Cardinality(A \ {t}) = IF t \in A THEN Cardinality(A) - 1 ELSE Cardinality(A)
  BY <1>1, FS_RemoveElement
<1>4. Cardinality(B \ {t}) = IF t \in B THEN Cardinality(B) - 1 ELSE Cardinality(B)
  BY <1>1, FS_RemoveElement
<1>5. QED  BY <1>2, <1>3, <1>4 DEF One

\* What the move of one thread does to the counts.
LEMMA Moved ==
    ASSUME NEW t \in Threads, \A u \in Threads : u # t => pc'[u] = pc[u] /\ ret'[u] = ret[u]
    PROVE  /\ {Cardinality(ActiveThreads), Cardinality(IdleThreads), Cardinality(OwingThreads)} \subseteq Nat
           /\ {Cardinality(ActiveThreads'), Cardinality(IdleThreads'), Cardinality(OwingThreads')} \subseteq Nat
           /\ Cardinality(ActiveThreads') = Cardinality(ActiveThreads)
                  + One(IsActive(pc'[t], ret'[t])) - One(IsActive(pc[t], ret[t]))
           /\ Cardinality(IdleThreads') = Cardinality(IdleThreads)
                  + One(IsIdle(pc'[t], ret'[t])) - One(IsIdle(pc[t], ret[t]))
           /\ Cardinality(OwingThreads') = Cardinality(OwingThreads)
                  + One(IsOwing(pc'[t], ret'[t])) - One(IsOwing(pc[t], ret[t]))
<1>1. /\ ActiveThreads \in SUBSET Threads /\ ActiveThreads' \in SUBSET Threads
      /\ ActiveThreads \ {t} = ActiveThreads' \ {t}
      /\ t \in ActiveThreads <=> IsActive(pc[t], ret[t])
      /\ t \in ActiveThreads' <=> IsActive(pc'[t], ret'[t])
  BY DEF ActiveThreads
<1>2. /\ IdleThreads \in SUBSET Threads /\ IdleThreads' \in SUBSET Threads
      /\ IdleThreads \ {t} = IdleThreads' \ {t}
      /\ t \in IdleThreads <=> IsIdle(pc[t], ret[t])
      /\ t \in IdleThreads' <=> IsIdle(pc'[t], ret'[t])
  BY DEF IdleThreads
<1>3. /\ OwingThreads \in SUBSET Threads /\ OwingThreads' \in SUBSET Threads
      /\ OwingThreads \ {t} = OwingThreads' \ {t}
      /\ t \in OwingThreads <=> IsOwing(pc[t], ret[t])
      /\ t \in OwingThreads' <=> IsOwing(pc'[t], ret'[t])
  BY DEF OwingThreads
<1>4. /\ Cardinality(ActiveThreads) \in Nat /\ Cardinality(ActiveThreads') \in Nat
      /\ Cardinality(ActiveThreads') = Cardinality(ActiveThreads)
                  + One(IsActive(pc'[t], ret'[t])) - One(IsActive(pc[t], ret[t]))
  BY <1>1, Counted DEF One
<1>5. /\ Cardinality(IdleThreads) \in Nat /\ Cardinality(IdleThreads') \in Nat
      /\ Cardinality(IdleThreads') = Cardinality(IdleThreads)
                  + One(IsIdle(pc'[t], ret'[t])) - One(IsIdle(pc[t], ret[t]))
  BY <1>2, Counted DEF One
<1>6. /\ Cardinality(OwingThreads) \in Nat /\ Cardinality(OwingThreads') \in Nat
      /\ Cardinality(OwingThreads') = Cardinality(OwingThreads)
                  + One(IsOwing(pc'[t], ret'[t])) - One(IsOwing(pc[t], ret[t]))
  BY <1>3, Counted DEF One
<1>7. QED  BY <1>4, <1>5, <1>6

\* The numbers are natural, and a thread in idle() is counted.
LEMMA Numbers ==
    ASSUME TypeOK
    PROVE  /\ queue \in Nat /\ active \in Nat /\ idle \in Nat /\ pending \in Nat /\ stopTickles \in Nat
           /\ externals \in Nat /\ interrupts \in Nat /\ spawns \in Nat /\ adds \in Nat
BY IdleAssumption DEF TypeOK

LEMMA DozerCounts ==
    ASSUME TypeOK, CountInv, NEW t \in Threads, Dozing(t)
    PROVE  idle > 0
<1>1. t \in IdleThreads  BY DEF IdleThreads, IsIdle, Dozing
<1>2. IsFiniteSet(IdleThreads)  BY IdleAssumption, FS_Subset DEF IdleThreads
<1>3. Cardinality(IdleThreads) # 0 /\ Cardinality(IdleThreads) \in Nat
  BY <1>1, <1>2, FS_EmptySet, FS_CardinalityType
<1>4. QED  BY <1>3 DEF CountInv

\* The counters.
LEMMA CountStep ==
    ASSUME IInv, [Next]_vars
    PROVE  CountInv'
<1> TypeOK /\ CountInv /\ HandInv  BY DEF IInv
<1>50. Cardinality(On) \in Nat  BY FS_CardinalityType DEF CountInv
<1>1. CASE UNCHANGED vars
  BY <1>1 DEF vars, schedVars, threadVars, eventVars, CountInv, ActiveThreads, IdleThreads, OwingThreads, On, TypeOK
<1>2. ASSUME NEW t \in Threads, Tickle(t)
      PROVE  CountInv'
  <2>1. \A u \in Threads : u # t => pc'[u] = pc[u] /\ ret'[u] = ret[u]
    BY <1>2 DEF Tickle, Goto, TickleThen, threadVars, TypeOK
  <2>2. /\ {Cardinality(ActiveThreads), Cardinality(IdleThreads), Cardinality(OwingThreads)} \subseteq Nat
        /\ Cardinality(ActiveThreads') = Cardinality(ActiveThreads)
              + One(IsActive(pc'[t], ret'[t])) - One(IsActive(pc[t], ret[t]))
        /\ Cardinality(IdleThreads') = Cardinality(IdleThreads)
              + One(IsIdle(pc'[t], ret'[t])) - One(IsIdle(pc[t], ret[t]))
        /\ Cardinality(OwingThreads') = Cardinality(OwingThreads)
              + One(IsOwing(pc'[t], ret'[t])) - One(IsOwing(pc[t], ret[t]))
    BY <2>1, Moved

  <2>3. On' = On  BY <1>2 DEF Tickle, On, eventVars, ReadyEvents, TypeOK

  <2>4. active' = Cardinality(ActiveThreads') /\ idle' = Cardinality(IdleThreads')
    BY <1>2, <2>2 DEF Tickle, Goto, TickleThen, schedVars, threadVars, TypeOK, CountInv, HandInv, IsActive, IsIdle, One
  <2>5. pending' = Cardinality(On') + Cardinality(OwingThreads')
    BY <1>2, <1>50, <2>2, <2>3 DEF Tickle, Goto, TickleThen, eventVars, threadVars, TypeOK, CountInv, HandInv, IsOwing, One
  <2>6. QED  BY <2>3, <2>4, <2>5 DEF CountInv
<1>3. ASSUME NEW t \in Threads, Take(t)
      PROVE  CountInv'
  <2>1. \A u \in Threads : u # t => pc'[u] = pc[u] /\ ret'[u] = ret[u]
    BY <1>3 DEF Take, Goto, TickleThen, threadVars, TypeOK
  <2>2. /\ {Cardinality(ActiveThreads), Cardinality(IdleThreads), Cardinality(OwingThreads)} \subseteq Nat
        /\ Cardinality(ActiveThreads') = Cardinality(ActiveThreads)
              + One(IsActive(pc'[t], ret'[t])) - One(IsActive(pc[t], ret[t]))
        /\ Cardinality(IdleThreads') = Cardinality(IdleThreads)
              + One(IsIdle(pc'[t], ret'[t])) - One(IsIdle(pc[t], ret[t]))
        /\ Cardinality(OwingThreads') = Cardinality(OwingThreads)
              + One(IsOwing(pc'[t], ret'[t])) - One(IsOwing(pc[t], ret[t]))
    BY <2>1, Moved

  <2>3. On' = On  BY <1>3 DEF Take, On, eventVars, ReadyEvents, TypeOK

  <2>4. active' = Cardinality(ActiveThreads') /\ idle' = Cardinality(IdleThreads')
    BY <1>3, <2>2 DEF Take, Goto, TickleThen, schedVars, threadVars, TypeOK, CountInv, HandInv, IsActive, IsIdle, One
  <2>5. pending' = Cardinality(On') + Cardinality(OwingThreads')
    BY <1>3, <1>50, <2>2, <2>3 DEF Take, Goto, TickleThen, eventVars, threadVars, TypeOK, CountInv, HandInv, IsOwing, One
  <2>6. QED  BY <2>3, <2>4, <2>5 DEF CountInv
<1>4. ASSUME NEW t \in Threads, FindNoTask(t)
      PROVE  CountInv'
  <2>1. \A u \in Threads : u # t => pc'[u] = pc[u] /\ ret'[u] = ret[u]
    BY <1>4 DEF FindNoTask, Goto, TickleThen, threadVars, TypeOK
  <2>2. /\ {Cardinality(ActiveThreads), Cardinality(IdleThreads), Cardinality(OwingThreads)} \subseteq Nat
        /\ Cardinality(ActiveThreads') = Cardinality(ActiveThreads)
              + One(IsActive(pc'[t], ret'[t])) - One(IsActive(pc[t], ret[t]))
        /\ Cardinality(IdleThreads') = Cardinality(IdleThreads)
              + One(IsIdle(pc'[t], ret'[t])) - One(IsIdle(pc[t], ret[t]))
        /\ Cardinality(OwingThreads') = Cardinality(OwingThreads)
              + One(IsOwing(pc'[t], ret'[t])) - One(IsOwing(pc[t], ret[t]))
    BY <2>1, Moved

  <2>3. On' = On  BY <1>4 DEF FindNoTask, On, eventVars, ReadyEvents, TypeOK

  <2>4. active' = Cardinality(ActiveThreads') /\ idle' = Cardinality(IdleThreads')
    BY <1>4, <2>2 DEF FindNoTask, Goto, TickleThen, schedVars, threadVars, TypeOK, CountInv, HandInv, IsActive, IsIdle, One
  <2>5. pending' = Cardinality(On') + Cardinality(OwingThreads')
    BY <1>4, <1>50, <2>2, <2>3 DEF FindNoTask, Goto, TickleThen, eventVars, threadVars, TypeOK, CountInv, HandInv, IsOwing, One
  <2>6. QED  BY <2>3, <2>4, <2>5 DEF CountInv
<1>5. ASSUME NEW t \in Threads, EnterIdle(t)
      PROVE  CountInv'
  <2>1. \A u \in Threads : u # t => pc'[u] = pc[u] /\ ret'[u] = ret[u]
    BY <1>5 DEF EnterIdle, Goto, TickleThen, threadVars, TypeOK
  <2>2. /\ {Cardinality(ActiveThreads), Cardinality(IdleThreads), Cardinality(OwingThreads)} \subseteq Nat
        /\ Cardinality(ActiveThreads') = Cardinality(ActiveThreads)
              + One(IsActive(pc'[t], ret'[t])) - One(IsActive(pc[t], ret[t]))
        /\ Cardinality(IdleThreads') = Cardinality(IdleThreads)
              + One(IsIdle(pc'[t], ret'[t])) - One(IsIdle(pc[t], ret[t]))
        /\ Cardinality(OwingThreads') = Cardinality(OwingThreads)
              + One(IsOwing(pc'[t], ret'[t])) - One(IsOwing(pc[t], ret[t]))
    BY <2>1, Moved

  <2>3. On' = On  BY <1>5 DEF EnterIdle, On, eventVars, ReadyEvents, TypeOK

  <2>4. active' = Cardinality(ActiveThreads') /\ idle' = Cardinality(IdleThreads')
    BY <1>5, <2>2 DEF EnterIdle, Goto, TickleThen, schedVars, threadVars, TypeOK, CountInv, HandInv, IsActive, IsIdle, One
  <2>5. pending' = Cardinality(On') + Cardinality(OwingThreads')
    BY <1>5, <1>50, <2>2, <2>3 DEF EnterIdle, Goto, TickleThen, eventVars, threadVars, TypeOK, CountInv, HandInv, IsOwing, One
  <2>6. QED  BY <2>3, <2>4, <2>5 DEF CountInv
<1>6. ASSUME NEW t \in Threads, LeaveIdle(t)
      PROVE  CountInv'
  <2>1. \A u \in Threads : u # t => pc'[u] = pc[u] /\ ret'[u] = ret[u]
    BY <1>6 DEF LeaveIdle, Goto, TickleThen, threadVars, TypeOK
  <2>2. /\ {Cardinality(ActiveThreads), Cardinality(IdleThreads), Cardinality(OwingThreads)} \subseteq Nat
        /\ Cardinality(ActiveThreads') = Cardinality(ActiveThreads)
              + One(IsActive(pc'[t], ret'[t])) - One(IsActive(pc[t], ret[t]))
        /\ Cardinality(IdleThreads') = Cardinality(IdleThreads)
              + One(IsIdle(pc'[t], ret'[t])) - One(IsIdle(pc[t], ret[t]))
        /\ Cardinality(OwingThreads') = Cardinality(OwingThreads)
              + One(IsOwing(pc'[t], ret'[t])) - One(IsOwing(pc[t], ret[t]))
    BY <2>1, Moved

  <2>3. On' = On  BY <1>6 DEF LeaveIdle, On, eventVars, ReadyEvents, TypeOK

  <2>4. active' = Cardinality(ActiveThreads') /\ idle' = Cardinality(IdleThreads')
    BY <1>6, <2>2 DEF LeaveIdle, Goto, TickleThen, schedVars, threadVars, TypeOK, CountInv, HandInv, IsActive, IsIdle, One
  <2>5. pending' = Cardinality(On') + Cardinality(OwingThreads')
    BY <1>6, <1>50, <2>2, <2>3 DEF LeaveIdle, Goto, TickleThen, eventVars, threadVars, TypeOK, CountInv, HandInv, IsOwing, One
  <2>6. QED  BY <2>3, <2>4, <2>5 DEF CountInv
<1>7. ASSUME NEW t \in Threads, EndTask(t)
      PROVE  CountInv'
  <2>1. \A u \in Threads : u # t => pc'[u] = pc[u] /\ ret'[u] = ret[u]
    BY <1>7 DEF EndTask, Goto, TickleThen, threadVars, TypeOK
  <2>2. /\ {Cardinality(ActiveThreads), Cardinality(IdleThreads), Cardinality(OwingThreads)} \subseteq Nat
        /\ Cardinality(ActiveThreads') = Cardinality(ActiveThreads)
              + One(IsActive(pc'[t], ret'[t])) - One(IsActive(pc[t], ret[t]))
        /\ Cardinality(IdleThreads') = Cardinality(IdleThreads)
              + One(IsIdle(pc'[t], ret'[t])) - One(IsIdle(pc[t], ret[t]))
        /\ Cardinality(OwingThreads') = Cardinality(OwingThreads)
              + One(IsOwing(pc'[t], ret'[t])) - One(IsOwing(pc[t], ret[t]))
    BY <2>1, Moved

  <2>3. On' = On  BY <1>7 DEF EndTask, On, eventVars, ReadyEvents, TypeOK

  <2>4. active' = Cardinality(ActiveThreads') /\ idle' = Cardinality(IdleThreads')
    BY <1>7, <2>2 DEF EndTask, Goto, TickleThen, schedVars, threadVars, TypeOK, CountInv, HandInv, IsActive, IsIdle, One
  <2>5. pending' = Cardinality(On') + Cardinality(OwingThreads')
    BY <1>7, <1>50, <2>2, <2>3 DEF EndTask, Goto, TickleThen, eventVars, threadVars, TypeOK, CountInv, HandInv, IsOwing, One
  <2>6. QED  BY <2>3, <2>4, <2>5 DEF CountInv
<1>8. ASSUME NEW t \in Threads, NextTimer(t)
      PROVE  CountInv'
  <2>1. \A u \in Threads : u # t => pc'[u] = pc[u] /\ ret'[u] = ret[u]
    BY <1>8 DEF NextTimer, Goto, TickleThen, threadVars, TypeOK
  <2>2. /\ {Cardinality(ActiveThreads), Cardinality(IdleThreads), Cardinality(OwingThreads)} \subseteq Nat
        /\ Cardinality(ActiveThreads') = Cardinality(ActiveThreads)
              + One(IsActive(pc'[t], ret'[t])) - One(IsActive(pc[t], ret[t]))
        /\ Cardinality(IdleThreads') = Cardinality(IdleThreads)
              + One(IsIdle(pc'[t], ret'[t])) - One(IsIdle(pc[t], ret[t]))
        /\ Cardinality(OwingThreads') = Cardinality(OwingThreads)
              + One(IsOwing(pc'[t], ret'[t])) - One(IsOwing(pc[t], ret[t]))
    BY <2>1, Moved

  <2>3. On' = On  BY <1>8 DEF NextTimer, On, eventVars, ReadyEvents, TypeOK

  <2>4. active' = Cardinality(ActiveThreads') /\ idle' = Cardinality(IdleThreads')
    BY <1>8, <2>2 DEF NextTimer, Goto, TickleThen, schedVars, threadVars, TypeOK, CountInv, HandInv, IsActive, IsIdle, One
  <2>5. pending' = Cardinality(On') + Cardinality(OwingThreads')
    BY <1>8, <1>50, <2>2, <2>3 DEF NextTimer, Goto, TickleThen, eventVars, threadVars, TypeOK, CountInv, HandInv, IsOwing, One
  <2>6. QED  BY <2>3, <2>4, <2>5 DEF CountInv
<1>9. ASSUME NEW t \in Threads, CheckPending(t)
      PROVE  CountInv'
  <2>1. \A u \in Threads : u # t => pc'[u] = pc[u] /\ ret'[u] = ret[u]
    BY <1>9 DEF CheckPending, Goto, TickleThen, threadVars, TypeOK
  <2>2. /\ {Cardinality(ActiveThreads), Cardinality(IdleThreads), Cardinality(OwingThreads)} \subseteq Nat
        /\ Cardinality(ActiveThreads') = Cardinality(ActiveThreads)
              + One(IsActive(pc'[t], ret'[t])) - One(IsActive(pc[t], ret[t]))
        /\ Cardinality(IdleThreads') = Cardinality(IdleThreads)
              + One(IsIdle(pc'[t], ret'[t])) - One(IsIdle(pc[t], ret[t]))
        /\ Cardinality(OwingThreads') = Cardinality(OwingThreads)
              + One(IsOwing(pc'[t], ret'[t])) - One(IsOwing(pc[t], ret[t]))
    BY <2>1, Moved

  <2>3. On' = On  BY <1>9 DEF CheckPending, On, eventVars, ReadyEvents, TypeOK

  <2>4. active' = Cardinality(ActiveThreads') /\ idle' = Cardinality(IdleThreads')
    BY <1>9, <2>2 DEF CheckPending, Goto, TickleThen, schedVars, threadVars, TypeOK, CountInv, HandInv, IsActive, IsIdle, One
  <2>5. pending' = Cardinality(On') + Cardinality(OwingThreads')
    BY <1>9, <1>50, <2>2, <2>3 DEF CheckPending, Goto, TickleThen, eventVars, threadVars, TypeOK, CountInv, HandInv, IsOwing, One
  <2>6. QED  BY <2>3, <2>4, <2>5 DEF CountInv
<1>10. ASSUME NEW t \in Threads, CheckSched(t)
      PROVE  CountInv'
  <2>1. \A u \in Threads : u # t => pc'[u] = pc[u] /\ ret'[u] = ret[u]
    BY <1>10 DEF CheckSched, Goto, TickleThen, threadVars, TypeOK
  <2>2. /\ {Cardinality(ActiveThreads), Cardinality(IdleThreads), Cardinality(OwingThreads)} \subseteq Nat
        /\ Cardinality(ActiveThreads') = Cardinality(ActiveThreads)
              + One(IsActive(pc'[t], ret'[t])) - One(IsActive(pc[t], ret[t]))
        /\ Cardinality(IdleThreads') = Cardinality(IdleThreads)
              + One(IsIdle(pc'[t], ret'[t])) - One(IsIdle(pc[t], ret[t]))
        /\ Cardinality(OwingThreads') = Cardinality(OwingThreads)
              + One(IsOwing(pc'[t], ret'[t])) - One(IsOwing(pc[t], ret[t]))
    BY <2>1, Moved

  <2>3. On' = On  BY <1>10 DEF CheckSched, On, eventVars, ReadyEvents, TypeOK

  <2>4. active' = Cardinality(ActiveThreads') /\ idle' = Cardinality(IdleThreads')
    BY <1>10, <2>2 DEF CheckSched, Goto, TickleThen, schedVars, threadVars, TypeOK, CountInv, HandInv, IsActive, IsIdle, One
  <2>5. pending' = Cardinality(On') + Cardinality(OwingThreads')
    BY <1>10, <1>50, <2>2, <2>3 DEF CheckSched, Goto, TickleThen, eventVars, threadVars, TypeOK, CountInv, HandInv, IsOwing, One
  <2>6. QED  BY <2>3, <2>4, <2>5 DEF CountInv
<1>11. ASSUME NEW t \in Threads, Wake(t)
      PROVE  CountInv'
  <2>1. \A u \in Threads : u # t => pc'[u] = pc[u] /\ ret'[u] = ret[u]
    BY <1>11 DEF Wake, Goto, TickleThen, threadVars, TypeOK
  <2>2. /\ {Cardinality(ActiveThreads), Cardinality(IdleThreads), Cardinality(OwingThreads)} \subseteq Nat
        /\ Cardinality(ActiveThreads') = Cardinality(ActiveThreads)
              + One(IsActive(pc'[t], ret'[t])) - One(IsActive(pc[t], ret[t]))
        /\ Cardinality(IdleThreads') = Cardinality(IdleThreads)
              + One(IsIdle(pc'[t], ret'[t])) - One(IsIdle(pc[t], ret[t]))
        /\ Cardinality(OwingThreads') = Cardinality(OwingThreads)
              + One(IsOwing(pc'[t], ret'[t])) - One(IsOwing(pc[t], ret[t]))
    BY <2>1, Moved

  <2>3. On' = On  BY <1>11 DEF Wake, On, eventVars, ReadyEvents, TypeOK

  <2>4. active' = Cardinality(ActiveThreads') /\ idle' = Cardinality(IdleThreads')
    BY <1>11, <2>2 DEF Wake, Goto, TickleThen, schedVars, threadVars, TypeOK, CountInv, HandInv, IsActive, IsIdle, One
  <2>5. pending' = Cardinality(On') + Cardinality(OwingThreads')
    BY <1>11, <1>50, <2>2, <2>3 DEF Wake, Goto, TickleThen, eventVars, threadVars, TypeOK, CountInv, HandInv, IsOwing, One
  <2>6. QED  BY <2>3, <2>4, <2>5 DEF CountInv
<1>12. ASSUME NEW t \in Threads, Expire(t)
      PROVE  CountInv'
  <2>1. \A u \in Threads : u # t => pc'[u] = pc[u] /\ ret'[u] = ret[u]
    BY <1>12 DEF Expire, Goto, TickleThen, threadVars, TypeOK
  <2>2. /\ {Cardinality(ActiveThreads), Cardinality(IdleThreads), Cardinality(OwingThreads)} \subseteq Nat
        /\ Cardinality(ActiveThreads') = Cardinality(ActiveThreads)
              + One(IsActive(pc'[t], ret'[t])) - One(IsActive(pc[t], ret[t]))
        /\ Cardinality(IdleThreads') = Cardinality(IdleThreads)
              + One(IsIdle(pc'[t], ret'[t])) - One(IsIdle(pc[t], ret[t]))
        /\ Cardinality(OwingThreads') = Cardinality(OwingThreads)
              + One(IsOwing(pc'[t], ret'[t])) - One(IsOwing(pc[t], ret[t]))
    BY <2>1, Moved

  <2>3. On' = On  BY <1>12 DEF Expire, On, eventVars, ReadyEvents, TypeOK

  <2>4. active' = Cardinality(ActiveThreads') /\ idle' = Cardinality(IdleThreads')
    BY <1>12, <2>2 DEF Expire, Goto, TickleThen, schedVars, threadVars, TypeOK, CountInv, HandInv, IsActive, IsIdle, One
  <2>5. pending' = Cardinality(On') + Cardinality(OwingThreads')
    BY <1>12, <1>50, <2>2, <2>3 DEF Expire, Goto, TickleThen, eventVars, threadVars, TypeOK, CountInv, HandInv, IsOwing, One
  <2>6. QED  BY <2>3, <2>4, <2>5 DEF CountInv
<1>13. ASSUME NEW t \in Threads, Post(t)
      PROVE  CountInv'
  <2>1. \A u \in Threads : u # t => pc'[u] = pc[u] /\ ret'[u] = ret[u]
    BY <1>13 DEF Post, Goto, TickleThen, threadVars, TypeOK
  <2>2. /\ {Cardinality(ActiveThreads), Cardinality(IdleThreads), Cardinality(OwingThreads)} \subseteq Nat
        /\ Cardinality(ActiveThreads') = Cardinality(ActiveThreads)
              + One(IsActive(pc'[t], ret'[t])) - One(IsActive(pc[t], ret[t]))
        /\ Cardinality(IdleThreads') = Cardinality(IdleThreads)
              + One(IsIdle(pc'[t], ret'[t])) - One(IsIdle(pc[t], ret[t]))
        /\ Cardinality(OwingThreads') = Cardinality(OwingThreads)
              + One(IsOwing(pc'[t], ret'[t])) - One(IsOwing(pc[t], ret[t]))
    BY <2>1, Moved

  <2>3. On' = On  BY <1>13 DEF Post, On, eventVars, ReadyEvents, TypeOK

  <2>4. active' = Cardinality(ActiveThreads') /\ idle' = Cardinality(IdleThreads')
    BY <1>13, <2>2 DEF Post, Goto, TickleThen, schedVars, threadVars, TypeOK, CountInv, HandInv, IsActive, IsIdle, One
  <2>5. pending' = Cardinality(On') + Cardinality(OwingThreads')
    BY <1>13, <1>50, <2>2, <2>3 DEF Post, Goto, TickleThen, eventVars, threadVars, TypeOK, CountInv, HandInv, IsOwing, One
  <2>6. QED  BY <2>3, <2>4, <2>5 DEF CountInv
<1>14. ASSUME NEW t \in Threads, Posted(t)
      PROVE  CountInv'
  <2>1. \A u \in Threads : u # t => pc'[u] = pc[u] /\ ret'[u] = ret[u]
    BY <1>14 DEF Posted, Goto, TickleThen, threadVars, TypeOK
  <2>2. /\ {Cardinality(ActiveThreads), Cardinality(IdleThreads), Cardinality(OwingThreads)} \subseteq Nat
        /\ Cardinality(ActiveThreads') = Cardinality(ActiveThreads)
              + One(IsActive(pc'[t], ret'[t])) - One(IsActive(pc[t], ret[t]))
        /\ Cardinality(IdleThreads') = Cardinality(IdleThreads)
              + One(IsIdle(pc'[t], ret'[t])) - One(IsIdle(pc[t], ret[t]))
        /\ Cardinality(OwingThreads') = Cardinality(OwingThreads)
              + One(IsOwing(pc'[t], ret'[t])) - One(IsOwing(pc[t], ret[t]))
    BY <2>1, Moved

  <2>3. On' = On  BY <1>14 DEF Posted, On, eventVars, ReadyEvents, TypeOK

  <2>4. active' = Cardinality(ActiveThreads') /\ idle' = Cardinality(IdleThreads')
    BY <1>14, <2>2 DEF Posted, Goto, TickleThen, schedVars, threadVars, TypeOK, CountInv, HandInv, IsActive, IsIdle, One
  <2>5. pending' = Cardinality(On') + Cardinality(OwingThreads')
    BY <1>14, <1>50, <2>2, <2>3 DEF Posted, Goto, TickleThen, eventVars, threadVars, TypeOK, CountInv, HandInv, IsOwing, One
  <2>6. QED  BY <2>3, <2>4, <2>5 DEF CountInv
<1>15. ASSUME NEW t \in Threads, Decrement(t)
      PROVE  CountInv'
  <2>1. \A u \in Threads : u # t => pc'[u] = pc[u] /\ ret'[u] = ret[u]
    BY <1>15 DEF Decrement, Goto, TickleThen, threadVars, TypeOK
  <2>2. /\ {Cardinality(ActiveThreads), Cardinality(IdleThreads), Cardinality(OwingThreads)} \subseteq Nat
        /\ Cardinality(ActiveThreads') = Cardinality(ActiveThreads)
              + One(IsActive(pc'[t], ret'[t])) - One(IsActive(pc[t], ret[t]))
        /\ Cardinality(IdleThreads') = Cardinality(IdleThreads)
              + One(IsIdle(pc'[t], ret'[t])) - One(IsIdle(pc[t], ret[t]))
        /\ Cardinality(OwingThreads') = Cardinality(OwingThreads)
              + One(IsOwing(pc'[t], ret'[t])) - One(IsOwing(pc[t], ret[t]))
    BY <2>1, Moved

  <2>3. On' = On  BY <1>15 DEF Decrement, On, eventVars, ReadyEvents, TypeOK

  <2>4. active' = Cardinality(ActiveThreads') /\ idle' = Cardinality(IdleThreads')
    BY <1>15, <2>2 DEF Decrement, Goto, TickleThen, schedVars, threadVars, TypeOK, CountInv, HandInv, IsActive, IsIdle, One
  <2>5. pending' = Cardinality(On') + Cardinality(OwingThreads')
    BY <1>15, <1>50, <2>2, <2>3 DEF Decrement, Goto, TickleThen, eventVars, threadVars, TypeOK, CountInv, HandInv, IsOwing, One
  <2>6. QED  BY <2>3, <2>4, <2>5 DEF CountInv
<1>16. ASSUME NEW t \in Threads, Triggered(t)
      PROVE  CountInv'
  <2>1. \A u \in Threads : u # t => pc'[u] = pc[u] /\ ret'[u] = ret[u]
    BY <1>16 DEF Triggered, Goto, TickleThen, threadVars, TypeOK
  <2>2. /\ {Cardinality(ActiveThreads), Cardinality(IdleThreads), Cardinality(OwingThreads)} \subseteq Nat
        /\ Cardinality(ActiveThreads') = Cardinality(ActiveThreads)
              + One(IsActive(pc'[t], ret'[t])) - One(IsActive(pc[t], ret[t]))
        /\ Cardinality(IdleThreads') = Cardinality(IdleThreads)
              + One(IsIdle(pc'[t], ret'[t])) - One(IsIdle(pc[t], ret[t]))
        /\ Cardinality(OwingThreads') = Cardinality(OwingThreads)
              + One(IsOwing(pc'[t], ret'[t])) - One(IsOwing(pc[t], ret[t]))
    BY <2>1, Moved

  <2>3. On' = On  BY <1>16 DEF Triggered, On, eventVars, ReadyEvents, TypeOK

  <2>4. active' = Cardinality(ActiveThreads') /\ idle' = Cardinality(IdleThreads')
    BY <1>16, <2>2 DEF Triggered, Goto, TickleThen, schedVars, threadVars, TypeOK, CountInv, HandInv, IsActive, IsIdle, One
  <2>5. pending' = Cardinality(On') + Cardinality(OwingThreads')
    BY <1>16, <1>50, <2>2, <2>3 DEF Triggered, Goto, TickleThen, eventVars, threadVars, TypeOK, CountInv, HandInv, IsOwing, One
  <2>6. QED  BY <2>3, <2>4, <2>5 DEF CountInv
<1>17. ASSUME NEW t \in Threads, Spawn(t)
      PROVE  CountInv'
  <2>1. \A u \in Threads : u # t => pc'[u] = pc[u] /\ ret'[u] = ret[u]
    BY <1>17 DEF Spawn, Goto, TickleThen, threadVars, TypeOK
  <2>2. /\ {Cardinality(ActiveThreads), Cardinality(IdleThreads), Cardinality(OwingThreads)} \subseteq Nat
        /\ Cardinality(ActiveThreads') = Cardinality(ActiveThreads)
              + One(IsActive(pc'[t], ret'[t])) - One(IsActive(pc[t], ret[t]))
        /\ Cardinality(IdleThreads') = Cardinality(IdleThreads)
              + One(IsIdle(pc'[t], ret'[t])) - One(IsIdle(pc[t], ret[t]))
        /\ Cardinality(OwingThreads') = Cardinality(OwingThreads)
              + One(IsOwing(pc'[t], ret'[t])) - One(IsOwing(pc[t], ret[t]))
    BY <2>1, Moved

  <2>3. On' = On  BY <1>17 DEF Spawn, On, eventVars, ReadyEvents, TypeOK

  <2>4. active' = Cardinality(ActiveThreads') /\ idle' = Cardinality(IdleThreads')
    BY <1>17, <2>2 DEF Spawn, Goto, TickleThen, schedVars, threadVars, TypeOK, CountInv, HandInv, IsActive, IsIdle, One
  <2>5. pending' = Cardinality(On') + Cardinality(OwingThreads')
    BY <1>17, <1>50, <2>2, <2>3 DEF Spawn, Goto, TickleThen, eventVars, threadVars, TypeOK, CountInv, HandInv, IsOwing, One
  <2>6. QED  BY <2>3, <2>4, <2>5 DEF CountInv
<1>18. ASSUME NEW t \in Threads, Interrupt(t)
      PROVE  CountInv'
  <2>1. \A u \in Threads : u # t => pc'[u] = pc[u] /\ ret'[u] = ret[u]
    BY <1>18 DEF Interrupt, Goto, TickleThen, threadVars, TypeOK
  <2>2. /\ {Cardinality(ActiveThreads), Cardinality(IdleThreads), Cardinality(OwingThreads)} \subseteq Nat
        /\ Cardinality(ActiveThreads') = Cardinality(ActiveThreads)
              + One(IsActive(pc'[t], ret'[t])) - One(IsActive(pc[t], ret[t]))
        /\ Cardinality(IdleThreads') = Cardinality(IdleThreads)
              + One(IsIdle(pc'[t], ret'[t])) - One(IsIdle(pc[t], ret[t]))
        /\ Cardinality(OwingThreads') = Cardinality(OwingThreads)
              + One(IsOwing(pc'[t], ret'[t])) - One(IsOwing(pc[t], ret[t]))
    BY <2>1, Moved

  <2>3. On' = On  BY <1>18 DEF Interrupt, On, eventVars, ReadyEvents, TypeOK

  <2>4. active' = Cardinality(ActiveThreads') /\ idle' = Cardinality(IdleThreads')
    BY <1>18, <2>2 DEF Interrupt, Goto, TickleThen, schedVars, threadVars, TypeOK, CountInv, HandInv, IsActive, IsIdle, One
  <2>5. pending' = Cardinality(On') + Cardinality(OwingThreads')
    BY <1>18, <1>50, <2>2, <2>3 DEF Interrupt, Goto, TickleThen, eventVars, threadVars, TypeOK, CountInv, HandInv, IsOwing, One
  <2>6. QED  BY <2>3, <2>4, <2>5 DEF CountInv
<1>19. ASSUME NEW t \in Threads, NEW e \in Events, Trigger(t, e)
      PROVE  CountInv'
  <2>1. \A u \in Threads : u # t => pc'[u] = pc[u] /\ ret'[u] = ret[u]
    BY <1>19 DEF Trigger, Goto, TickleThen, threadVars, TypeOK
  <2>2. /\ {Cardinality(ActiveThreads), Cardinality(IdleThreads), Cardinality(OwingThreads)} \subseteq Nat
        /\ Cardinality(ActiveThreads') = Cardinality(ActiveThreads)
              + One(IsActive(pc'[t], ret'[t])) - One(IsActive(pc[t], ret[t]))
        /\ Cardinality(IdleThreads') = Cardinality(IdleThreads)
              + One(IsIdle(pc'[t], ret'[t])) - One(IsIdle(pc[t], ret[t]))
        /\ Cardinality(OwingThreads') = Cardinality(OwingThreads)
              + One(IsOwing(pc'[t], ret'[t])) - One(IsOwing(pc[t], ret[t]))
    BY <2>1, Moved

  <2>3. /\ On' = On \ {e} /\ e \in On /\ IsFiniteSet(On \ {e})
        /\ Cardinality(On \ {e}) = Cardinality(On) - 1 /\ Cardinality(On) \in Nat
    <3>1. On' = On \ {e} /\ e \in On  BY <1>19 DEF Trigger, On, HandInv, TypeOK
    <3>2. QED  BY <3>1, FS_RemoveElement, FS_CardinalityType DEF CountInv

  <2>4. active' = Cardinality(ActiveThreads') /\ idle' = Cardinality(IdleThreads')
    BY <1>19, <2>2 DEF Trigger, Goto, TickleThen, schedVars, threadVars, TypeOK, CountInv, HandInv, IsActive, IsIdle, One
  <2>5. pending' = Cardinality(On') + Cardinality(OwingThreads')
    BY <1>19, <2>2, <2>3 DEF Trigger, Goto, TickleThen, eventVars, threadVars, TypeOK, CountInv, HandInv, IsOwing, One
  <2>6. QED  BY <2>3, <2>4, <2>5 DEF CountInv
<1>20. ASSUME NEW t \in Threads, NEW e \in Events, AddEvent(t, e)
      PROVE  CountInv'
  <2>1. \A u \in Threads : u # t => pc'[u] = pc[u] /\ ret'[u] = ret[u]
    BY <1>20 DEF AddEvent, Goto, TickleThen, threadVars, TypeOK
  <2>2. /\ {Cardinality(ActiveThreads), Cardinality(IdleThreads), Cardinality(OwingThreads)} \subseteq Nat
        /\ Cardinality(ActiveThreads') = Cardinality(ActiveThreads)
              + One(IsActive(pc'[t], ret'[t])) - One(IsActive(pc[t], ret[t]))
        /\ Cardinality(IdleThreads') = Cardinality(IdleThreads)
              + One(IsIdle(pc'[t], ret'[t])) - One(IsIdle(pc[t], ret[t]))
        /\ Cardinality(OwingThreads') = Cardinality(OwingThreads)
              + One(IsOwing(pc'[t], ret'[t])) - One(IsOwing(pc[t], ret[t]))
    BY <2>1, Moved

  <2>3. /\ On' = On \cup {e} /\ IsFiniteSet(On \cup {e})
        /\ Cardinality(On \cup {e}) = Cardinality(On) + 1 /\ Cardinality(On) \in Nat
    <3>1. On' = On \cup {e} /\ e \notin On  BY <1>20 DEF AddEvent, On, TypeOK
    <3>2. QED  BY <3>1, FS_AddElement, FS_CardinalityType DEF CountInv

  <2>4. active' = Cardinality(ActiveThreads') /\ idle' = Cardinality(IdleThreads')
    BY <1>20, <2>2 DEF AddEvent, Goto, TickleThen, schedVars, threadVars, TypeOK, CountInv, HandInv, IsActive, IsIdle, One
  <2>5. pending' = Cardinality(On') + Cardinality(OwingThreads')
    BY <1>20, <2>2, <2>3 DEF AddEvent, Goto, TickleThen, eventVars, threadVars, TypeOK, CountInv, HandInv, IsOwing, One
  <2>6. QED  BY <2>3, <2>4, <2>5 DEF CountInv
<1>21. ASSUME NEW t \in Threads, NEW i \in Timers, CancelTimer(t, i)
      PROVE  CountInv'
  <2>1. \A u \in Threads : u # t => pc'[u] = pc[u] /\ ret'[u] = ret[u]
    BY <1>21 DEF CancelTimer, Goto, TickleThen, threadVars, TypeOK
  <2>2. /\ {Cardinality(ActiveThreads), Cardinality(IdleThreads), Cardinality(OwingThreads)} \subseteq Nat
        /\ Cardinality(ActiveThreads') = Cardinality(ActiveThreads)
              + One(IsActive(pc'[t], ret'[t])) - One(IsActive(pc[t], ret[t]))
        /\ Cardinality(IdleThreads') = Cardinality(IdleThreads)
              + One(IsIdle(pc'[t], ret'[t])) - One(IsIdle(pc[t], ret[t]))
        /\ Cardinality(OwingThreads') = Cardinality(OwingThreads)
              + One(IsOwing(pc'[t], ret'[t])) - One(IsOwing(pc[t], ret[t]))
    BY <2>1, Moved

  <2>3. On' = On  BY <1>21 DEF CancelTimer, On, eventVars, ReadyEvents, TypeOK

  <2>4. active' = Cardinality(ActiveThreads') /\ idle' = Cardinality(IdleThreads')
    BY <1>21, <2>2 DEF CancelTimer, Goto, TickleThen, schedVars, threadVars, TypeOK, CountInv, HandInv, IsActive, IsIdle, One
  <2>5. pending' = Cardinality(On') + Cardinality(OwingThreads')
    BY <1>21, <1>50, <2>2, <2>3 DEF CancelTimer, Goto, TickleThen, eventVars, threadVars, TypeOK, CountInv, HandInv, IsOwing, One
  <2>6. QED  BY <2>3, <2>4, <2>5 DEF CountInv
<1>22. ASSUME NEW t \in Threads, NEW i \in Timers, NEW ms \in Delays, AddTimer(t, i, ms)
      PROVE  CountInv'
  <2>1. \A u \in Threads : u # t => pc'[u] = pc[u] /\ ret'[u] = ret[u]
    BY <1>22 DEF AddTimer, Goto, TickleThen, threadVars, TypeOK
  <2>2. /\ {Cardinality(ActiveThreads), Cardinality(IdleThreads), Cardinality(OwingThreads)} \subseteq Nat
        /\ Cardinality(ActiveThreads') = Cardinality(ActiveThreads)
              + One(IsActive(pc'[t], ret'[t])) - One(IsActive(pc[t], ret[t]))
        /\ Cardinality(IdleThreads') = Cardinality(IdleThreads)
              + One(IsIdle(pc'[t], ret'[t])) - One(IsIdle(pc[t], ret[t]))
        /\ Cardinality(OwingThreads') = Cardinality(OwingThreads)
              + One(IsOwing(pc'[t], ret'[t])) - One(IsOwing(pc[t], ret[t]))
    BY <2>1, Moved

  <2>3. On' = On  BY <1>22 DEF AddTimer, On, eventVars, ReadyEvents, TypeOK

  <2>4. active' = Cardinality(ActiveThreads') /\ idle' = Cardinality(IdleThreads')
    BY <1>22, <2>2 DEF AddTimer, Goto, TickleThen, schedVars, threadVars, TypeOK, CountInv, HandInv, IsActive, IsIdle, One
  <2>5. pending' = Cardinality(On') + Cardinality(OwingThreads')
    BY <1>22, <1>50, <2>2, <2>3 DEF AddTimer, Goto, TickleThen, eventVars, threadVars, TypeOK, CountInv, HandInv, IsOwing, One
  <2>6. QED  BY <2>3, <2>4, <2>5 DEF CountInv
<1>23. CASE StopBegin
  BY <1>23 DEF StopBegin, schedVars, threadVars, eventVars, CountInv, ActiveThreads, IdleThreads, OwingThreads, On, TypeOK
<1>24. CASE StopTickle
  BY <1>24 DEF StopTickle, schedVars, threadVars, eventVars, CountInv, ActiveThreads, IdleThreads, OwingThreads, On, TypeOK
<1>25. CASE ExternalSubmit
  BY <1>25 DEF ExternalSubmit, schedVars, threadVars, eventVars, CountInv, ActiveThreads, IdleThreads, OwingThreads, On, TypeOK
<1>26. CASE ExternalTickle
  BY <1>26 DEF ExternalTickle, schedVars, threadVars, eventVars, CountInv, ActiveThreads, IdleThreads, OwingThreads, On, TypeOK
<1>27. ASSUME NEW e \in Events, EventReady(e)
      PROVE  CountInv'
  BY <1>27 DEF EventReady, schedVars, threadVars, eventVars, CountInv, ActiveThreads, IdleThreads, OwingThreads, On, TypeOK
<1>28. CASE Tick
  BY <1>28 DEF Tick, schedVars, threadVars, eventVars, CountInv, ActiveThreads, IdleThreads, OwingThreads, On, TypeOK
<1>29. QED
  BY <1>1, <1>2, <1>3, <1>4, <1>5, <1>6, <1>7, <1>8, <1>9, <1>10, <1>11, <1>12, <1>13, <1>14, <1>15, <1>16, <1>17, <1>18, <1>19, <1>20, <1>21, <1>22, <1>23, <1>24, <1>25, <1>26, <1>27, <1>28 DEF Next, ThreadStep, TaskStep

\* What threads hold.
LEMMA HandStep ==
    ASSUME IInv, [Next]_vars
    PROVE  HandInv'
<1> TypeOK /\ HandInv  BY DEF IInv
<1>1. CASE UNCHANGED vars
  BY <1>1 DEF vars, schedVars, threadVars, timerVars, eventVars, idleVars, outerVars, budgets, HandInv, TypeOK
<1>2. ASSUME NEW t \in Threads, Tickle(t)
      PROVE  HandInv'
  BY <1>2 DEF Tickle, Goto, TickleThen, schedVars, threadVars, timerVars, eventVars, idleVars, outerVars, budgets, HandInv, TypeOK, ReadyEvents
<1>3. ASSUME NEW t \in Threads, Take(t)
      PROVE  HandInv'
  BY <1>3 DEF Take, Goto, TickleThen, schedVars, threadVars, timerVars, eventVars, idleVars, outerVars, budgets, HandInv, TypeOK, ReadyEvents
<1>4. ASSUME NEW t \in Threads, FindNoTask(t)
      PROVE  HandInv'
  BY <1>4 DEF FindNoTask, Goto, TickleThen, schedVars, threadVars, timerVars, eventVars, idleVars, outerVars, budgets, HandInv, TypeOK, ReadyEvents
<1>5. ASSUME NEW t \in Threads, EnterIdle(t)
      PROVE  HandInv'
  BY <1>5 DEF EnterIdle, Goto, TickleThen, schedVars, threadVars, timerVars, eventVars, idleVars, outerVars, budgets, HandInv, TypeOK, ReadyEvents
<1>6. ASSUME NEW t \in Threads, LeaveIdle(t)
      PROVE  HandInv'
  BY <1>6 DEF LeaveIdle, Goto, TickleThen, schedVars, threadVars, timerVars, eventVars, idleVars, outerVars, budgets, HandInv, TypeOK, ReadyEvents
<1>7. ASSUME NEW t \in Threads, EndTask(t)
      PROVE  HandInv'
  BY <1>7 DEF EndTask, Goto, TickleThen, schedVars, threadVars, timerVars, eventVars, idleVars, outerVars, budgets, HandInv, TypeOK, ReadyEvents
<1>8. ASSUME NEW t \in Threads, NextTimer(t)
      PROVE  HandInv'
  BY <1>8 DEF NextTimer, Goto, TickleThen, schedVars, threadVars, timerVars, eventVars, idleVars, outerVars, budgets, HandInv, TypeOK, ReadyEvents
<1>9. ASSUME NEW t \in Threads, CheckPending(t)
      PROVE  HandInv'
  BY <1>9 DEF CheckPending, Goto, TickleThen, schedVars, threadVars, timerVars, eventVars, idleVars, outerVars, budgets, HandInv, TypeOK, ReadyEvents
<1>10. ASSUME NEW t \in Threads, CheckSched(t)
      PROVE  HandInv'
  BY <1>10 DEF CheckSched, Goto, TickleThen, schedVars, threadVars, timerVars, eventVars, idleVars, outerVars, budgets, HandInv, TypeOK, ReadyEvents
<1>11. ASSUME NEW t \in Threads, Wake(t)
      PROVE  HandInv'
  BY <1>11 DEF Wake, Goto, TickleThen, schedVars, threadVars, timerVars, eventVars, idleVars, outerVars, budgets, HandInv, TypeOK, ReadyEvents
<1>12. ASSUME NEW t \in Threads, Expire(t)
      PROVE  HandInv'
  BY <1>12 DEF Expire, Goto, TickleThen, schedVars, threadVars, timerVars, eventVars, idleVars, outerVars, budgets, HandInv, TypeOK, ReadyEvents
<1>13. ASSUME NEW t \in Threads, Post(t)
      PROVE  HandInv'
  BY <1>13 DEF Post, Goto, TickleThen, schedVars, threadVars, timerVars, eventVars, idleVars, outerVars, budgets, HandInv, TypeOK, ReadyEvents
<1>14. ASSUME NEW t \in Threads, Posted(t)
      PROVE  HandInv'
  BY <1>14 DEF Posted, Goto, TickleThen, schedVars, threadVars, timerVars, eventVars, idleVars, outerVars, budgets, HandInv, TypeOK, ReadyEvents
<1>15. ASSUME NEW t \in Threads, Decrement(t)
      PROVE  HandInv'
  BY <1>15 DEF Decrement, Goto, TickleThen, schedVars, threadVars, timerVars, eventVars, idleVars, outerVars, budgets, HandInv, TypeOK, ReadyEvents
<1>16. ASSUME NEW t \in Threads, Triggered(t)
      PROVE  HandInv'
  BY <1>16 DEF Triggered, Goto, TickleThen, schedVars, threadVars, timerVars, eventVars, idleVars, outerVars, budgets, HandInv, TypeOK, ReadyEvents
<1>17. ASSUME NEW t \in Threads, Spawn(t)
      PROVE  HandInv'
  BY <1>17 DEF Spawn, Goto, TickleThen, schedVars, threadVars, timerVars, eventVars, idleVars, outerVars, budgets, HandInv, TypeOK, ReadyEvents
<1>18. ASSUME NEW t \in Threads, Interrupt(t)
      PROVE  HandInv'
  BY <1>18 DEF Interrupt, Goto, TickleThen, schedVars, threadVars, timerVars, eventVars, idleVars, outerVars, budgets, HandInv, TypeOK, ReadyEvents
<1>19. ASSUME NEW t \in Threads, NEW e \in Events, Trigger(t, e)
      PROVE  HandInv'
  BY <1>19 DEF Trigger, Goto, TickleThen, schedVars, threadVars, timerVars, eventVars, idleVars, outerVars, budgets, HandInv, TypeOK, ReadyEvents
<1>20. ASSUME NEW t \in Threads, NEW e \in Events, AddEvent(t, e)
      PROVE  HandInv'
  BY <1>20 DEF AddEvent, Goto, TickleThen, schedVars, threadVars, timerVars, eventVars, idleVars, outerVars, budgets, HandInv, TypeOK, ReadyEvents
<1>21. ASSUME NEW t \in Threads, NEW i \in Timers, CancelTimer(t, i)
      PROVE  HandInv'
  BY <1>21 DEF CancelTimer, Goto, TickleThen, schedVars, threadVars, timerVars, eventVars, idleVars, outerVars, budgets, HandInv, TypeOK, ReadyEvents
<1>22. ASSUME NEW t \in Threads, NEW i \in Timers, NEW ms \in Delays, AddTimer(t, i, ms)
      PROVE  HandInv'
  BY <1>22 DEF AddTimer, Goto, TickleThen, schedVars, threadVars, timerVars, eventVars, idleVars, outerVars, budgets, HandInv, TypeOK, ReadyEvents
<1>23. CASE StopBegin
  BY <1>23 DEF StopBegin, schedVars, threadVars, timerVars, eventVars, idleVars, outerVars, budgets, HandInv, TypeOK
<1>24. CASE StopTickle
  BY <1>24 DEF StopTickle, schedVars, threadVars, timerVars, eventVars, idleVars, outerVars, budgets, HandInv, TypeOK
<1>25. CASE ExternalSubmit
  BY <1>25 DEF ExternalSubmit, schedVars, threadVars, timerVars, eventVars, idleVars, outerVars, budgets, HandInv, TypeOK
<1>26. CASE ExternalTickle
  BY <1>26 DEF ExternalTickle, schedVars, threadVars, timerVars, eventVars, idleVars, outerVars, budgets, HandInv, TypeOK
<1>27. ASSUME NEW e \in Events, EventReady(e)
      PROVE  HandInv'
  BY <1>27 DEF EventReady, schedVars, threadVars, timerVars, eventVars, idleVars, outerVars, budgets, HandInv, TypeOK
<1>28. CASE Tick
  BY <1>28 DEF Tick, schedVars, threadVars, timerVars, eventVars, idleVars, outerVars, budgets, HandInv, TypeOK
<1>29. QED
  BY <1>1, <1>2, <1>3, <1>4, <1>5, <1>6, <1>7, <1>8, <1>9, <1>10, <1>11, <1>12, <1>13, <1>14, <1>15, <1>16, <1>17, <1>18, <1>19, <1>20, <1>21, <1>22, <1>23, <1>24, <1>25, <1>26, <1>27, <1>28 DEF Next, ThreadStep, TaskStep

\* Somebody looks at the queue.
LEMMA QueueStep ==
    ASSUME IInv, [Next]_vars
    PROVE  QueueInv'
<1> TypeOK /\ QueueInv /\ HandInv  BY DEF IInv
<1> externals \in Nat /\ queue \in Nat  BY Numbers
<1>1. CASE UNCHANGED vars
  BY <1>1 DEF vars, schedVars, threadVars, timerVars, eventVars, idleVars, outerVars, budgets, QueueInv, Looking, TypeOK
<1>2. ASSUME NEW t \in Threads, Tickle(t)
      PROVE  QueueInv'
  BY <1>2 DEF Tickle, Goto, TickleThen, schedVars, threadVars, timerVars, eventVars, idleVars, outerVars, budgets, QueueInv, Looking, HandInv, TypeOK
<1>3. ASSUME NEW t \in Threads, Take(t)
      PROVE  QueueInv'
  BY <1>3 DEF Take, Goto, TickleThen, schedVars, threadVars, timerVars, eventVars, idleVars, outerVars, budgets, QueueInv, Looking, HandInv, TypeOK
<1>4. ASSUME NEW t \in Threads, FindNoTask(t)
      PROVE  QueueInv'
  BY <1>4 DEF FindNoTask, Goto, TickleThen, schedVars, threadVars, timerVars, eventVars, idleVars, outerVars, budgets, QueueInv, Looking, HandInv, TypeOK
<1>5. ASSUME NEW t \in Threads, EnterIdle(t)
      PROVE  QueueInv'
  BY <1>5 DEF EnterIdle, Goto, TickleThen, schedVars, threadVars, timerVars, eventVars, idleVars, outerVars, budgets, QueueInv, Looking, HandInv, TypeOK
<1>6. ASSUME NEW t \in Threads, LeaveIdle(t)
      PROVE  QueueInv'
  BY <1>6 DEF LeaveIdle, Goto, TickleThen, schedVars, threadVars, timerVars, eventVars, idleVars, outerVars, budgets, QueueInv, Looking, HandInv, TypeOK
<1>7. ASSUME NEW t \in Threads, EndTask(t)
      PROVE  QueueInv'
  BY <1>7 DEF EndTask, Goto, TickleThen, schedVars, threadVars, timerVars, eventVars, idleVars, outerVars, budgets, QueueInv, Looking, HandInv, TypeOK
<1>8. ASSUME NEW t \in Threads, NextTimer(t)
      PROVE  QueueInv'
  BY <1>8 DEF NextTimer, Goto, TickleThen, schedVars, threadVars, timerVars, eventVars, idleVars, outerVars, budgets, QueueInv, Looking, HandInv, TypeOK
<1>9. ASSUME NEW t \in Threads, CheckPending(t)
      PROVE  QueueInv'
  BY <1>9 DEF CheckPending, Goto, TickleThen, schedVars, threadVars, timerVars, eventVars, idleVars, outerVars, budgets, QueueInv, Looking, HandInv, TypeOK
<1>10. ASSUME NEW t \in Threads, CheckSched(t)
      PROVE  QueueInv'
  BY <1>10 DEF CheckSched, Goto, TickleThen, schedVars, threadVars, timerVars, eventVars, idleVars, outerVars, budgets, QueueInv, Looking, HandInv, TypeOK
<1>11. ASSUME NEW t \in Threads, Wake(t)
      PROVE  QueueInv'
  BY <1>11 DEF Wake, Goto, TickleThen, schedVars, threadVars, timerVars, eventVars, idleVars, outerVars, budgets, QueueInv, Looking, HandInv, TypeOK
<1>12. ASSUME NEW t \in Threads, Expire(t)
      PROVE  QueueInv'
  BY <1>12 DEF Expire, Goto, TickleThen, schedVars, threadVars, timerVars, eventVars, idleVars, outerVars, budgets, QueueInv, Looking, HandInv, TypeOK
<1>13. ASSUME NEW t \in Threads, Post(t)
      PROVE  QueueInv'
  BY <1>13 DEF Post, Goto, TickleThen, schedVars, threadVars, timerVars, eventVars, idleVars, outerVars, budgets, QueueInv, Looking, HandInv, TypeOK
<1>14. ASSUME NEW t \in Threads, Posted(t)
      PROVE  QueueInv'
  BY <1>14 DEF Posted, Goto, TickleThen, schedVars, threadVars, timerVars, eventVars, idleVars, outerVars, budgets, QueueInv, Looking, HandInv, TypeOK
<1>15. ASSUME NEW t \in Threads, Decrement(t)
      PROVE  QueueInv'
  BY <1>15 DEF Decrement, Goto, TickleThen, schedVars, threadVars, timerVars, eventVars, idleVars, outerVars, budgets, QueueInv, Looking, HandInv, TypeOK
<1>16. ASSUME NEW t \in Threads, Triggered(t)
      PROVE  QueueInv'
  BY <1>16 DEF Triggered, Goto, TickleThen, schedVars, threadVars, timerVars, eventVars, idleVars, outerVars, budgets, QueueInv, Looking, HandInv, TypeOK
<1>17. ASSUME NEW t \in Threads, Spawn(t)
      PROVE  QueueInv'
  BY <1>17 DEF Spawn, Goto, TickleThen, schedVars, threadVars, timerVars, eventVars, idleVars, outerVars, budgets, QueueInv, Looking, HandInv, TypeOK
<1>18. ASSUME NEW t \in Threads, Interrupt(t)
      PROVE  QueueInv'
  BY <1>18 DEF Interrupt, Goto, TickleThen, schedVars, threadVars, timerVars, eventVars, idleVars, outerVars, budgets, QueueInv, Looking, HandInv, TypeOK
<1>19. ASSUME NEW t \in Threads, NEW e \in Events, Trigger(t, e)
      PROVE  QueueInv'
  BY <1>19 DEF Trigger, Goto, TickleThen, schedVars, threadVars, timerVars, eventVars, idleVars, outerVars, budgets, QueueInv, Looking, HandInv, TypeOK
<1>20. ASSUME NEW t \in Threads, NEW e \in Events, AddEvent(t, e)
      PROVE  QueueInv'
  BY <1>20 DEF AddEvent, Goto, TickleThen, schedVars, threadVars, timerVars, eventVars, idleVars, outerVars, budgets, QueueInv, Looking, HandInv, TypeOK
<1>21. ASSUME NEW t \in Threads, NEW i \in Timers, CancelTimer(t, i)
      PROVE  QueueInv'
  BY <1>21 DEF CancelTimer, Goto, TickleThen, schedVars, threadVars, timerVars, eventVars, idleVars, outerVars, budgets, QueueInv, Looking, HandInv, TypeOK
<1>22. ASSUME NEW t \in Threads, NEW i \in Timers, NEW ms \in Delays, AddTimer(t, i, ms)
      PROVE  QueueInv'
  BY <1>22 DEF AddTimer, Goto, TickleThen, schedVars, threadVars, timerVars, eventVars, idleVars, outerVars, budgets, QueueInv, Looking, HandInv, TypeOK
<1>23. CASE StopBegin
  BY <1>23 DEF StopBegin, schedVars, threadVars, timerVars, eventVars, idleVars, outerVars, budgets, QueueInv, Looking, TypeOK
<1>24. CASE StopTickle
  BY <1>24 DEF StopTickle, schedVars, threadVars, timerVars, eventVars, idleVars, outerVars, budgets, QueueInv, Looking, TypeOK
<1>25. CASE ExternalSubmit
  BY <1>25 DEF ExternalSubmit, schedVars, threadVars, timerVars, eventVars, idleVars, outerVars, budgets, QueueInv, Looking, TypeOK
<1>26. CASE ExternalTickle
  BY <1>26 DEF ExternalTickle, schedVars, threadVars, timerVars, eventVars, idleVars, outerVars, budgets, QueueInv, Looking, TypeOK
<1>27. ASSUME NEW e \in Events, EventReady(e)
      PROVE  QueueInv'
  BY <1>27 DEF EventReady, schedVars, threadVars, timerVars, eventVars, idleVars, outerVars, budgets, QueueInv, Looking, TypeOK
<1>28. CASE Tick
  BY <1>28 DEF Tick, schedVars, threadVars, timerVars, eventVars, idleVars, outerVars, budgets, QueueInv, Looking, TypeOK
<1>29. QED
  BY <1>1, <1>2, <1>3, <1>4, <1>5, <1>6, <1>7, <1>8, <1>9, <1>10, <1>11, <1>12, <1>13, <1>14, <1>15, <1>16, <1>17, <1>18, <1>19, <1>20, <1>21, <1>22, <1>23, <1>24, <1>25, <1>26, <1>27, <1>28 DEF Next, ThreadStep, TaskStep

\* The last thread leaves no task.
LEMMA ExitStep ==
    ASSUME IInv, [Next]_vars
    PROVE  ExitInv'
<1> TypeOK /\ ExitInv /\ HandInv  BY DEF IInv
<1> USE IdleAssumption
<1>1. CASE UNCHANGED vars
  BY <1>1 DEF vars, schedVars, threadVars, timerVars, eventVars, idleVars, outerVars, budgets, ExitInv, AllExited, TypeOK
<1>2. ASSUME NEW t \in Threads, Tickle(t)
      PROVE  ExitInv'
  BY <1>2 DEF Tickle, Goto, TickleThen, schedVars, threadVars, timerVars, eventVars, idleVars, outerVars, budgets, ExitInv, AllExited, HandInv, TypeOK
<1>3. ASSUME NEW t \in Threads, Take(t)
      PROVE  ExitInv'
  BY <1>3 DEF Take, Goto, TickleThen, schedVars, threadVars, timerVars, eventVars, idleVars, outerVars, budgets, ExitInv, AllExited, HandInv, TypeOK
<1>4. ASSUME NEW t \in Threads, FindNoTask(t)
      PROVE  ExitInv'
  BY <1>4 DEF FindNoTask, Goto, TickleThen, schedVars, threadVars, timerVars, eventVars, idleVars, outerVars, budgets, ExitInv, AllExited, HandInv, TypeOK
<1>5. ASSUME NEW t \in Threads, EnterIdle(t)
      PROVE  ExitInv'
  BY <1>5 DEF EnterIdle, Goto, TickleThen, schedVars, threadVars, timerVars, eventVars, idleVars, outerVars, budgets, ExitInv, AllExited, HandInv, TypeOK
<1>6. ASSUME NEW t \in Threads, LeaveIdle(t)
      PROVE  ExitInv'
  BY <1>6 DEF LeaveIdle, Goto, TickleThen, schedVars, threadVars, timerVars, eventVars, idleVars, outerVars, budgets, ExitInv, AllExited, HandInv, TypeOK
<1>7. ASSUME NEW t \in Threads, EndTask(t)
      PROVE  ExitInv'
  BY <1>7 DEF EndTask, Goto, TickleThen, schedVars, threadVars, timerVars, eventVars, idleVars, outerVars, budgets, ExitInv, AllExited, HandInv, TypeOK
<1>8. ASSUME NEW t \in Threads, NextTimer(t)
      PROVE  ExitInv'
  BY <1>8 DEF NextTimer, Goto, TickleThen, schedVars, threadVars, timerVars, eventVars, idleVars, outerVars, budgets, ExitInv, AllExited, HandInv, TypeOK
<1>9. ASSUME NEW t \in Threads, CheckPending(t)
      PROVE  ExitInv'
  BY <1>9 DEF CheckPending, Goto, TickleThen, schedVars, threadVars, timerVars, eventVars, idleVars, outerVars, budgets, ExitInv, AllExited, HandInv, TypeOK
<1>10. ASSUME NEW t \in Threads, CheckSched(t)
      PROVE  ExitInv'
  BY <1>10 DEF CheckSched, Goto, TickleThen, schedVars, threadVars, timerVars, eventVars, idleVars, outerVars, budgets, ExitInv, AllExited, HandInv, TypeOK
<1>11. ASSUME NEW t \in Threads, Wake(t)
      PROVE  ExitInv'
  BY <1>11 DEF Wake, Goto, TickleThen, schedVars, threadVars, timerVars, eventVars, idleVars, outerVars, budgets, ExitInv, AllExited, HandInv, TypeOK
<1>12. ASSUME NEW t \in Threads, Expire(t)
      PROVE  ExitInv'
  BY <1>12 DEF Expire, Goto, TickleThen, schedVars, threadVars, timerVars, eventVars, idleVars, outerVars, budgets, ExitInv, AllExited, HandInv, TypeOK
<1>13. ASSUME NEW t \in Threads, Post(t)
      PROVE  ExitInv'
  BY <1>13 DEF Post, Goto, TickleThen, schedVars, threadVars, timerVars, eventVars, idleVars, outerVars, budgets, ExitInv, AllExited, HandInv, TypeOK
<1>14. ASSUME NEW t \in Threads, Posted(t)
      PROVE  ExitInv'
  BY <1>14 DEF Posted, Goto, TickleThen, schedVars, threadVars, timerVars, eventVars, idleVars, outerVars, budgets, ExitInv, AllExited, HandInv, TypeOK
<1>15. ASSUME NEW t \in Threads, Decrement(t)
      PROVE  ExitInv'
  BY <1>15 DEF Decrement, Goto, TickleThen, schedVars, threadVars, timerVars, eventVars, idleVars, outerVars, budgets, ExitInv, AllExited, HandInv, TypeOK
<1>16. ASSUME NEW t \in Threads, Triggered(t)
      PROVE  ExitInv'
  BY <1>16 DEF Triggered, Goto, TickleThen, schedVars, threadVars, timerVars, eventVars, idleVars, outerVars, budgets, ExitInv, AllExited, HandInv, TypeOK
<1>17. ASSUME NEW t \in Threads, Spawn(t)
      PROVE  ExitInv'
  BY <1>17 DEF Spawn, Goto, TickleThen, schedVars, threadVars, timerVars, eventVars, idleVars, outerVars, budgets, ExitInv, AllExited, HandInv, TypeOK
<1>18. ASSUME NEW t \in Threads, Interrupt(t)
      PROVE  ExitInv'
  BY <1>18 DEF Interrupt, Goto, TickleThen, schedVars, threadVars, timerVars, eventVars, idleVars, outerVars, budgets, ExitInv, AllExited, HandInv, TypeOK
<1>19. ASSUME NEW t \in Threads, NEW e \in Events, Trigger(t, e)
      PROVE  ExitInv'
  BY <1>19 DEF Trigger, Goto, TickleThen, schedVars, threadVars, timerVars, eventVars, idleVars, outerVars, budgets, ExitInv, AllExited, HandInv, TypeOK
<1>20. ASSUME NEW t \in Threads, NEW e \in Events, AddEvent(t, e)
      PROVE  ExitInv'
  BY <1>20 DEF AddEvent, Goto, TickleThen, schedVars, threadVars, timerVars, eventVars, idleVars, outerVars, budgets, ExitInv, AllExited, HandInv, TypeOK
<1>21. ASSUME NEW t \in Threads, NEW i \in Timers, CancelTimer(t, i)
      PROVE  ExitInv'
  BY <1>21 DEF CancelTimer, Goto, TickleThen, schedVars, threadVars, timerVars, eventVars, idleVars, outerVars, budgets, ExitInv, AllExited, HandInv, TypeOK
<1>22. ASSUME NEW t \in Threads, NEW i \in Timers, NEW ms \in Delays, AddTimer(t, i, ms)
      PROVE  ExitInv'
  BY <1>22 DEF AddTimer, Goto, TickleThen, schedVars, threadVars, timerVars, eventVars, idleVars, outerVars, budgets, ExitInv, AllExited, HandInv, TypeOK
<1>23. CASE StopBegin
  BY <1>23 DEF StopBegin, schedVars, threadVars, timerVars, eventVars, idleVars, outerVars, budgets, ExitInv, AllExited, TypeOK
<1>24. CASE StopTickle
  BY <1>24 DEF StopTickle, schedVars, threadVars, timerVars, eventVars, idleVars, outerVars, budgets, ExitInv, AllExited, TypeOK
<1>25. CASE ExternalSubmit
  BY <1>25 DEF ExternalSubmit, schedVars, threadVars, timerVars, eventVars, idleVars, outerVars, budgets, ExitInv, AllExited, TypeOK
<1>26. CASE ExternalTickle
  BY <1>26 DEF ExternalTickle, schedVars, threadVars, timerVars, eventVars, idleVars, outerVars, budgets, ExitInv, AllExited, TypeOK
<1>27. ASSUME NEW e \in Events, EventReady(e)
      PROVE  ExitInv'
  BY <1>27 DEF EventReady, schedVars, threadVars, timerVars, eventVars, idleVars, outerVars, budgets, ExitInv, AllExited, TypeOK
<1>28. CASE Tick
  BY <1>28 DEF Tick, schedVars, threadVars, timerVars, eventVars, idleVars, outerVars, budgets, ExitInv, AllExited, TypeOK
<1>29. QED
  BY <1>1, <1>2, <1>3, <1>4, <1>5, <1>6, <1>7, <1>8, <1>9, <1>10, <1>11, <1>12, <1>13, <1>14, <1>15, <1>16, <1>17, <1>18, <1>19, <1>20, <1>21, <1>22, <1>23, <1>24, <1>25, <1>26, <1>27, <1>28 DEF Next, ThreadStep, TaskStep

\* The types.
LEMMA TypeStep ==
    ASSUME IInv, [Next]_vars
    PROVE  TypeOK'
<1> TypeOK /\ HandInv  BY DEF IInv
<1> USE IdleAssumption
<1>70. active' \in Nat /\ idle' \in Nat /\ pending' \in Nat
  <2>1. CountInv'  BY CountStep
  <2>2. /\ IsFiniteSet(ActiveThreads') /\ IsFiniteSet(IdleThreads') /\ IsFiniteSet(OwingThreads')
        /\ IsFiniteSet(On')
    BY <2>1, FS_Subset DEF CountInv, ActiveThreads, IdleThreads, OwingThreads
  <2>3. /\ Cardinality(ActiveThreads') \in Nat /\ Cardinality(IdleThreads') \in Nat
        /\ Cardinality(OwingThreads') \in Nat /\ Cardinality(On') \in Nat
    BY <2>2, FS_CardinalityType
  <2>4. QED  BY <2>1, <2>3 DEF CountInv
<1>1. CASE UNCHANGED vars
  BY <1>1, <1>70 DEF vars, Goto, TickleThen, schedVars, threadVars, timerVars, eventVars, idleVars, outerVars, budgets, TypeOK, Points
<1>2. ASSUME NEW t \in Threads, Tickle(t)
      PROVE  TypeOK'
  BY <1>2, <1>70 DEF Tickle, Goto, TickleThen, schedVars, threadVars, timerVars, eventVars, idleVars, outerVars, budgets, TypeOK, Points
<1>3. ASSUME NEW t \in Threads, Take(t)
      PROVE  TypeOK'
  BY <1>3, <1>70 DEF Take, Goto, TickleThen, schedVars, threadVars, timerVars, eventVars, idleVars, outerVars, budgets, TypeOK, Points
<1>4. ASSUME NEW t \in Threads, FindNoTask(t)
      PROVE  TypeOK'
  BY <1>4, <1>70 DEF FindNoTask, Goto, TickleThen, schedVars, threadVars, timerVars, eventVars, idleVars, outerVars, budgets, TypeOK, Points
<1>5. ASSUME NEW t \in Threads, EnterIdle(t)
      PROVE  TypeOK'
  BY <1>5, <1>70 DEF EnterIdle, Goto, TickleThen, schedVars, threadVars, timerVars, eventVars, idleVars, outerVars, budgets, TypeOK, Points
<1>6. ASSUME NEW t \in Threads, LeaveIdle(t)
      PROVE  TypeOK'
  BY <1>6, <1>70 DEF LeaveIdle, Goto, TickleThen, schedVars, threadVars, timerVars, eventVars, idleVars, outerVars, budgets, TypeOK, Points
<1>7. ASSUME NEW t \in Threads, EndTask(t)
      PROVE  TypeOK'
  BY <1>7, <1>70 DEF EndTask, Goto, TickleThen, schedVars, threadVars, timerVars, eventVars, idleVars, outerVars, budgets, TypeOK, Points
<1>8. ASSUME NEW t \in Threads, NextTimer(t)
      PROVE  TypeOK'
  BY <1>8, <1>70 DEF NextTimer, Goto, TickleThen, schedVars, threadVars, timerVars, eventVars, idleVars, outerVars, budgets, TypeOK, Points
<1>9. ASSUME NEW t \in Threads, CheckPending(t)
      PROVE  TypeOK'
  BY <1>9, <1>70 DEF CheckPending, Goto, TickleThen, schedVars, threadVars, timerVars, eventVars, idleVars, outerVars, budgets, TypeOK, Points
<1>10. ASSUME NEW t \in Threads, CheckSched(t)
      PROVE  TypeOK'
  BY <1>10, <1>70 DEF CheckSched, Goto, TickleThen, schedVars, threadVars, timerVars, eventVars, idleVars, outerVars, budgets, TypeOK, Points
<1>11. ASSUME NEW t \in Threads, Wake(t)
      PROVE  TypeOK'
  <2>1. got' \in [Threads -> SUBSET Events]  BY <1>11 DEF Wake, ReadyEvents, TypeOK
  <2>2. estate' \in [Events -> {"off", "armed", "ready", "taken"}]  BY <1>11 DEF Wake, ReadyEvents, TypeOK
  <2>3. sleep' \in [Threads -> Timeouts]  BY <1>11 DEF Wake, TypeOK, Timeouts
  <2>4. pc' \in [Threads -> Points] /\ ret' = ret  BY <1>11 DEF Wake, Goto, Points, TypeOK
  <2>5. QED  BY <1>11, <1>70, <2>1, <2>2, <2>3, <2>4 DEF Wake, schedVars, threadVars, timerVars, eventVars, idleVars, outerVars, budgets, TypeOK
<1>12. ASSUME NEW t \in Threads, Expire(t)
      PROVE  TypeOK'
  <2>1. PICK due \in SUBSET {i \in armed : left[i] <= 0} :
           armed' = armed \ due /\ cbs' = [cbs EXCEPT ![t] = Cardinality(due)]
    BY <1>12 DEF Expire
  <2>2. IsFiniteSet(due)  BY IdleAssumption, FS_Subset DEF TypeOK
  <2>3. Cardinality(due) \in Nat  BY <2>2, FS_CardinalityType
  <2>4. QED  BY <1>12, <1>70, <2>1, <2>3 DEF Expire, Goto, schedVars, threadVars, timerVars, eventVars, idleVars, outerVars, budgets, TypeOK, Points
<1>13. ASSUME NEW t \in Threads, Post(t)
      PROVE  TypeOK'
  BY <1>13, <1>70 DEF Post, Goto, TickleThen, schedVars, threadVars, timerVars, eventVars, idleVars, outerVars, budgets, TypeOK, Points
<1>14. ASSUME NEW t \in Threads, Posted(t)
      PROVE  TypeOK'
  BY <1>14, <1>70 DEF Posted, Goto, TickleThen, schedVars, threadVars, timerVars, eventVars, idleVars, outerVars, budgets, TypeOK, Points
<1>15. ASSUME NEW t \in Threads, Decrement(t)
      PROVE  TypeOK'
  BY <1>15, <1>70 DEF Decrement, Goto, TickleThen, schedVars, threadVars, timerVars, eventVars, idleVars, outerVars, budgets, TypeOK, Points
<1>16. ASSUME NEW t \in Threads, Triggered(t)
      PROVE  TypeOK'
  BY <1>16, <1>70 DEF Triggered, Goto, TickleThen, schedVars, threadVars, timerVars, eventVars, idleVars, outerVars, budgets, TypeOK, Points
<1>17. ASSUME NEW t \in Threads, Spawn(t)
      PROVE  TypeOK'
  BY <1>17, <1>70 DEF Spawn, Goto, TickleThen, schedVars, threadVars, timerVars, eventVars, idleVars, outerVars, budgets, TypeOK, Points
<1>18. ASSUME NEW t \in Threads, Interrupt(t)
      PROVE  TypeOK'
  BY <1>18, <1>70 DEF Interrupt, Again, Timeouts, Goto, TickleThen, schedVars, threadVars, timerVars, eventVars, idleVars, outerVars, budgets, TypeOK, Points
<1>19. ASSUME NEW t \in Threads, NEW e \in Events, Trigger(t, e)
      PROVE  TypeOK'
  BY <1>19, <1>70 DEF Trigger, Goto, TickleThen, schedVars, threadVars, timerVars, eventVars, idleVars, outerVars, budgets, TypeOK, Points
<1>20. ASSUME NEW t \in Threads, NEW e \in Events, AddEvent(t, e)
      PROVE  TypeOK'
  BY <1>20, <1>70 DEF AddEvent, Goto, TickleThen, schedVars, threadVars, timerVars, eventVars, idleVars, outerVars, budgets, TypeOK, Points
<1>21. ASSUME NEW t \in Threads, NEW i \in Timers, CancelTimer(t, i)
      PROVE  TypeOK'
  BY <1>21, <1>70 DEF CancelTimer, Goto, TickleThen, schedVars, threadVars, timerVars, eventVars, idleVars, outerVars, budgets, TypeOK, Points
<1>22. ASSUME NEW t \in Threads, NEW i \in Timers, NEW ms \in Delays, AddTimer(t, i, ms)
      PROVE  TypeOK'
  BY <1>22, <1>70 DEF AddTimer, Goto, TickleThen, schedVars, threadVars, timerVars, eventVars, idleVars, outerVars, budgets, TypeOK, Points
<1>23. CASE StopBegin
  <2>1. Cardinality(Threads) \in Nat  BY IdleAssumption, FS_CardinalityType
  <2>2. QED  BY <1>23, <1>70, <2>1 DEF StopBegin, schedVars, threadVars, timerVars, eventVars, idleVars, outerVars, budgets, TypeOK
<1>24. CASE StopTickle
  BY <1>24, <1>70 DEF StopTickle, Goto, TickleThen, schedVars, threadVars, timerVars, eventVars, idleVars, outerVars, budgets, TypeOK, Points
<1>25. CASE ExternalSubmit
  BY <1>25, <1>70 DEF ExternalSubmit, Goto, TickleThen, schedVars, threadVars, timerVars, eventVars, idleVars, outerVars, budgets, TypeOK, Points
<1>26. CASE ExternalTickle
  BY <1>26, <1>70 DEF ExternalTickle, Goto, TickleThen, schedVars, threadVars, timerVars, eventVars, idleVars, outerVars, budgets, TypeOK, Points
<1>27. ASSUME NEW e \in Events, EventReady(e)
      PROVE  TypeOK'
  BY <1>27, <1>70 DEF EventReady, Goto, TickleThen, schedVars, threadVars, timerVars, eventVars, idleVars, outerVars, budgets, TypeOK, Points
<1>28. CASE Tick
  BY <1>28, <1>70 DEF Tick, Timeouts, Goto, TickleThen, schedVars, threadVars, timerVars, eventVars, idleVars, outerVars, budgets, TypeOK, Points
<1>29. QED
  BY <1>1, <1>2, <1>3, <1>4, <1>5, <1>6, <1>7, <1>8, <1>9, <1>10, <1>11, <1>12, <1>13, <1>14, <1>15, <1>16, <1>17, <1>18, <1>19, <1>20, <1>21, <1>22, <1>23, <1>24, <1>25, <1>26, <1>27, <1>28 DEF Next, ThreadStep, TaskStep

\* A longer time to the timer never makes a shorter wait, if it is an int.
LEMMA ClipMonotone ==
    ASSUME NEW m \in Int, NEW n \in Int, m <= n, n <= IntMax
    PROVE  Clip(m) <= Clip(n) /\ Clip(m) \in 0..MaxTimeout /\ Clip(n) \in 0..MaxTimeout
BY IdleAssumption DEF Clip, ToInt

\* Somebody wakes up in time, and m_tickled does not stay set.
LEMMA TimerStep ==
    ASSUME IInv, [Next]_vars
    PROVE  TimerInv'
<1> TypeOK /\ CountInv /\ HandInv /\ TimerInv  BY DEF IInv
<1>1. CASE UNCHANGED vars
  BY <1>1 DEF vars, schedVars, threadVars, timerVars, eventVars, idleVars, outerVars, budgets, TimerInv, Quiet, Announced, Fresh, Dozing, ReadyEvents
<1>2. ASSUME NEW t \in Threads, Tickle(t)
      PROVE  TimerInv'
  <2>1. ~Quiet'
    <3> SUFFICES ASSUME Quiet' PROVE FALSE  OBVIOUS
    <3>1. PICK u \in Threads : Dozing(u)'  BY DEF Quiet
    <3>2. Dozing(u)  BY <1>2, <3>1 DEF Tickle, Goto, schedVars, threadVars, timerVars, eventVars, idleVars, outerVars, budgets, Dozing, HandInv, TypeOK
    <3>3. idle > 0  BY <3>2, DozerCounts
    <3>4. edge'  BY <1>2, <3>3 DEF Tickle
    <3>5. QED  BY <3>4 DEF Quiet, Announced

  <2>2. \A u \in Threads : pc'[u] \in {"none", "next", "pend", "sched", "wait"} => ~term'[u]
    BY <1>2, IdleAssumption DEF Tickle, Goto, TickleThen, schedVars, threadVars, timerVars, eventVars, idleVars, outerVars, budgets, HandInv, TypeOK, TimerInv
  <2>3. \A j \in Timers : Within(left'[j])  BY <1>2, IdleAssumption DEF Tickle, schedVars, threadVars, timerVars, eventVars, idleVars, outerVars, budgets, TypeOK, TimerInv, Within
  <2>4. QED  BY <2>1, <2>2, <2>3 DEF TimerInv
<1>3. ASSUME NEW t \in Threads, Take(t)
      PROVE  TimerInv'
  <2>1. ASSUME Quiet' PROVE Quiet
    BY <1>3, <2>1 DEF Take, Goto, TickleThen, schedVars, threadVars, timerVars, eventVars, idleVars, outerVars, budgets, Quiet, Announced, Fresh, Dozing, ReadyEvents, HandInv, TypeOK, TimerInv

  <2>2. \A u \in Threads : pc'[u] \in {"none", "next", "pend", "sched", "wait"} => ~term'[u]
    BY <1>3, IdleAssumption DEF Take, Goto, TickleThen, schedVars, threadVars, timerVars, eventVars, idleVars, outerVars, budgets, HandInv, TypeOK, TimerInv
  <2>3. \A j \in Timers : Within(left'[j])  BY <1>3, IdleAssumption DEF Take, schedVars, threadVars, timerVars, eventVars, idleVars, outerVars, budgets, TypeOK, TimerInv, Within

  <2>4. tickled' = tickled /\ interrupts' = interrupts /\ armed' \subseteq armed /\ left' = left
    BY <1>3 DEF Take, schedVars, threadVars, timerVars, eventVars, idleVars, outerVars, budgets
  <2>5. \A u \in Threads : pc[u] = "wait" /\ Quiet' => pc'[u] = "wait" /\ sleep'[u] = sleep[u]
    BY <1>3 DEF Take, Goto, TickleThen, schedVars, threadVars, timerVars, eventVars, idleVars, outerVars, budgets, Quiet, Announced, Fresh, Dozing, TypeOK
  <2>6. QED  BY <2>1, <2>2, <2>3, <2>4, <2>5 DEF TimerInv
<1>4. ASSUME NEW t \in Threads, FindNoTask(t)
      PROVE  TimerInv'
  <2>1. ASSUME Quiet' PROVE Quiet
    BY <1>4, <2>1 DEF FindNoTask, Goto, TickleThen, schedVars, threadVars, timerVars, eventVars, idleVars, outerVars, budgets, Quiet, Announced, Fresh, Dozing, ReadyEvents, HandInv, TypeOK, TimerInv

  <2>2. \A u \in Threads : pc'[u] \in {"none", "next", "pend", "sched", "wait"} => ~term'[u]
    BY <1>4, IdleAssumption DEF FindNoTask, Goto, TickleThen, schedVars, threadVars, timerVars, eventVars, idleVars, outerVars, budgets, HandInv, TypeOK, TimerInv
  <2>3. \A j \in Timers : Within(left'[j])  BY <1>4, IdleAssumption DEF FindNoTask, schedVars, threadVars, timerVars, eventVars, idleVars, outerVars, budgets, TypeOK, TimerInv, Within

  <2>4. tickled' = tickled /\ interrupts' = interrupts /\ armed' \subseteq armed /\ left' = left
    BY <1>4 DEF FindNoTask, schedVars, threadVars, timerVars, eventVars, idleVars, outerVars, budgets
  <2>5. \A u \in Threads : pc[u] = "wait" /\ Quiet' => pc'[u] = "wait" /\ sleep'[u] = sleep[u]
    BY <1>4 DEF FindNoTask, Goto, TickleThen, schedVars, threadVars, timerVars, eventVars, idleVars, outerVars, budgets, Quiet, Announced, Fresh, Dozing, TypeOK
  <2>6. QED  BY <2>1, <2>2, <2>3, <2>4, <2>5 DEF TimerInv
<1>5. ASSUME NEW t \in Threads, EnterIdle(t)
      PROVE  TimerInv'
  <2>1. ASSUME Quiet' PROVE Quiet
    BY <1>5, <2>1 DEF EnterIdle, Goto, TickleThen, schedVars, threadVars, timerVars, eventVars, idleVars, outerVars, budgets, Quiet, Announced, Fresh, Dozing, ReadyEvents, HandInv, TypeOK, TimerInv

  <2>2. \A u \in Threads : pc'[u] \in {"none", "next", "pend", "sched", "wait"} => ~term'[u]
    BY <1>5, IdleAssumption DEF EnterIdle, Goto, TickleThen, schedVars, threadVars, timerVars, eventVars, idleVars, outerVars, budgets, HandInv, TypeOK, TimerInv
  <2>3. \A j \in Timers : Within(left'[j])  BY <1>5, IdleAssumption DEF EnterIdle, schedVars, threadVars, timerVars, eventVars, idleVars, outerVars, budgets, TypeOK, TimerInv, Within

  <2>4. tickled' = tickled /\ interrupts' = interrupts /\ armed' \subseteq armed /\ left' = left
    BY <1>5 DEF EnterIdle, schedVars, threadVars, timerVars, eventVars, idleVars, outerVars, budgets
  <2>5. \A u \in Threads : pc[u] = "wait" /\ Quiet' => pc'[u] = "wait" /\ sleep'[u] = sleep[u]
    BY <1>5 DEF EnterIdle, Goto, TickleThen, schedVars, threadVars, timerVars, eventVars, idleVars, outerVars, budgets, Quiet, Announced, Fresh, Dozing, TypeOK
  <2>6. QED  BY <2>1, <2>2, <2>3, <2>4, <2>5 DEF TimerInv
<1>6. ASSUME NEW t \in Threads, LeaveIdle(t)
      PROVE  TimerInv'
  <2>1. ASSUME Quiet' PROVE Quiet
    BY <1>6, <2>1 DEF LeaveIdle, Goto, TickleThen, schedVars, threadVars, timerVars, eventVars, idleVars, outerVars, budgets, Quiet, Announced, Fresh, Dozing, ReadyEvents, HandInv, TypeOK, TimerInv

  <2>2. \A u \in Threads : pc'[u] \in {"none", "next", "pend", "sched", "wait"} => ~term'[u]
    BY <1>6, IdleAssumption DEF LeaveIdle, Goto, TickleThen, schedVars, threadVars, timerVars, eventVars, idleVars, outerVars, budgets, HandInv, TypeOK, TimerInv
  <2>3. \A j \in Timers : Within(left'[j])  BY <1>6, IdleAssumption DEF LeaveIdle, schedVars, threadVars, timerVars, eventVars, idleVars, outerVars, budgets, TypeOK, TimerInv, Within

  <2>4. tickled' = tickled /\ interrupts' = interrupts /\ armed' \subseteq armed /\ left' = left
    BY <1>6 DEF LeaveIdle, schedVars, threadVars, timerVars, eventVars, idleVars, outerVars, budgets
  <2>5. \A u \in Threads : pc[u] = "wait" /\ Quiet' => pc'[u] = "wait" /\ sleep'[u] = sleep[u]
    BY <1>6 DEF LeaveIdle, Goto, TickleThen, schedVars, threadVars, timerVars, eventVars, idleVars, outerVars, budgets, Quiet, Announced, Fresh, Dozing, TypeOK
  <2>6. QED  BY <2>1, <2>2, <2>3, <2>4, <2>5 DEF TimerInv
<1>7. ASSUME NEW t \in Threads, EndTask(t)
      PROVE  TimerInv'
  <2>1. ASSUME Quiet' PROVE Quiet
    BY <1>7, <2>1 DEF EndTask, Goto, TickleThen, schedVars, threadVars, timerVars, eventVars, idleVars, outerVars, budgets, Quiet, Announced, Fresh, Dozing, ReadyEvents, HandInv, TypeOK, TimerInv

  <2>2. \A u \in Threads : pc'[u] \in {"none", "next", "pend", "sched", "wait"} => ~term'[u]
    BY <1>7, IdleAssumption DEF EndTask, Goto, TickleThen, schedVars, threadVars, timerVars, eventVars, idleVars, outerVars, budgets, HandInv, TypeOK, TimerInv
  <2>3. \A j \in Timers : Within(left'[j])  BY <1>7, IdleAssumption DEF EndTask, schedVars, threadVars, timerVars, eventVars, idleVars, outerVars, budgets, TypeOK, TimerInv, Within

  <2>4. tickled' = tickled /\ interrupts' = interrupts /\ armed' \subseteq armed /\ left' = left
    BY <1>7 DEF EndTask, schedVars, threadVars, timerVars, eventVars, idleVars, outerVars, budgets
  <2>5. \A u \in Threads : pc[u] = "wait" /\ Quiet' => pc'[u] = "wait" /\ sleep'[u] = sleep[u]
    BY <1>7 DEF EndTask, Goto, TickleThen, schedVars, threadVars, timerVars, eventVars, idleVars, outerVars, budgets, Quiet, Announced, Fresh, Dozing, TypeOK
  <2>6. QED  BY <2>1, <2>2, <2>3, <2>4, <2>5 DEF TimerInv
<1>8. ASSUME NEW t \in Threads, NextTimer(t)
      PROVE  TimerInv'
  <2>2. \A u \in Threads : pc'[u] \in {"none", "next", "pend", "sched", "wait"} => ~term'[u]
    BY <1>8, IdleAssumption DEF NextTimer, Goto, TickleThen, schedVars, threadVars, timerVars, eventVars, idleVars, outerVars, budgets, HandInv, TypeOK, TimerInv
  <2>3. \A j \in Timers : Within(left'[j])  BY <1>8, IdleAssumption DEF NextTimer, schedVars, threadVars, timerVars, eventVars, idleVars, outerVars, budgets, TypeOK, TimerInv, Within

  <2>4. PICK ms \in Timeouts : Timeout(ms) /\ sleep' = [sleep EXCEPT ![t] = ms]  BY <1>8 DEF NextTimer
  <2>5. ~tickled' /\ armed' = armed /\ left' = left  BY <1>8 DEF NextTimer
  <2>6. ASSUME NEW i \in armed, InRange
        PROVE  \E u \in Threads : pc'[u] = "wait" /\ sleep'[u] \in 0..Clip(left[i])
    <3>1. PICK f \in armed : (\A j \in armed : left[f] <= left[j]) /\ ms = Clip(left[f])
      BY <2>4 DEF Timeout
    <3>2. left[f] \in Int /\ left[i] \in Int /\ left[f] <= left[i] /\ left[i] <= IntMax
      BY <2>6, <3>1 DEF TypeOK, TimerInv, Within
    <3>3. ms \in 0..Clip(left[i])  BY <3>1, <3>2, ClipMonotone, IdleAssumption
    <3>4. sleep'[t] = ms /\ pc'[t] = "wait"  BY <1>8, <2>4 DEF NextTimer, Goto, TypeOK
    <3>5. QED  BY <3>3, <3>4
  <2>7. QED  BY <2>2, <2>3, <2>5, <2>6 DEF TimerInv
<1>9. ASSUME NEW t \in Threads, CheckPending(t)
      PROVE  TimerInv'
  <2>1. ASSUME Quiet' PROVE Quiet
    BY <1>9, <2>1 DEF CheckPending, Goto, TickleThen, schedVars, threadVars, timerVars, eventVars, idleVars, outerVars, budgets, Quiet, Announced, Fresh, Dozing, ReadyEvents, HandInv, TypeOK, TimerInv

  <2>2. \A u \in Threads : pc'[u] \in {"none", "next", "pend", "sched", "wait"} => ~term'[u]
    BY <1>9, IdleAssumption DEF CheckPending, Goto, TickleThen, schedVars, threadVars, timerVars, eventVars, idleVars, outerVars, budgets, HandInv, TypeOK, TimerInv
  <2>3. \A j \in Timers : Within(left'[j])  BY <1>9, IdleAssumption DEF CheckPending, schedVars, threadVars, timerVars, eventVars, idleVars, outerVars, budgets, TypeOK, TimerInv, Within

  <2>4. tickled' = tickled /\ interrupts' = interrupts /\ armed' \subseteq armed /\ left' = left
    BY <1>9 DEF CheckPending, schedVars, threadVars, timerVars, eventVars, idleVars, outerVars, budgets
  <2>5. \A u \in Threads : pc[u] = "wait" /\ Quiet' => pc'[u] = "wait" /\ sleep'[u] = sleep[u]
    BY <1>9 DEF CheckPending, Goto, TickleThen, schedVars, threadVars, timerVars, eventVars, idleVars, outerVars, budgets, Quiet, Announced, Fresh, Dozing, TypeOK
  <2>6. QED  BY <2>1, <2>2, <2>3, <2>4, <2>5 DEF TimerInv
<1>10. ASSUME NEW t \in Threads, CheckSched(t)
      PROVE  TimerInv'
  <2>1. ASSUME Quiet' PROVE Quiet
    BY <1>10, <2>1 DEF CheckSched, Goto, TickleThen, schedVars, threadVars, timerVars, eventVars, idleVars, outerVars, budgets, Quiet, Announced, Fresh, Dozing, ReadyEvents, HandInv, TypeOK, TimerInv

  <2>2. \A u \in Threads : pc'[u] \in {"none", "next", "pend", "sched", "wait"} => ~term'[u]
    BY <1>10, IdleAssumption DEF CheckSched, Goto, TickleThen, schedVars, threadVars, timerVars, eventVars, idleVars, outerVars, budgets, HandInv, TypeOK, TimerInv
  <2>3. \A j \in Timers : Within(left'[j])  BY <1>10, IdleAssumption DEF CheckSched, schedVars, threadVars, timerVars, eventVars, idleVars, outerVars, budgets, TypeOK, TimerInv, Within

  <2>4. tickled' = tickled /\ interrupts' = interrupts /\ armed' \subseteq armed /\ left' = left
    BY <1>10 DEF CheckSched, schedVars, threadVars, timerVars, eventVars, idleVars, outerVars, budgets
  <2>5. \A u \in Threads : pc[u] = "wait" /\ Quiet' => pc'[u] = "wait" /\ sleep'[u] = sleep[u]
    BY <1>10 DEF CheckSched, Goto, TickleThen, schedVars, threadVars, timerVars, eventVars, idleVars, outerVars, budgets, Quiet, Announced, Fresh, Dozing, TypeOK
  <2>6. QED  BY <2>1, <2>2, <2>3, <2>4, <2>5 DEF TimerInv
<1>11. ASSUME NEW t \in Threads, Wake(t)
      PROVE  TimerInv'
  <2>1. ~Quiet'
    BY <1>11 DEF Wake, Goto, TickleThen, schedVars, threadVars, timerVars, eventVars, idleVars, outerVars, budgets, Quiet, Announced, Fresh, Dozing, ReadyEvents, HandInv, TypeOK, TimerInv

  <2>2. \A u \in Threads : pc'[u] \in {"none", "next", "pend", "sched", "wait"} => ~term'[u]
    BY <1>11, IdleAssumption DEF Wake, Goto, TickleThen, schedVars, threadVars, timerVars, eventVars, idleVars, outerVars, budgets, HandInv, TypeOK, TimerInv
  <2>3. \A j \in Timers : Within(left'[j])  BY <1>11, IdleAssumption DEF Wake, schedVars, threadVars, timerVars, eventVars, idleVars, outerVars, budgets, TypeOK, TimerInv, Within
  <2>4. QED  BY <2>1, <2>2, <2>3 DEF TimerInv
<1>12. ASSUME NEW t \in Threads, Expire(t)
      PROVE  TimerInv'
  <2>1. ASSUME Quiet' PROVE Quiet
    BY <1>12, <2>1 DEF Expire, Goto, TickleThen, schedVars, threadVars, timerVars, eventVars, idleVars, outerVars, budgets, Quiet, Announced, Fresh, Dozing, ReadyEvents, HandInv, TypeOK, TimerInv

  <2>2. \A u \in Threads : pc'[u] \in {"none", "next", "pend", "sched", "wait"} => ~term'[u]
    BY <1>12, IdleAssumption DEF Expire, Goto, TickleThen, schedVars, threadVars, timerVars, eventVars, idleVars, outerVars, budgets, HandInv, TypeOK, TimerInv
  <2>3. \A j \in Timers : Within(left'[j])  BY <1>12, IdleAssumption DEF Expire, schedVars, threadVars, timerVars, eventVars, idleVars, outerVars, budgets, TypeOK, TimerInv, Within

  <2>4. tickled' = tickled /\ interrupts' = interrupts /\ armed' \subseteq armed /\ left' = left
    BY <1>12 DEF Expire, schedVars, threadVars, timerVars, eventVars, idleVars, outerVars, budgets
  <2>5. \A u \in Threads : pc[u] = "wait" /\ Quiet' => pc'[u] = "wait" /\ sleep'[u] = sleep[u]
    BY <1>12 DEF Expire, Goto, TickleThen, schedVars, threadVars, timerVars, eventVars, idleVars, outerVars, budgets, Quiet, Announced, Fresh, Dozing, TypeOK
  <2>6. QED  BY <2>1, <2>2, <2>3, <2>4, <2>5 DEF TimerInv
<1>13. ASSUME NEW t \in Threads, Post(t)
      PROVE  TimerInv'
  <2>1. ASSUME Quiet' PROVE Quiet
    BY <1>13, <2>1 DEF Post, Goto, TickleThen, schedVars, threadVars, timerVars, eventVars, idleVars, outerVars, budgets, Quiet, Announced, Fresh, Dozing, ReadyEvents, HandInv, TypeOK, TimerInv

  <2>2. \A u \in Threads : pc'[u] \in {"none", "next", "pend", "sched", "wait"} => ~term'[u]
    BY <1>13, IdleAssumption DEF Post, Goto, TickleThen, schedVars, threadVars, timerVars, eventVars, idleVars, outerVars, budgets, HandInv, TypeOK, TimerInv
  <2>3. \A j \in Timers : Within(left'[j])  BY <1>13, IdleAssumption DEF Post, schedVars, threadVars, timerVars, eventVars, idleVars, outerVars, budgets, TypeOK, TimerInv, Within

  <2>4. tickled' = tickled /\ interrupts' = interrupts /\ armed' \subseteq armed /\ left' = left
    BY <1>13 DEF Post, schedVars, threadVars, timerVars, eventVars, idleVars, outerVars, budgets
  <2>5. \A u \in Threads : pc[u] = "wait" /\ Quiet' => pc'[u] = "wait" /\ sleep'[u] = sleep[u]
    BY <1>13 DEF Post, Goto, TickleThen, schedVars, threadVars, timerVars, eventVars, idleVars, outerVars, budgets, Quiet, Announced, Fresh, Dozing, TypeOK
  <2>6. QED  BY <2>1, <2>2, <2>3, <2>4, <2>5 DEF TimerInv
<1>14. ASSUME NEW t \in Threads, Posted(t)
      PROVE  TimerInv'
  <2>1. ASSUME Quiet' PROVE Quiet
    BY <1>14, <2>1 DEF Posted, Goto, TickleThen, schedVars, threadVars, timerVars, eventVars, idleVars, outerVars, budgets, Quiet, Announced, Fresh, Dozing, ReadyEvents, HandInv, TypeOK, TimerInv

  <2>2. \A u \in Threads : pc'[u] \in {"none", "next", "pend", "sched", "wait"} => ~term'[u]
    BY <1>14, IdleAssumption DEF Posted, Goto, TickleThen, schedVars, threadVars, timerVars, eventVars, idleVars, outerVars, budgets, HandInv, TypeOK, TimerInv
  <2>3. \A j \in Timers : Within(left'[j])  BY <1>14, IdleAssumption DEF Posted, schedVars, threadVars, timerVars, eventVars, idleVars, outerVars, budgets, TypeOK, TimerInv, Within

  <2>4. tickled' = tickled /\ interrupts' = interrupts /\ armed' \subseteq armed /\ left' = left
    BY <1>14 DEF Posted, schedVars, threadVars, timerVars, eventVars, idleVars, outerVars, budgets
  <2>5. \A u \in Threads : pc[u] = "wait" /\ Quiet' => pc'[u] = "wait" /\ sleep'[u] = sleep[u]
    BY <1>14 DEF Posted, Goto, TickleThen, schedVars, threadVars, timerVars, eventVars, idleVars, outerVars, budgets, Quiet, Announced, Fresh, Dozing, TypeOK
  <2>6. QED  BY <2>1, <2>2, <2>3, <2>4, <2>5 DEF TimerInv
<1>15. ASSUME NEW t \in Threads, Decrement(t)
      PROVE  TimerInv'
  <2>1. ASSUME Quiet' PROVE Quiet
    BY <1>15, <2>1 DEF Decrement, Goto, TickleThen, schedVars, threadVars, timerVars, eventVars, idleVars, outerVars, budgets, Quiet, Announced, Fresh, Dozing, ReadyEvents, HandInv, TypeOK, TimerInv

  <2>2. \A u \in Threads : pc'[u] \in {"none", "next", "pend", "sched", "wait"} => ~term'[u]
    BY <1>15, IdleAssumption DEF Decrement, Goto, TickleThen, schedVars, threadVars, timerVars, eventVars, idleVars, outerVars, budgets, HandInv, TypeOK, TimerInv
  <2>3. \A j \in Timers : Within(left'[j])  BY <1>15, IdleAssumption DEF Decrement, schedVars, threadVars, timerVars, eventVars, idleVars, outerVars, budgets, TypeOK, TimerInv, Within

  <2>4. tickled' = tickled /\ interrupts' = interrupts /\ armed' \subseteq armed /\ left' = left
    BY <1>15 DEF Decrement, schedVars, threadVars, timerVars, eventVars, idleVars, outerVars, budgets
  <2>5. \A u \in Threads : pc[u] = "wait" /\ Quiet' => pc'[u] = "wait" /\ sleep'[u] = sleep[u]
    BY <1>15 DEF Decrement, Goto, TickleThen, schedVars, threadVars, timerVars, eventVars, idleVars, outerVars, budgets, Quiet, Announced, Fresh, Dozing, TypeOK
  <2>6. QED  BY <2>1, <2>2, <2>3, <2>4, <2>5 DEF TimerInv
<1>16. ASSUME NEW t \in Threads, Triggered(t)
      PROVE  TimerInv'
  <2>1. ASSUME Quiet' PROVE Quiet
    BY <1>16, <2>1 DEF Triggered, Goto, TickleThen, schedVars, threadVars, timerVars, eventVars, idleVars, outerVars, budgets, Quiet, Announced, Fresh, Dozing, ReadyEvents, HandInv, TypeOK, TimerInv

  <2>2. \A u \in Threads : pc'[u] \in {"none", "next", "pend", "sched", "wait"} => ~term'[u]
    BY <1>16, IdleAssumption DEF Triggered, Goto, TickleThen, schedVars, threadVars, timerVars, eventVars, idleVars, outerVars, budgets, HandInv, TypeOK, TimerInv
  <2>3. \A j \in Timers : Within(left'[j])  BY <1>16, IdleAssumption DEF Triggered, schedVars, threadVars, timerVars, eventVars, idleVars, outerVars, budgets, TypeOK, TimerInv, Within

  <2>4. tickled' = tickled /\ interrupts' = interrupts /\ armed' \subseteq armed /\ left' = left
    BY <1>16 DEF Triggered, schedVars, threadVars, timerVars, eventVars, idleVars, outerVars, budgets
  <2>5. \A u \in Threads : pc[u] = "wait" /\ Quiet' => pc'[u] = "wait" /\ sleep'[u] = sleep[u]
    BY <1>16 DEF Triggered, Goto, TickleThen, schedVars, threadVars, timerVars, eventVars, idleVars, outerVars, budgets, Quiet, Announced, Fresh, Dozing, TypeOK
  <2>6. QED  BY <2>1, <2>2, <2>3, <2>4, <2>5 DEF TimerInv
<1>17. ASSUME NEW t \in Threads, Spawn(t)
      PROVE  TimerInv'
  <2>1. ASSUME Quiet' PROVE Quiet
    BY <1>17, <2>1 DEF Spawn, Goto, TickleThen, schedVars, threadVars, timerVars, eventVars, idleVars, outerVars, budgets, Quiet, Announced, Fresh, Dozing, ReadyEvents, HandInv, TypeOK, TimerInv

  <2>2. \A u \in Threads : pc'[u] \in {"none", "next", "pend", "sched", "wait"} => ~term'[u]
    BY <1>17, IdleAssumption DEF Spawn, Goto, TickleThen, schedVars, threadVars, timerVars, eventVars, idleVars, outerVars, budgets, HandInv, TypeOK, TimerInv
  <2>3. \A j \in Timers : Within(left'[j])  BY <1>17, IdleAssumption DEF Spawn, schedVars, threadVars, timerVars, eventVars, idleVars, outerVars, budgets, TypeOK, TimerInv, Within

  <2>4. tickled' = tickled /\ interrupts' = interrupts /\ armed' \subseteq armed /\ left' = left
    BY <1>17 DEF Spawn, schedVars, threadVars, timerVars, eventVars, idleVars, outerVars, budgets
  <2>5. \A u \in Threads : pc[u] = "wait" /\ Quiet' => pc'[u] = "wait" /\ sleep'[u] = sleep[u]
    BY <1>17 DEF Spawn, Goto, TickleThen, schedVars, threadVars, timerVars, eventVars, idleVars, outerVars, budgets, Quiet, Announced, Fresh, Dozing, TypeOK
  <2>6. QED  BY <2>1, <2>2, <2>3, <2>4, <2>5 DEF TimerInv
<1>18. ASSUME NEW t \in Threads, Interrupt(t)
      PROVE  TimerInv'
  <2>1. ASSUME Quiet' PROVE Quiet
    BY <1>18, <2>1 DEF Interrupt, Goto, TickleThen, schedVars, threadVars, timerVars, eventVars, idleVars, outerVars, budgets, Quiet, Announced, Fresh, Dozing, ReadyEvents, HandInv, TypeOK, TimerInv

  <2>2. \A u \in Threads : pc'[u] \in {"none", "next", "pend", "sched", "wait"} => ~term'[u]
    BY <1>18, IdleAssumption DEF Interrupt, Goto, TickleThen, schedVars, threadVars, timerVars, eventVars, idleVars, outerVars, budgets, HandInv, TypeOK, TimerInv
  <2>3. \A j \in Timers : Within(left'[j])  BY <1>18, IdleAssumption DEF Interrupt, schedVars, threadVars, timerVars, eventVars, idleVars, outerVars, budgets, TypeOK, TimerInv, Within

  <2>4. tickled' = tickled /\ interrupts' # 0  BY <1>18, Numbers DEF Interrupt, timerVars
  <2>5. QED  BY <2>1, <2>2, <2>3, <2>4 DEF TimerInv
<1>19. ASSUME NEW t \in Threads, NEW e \in Events, Trigger(t, e)
      PROVE  TimerInv'
  <2>1. ASSUME Quiet' PROVE Quiet
    BY <1>19, <2>1 DEF Trigger, Goto, TickleThen, schedVars, threadVars, timerVars, eventVars, idleVars, outerVars, budgets, Quiet, Announced, Fresh, Dozing, ReadyEvents, HandInv, TypeOK, TimerInv

  <2>2. \A u \in Threads : pc'[u] \in {"none", "next", "pend", "sched", "wait"} => ~term'[u]
    BY <1>19, IdleAssumption DEF Trigger, Goto, TickleThen, schedVars, threadVars, timerVars, eventVars, idleVars, outerVars, budgets, HandInv, TypeOK, TimerInv
  <2>3. \A j \in Timers : Within(left'[j])  BY <1>19, IdleAssumption DEF Trigger, schedVars, threadVars, timerVars, eventVars, idleVars, outerVars, budgets, TypeOK, TimerInv, Within

  <2>4. tickled' = tickled /\ interrupts' = interrupts /\ armed' \subseteq armed /\ left' = left
    BY <1>19 DEF Trigger, schedVars, threadVars, timerVars, eventVars, idleVars, outerVars, budgets
  <2>5. \A u \in Threads : pc[u] = "wait" /\ Quiet' => pc'[u] = "wait" /\ sleep'[u] = sleep[u]
    BY <1>19 DEF Trigger, Goto, TickleThen, schedVars, threadVars, timerVars, eventVars, idleVars, outerVars, budgets, Quiet, Announced, Fresh, Dozing, TypeOK
  <2>6. QED  BY <2>1, <2>2, <2>3, <2>4, <2>5 DEF TimerInv
<1>20. ASSUME NEW t \in Threads, NEW e \in Events, AddEvent(t, e)
      PROVE  TimerInv'
  <2>1. ASSUME Quiet' PROVE Quiet
    BY <1>20, <2>1 DEF AddEvent, Goto, TickleThen, schedVars, threadVars, timerVars, eventVars, idleVars, outerVars, budgets, Quiet, Announced, Fresh, Dozing, ReadyEvents, HandInv, TypeOK, TimerInv

  <2>2. \A u \in Threads : pc'[u] \in {"none", "next", "pend", "sched", "wait"} => ~term'[u]
    BY <1>20, IdleAssumption DEF AddEvent, Goto, TickleThen, schedVars, threadVars, timerVars, eventVars, idleVars, outerVars, budgets, HandInv, TypeOK, TimerInv
  <2>3. \A j \in Timers : Within(left'[j])  BY <1>20, IdleAssumption DEF AddEvent, schedVars, threadVars, timerVars, eventVars, idleVars, outerVars, budgets, TypeOK, TimerInv, Within

  <2>4. tickled' = tickled /\ interrupts' = interrupts /\ armed' \subseteq armed /\ left' = left
    BY <1>20 DEF AddEvent, schedVars, threadVars, timerVars, eventVars, idleVars, outerVars, budgets
  <2>5. \A u \in Threads : pc[u] = "wait" /\ Quiet' => pc'[u] = "wait" /\ sleep'[u] = sleep[u]
    BY <1>20 DEF AddEvent, Goto, TickleThen, schedVars, threadVars, timerVars, eventVars, idleVars, outerVars, budgets, Quiet, Announced, Fresh, Dozing, TypeOK
  <2>6. QED  BY <2>1, <2>2, <2>3, <2>4, <2>5 DEF TimerInv
<1>21. ASSUME NEW t \in Threads, NEW i \in Timers, CancelTimer(t, i)
      PROVE  TimerInv'
  <2>1. ASSUME Quiet' PROVE Quiet
    BY <1>21, <2>1 DEF CancelTimer, Goto, TickleThen, schedVars, threadVars, timerVars, eventVars, idleVars, outerVars, budgets, Quiet, Announced, Fresh, Dozing, ReadyEvents, HandInv, TypeOK, TimerInv

  <2>2. \A u \in Threads : pc'[u] \in {"none", "next", "pend", "sched", "wait"} => ~term'[u]
    BY <1>21, IdleAssumption DEF CancelTimer, Goto, TickleThen, schedVars, threadVars, timerVars, eventVars, idleVars, outerVars, budgets, HandInv, TypeOK, TimerInv
  <2>3. \A j \in Timers : Within(left'[j])  BY <1>21, IdleAssumption DEF CancelTimer, schedVars, threadVars, timerVars, eventVars, idleVars, outerVars, budgets, TypeOK, TimerInv, Within

  <2>4. tickled' = tickled /\ interrupts' = interrupts /\ armed' \subseteq armed /\ left' = left
    BY <1>21 DEF CancelTimer, schedVars, threadVars, timerVars, eventVars, idleVars, outerVars, budgets
  <2>5. \A u \in Threads : pc[u] = "wait" /\ Quiet' => pc'[u] = "wait" /\ sleep'[u] = sleep[u]
    BY <1>21 DEF CancelTimer, Goto, TickleThen, schedVars, threadVars, timerVars, eventVars, idleVars, outerVars, budgets, Quiet, Announced, Fresh, Dozing, TypeOK
  <2>6. QED  BY <2>1, <2>2, <2>3, <2>4, <2>5 DEF TimerInv
<1>22. ASSUME NEW t \in Threads, NEW i \in Timers, NEW ms \in Delays, AddTimer(t, i, ms)
      PROVE  TimerInv'
  <2>1. ASSUME Quiet' PROVE Quiet
    BY <1>22, <2>1 DEF AddTimer, Goto, TickleThen, schedVars, threadVars, timerVars, eventVars, idleVars, outerVars, budgets, Quiet, Announced, Fresh, Dozing, ReadyEvents, HandInv, TypeOK, TimerInv

  <2>2. \A u \in Threads : pc'[u] \in {"none", "next", "pend", "sched", "wait"} => ~term'[u]
    BY <1>22, IdleAssumption DEF AddTimer, Goto, TickleThen, schedVars, threadVars, timerVars, eventVars, idleVars, outerVars, budgets, HandInv, TypeOK, TimerInv
  <2>3. ASSUME NEW j \in Timers PROVE Within(left'[j])
    <3>1. ms >= -1 /\ (InRange => ms <= IntMax)  BY IdleAssumption DEF InRange
    <3>2. left'[j] = IF j = i THEN ms ELSE left[j]  BY <1>22 DEF AddTimer, TypeOK
    <3>3. QED  BY <3>1, <3>2 DEF TimerInv, Within

  <2>4. armed' = armed \cup {i} /\ i \notin armed /\ left' = [left EXCEPT ![i] = ms] /\ ms \in Int
    BY <1>22, IdleAssumption DEF AddTimer, TypeOK
  <2>5. PICK front \in BOOLEAN :
           /\ (\A j \in armed : left[j] > ms) => front
           /\ tickled' = (tickled \/ front)
           /\ TickleThen(t, front /\ ~tickled, "run")
    BY <1>22 DEF AddTimer
  <2>6. ASSUME Quiet' PROVE ~front /\ ~tickled
    <3>1. ~tickled  BY <2>1, <2>6 DEF TimerInv
    <3>2. ~front  BY <2>5, <2>6, <3>1 DEF TickleThen, Quiet, Announced, TypeOK
    <3>3. QED  BY <3>1, <3>2
  <2>7. \A u \in Threads : pc[u] = "wait" => pc'[u] = "wait" /\ sleep'[u] = sleep[u]
    BY <1>22 DEF AddTimer, TickleThen, idleVars, TypeOK
  <2>8. interrupts' = interrupts  BY <1>22 DEF AddTimer, budgets
  <2>9. ASSUME Quiet', interrupts' = 0, InRange, NEW k \in armed'
        PROVE  \E u \in Threads : pc'[u] = "wait" /\ sleep'[u] \in 0..Clip(left'[k])
    <3>1. \A j \in armed : \E u \in Threads : pc[u] = "wait" /\ sleep[u] \in 0..Clip(left[j])
      BY <2>1, <2>8, <2>9 DEF TimerInv
    <3>2. CASE k # i
      <4>1. k \in armed /\ left'[k] = left[k]  BY <2>4, <2>9, <3>2 DEF TypeOK
      <4>2. QED  BY <3>1, <2>7, <4>1
    <3>3. CASE k = i
      <4>1. left'[k] = ms  BY <2>4, <3>3 DEF TypeOK
      <4>2. PICK j \in armed : ~(left[j] > ms)  BY <2>5, <2>6, <2>9
      <4>3. left[j] \in Int /\ left[j] <= ms  BY <2>4, <4>2 DEF TypeOK
      <4>4. PICK u \in Threads : pc[u] = "wait" /\ sleep[u] \in 0..Clip(left[j])  BY <3>1
      <4>5. Clip(left[j]) \in 0..MaxTimeout /\ Clip(ms) \in 0..MaxTimeout /\ Clip(left[j]) <= Clip(ms)
        BY <2>4, <2>9, <4>3, ClipMonotone DEF InRange
      <4>6. sleep[u] \in 0..Clip(ms)  BY <4>4, <4>5, IdleAssumption
      <4>7. QED  BY <2>7, <4>1, <4>4, <4>6
    <3>4. QED  BY <3>2, <3>3
  <2>10. QED  BY <2>2, <2>3, <2>5, <2>6, <2>9 DEF TimerInv
<1>23. CASE StopBegin
  <2>0. Cardinality(Threads) \in Nat /\ Cardinality(Threads) # 0
    BY IdleAssumption, FS_CardinalityType, FS_EmptySet
  <2>1. ~Quiet'  BY <1>23, <2>0 DEF StopBegin, Quiet, Announced

  <2>2. \A u \in Threads : pc'[u] \in {"none", "next", "pend", "sched", "wait"} => ~term'[u]
    BY <1>23, IdleAssumption DEF StopBegin, Goto, TickleThen, schedVars, threadVars, timerVars, eventVars, idleVars, outerVars, budgets, HandInv, TypeOK, TimerInv
  <2>3. \A j \in Timers : Within(left'[j])  BY <1>23, IdleAssumption DEF StopBegin, schedVars, threadVars, timerVars, eventVars, idleVars, outerVars, budgets, TypeOK, TimerInv, Within
  <2>4. QED  BY <2>1, <2>2, <2>3 DEF TimerInv
<1>24. CASE StopTickle
  <2>1. ~Quiet'
    <3> SUFFICES ASSUME Quiet' PROVE FALSE  OBVIOUS
    <3>1. PICK u \in Threads : Dozing(u)'  BY DEF Quiet
    <3>2. Dozing(u)  BY <1>24, <3>1 DEF StopTickle, Goto, schedVars, threadVars, timerVars, eventVars, idleVars, outerVars, budgets, Dozing, HandInv, TypeOK
    <3>3. idle > 0  BY <3>2, DozerCounts
    <3>4. edge'  BY <1>24, <3>3 DEF StopTickle
    <3>5. QED  BY <3>4 DEF Quiet, Announced

  <2>2. \A u \in Threads : pc'[u] \in {"none", "next", "pend", "sched", "wait"} => ~term'[u]
    BY <1>24, IdleAssumption DEF StopTickle, Goto, TickleThen, schedVars, threadVars, timerVars, eventVars, idleVars, outerVars, budgets, HandInv, TypeOK, TimerInv
  <2>3. \A j \in Timers : Within(left'[j])  BY <1>24, IdleAssumption DEF StopTickle, schedVars, threadVars, timerVars, eventVars, idleVars, outerVars, budgets, TypeOK, TimerInv, Within
  <2>4. QED  BY <2>1, <2>2, <2>3 DEF TimerInv
<1>25. CASE ExternalSubmit
  <2>1. ASSUME Quiet' PROVE Quiet
    BY <1>25, <2>1 DEF ExternalSubmit, Goto, TickleThen, schedVars, threadVars, timerVars, eventVars, idleVars, outerVars, budgets, Quiet, Announced, Fresh, Dozing, ReadyEvents, HandInv, TypeOK, TimerInv

  <2>2. \A u \in Threads : pc'[u] \in {"none", "next", "pend", "sched", "wait"} => ~term'[u]
    BY <1>25, IdleAssumption DEF ExternalSubmit, Goto, TickleThen, schedVars, threadVars, timerVars, eventVars, idleVars, outerVars, budgets, HandInv, TypeOK, TimerInv
  <2>3. \A j \in Timers : Within(left'[j])  BY <1>25, IdleAssumption DEF ExternalSubmit, schedVars, threadVars, timerVars, eventVars, idleVars, outerVars, budgets, TypeOK, TimerInv, Within

  <2>4. tickled' = tickled /\ interrupts' = interrupts /\ armed' \subseteq armed /\ left' = left
    BY <1>25 DEF ExternalSubmit, schedVars, threadVars, timerVars, eventVars, idleVars, outerVars, budgets
  <2>5. \A u \in Threads : pc[u] = "wait" /\ Quiet' => pc'[u] = "wait" /\ sleep'[u] = sleep[u]
    BY <1>25 DEF ExternalSubmit, Goto, TickleThen, schedVars, threadVars, timerVars, eventVars, idleVars, outerVars, budgets, Quiet, Announced, Fresh, Dozing, TypeOK
  <2>6. QED  BY <2>1, <2>2, <2>3, <2>4, <2>5 DEF TimerInv
<1>26. CASE ExternalTickle
  <2>1. ~Quiet'
    <3> SUFFICES ASSUME Quiet' PROVE FALSE  OBVIOUS
    <3>1. PICK u \in Threads : Dozing(u)'  BY DEF Quiet
    <3>2. Dozing(u)  BY <1>26, <3>1 DEF ExternalTickle, Goto, schedVars, threadVars, timerVars, eventVars, idleVars, outerVars, budgets, Dozing, HandInv, TypeOK
    <3>3. idle > 0  BY <3>2, DozerCounts
    <3>4. edge'  BY <1>26, <3>3 DEF ExternalTickle
    <3>5. QED  BY <3>4 DEF Quiet, Announced

  <2>2. \A u \in Threads : pc'[u] \in {"none", "next", "pend", "sched", "wait"} => ~term'[u]
    BY <1>26, IdleAssumption DEF ExternalTickle, Goto, TickleThen, schedVars, threadVars, timerVars, eventVars, idleVars, outerVars, budgets, HandInv, TypeOK, TimerInv
  <2>3. \A j \in Timers : Within(left'[j])  BY <1>26, IdleAssumption DEF ExternalTickle, schedVars, threadVars, timerVars, eventVars, idleVars, outerVars, budgets, TypeOK, TimerInv, Within
  <2>4. QED  BY <2>1, <2>2, <2>3 DEF TimerInv
<1>27. ASSUME NEW e \in Events, EventReady(e)
      PROVE  TimerInv'
  <2>1. ~Quiet'
    BY <1>27 DEF EventReady, Goto, TickleThen, schedVars, threadVars, timerVars, eventVars, idleVars, outerVars, budgets, Quiet, Announced, Fresh, Dozing, ReadyEvents, HandInv, TypeOK, TimerInv

  <2>2. \A u \in Threads : pc'[u] \in {"none", "next", "pend", "sched", "wait"} => ~term'[u]
    BY <1>27, IdleAssumption DEF EventReady, Goto, TickleThen, schedVars, threadVars, timerVars, eventVars, idleVars, outerVars, budgets, HandInv, TypeOK, TimerInv
  <2>3. \A j \in Timers : Within(left'[j])  BY <1>27, IdleAssumption DEF EventReady, schedVars, threadVars, timerVars, eventVars, idleVars, outerVars, budgets, TypeOK, TimerInv, Within
  <2>4. QED  BY <2>1, <2>2, <2>3 DEF TimerInv
<1>28. CASE Tick
  <2>1. ASSUME Quiet' PROVE Quiet
    BY <1>28, <2>1 DEF Tick, Goto, TickleThen, schedVars, threadVars, timerVars, eventVars, idleVars, outerVars, budgets, Quiet, Announced, Fresh, Dozing, ReadyEvents, HandInv, TypeOK, TimerInv

  <2>2. \A u \in Threads : pc'[u] \in {"none", "next", "pend", "sched", "wait"} => ~term'[u]
    BY <1>28 DEF Tick, threadVars, TimerInv
  <2>3. \A j \in Timers : /\ left[j] \in Int /\ left[j] >= -1 /\ (InRange => left[j] <= IntMax)
                          /\ left'[j] = IF j \in armed /\ left[j] >= 0 THEN left[j] - 1 ELSE left[j]
    BY <1>28 DEF Tick, TypeOK, TimerInv, Within
  <2>4. \A j \in Timers : Within(left'[j])  BY <2>3, IdleAssumption DEF Within
  <2>5. tickled' = tickled /\ interrupts' = interrupts /\ armed' = armed  BY <1>28 DEF Tick, budgets
  <2>6. ASSUME InRange, NEW i \in armed, NEW u \in Threads, pc[u] = "wait", sleep[u] \in 0..Clip(left[i])
        PROVE  pc'[u] = "wait" /\ sleep'[u] \in 0..Clip(left'[i])
    <3>1. pc'[u] = "wait"  BY <1>28, <2>6 DEF Tick, threadVars
    <3>2. sleep'[u] = IF sleep[u] > 0 THEN sleep[u] - 1 ELSE sleep[u]  BY <1>28, <2>6 DEF Tick
    <3>3. MaxTimeout \in Nat /\ IntMax \in Nat /\ MaxTimeout <= IntMax  BY IdleAssumption
    <3>4. /\ left[i] \in Int /\ left[i] >= -1 /\ left[i] <= IntMax
          /\ left'[i] = IF left[i] >= 0 THEN left[i] - 1 ELSE left[i]
      BY <2>3, <2>6 DEF TypeOK
    <3>5. QED  BY <2>6, <3>1, <3>2, <3>3, <3>4 DEF Clip, ToInt
  <2>7. QED  BY <2>1, <2>2, <2>4, <2>5, <2>6 DEF TimerInv
<1>29. QED
  BY <1>1, <1>2, <1>3, <1>4, <1>5, <1>6, <1>7, <1>8, <1>9, <1>10, <1>11, <1>12, <1>13, <1>14, <1>15, <1>16, <1>17, <1>18, <1>19, <1>20, <1>21, <1>22, <1>23, <1>24, <1>25, <1>26, <1>27, <1>28 DEF Next, ThreadStep, TaskStep

----------------------------------------------------------------------------
(***************************************************************************)
(* The theorems.                                                           *)
(***************************************************************************)
LEMMA InitIInv == Init => IInv
<1> SUFFICES ASSUME Init PROVE IInv  OBVIOUS
<1> USE IdleAssumption
<1>1. TypeOK
  <2>1. /\ load \in Loads /\ load.tasks \in Nat /\ load.spawns \in Nat /\ load.adds \in Nat
        /\ load.externals \in Nat /\ load.interrupts \in Nat
    BY DEF Init
  <2>2. {queue, active, idle, pending, stopTickles} \subseteq Nat  BY <2>1 DEF Init
  <2>3. pc \in [Threads -> Points] /\ ret \in [Threads -> Points]  BY DEF Init, Points
  <2>4. got \in [Threads -> SUBSET Events]  BY DEF Init
  <2>5. /\ term \in [Threads -> BOOLEAN] /\ left \in [Timers -> Int]
        /\ estate \in [Events -> {"off", "armed", "ready", "taken"}]
        /\ sleep \in [Threads -> Timeouts] /\ cbs \in [Threads -> Nat]
    BY DEF Init, Timeouts
  <2>6. /\ spawns \in 0..load.spawns /\ adds \in 0..load.adds /\ externals \in 0..load.externals
        /\ interrupts \in 0..load.interrupts
    BY <2>1 DEF Init
  <2>7. QED  BY <2>1, <2>2, <2>3, <2>4, <2>5, <2>6 DEF Init, TypeOK
<1>2. CountInv
  <2>1. ActiveThreads = {} /\ IdleThreads = {} /\ OwingThreads = {} /\ On = {}
    BY DEF Init, ActiveThreads, IdleThreads, OwingThreads, On, IsActive, IsIdle, IsOwing
  <2>2. QED  BY <2>1, FS_EmptySet DEF Init, CountInv
<1>3. HandInv  BY DEF Init, HandInv
<1>4. QueueInv  BY DEF Init, QueueInv, Looking
<1>5. ExitInv  BY DEF Init, ExitInv, AllExited
<1>6. TimerInv  BY DEF Init, TimerInv, Within, Quiet, Dozing
<1>7. QED  BY <1>1, <1>2, <1>3, <1>4, <1>5, <1>6 DEF IInv

LEMMA NextIInv == IInv /\ [Next]_vars => IInv'
BY TypeStep, CountStep, HandStep, QueueStep, ExitStep, TimerStep DEF IInv

\* The inductive invariant holds throughout: types, counters, hands, queue,
\* exits and timers of any number of threads in IOManager::idle and run.
THEOREM Invariance == Spec => []IInv
BY InitIInv, NextIInv, PTL DEF Spec

\* The counter covers the events: an event is counted before it can fire and
\* uncounted after its fiber is scheduled (iomanager.cpp:149, 343-360).
LEMMA InvCovers == IInv => PendingCoversEvents
<1> SUFFICES ASSUME IInv PROVE PendingCoversEvents  OBVIOUS
<1>1. On = {e \in Events : estate[e] # "off"}  BY DEF On
<1>2. IsFiniteSet(OwingThreads)  BY IdleAssumption, FS_Subset DEF OwingThreads
<1>3. Cardinality(OwingThreads) \in Nat /\ Cardinality(On) \in Nat
  BY <1>2, FS_CardinalityType DEF IInv, CountInv
<1>4. pending >= Cardinality(On)  BY <1>3 DEF IInv, CountInv
<1>5. QED  BY <1>1, <1>4 DEF IInv, PendingCoversEvents

\* m_pendingEventCount is never below the number of events somebody waits for,
\* although addEvent and triggerEvent change it at another moment than the
\* event, and stopping() reads it without their locks.
THEOREM PendingCounts == Spec => []PendingCoversEvents
BY Invariance, InvCovers, PTL

\* When every thread has left, nothing is queued and nothing runs.
LEMMA InvStop == IInv => StopLeavesNoTask
<1> SUFFICES ASSUME IInv, AllExited PROVE queue = 0 /\ active = 0  BY DEF StopLeavesNoTask
<1>1. ActiveThreads = {}  BY DEF ActiveThreads, IsActive, AllExited
<1>2. QED  BY <1>1, FS_EmptySet DEF IInv, ExitInv, CountInv

\* stop() returns when all threads have left run(); whatever stopping() has
\* read in between, no task is then queued or running.
THEOREM StopIsClean == Spec => []StopLeavesNoTask
BY Invariance, InvStop, PTL

\* Threads that are all asleep are quiet.
LEMMA InvOversleep == IInv => NoOversleep
<1> SUFFICES ASSUME IInv, Asleep
             PROVE  /\ interrupts = 0 /\ InRange => \A i \in armed :
                          \E t \in Threads : pc[t] = "wait" /\ sleep[t] \in 0..Clip(left[i])
                    /\ externals = 0 => queue = 0
  BY DEF NoOversleep
<1>1. \A t \in Threads : pc[t] = "exit" \/ pc[t] = "wait"  BY DEF Asleep
<1>2. \E t \in Threads : Dozing(t)  BY <1>1 DEF Asleep, AllExited, Dozing
<1>3. ~Announced  BY <1>1, Numbers DEF Asleep, Announced, Fresh, Dozing, IInv
<1>4. ~\E t \in Threads : Looking(t)  BY <1>1 DEF Looking
<1>5. queue \in Nat  BY Numbers DEF IInv
<1>6. QED  BY <1>2, <1>3, <1>4, <1>5 DEF IInv, TimerInv, QueueInv, Quiet

\* When all threads are in epoll_wait one of them wakes up in time for every
\* timer, although m_tickled may have kept addTimer from waking anyone, if every
\* delay survives the cast of iomanager.cpp:301; and no task of the pool's own is
\* waiting in the queue.
THEOREM NobodyOversleeps == Spec => []NoOversleep
BY Invariance, InvOversleep, PTL
==============================================================================
