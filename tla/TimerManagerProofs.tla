------------------------- MODULE TimerManagerProofs -------------------------
(***************************************************************************)
(* Proofs about TimerManager, for any set of threads, any finite set of    *)
(* timers, any periods and any length of time.                             *)
(*                                                                         *)
(* ExactlyOnce is not inductive alone: that an insertion does not revive a *)
(* timer needs to know that the timer a thread is about to insert is       *)
(* nobody else's (InsertInv).  FrontAnnounced needs that m_tickled is only *)
(* set when a notification is on its way (TickledInv), and that refresh()  *)
(* and a recurrence only move a timer back, which is PeriodIntact.         *)
(***************************************************************************)
EXTENDS TimerManager, TLAPS

----------------------------------------------------------------------------
(***************************************************************************)
(* The inductive invariant.                                                *)
(***************************************************************************)
\* What a thread has in hand: the timer it notifies about or resets exists,
\* reset() was given a period, listExpiredCb read a time that has come.
HandInv ==
    \A t \in Threads :
        /\ pc[t] \in {"insert", "notify", "reset"} => arg[t].timer \in made
        /\ pc[t] = "reset" => arg[t].time \in Periods
        /\ pc[t] = "list" => arg[t].time <= now

\* A timer between its construction and its insertion is fresh and known to
\* one thread only.
InsertInv ==
    /\ \A i \in Timers \ made : fires[i] = 0
    /\ \A t \in Threads : pc[t] = "insert" =>
        /\ cb[arg[t].timer] /\ fires[arg[t].timer] = 0
        /\ arg[t].timer \notin timers /\ arg[t].timer \notin handles
        /\ \A u \in Threads : u # t /\ pc[u] \in {"insert", "notify", "reset"} =>
              arg[u].timer # arg[t].timer

\* m_tickled stands for a notification that was or will be made.
TickledInv == tickled => told \/ \E t \in Threads : pc[t] = "notify"

IInv == PeriodIntact /\ HandInv /\ InsertInv /\ ExactlyOnce /\ TickledInv /\ FrontAnnounced

----------------------------------------------------------------------------
Args == [timer : Timers \cup {0}, time : Nat, now : BOOLEAN]

\* The arguments threads are given.
LEMMA IdleArg ==
    /\ Idle \in Args
    /\ \A i \in Timers : [Idle EXCEPT !.timer = i] \in Args /\ [Idle EXCEPT !.timer = i].timer = i
    /\ \A n \in Nat : [Idle EXCEPT !.time = n] \in Args /\ [Idle EXCEPT !.time = n].time = n
BY DEF Idle, Args

\* Times are natural numbers.
LEMMA Numbers ==
    ASSUME TypeOK
    PROVE  /\ now \in Nat
           /\ \A i \in Timers : ms[i] \in Nat /\ next[i] \in Nat /\ start[i] \in Nat
<1>1. now \in Nat  BY TimerAssumption DEF TypeOK
<1>2. \A i \in Timers : ms[i] \in Periods \cup {0} /\ next[i] \in Nat /\ start[i] \in Nat  BY DEF TypeOK
<1>3. \A x \in Periods \cup {0} : x \in Nat  BY TimerAssumption
<1>4. QED  BY <1>1, <1>2, <1>3

\* addTimer leaves its thread free or about to notify, with the timer in hand
\* if it has not been returned.
LEMMA AddTimerEffect ==
    ASSUME TypeOK, NEW t \in Threads, NEW i \in made, NEW others, NEW due, AddTimer(t, i, others, due)
    PROVE  /\ pc' \in [Threads -> {"free", "insert", "notify", "reset", "list", "stuck"}]
           /\ arg' \in [Threads -> Args]
           /\ tickled' \in BOOLEAN /\ handles \subseteq handles' /\ handles' \subseteq handles \cup {i}
           /\ timers' = others \cup {i}
           /\ pc'[t] \in {"free", "notify"} /\ (pc'[t] = "notify" => arg'[t].timer = i)
           /\ \A u \in Threads : u # t => pc'[u] = pc[u] /\ arg'[u] = arg[u]
<1> DEFINE atFront == ~tickled /\ \A j \in others : Comparator(due, i, next[j], j)
<1>1. i \in Timers /\ tickled \in BOOLEAN  BY DEF TypeOK
<1>2. CASE atFront
  <2>1. /\ pc' = [pc EXCEPT ![t] = "notify"] /\ arg' = [arg EXCEPT ![t] = [Idle EXCEPT !.timer = i]]
        /\ handles' = handles /\ tickled' = TRUE /\ timers' = others \cup {i}
    BY <1>1, <1>2 DEF AddTimer, Goto
  <2>2. QED  BY <1>1, <2>1, IdleArg DEF TypeOK, Args
<1>3. CASE ~atFront
  <2>1. /\ pc' = [pc EXCEPT ![t] = "free"] /\ arg' = [arg EXCEPT ![t] = Idle]
        /\ handles' = handles \cup {i} /\ tickled' = tickled /\ timers' = others \cup {i}
    BY <1>1, <1>3 DEF AddTimer, Goto
  <2>2. QED  BY <1>1, <2>1, IdleArg DEF TypeOK, Args
<1>4. QED  BY <1>2, <1>3

\* Timers that leave or move back keep the front announced.
LEMMA LaterStillAnnounced ==
    ASSUME TypeOK, FrontAnnounced, timers' \subseteq timers, UNCHANGED <<asked, told>>,
           \A j \in timers' : next[j] \in Nat /\ next'[j] \in Nat /\ next[j] <= next'[j],
           \A u \in Threads : pc[u] = "notify" => pc'[u] = "notify"
    PROVE  FrontAnnounced'
<1>1. asked \in Nat \cup {Never} /\ asked' = asked /\ told' = told  BY DEF TypeOK
<1>2. asked # Never => asked \in Nat  BY <1>1
<1>3. SUFFICES ASSUME timers' # {}, asked = Never \/ \E j \in timers' : next'[j] < asked
               PROVE  told \/ \E u \in Threads : pc'[u] = "notify"
  BY <1>1 DEF FrontAnnounced
<1>4. asked = Never \/ \E j \in timers : next[j] < asked  BY <1>2, <1>3
<1>5. QED  BY <1>3, <1>4 DEF FrontAnnounced

\* addTimer announces a new front: it notifies, somebody has been tickled, or
\* a timer that is not later was there before.
LEMMA AddTimerAnnounces ==
    ASSUME TypeOK, TickledInv, FrontAnnounced, NEW t \in Threads, NEW i \in Timers,
           pc[t] # "notify", NEW others \in SUBSET timers, NEW due \in Nat, AddTimer(t, i, others, due),
           UNCHANGED <<asked, told>>,
           next' = [next EXCEPT ![i] = due], i \notin others
    PROVE  FrontAnnounced'
<1> DEFINE atFront == ~tickled /\ \A j \in others : Comparator(due, i, next[j], j)
<1>1. asked \in Nat \cup {Never} /\ asked' = asked /\ told' = told  BY DEF TypeOK
<1>2. asked # Never => asked \in Nat  BY <1>1
<1>3. CASE atFront
  <2>1. pc' = [pc EXCEPT ![t] = "notify"]  BY <1>3 DEF AddTimer, Goto
  <2>2. pc'[t] = "notify"  BY <2>1 DEF TypeOK
  <2>3. QED  BY <2>2 DEF FrontAnnounced
<1>4. CASE ~atFront
  <2>1. pc' = [pc EXCEPT ![t] = "free"] /\ timers' = others \cup {i}
    BY <1>4 DEF AddTimer, Goto
  <2>2. \A u \in Threads : pc[u] = "notify" => pc'[u] = "notify"  BY <2>1 DEF TypeOK
  <2>3. CASE tickled  BY <1>1, <2>2, <2>3 DEF TickledInv, FrontAnnounced
  <2>4. CASE ~tickled
    <3>1. PICK j \in others : ~Comparator(due, i, next[j], j)  BY <1>4, <2>4
    <3>2. j \in timers /\ j # i /\ next[j] \in Nat /\ next[j] <= due
      BY <3>1 DEF TypeOK, Comparator
    <3>3. \A k \in others : next[k] \in Nat /\ next'[k] = next[k]  BY DEF TypeOK
    <3>4. next'[i] = due  BY DEF TypeOK
    <3>5. SUFFICES ASSUME asked = Never \/ \E k \in timers' : next'[k] < asked
                   PROVE  told \/ \E u \in Threads : pc'[u] = "notify"
      BY <1>1 DEF FrontAnnounced
    <3>6. asked = Never \/ \E k \in timers : next[k] < asked
      BY <1>2, <2>1, <3>2, <3>3, <3>4, <3>5
    <3>7. QED  BY <2>2, <3>2, <3>6 DEF FrontAnnounced
  <2>5. QED  BY <2>3, <2>4
<1>5. QED  BY <1>3, <1>4

\* Types, and that m_next - m_ms is when the period began.
LEMMA PeriodStep ==
    ASSUME IInv, [Next]_vars
    PROVE  PeriodIntact'
<1> USE TimerAssumption DEF IInv, PeriodIntact, TypeOK, HandInv
<1>1. CASE UNCHANGED vars
  BY <1>1 DEF vars, timerVars, history
<1>2. CASE Tick
  BY <1>2 DEF Tick, timerVars, history
<1>3. CASE Stuck
  BY <1>3 DEF Stuck, vars, timerVars, history
<1>4. ASSUME NEW t \in Threads, NEW i \in Timers, NEW period \in Periods, NEW recur \in BOOLEAN, Construct(t, i, period, recur)
      PROVE  PeriodIntact'
  <2>1. TypeOK'
    <3>1. now + period \in Nat  OBVIOUS
    <3>2. arg' \in [Threads -> Args]  BY <1>4, IdleArg DEF Construct, Goto, Args
    <3>3. QED  BY <1>4, <3>1, <3>2 DEF Construct, Goto, Args
  <2>2. QED  BY <1>4, <2>1 DEF Construct
<1>5. ASSUME NEW t \in Threads, Insert(t)
      PROVE  PeriodIntact'
  <2>1. arg[t].timer \in made  BY <1>5 DEF Insert
  <2>2. /\ AddTimer(t, arg[t].timer, timers, next[arg[t].timer])
        /\ UNCHANGED <<now, timerVars, history, asked, told>>
    BY <1>5 DEF Insert
  <2>3. TypeOK'
    <3>1. /\ pc' \in [Threads -> {"free", "insert", "notify", "reset", "list", "stuck"}]
          /\ arg' \in [Threads -> Args] /\ tickled' \in BOOLEAN
          /\ handles' \subseteq made /\ timers' \subseteq made
      <4>1. TypeOK /\ handles \subseteq made /\ timers \subseteq made  OBVIOUS
      <4> HIDE DEF IInv, PeriodIntact, TypeOK, HandInv
      <4>2. QED  BY <2>1, <2>2, <4>1, AddTimerEffect
    <3>2. QED  BY <2>2, <3>1 DEF Args, timerVars, history
  <2>4. QED  BY <2>2, <2>3 DEF timerVars, history
<1>6. ASSUME NEW t \in Threads, Notify(t)
      PROVE  PeriodIntact'
  BY <1>6 DEF Notify, Goto, Idle, timerVars, history
<1>7. ASSUME NEW t \in Threads, NEW i \in Timers, Cancel(t, i)
      PROVE  PeriodIntact'
  BY <1>7 DEF Cancel, Goto, Idle, timerVars, history
<1>8. ASSUME NEW t \in Threads, NEW i \in Timers, CancelExpired(t, i)
      PROVE  PeriodIntact'
  BY <1>8 DEF CancelExpired, Goto, Idle, timerVars, history
<1>9. ASSUME NEW t \in Threads, NEW i \in Timers, Refresh(t, i)
      PROVE  PeriodIntact'
  <2>1. now + ms[i] \in Nat  BY <1>9, Numbers DEF Refresh
  <2>2. QED  BY <1>9, <2>1 DEF Refresh
<1>10. ASSUME NEW t \in Threads, NEW i \in Timers, NEW period \in Periods, NEW fromNow \in BOOLEAN, ResetCheck(t, i, period, fromNow)
      PROVE  PeriodIntact'
  BY <1>10 DEF ResetCheck, Goto, Idle, timerVars, history
<1>11. ASSUME NEW t \in Threads, ResetLocked(t)
      PROVE  PeriodIntact'
  <2> DEFINE i == arg[t].timer
  <2> DEFINE begin == IF arg[t].now THEN now ELSE next[i] - ms[i]
  <2>1. i \in made /\ i \in Timers /\ arg[t].time \in Periods  BY <1>11 DEF ResetLocked
  <2>8. now \in Nat /\ ms[i] \in Nat /\ next[i] \in Nat /\ start[i] \in Nat  BY <2>1, Numbers
  <2>9. next[i] = start[i] + ms[i] /\ start[i] <= now  BY <2>1
  <2>2. begin = IF arg[t].now THEN now ELSE start[i]  BY <2>8, <2>9
  <2>3. begin \in Nat /\ begin <= now  BY <2>8, <2>9, <2>2
  <2>4. /\ ms' = [ms EXCEPT ![i] = arg[t].time] /\ next' = [next EXCEPT ![i] = begin + arg[t].time]
        /\ start' = [start EXCEPT ![i] = IF arg[t].now THEN now ELSE start[i]]
        /\ AddTimer(t, i, timers \ {i}, begin + arg[t].time)
        /\ UNCHANGED <<now, cb, recurring, made, fires, asked, told>>
    BY <1>11 DEF ResetLocked
  <2>5. TypeOK'
    <3>1. arg[t].time \in Nat /\ begin + arg[t].time \in Nat  BY <2>1, <2>3
    <3>2. /\ next' \in [Timers -> Nat] /\ start' \in [Timers -> Nat]
          /\ ms' \in [Timers -> Periods \cup {0}]
      <4>1. now \in Nat  BY Numbers
      <4> HIDE DEF begin
      <4>2. QED  BY <2>1, <2>4, <3>1, <4>1
    <3>3. /\ pc' \in [Threads -> {"free", "insert", "notify", "reset", "list", "stuck"}]
          /\ arg' \in [Threads -> Args] /\ tickled' \in BOOLEAN
          /\ handles' \subseteq made /\ timers' \subseteq made
      <4>1. TypeOK /\ handles \subseteq made /\ timers \subseteq made  OBVIOUS
      <4> HIDE DEF IInv, PeriodIntact, TypeOK, HandInv, i, begin
      <4>2. /\ pc' \in [Threads -> {"free", "insert", "notify", "reset", "list", "stuck"}]
            /\ arg' \in [Threads -> Args] /\ tickled' \in BOOLEAN
            /\ handles' \subseteq handles \cup {i} /\ timers' = (timers \ {i}) \cup {i}
        BY <2>1, <2>4, <4>1, AddTimerEffect
      <4>3. QED  BY <2>1, <4>1, <4>2
    <3>4. QED  BY <2>4, <3>2, <3>3 DEF Args
  <2>6. \A j \in made' : next'[j] = start'[j] + ms'[j] /\ start'[j] <= now'
    BY <2>1, <2>2, <2>3, <2>4
  <2>7. QED  BY <2>5, <2>6
<1>12. ASSUME NEW t \in Threads, ResetFails(t)
      PROVE  PeriodIntact'
  BY <1>12 DEF ResetFails, Goto, Idle, timerVars, history
<1>13. ASSUME NEW t \in Threads, GetNextTimer(t)
      PROVE  PeriodIntact'
  <2>1. asked' \in Nat \cup {Never}
    <3>1. CASE timers = {}  BY <1>13, <3>1 DEF GetNextTimer
    <3>2. CASE timers # {}
      <4>1. PICK i \in timers : asked' = next[i]  BY <1>13, <3>2 DEF GetNextTimer
      <4>2. QED  BY <4>1
    <3>3. QED  BY <3>1, <3>2
  <2>2. QED  BY <1>13, <2>1 DEF GetNextTimer, timerVars, history
<1>14. ASSUME NEW t \in Threads, ListBegin(t)
      PROVE  PeriodIntact'
  <2>1. arg' \in [Threads -> Args]  BY <1>14, IdleArg DEF ListBegin, Goto, Args
  <2>2. QED  BY <1>14, <2>1 DEF ListBegin, Goto, Args, timerVars, history
<1>15. ASSUME NEW t \in Threads, ListEmpty(t)
      PROVE  PeriodIntact'
  BY <1>15 DEF ListEmpty, Goto, Idle, timerVars, history
<1>16. ASSUME NEW t \in Threads, NEW probe \in Timers \cup {-1}, ListExpired(t, probe)
      PROVE  PeriodIntact'
  <2> DEFINE due == {i \in timers : ~Comparator(arg[t].time, probe, next[i], i)}
  <2>1. Collect(t, due) /\ arg[t].time \in Nat /\ arg[t].time <= now  BY <1>16 DEF ListExpired
  <2> HIDE DEF due
  <2> DEFINE again == {i \in due : recurring[i]}
  <2>2. /\ timers' = (timers \ due) \cup again
        /\ next' = [i \in Timers |-> IF i \in again THEN arg[t].time + ms[i] ELSE next[i]]
        /\ start' = [i \in Timers |-> IF i \in again THEN arg[t].time ELSE start[i]]
        /\ fires' = [i \in Timers |-> IF i \in due /\ fires[i] < Many THEN fires[i] + 1 ELSE fires[i]]
        /\ UNCHANGED <<now, tickled, ms, cb, recurring, made, handles, asked, told>>
    BY <2>1 DEF Collect
  <2>3. pc' = [pc EXCEPT ![t] = "free"] /\ arg' = [arg EXCEPT ![t] = Idle]  BY <2>1 DEF Collect, Goto
  <2>4. due \subseteq timers  BY DEF due
  <2>5. TypeOK'
    <3>1. next' \in [Timers -> Nat] /\ start' \in [Timers -> Nat] /\ fires' \in [Timers -> 0..Many]
      <4>1. \A i \in Timers : ms[i] \in Nat /\ arg[t].time + ms[i] \in Nat  BY <2>1, Numbers
      <4>2. \A i \in Timers : fires[i] \in {0, 1, 2}  BY DEF Many
      <4> HIDE DEF again
      <4>3. QED  BY <2>1, <2>2, <4>1, <4>2 DEF Many
    <3>2. QED  BY <2>2, <2>3, <2>4, <3>1, IdleArg DEF Args
  <2>6. \A j \in made' : next'[j] = start'[j] + ms'[j] /\ start'[j] <= now'
    BY <2>1, <2>2
  <2>7. QED  BY <2>5, <2>6
<1>17. QED
  BY <1>1, <1>2, <1>3, <1>4, <1>5, <1>6, <1>7, <1>8, <1>9, <1>10, <1>11, <1>12, <1>13, <1>14, <1>15, <1>16 DEF Next, Step

\* What the threads have in hand.
LEMMA HandStep ==
    ASSUME IInv, [Next]_vars
    PROVE  HandInv'
<1> USE TimerAssumption DEF IInv, PeriodIntact, TypeOK, HandInv
<1>1. CASE UNCHANGED vars
  BY <1>1 DEF vars, timerVars, history
<1>2. CASE Tick
  BY <1>2 DEF Tick, timerVars, history
<1>3. CASE Stuck
  BY <1>3 DEF Stuck, vars, timerVars, history
<1>4. ASSUME NEW t \in Threads, NEW i \in Timers, NEW period \in Periods, NEW recur \in BOOLEAN, Construct(t, i, period, recur)
      PROVE  HandInv'
  BY <1>4 DEF Construct, Goto, Idle, timerVars, history
<1>5. ASSUME NEW t \in Threads, Insert(t)
      PROVE  HandInv'
  BY <1>5 DEF Insert, Goto, Idle, AddTimer, Goto, timerVars, history
<1>6. ASSUME NEW t \in Threads, Notify(t)
      PROVE  HandInv'
  BY <1>6 DEF Notify, Goto, Idle, timerVars, history
<1>7. ASSUME NEW t \in Threads, NEW i \in Timers, Cancel(t, i)
      PROVE  HandInv'
  BY <1>7 DEF Cancel, Goto, Idle, timerVars, history
<1>8. ASSUME NEW t \in Threads, NEW i \in Timers, CancelExpired(t, i)
      PROVE  HandInv'
  BY <1>8 DEF CancelExpired, Goto, Idle, timerVars, history
<1>9. ASSUME NEW t \in Threads, NEW i \in Timers, Refresh(t, i)
      PROVE  HandInv'
  BY <1>9 DEF Refresh, Goto, Idle, timerVars, history
<1>10. ASSUME NEW t \in Threads, NEW i \in Timers, NEW period \in Periods, NEW fromNow \in BOOLEAN, ResetCheck(t, i, period, fromNow)
      PROVE  HandInv'
  BY <1>10 DEF ResetCheck, Goto, Idle, timerVars, history
<1>11. ASSUME NEW t \in Threads, ResetLocked(t)
      PROVE  HandInv'
  BY <1>11 DEF ResetLocked, Goto, Idle, AddTimer, Goto, timerVars, history
<1>12. ASSUME NEW t \in Threads, ResetFails(t)
      PROVE  HandInv'
  BY <1>12 DEF ResetFails, Goto, Idle, timerVars, history
<1>13. ASSUME NEW t \in Threads, GetNextTimer(t)
      PROVE  HandInv'
  BY <1>13 DEF GetNextTimer, Goto, Idle, timerVars, history
<1>14. ASSUME NEW t \in Threads, ListBegin(t)
      PROVE  HandInv'
  BY <1>14 DEF ListBegin, Goto, Idle, timerVars, history
<1>15. ASSUME NEW t \in Threads, ListEmpty(t)
      PROVE  HandInv'
  BY <1>15 DEF ListEmpty, Goto, Idle, timerVars, history
<1>16. ASSUME NEW t \in Threads, NEW probe \in Timers \cup {-1}, ListExpired(t, probe)
      PROVE  HandInv'
  BY <1>16 DEF ListExpired, Goto, Idle, Collect, Comparator, Goto, timerVars, history
<1>17. QED
  BY <1>1, <1>2, <1>3, <1>4, <1>5, <1>6, <1>7, <1>8, <1>9, <1>10, <1>11, <1>12, <1>13, <1>14, <1>15, <1>16 DEF Next, Step

\* Fresh timers stay with the thread that made them.
LEMMA InsertStep ==
    ASSUME IInv, [Next]_vars
    PROVE  InsertInv'
<1> USE TimerAssumption DEF IInv, PeriodIntact, TypeOK, HandInv, InsertInv, Many
<1>1. CASE UNCHANGED vars
  BY <1>1 DEF vars, timerVars, history
<1>2. CASE Tick
  BY <1>2 DEF Tick, timerVars, history
<1>3. CASE Stuck
  BY <1>3 DEF Stuck, vars, timerVars, history
<1>4. ASSUME NEW t \in Threads, NEW i \in Timers, NEW period \in Periods, NEW recur \in BOOLEAN, Construct(t, i, period, recur)
      PROVE  InsertInv'
  BY <1>4 DEF Construct, Goto, Idle, timerVars, history
<1>5. ASSUME NEW t \in Threads, Insert(t)
      PROVE  InsertInv'
  BY <1>5 DEF Insert, Goto, Idle, AddTimer, Goto, timerVars, history
<1>6. ASSUME NEW t \in Threads, Notify(t)
      PROVE  InsertInv'
  BY <1>6 DEF Notify, Goto, Idle, timerVars, history
<1>7. ASSUME NEW t \in Threads, NEW i \in Timers, Cancel(t, i)
      PROVE  InsertInv'
  BY <1>7 DEF Cancel, Goto, Idle, timerVars, history
<1>8. ASSUME NEW t \in Threads, NEW i \in Timers, CancelExpired(t, i)
      PROVE  InsertInv'
  BY <1>8 DEF CancelExpired, Goto, Idle, timerVars, history
<1>9. ASSUME NEW t \in Threads, NEW i \in Timers, Refresh(t, i)
      PROVE  InsertInv'
  BY <1>9 DEF Refresh, Goto, Idle, timerVars, history
<1>10. ASSUME NEW t \in Threads, NEW i \in Timers, NEW period \in Periods, NEW fromNow \in BOOLEAN, ResetCheck(t, i, period, fromNow)
      PROVE  InsertInv'
  BY <1>10 DEF ResetCheck, Goto, Idle, timerVars, history
<1>11. ASSUME NEW t \in Threads, ResetLocked(t)
      PROVE  InsertInv'
  <2> DEFINE i == arg[t].timer
  <2> DEFINE due == (IF arg[t].now THEN now ELSE next[i] - ms[i]) + arg[t].time
  <2>1. /\ i \in made /\ i \in timers /\ TypeOK /\ pc[t] = "reset"
        /\ AddTimer(t, i, timers \ {i}, due) /\ UNCHANGED <<cb, made, fires>>
    BY <1>11 DEF ResetLocked
  <2>2. /\ timers' = (timers \ {i}) \cup {i} /\ pc'[t] \in {"free", "notify"}
        /\ pc'[t] = "notify" => arg'[t].timer = i
        /\ handles' \subseteq handles \cup {i}
        /\ \A u \in Threads : u # t => pc'[u] = pc[u] /\ arg'[u] = arg[u]
    <3> HIDE DEF IInv, PeriodIntact, TypeOK, HandInv, InsertInv, i, due
    <3>1. QED  BY <2>1, AddTimerEffect
  <2>3. timers' = timers  BY <2>1, <2>2
  <2>4. InsertInv  OBVIOUS
  <2> HIDE DEF IInv, PeriodIntact, TypeOK, HandInv, i, due
  <2>5. QED  BY <2>1, <2>2, <2>3, <2>4
<1>12. ASSUME NEW t \in Threads, ResetFails(t)
      PROVE  InsertInv'
  BY <1>12 DEF ResetFails, Goto, Idle, timerVars, history
<1>13. ASSUME NEW t \in Threads, GetNextTimer(t)
      PROVE  InsertInv'
  BY <1>13 DEF GetNextTimer, Goto, Idle, timerVars, history
<1>14. ASSUME NEW t \in Threads, ListBegin(t)
      PROVE  InsertInv'
  BY <1>14 DEF ListBegin, Goto, Idle, timerVars, history
<1>15. ASSUME NEW t \in Threads, ListEmpty(t)
      PROVE  InsertInv'
  BY <1>15 DEF ListEmpty, Goto, Idle, timerVars, history
<1>16. ASSUME NEW t \in Threads, NEW probe \in Timers \cup {-1}, ListExpired(t, probe)
      PROVE  InsertInv'
  BY <1>16 DEF ListExpired, Goto, Idle, Collect, Comparator, Goto, timerVars, history
<1>17. QED
  BY <1>1, <1>2, <1>3, <1>4, <1>5, <1>6, <1>7, <1>8, <1>9, <1>10, <1>11, <1>12, <1>13, <1>14, <1>15, <1>16 DEF Next, Step

\* Waiting or collected, never both.
LEMMA OnceStep ==
    ASSUME IInv, [Next]_vars
    PROVE  ExactlyOnce'
<1> USE TimerAssumption DEF IInv, PeriodIntact, TypeOK, HandInv, InsertInv, ExactlyOnce, Inserting, Many
<1>1. CASE UNCHANGED vars
  BY <1>1 DEF vars, timerVars, history
<1>2. CASE Tick
  BY <1>2 DEF Tick, timerVars, history
<1>3. CASE Stuck
  BY <1>3 DEF Stuck, vars, timerVars, history
<1>4. ASSUME NEW t \in Threads, NEW i \in Timers, NEW period \in Periods, NEW recur \in BOOLEAN, Construct(t, i, period, recur)
      PROVE  ExactlyOnce'
  BY <1>4 DEF Construct, Goto, Idle, timerVars, history
<1>5. ASSUME NEW t \in Threads, Insert(t)
      PROVE  ExactlyOnce'
  <2> DEFINE i == arg[t].timer
  <2>1. /\ i \in made /\ pc[t] = "insert" /\ cb[i] /\ fires[i] = 0 /\ TypeOK
        /\ AddTimer(t, i, timers, next[i]) /\ UNCHANGED <<now, timerVars, history, asked, told>>
    BY <1>5 DEF Insert
  <2>2. /\ timers' = timers \cup {i} /\ pc'[t] \in {"free", "notify"}
        /\ \A u \in Threads : u # t => pc'[u] = pc[u] /\ arg'[u] = arg[u]
    <3> HIDE DEF IInv, PeriodIntact, TypeOK, HandInv, InsertInv, ExactlyOnce, Inserting, i
    <3>1. QED  BY <2>1, AddTimerEffect
  <2>3. \A j \in made : j # i => (Inserting(j)' <=> Inserting(j))
    BY <2>1, <2>2
  <2>4. QED
    <3> HIDE DEF IInv, PeriodIntact, TypeOK, HandInv, InsertInv, Inserting, i
    <3>1. ExactlyOnce  BY DEF IInv
    <3>2. QED  BY <2>1, <2>2, <2>3, <3>1 DEF timerVars, history
<1>6. ASSUME NEW t \in Threads, Notify(t)
      PROVE  ExactlyOnce'
  BY <1>6 DEF Notify, Goto, Idle, timerVars, history
<1>7. ASSUME NEW t \in Threads, NEW i \in Timers, Cancel(t, i)
      PROVE  ExactlyOnce'
  BY <1>7 DEF Cancel, Goto, Idle, timerVars, history
<1>8. ASSUME NEW t \in Threads, NEW i \in Timers, CancelExpired(t, i)
      PROVE  ExactlyOnce'
  BY <1>8 DEF CancelExpired, Goto, Idle, timerVars, history
<1>9. ASSUME NEW t \in Threads, NEW i \in Timers, Refresh(t, i)
      PROVE  ExactlyOnce'
  BY <1>9 DEF Refresh, Goto, Idle, timerVars, history
<1>10. ASSUME NEW t \in Threads, NEW i \in Timers, NEW period \in Periods, NEW fromNow \in BOOLEAN, ResetCheck(t, i, period, fromNow)
      PROVE  ExactlyOnce'
  BY <1>10 DEF ResetCheck, Goto, Idle, timerVars, history
<1>11. ASSUME NEW t \in Threads, ResetLocked(t)
      PROVE  ExactlyOnce'
  <2> DEFINE i == arg[t].timer
  <2> DEFINE due == (IF arg[t].now THEN now ELSE next[i] - ms[i]) + arg[t].time
  <2>1. /\ i \in made /\ i \in timers /\ TypeOK /\ pc[t] = "reset"
        /\ AddTimer(t, i, timers \ {i}, due) /\ UNCHANGED <<cb, recurring, made, fires>>
    BY <1>11 DEF ResetLocked
  <2>2. /\ timers' = (timers \ {i}) \cup {i} /\ pc'[t] \in {"free", "notify"}
        /\ \A u \in Threads : u # t => pc'[u] = pc[u] /\ arg'[u] = arg[u]
    <3> HIDE DEF IInv, PeriodIntact, TypeOK, HandInv, InsertInv, ExactlyOnce, Inserting, i, due
    <3>1. QED  BY <2>1, AddTimerEffect
  <2>3. \A j \in made : Inserting(j)' <=> Inserting(j)
    BY <2>1, <2>2
  <2>4. QED
    <3> HIDE DEF IInv, PeriodIntact, TypeOK, HandInv, InsertInv, Inserting, i, due
    <3>1. ExactlyOnce  BY DEF IInv
    <3>2. timers' = timers  BY <2>1, <2>2
    <3>3. QED  BY <2>1, <2>3, <3>1, <3>2
<1>12. ASSUME NEW t \in Threads, ResetFails(t)
      PROVE  ExactlyOnce'
  BY <1>12 DEF ResetFails, Goto, Idle, timerVars, history
<1>13. ASSUME NEW t \in Threads, GetNextTimer(t)
      PROVE  ExactlyOnce'
  BY <1>13 DEF GetNextTimer, Goto, Idle, timerVars, history
<1>14. ASSUME NEW t \in Threads, ListBegin(t)
      PROVE  ExactlyOnce'
  BY <1>14 DEF ListBegin, Goto, Idle, timerVars, history
<1>15. ASSUME NEW t \in Threads, ListEmpty(t)
      PROVE  ExactlyOnce'
  BY <1>15 DEF ListEmpty, Goto, Idle, timerVars, history
<1>16. ASSUME NEW t \in Threads, NEW probe \in Timers \cup {-1}, ListExpired(t, probe)
      PROVE  ExactlyOnce'
  BY <1>16 DEF ListExpired, Goto, Idle, Collect, Comparator, Goto, timerVars, history
<1>17. QED
  BY <1>1, <1>2, <1>3, <1>4, <1>5, <1>6, <1>7, <1>8, <1>9, <1>10, <1>11, <1>12, <1>13, <1>14, <1>15, <1>16 DEF Next, Step

\* m_tickled stands for a notification.
LEMMA TickledStep ==
    ASSUME IInv, [Next]_vars
    PROVE  TickledInv'
<1> USE TimerAssumption DEF IInv, PeriodIntact, TypeOK, TickledInv
<1>1. CASE UNCHANGED vars
  BY <1>1 DEF vars, timerVars, history
<1>2. CASE Tick
  BY <1>2 DEF Tick, timerVars, history
<1>3. CASE Stuck
  BY <1>3 DEF Stuck, vars, timerVars, history
<1>4. ASSUME NEW t \in Threads, NEW i \in Timers, NEW period \in Periods, NEW recur \in BOOLEAN, Construct(t, i, period, recur)
      PROVE  TickledInv'
  BY <1>4 DEF Construct, Goto, Idle, timerVars, history
<1>5. ASSUME NEW t \in Threads, Insert(t)
      PROVE  TickledInv'
  BY <1>5 DEF Insert, Goto, Idle, AddTimer, Goto, timerVars, history
<1>6. ASSUME NEW t \in Threads, Notify(t)
      PROVE  TickledInv'
  BY <1>6 DEF Notify, Goto, Idle, timerVars, history
<1>7. ASSUME NEW t \in Threads, NEW i \in Timers, Cancel(t, i)
      PROVE  TickledInv'
  BY <1>7 DEF Cancel, Goto, Idle, timerVars, history
<1>8. ASSUME NEW t \in Threads, NEW i \in Timers, CancelExpired(t, i)
      PROVE  TickledInv'
  BY <1>8 DEF CancelExpired, Goto, Idle, timerVars, history
<1>9. ASSUME NEW t \in Threads, NEW i \in Timers, Refresh(t, i)
      PROVE  TickledInv'
  BY <1>9 DEF Refresh, Goto, Idle, timerVars, history
<1>10. ASSUME NEW t \in Threads, NEW i \in Timers, NEW period \in Periods, NEW fromNow \in BOOLEAN, ResetCheck(t, i, period, fromNow)
      PROVE  TickledInv'
  BY <1>10 DEF ResetCheck, Goto, Idle, timerVars, history
<1>11. ASSUME NEW t \in Threads, ResetLocked(t)
      PROVE  TickledInv'
  BY <1>11 DEF ResetLocked, Goto, Idle, AddTimer, Goto, timerVars, history
<1>12. ASSUME NEW t \in Threads, ResetFails(t)
      PROVE  TickledInv'
  BY <1>12 DEF ResetFails, Goto, Idle, timerVars, history
<1>13. ASSUME NEW t \in Threads, GetNextTimer(t)
      PROVE  TickledInv'
  BY <1>13 DEF GetNextTimer, Goto, Idle, timerVars, history
<1>14. ASSUME NEW t \in Threads, ListBegin(t)
      PROVE  TickledInv'
  BY <1>14 DEF ListBegin, Goto, Idle, timerVars, history
<1>15. ASSUME NEW t \in Threads, ListEmpty(t)
      PROVE  TickledInv'
  BY <1>15 DEF ListEmpty, Goto, Idle, timerVars, history
<1>16. ASSUME NEW t \in Threads, NEW probe \in Timers \cup {-1}, ListExpired(t, probe)
      PROVE  TickledInv'
  BY <1>16 DEF ListExpired, Goto, Idle, Collect, Comparator, Goto, timerVars, history
<1>17. QED
  BY <1>1, <1>2, <1>3, <1>4, <1>5, <1>6, <1>7, <1>8, <1>9, <1>10, <1>11, <1>12, <1>13, <1>14, <1>15, <1>16 DEF Next, Step

\* The front is announced.
LEMMA FrontStep ==
    ASSUME IInv, [Next]_vars
    PROVE  FrontAnnounced'
<1> USE TimerAssumption DEF IInv, PeriodIntact, TypeOK, HandInv, TickledInv, FrontAnnounced, Never
<1>1. CASE UNCHANGED vars
  BY <1>1 DEF vars, timerVars, history
<1>2. CASE Tick
  BY <1>2 DEF Tick, timerVars, history
<1>3. CASE Stuck
  BY <1>3 DEF Stuck, vars, timerVars, history
<1>4. ASSUME NEW t \in Threads, NEW i \in Timers, NEW period \in Periods, NEW recur \in BOOLEAN, Construct(t, i, period, recur)
      PROVE  FrontAnnounced'
  BY <1>4 DEF Construct, Goto, Idle, timerVars, history
<1>5. ASSUME NEW t \in Threads, Insert(t)
      PROVE  FrontAnnounced'
  <2> DEFINE i == arg[t].timer
  <2>1. /\ i \in made /\ i \in Timers /\ TypeOK
        /\ AddTimer(t, i, timers, next[i]) /\ UNCHANGED <<now, timerVars, history, asked, told>>
    BY <1>5 DEF Insert
  <2>2. pc[t] # "notify" /\ next[i] \in Nat /\ i \notin timers /\ TickledInv /\ FrontAnnounced
    BY <1>5, <2>1 DEF Insert, InsertInv
  <2>3. next' = [next EXCEPT ![i] = next[i]] /\ UNCHANGED <<asked, told>>
    BY <2>1 DEF timerVars
  <2> HIDE DEF i, IInv, PeriodIntact, TypeOK, HandInv, TickledInv, FrontAnnounced
  <2>4. QED  BY <2>1, <2>2, <2>3, AddTimerAnnounces
<1>6. ASSUME NEW t \in Threads, Notify(t)
      PROVE  FrontAnnounced'
  BY <1>6 DEF Notify, Goto, Idle, timerVars, history
<1>7. ASSUME NEW t \in Threads, NEW i \in Timers, Cancel(t, i)
      PROVE  FrontAnnounced'
  BY <1>7 DEF Cancel, Goto, Idle, timerVars, history
<1>8. ASSUME NEW t \in Threads, NEW i \in Timers, CancelExpired(t, i)
      PROVE  FrontAnnounced'
  BY <1>8 DEF CancelExpired, Goto, Idle, timerVars, history
<1>9. ASSUME NEW t \in Threads, NEW i \in Timers, Refresh(t, i)
      PROVE  FrontAnnounced'
  <2>1. /\ next' = [next EXCEPT ![i] = now + ms[i]] /\ i \in timers
        /\ UNCHANGED <<timers, pc, asked, told>>
    BY <1>9 DEF Refresh
  <2>2. now + ms[i] \in Nat /\ next[i] \in Nat /\ next[i] <= now + ms[i]
    <3>1. /\ now \in Nat /\ ms[i] \in Nat /\ next[i] \in Nat /\ start[i] \in Nat
      BY Numbers
    <3>2. next[i] = start[i] + ms[i] /\ start[i] <= now  BY <2>1
    <3>3. QED  BY <3>1, <3>2
  <2>3. \A j \in timers : next[j] \in Nat /\ next'[j] \in Nat /\ next[j] <= next'[j]
    BY <2>1, <2>2
  <2>4. TypeOK /\ FrontAnnounced /\ timers' \subseteq timers /\ \A u \in Threads : pc[u] = "notify" => pc'[u] = "notify"
    BY <2>1
  <2> HIDE DEF IInv, PeriodIntact, TypeOK, HandInv, TickledInv, FrontAnnounced
  <2>5. QED  BY <2>1, <2>3, <2>4, LaterStillAnnounced
<1>10. ASSUME NEW t \in Threads, NEW i \in Timers, NEW period \in Periods, NEW fromNow \in BOOLEAN, ResetCheck(t, i, period, fromNow)
      PROVE  FrontAnnounced'
  BY <1>10 DEF ResetCheck, Goto, Idle, timerVars, history
<1>11. ASSUME NEW t \in Threads, ResetLocked(t)
      PROVE  FrontAnnounced'
  <2> DEFINE i == arg[t].timer
  <2> DEFINE due == (IF arg[t].now THEN now ELSE next[i] - ms[i]) + arg[t].time
  <2>1. /\ i \in made /\ i \in Timers /\ TypeOK
        /\ AddTimer(t, i, timers \ {i}, due) /\ next' = [next EXCEPT ![i] = due]
        /\ UNCHANGED <<asked, told>>
    BY <1>11 DEF ResetLocked
  <2>2. pc[t] # "notify" /\ TickledInv /\ FrontAnnounced /\ arg[t].time \in Nat
    BY <1>11 DEF ResetLocked
  <2>3. due \in Nat
    <3>1. /\ now \in Nat /\ ms[i] \in Nat /\ next[i] \in Nat /\ start[i] \in Nat
      BY <2>1, Numbers
    <3>2. next[i] = start[i] + ms[i]  BY <2>1
    <3>3. QED  BY <2>2, <3>1, <3>2
  <2> HIDE DEF i, due, IInv, PeriodIntact, TypeOK, HandInv, TickledInv, FrontAnnounced
  <2>4. QED  BY <2>1, <2>2, <2>3, AddTimerAnnounces
<1>12. ASSUME NEW t \in Threads, ResetFails(t)
      PROVE  FrontAnnounced'
  BY <1>12 DEF ResetFails, Goto, Idle, timerVars, history
<1>13. ASSUME NEW t \in Threads, GetNextTimer(t)
      PROVE  FrontAnnounced'
  <2>1. CASE timers = {}  BY <1>13, <2>1 DEF GetNextTimer
  <2>2. CASE timers # {}
    <3>1. PICK i \in timers : (\A j \in timers : next[i] <= next[j]) /\ asked' = next[i]
      BY <1>13, <2>2 DEF GetNextTimer
    <3>2. \A j \in timers : next[j] \in Nat  OBVIOUS
    <3>3. asked' # Never /\ \A j \in timers : ~(next[j] < asked')  BY <3>1, <3>2
    <3>4. QED  BY <1>13, <3>3 DEF GetNextTimer, timerVars
  <2>3. QED  BY <2>1, <2>2
<1>14. ASSUME NEW t \in Threads, ListBegin(t)
      PROVE  FrontAnnounced'
  BY <1>14 DEF ListBegin, Goto, Idle, timerVars, history
<1>15. ASSUME NEW t \in Threads, ListEmpty(t)
      PROVE  FrontAnnounced'
  BY <1>15 DEF ListEmpty, Goto, Idle, timerVars, history
<1>16. ASSUME NEW t \in Threads, NEW probe \in Timers \cup {-1}, ListExpired(t, probe)
      PROVE  FrontAnnounced'
  <2> DEFINE due == {i \in timers : ~Comparator(arg[t].time, probe, next[i], i)}
  <2> DEFINE again == {i \in due : recurring[i]}
  <2>1. /\ timers' = (timers \ due) \cup again
        /\ next' = [i \in Timers |-> IF i \in again THEN arg[t].time + ms[i] ELSE next[i]]
        /\ pc' = [pc EXCEPT ![t] = "free"] /\ pc[t] = "list" /\ UNCHANGED <<asked, told>>
        /\ arg[t].time \in Nat
    BY <1>16 DEF ListExpired, Collect, Goto
  <2>2. \A j \in due : next[j] <= arg[t].time
    <3>1. \A j \in timers : next[j] \in Nat  OBVIOUS
    <3>2. QED  BY <2>1, <3>1 DEF Comparator
  <2>3. timers' \subseteq timers /\ again \subseteq due  BY <2>1
  <2>4. \A j \in Timers : ms[j] \in Nat /\ next[j] \in Nat  BY Numbers
  <2> HIDE DEF due, again
  <2>5. \A j \in timers' : next[j] \in Nat /\ next'[j] \in Nat /\ next[j] <= next'[j]
    BY <2>1, <2>2, <2>3, <2>4
  <2>6. TypeOK /\ FrontAnnounced /\ timers' \subseteq timers /\ \A u \in Threads : pc[u] = "notify" => pc'[u] = "notify"
    BY <2>1, <2>3
  <2> HIDE DEF IInv, PeriodIntact, TypeOK, HandInv, TickledInv, FrontAnnounced
  <2>7. QED  BY <2>1, <2>3, <2>5, <2>6, LaterStillAnnounced
<1>17. QED
  BY <1>1, <1>2, <1>3, <1>4, <1>5, <1>6, <1>7, <1>8, <1>9, <1>10, <1>11, <1>12, <1>13, <1>14, <1>15, <1>16 DEF Next, Step

----------------------------------------------------------------------------
LEMMA InitIInv == Init => IInv
<1> SUFFICES ASSUME Init PROVE IInv
  OBVIOUS
<1> USE TimerAssumption DEF Init
<1>1. Idle \in Args  BY IdleArg
<1>2. TypeOK
  <2>1. /\ now \in 0..MaxTime /\ fires \in [Timers -> 0..Many] /\ asked \in Nat \cup {Never}
        /\ next \in [Timers -> Nat] /\ start \in [Timers -> Nat]
    BY DEF Never, Many
  <2>2. ms \in [Timers -> Periods \cup {0}] /\ arg \in [Threads -> Args]  BY <1>1
  <2>3. QED  BY <2>1, <2>2 DEF TypeOK, Args
<1>3. HandInv /\ InsertInv  BY DEF HandInv, InsertInv
<1>4. ExactlyOnce /\ TickledInv /\ FrontAnnounced  BY DEF ExactlyOnce, TickledInv, FrontAnnounced
<1>5. PeriodIntact  BY <1>2 DEF PeriodIntact
<1>6. QED  BY <1>3, <1>4, <1>5 DEF IInv

LEMMA NextIInv == IInv /\ [Next]_vars => IInv'
BY PeriodStep, HandStep, InsertStep, OnceStep, TickledStep, FrontStep DEF IInv

\* The inductive invariant holds in every state of every execution.
THEOREM Invariance == Spec => []IInv
BY InitIInv, NextIInv, PTL DEF Spec

\* Whatever order the threads take the lock in: a one-shot timer that is not
\* cancelled is waiting or has been collected, once; a recurring one waits; no
\* timer that waits has lost its callback (timer.cpp:46-85, 135-165).
THEOREM TimersExactlyOnce == Spec => []ExactlyOnce
<1>1. IInv => ExactlyOnce  BY DEF IInv
<1>2. QED  BY <1>1, Invariance, PTL

\* m_next - m_ms, from which reset(ms, false) works, is always when the period
\* of the timer began, and that is never in the future (timer.cpp:66-85).
THEOREM PeriodsIntact == Spec => []PeriodIntact
<1>1. IInv => PeriodIntact  BY DEF IInv
<1>2. QED  BY <1>1, Invariance, PTL

\* An epoll_wait that sleeps past the front has been, or is about to be,
\* notified, in spite of m_tickled, which suppresses notifications
\* (timer.cpp:94-105, 119-133).
THEOREM FrontIsAnnounced == Spec => []FrontAnnounced
<1>1. IInv => FrontAnnounced  BY DEF IInv
<1>2. QED  BY <1>1, Invariance, PTL

\* What the step of a thread that leaves listExpiredCb has done.
LEMMA DrainsStep ==
    ASSUME IInv, [Next]_vars, NEW u \in Threads, pc[u] = "list", pc'[u] = "free"
    PROVE  \A i \in timers' : next'[i] >= arg[u].time
<1> USE DEF IInv, PeriodIntact, TypeOK
<1>1. (UNCHANGED vars \/ Tick \/ Stuck) => FALSE  BY DEF vars, Tick, Stuck
<1>2. ASSUME NEW t \in Threads, Step(t), t # u
      PROVE  FALSE
  <2>1. pc'[u] = pc[u]
    BY <1>2 DEF Step, Construct, Insert, AddTimer, Notify, Cancel, CancelExpired, Refresh, ResetCheck,
                ResetLocked, ResetFails, GetNextTimer, ListBegin, ListEmpty, ListExpired, Collect, Goto
  <2>2. QED  BY <2>1
<1>3. ASSUME Step(u)
      PROVE  ListEmpty(u) \/ \E probe \in Timers \cup {-1} : ListExpired(u, probe)
  BY <1>3 DEF Step, Construct, Insert, Notify, Cancel, CancelExpired, Refresh, ResetCheck,
              ResetLocked, ResetFails, GetNextTimer, ListBegin
<1>4. CASE ListEmpty(u)  BY <1>4 DEF ListEmpty
<1>5. ASSUME NEW probe \in Timers \cup {-1}, ListExpired(u, probe)
      PROVE  \A i \in timers' : next'[i] >= arg[u].time
  <2> DEFINE due == {i \in timers : ~Comparator(arg[u].time, probe, next[i], i)}
  <2> DEFINE again == {i \in due : recurring[i]}
  <2>1. /\ timers' = (timers \ due) \cup again
        /\ next' = [i \in Timers |-> IF i \in again THEN arg[u].time + ms[i] ELSE next[i]]
    BY <1>5 DEF ListExpired, Collect
  <2>2. arg[u].time \in Nat /\ \A j \in Timers : ms[j] \in Nat /\ next[j] \in Nat  BY Numbers
  <2>3. again \subseteq timers /\ timers \subseteq Timers  BY DEF again
  <2>4. \A j \in timers \ due : arg[u].time <= next[j]  BY <2>2, <2>3 DEF Comparator
  <2> HIDE DEF due, again
  <2>5. QED  BY <2>1, <2>2, <2>3, <2>4
<1>6. QED  BY <1>1, <1>2, <1>3, <1>4, <1>5 DEF Next

\* A call of listExpiredCb leaves no timer that was due before the time it
\* read, whatever was added, reset or refreshed between the clock and the lock
\* (timer.cpp:135-165).
THEOREM ExpiredAreDrained == Spec => Drains
<1>1. IInv /\ [Next]_vars =>
        [\A t \in Threads : pc[t] = "list" /\ pc'[t] = "free" =>
            \A i \in timers' : next'[i] >= arg[t].time]_vars
  BY DrainsStep
<1>2. QED  BY <1>1, Invariance, PTL DEF Spec, Drains
=============================================================================
