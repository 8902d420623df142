---------------------------- MODULE TimerManager ----------------------------
(***************************************************************************)
(* Timer and TimerManager: timers kept in a set ordered by (m_next,        *)
(* address), added, cancelled, refreshed and reset by several threads      *)
(* while other threads ask for the next expiry and collect the callbacks   *)
(* that are due.                                                           *)
(*                                                                         *)
(* One action is one region under m_mutex, or one unlocked access between  *)
(* two of them: the clock read of the constructor and of listExpiredCb,    *)
(* the test of m_ms in reset, the call of onTimerInsertAtFront.            *)
(***************************************************************************)
EXTENDS Integers, FiniteSets

CONSTANTS
    Threads,       \* threads that use the manager
    Timers,        \* timers, numbered in the order of their addresses
    Periods,       \* the ms arguments
    MaxTime        \* the clock stops here

ASSUME TimerAssumption ==
    /\ Timers \subseteq Nat /\ IsFiniteSet(Timers)
    /\ Periods \subseteq Nat
    /\ MaxTime \in Nat

VARIABLES
    now,                         \* GetCurrentMS()
    timers, tickled,             \* TimerManager: m_timers, m_tickled
    next, ms, cb, recurring,     \* Timer: m_next, m_ms, m_cb # nullptr, m_recurring
    made, handles,               \* timers constructed; timers addTimer has returned
    pc, arg,                     \* threads: where, and with which timer, time and flag
    start, fires,                \* history: when the period began, callbacks collected (0, 1, many)
    asked, told                  \* history: last getNextTimer(), whether the waiter was notified since

timerVars == <<next, ms, cb, recurring, made>>
history   == <<start, fires>>
vars == <<now, timers, tickled, timerVars, handles, pc, arg, history, asked, told>>

Many  == 2              \* fires counts 0, 1 and "more than one"
Never == -1             \* getNextTimer() found no timer

Idle == [timer |-> 0, time |-> 0, now |-> FALSE]

TypeOK ==
    /\ now \in 0..MaxTime
    /\ handles \subseteq made /\ timers \subseteq made /\ made \subseteq Timers
    /\ tickled \in BOOLEAN /\ told \in BOOLEAN
    /\ next \in [Timers -> Nat] /\ ms \in [Timers -> Periods \cup {0}]
    /\ cb \in [Timers -> BOOLEAN] /\ recurring \in [Timers -> BOOLEAN]
    /\ pc \in [Threads -> {"free", "insert", "notify", "reset", "list", "stuck"}]
    /\ arg \in [Threads -> [timer : Timers \cup {0}, time : Nat, now : BOOLEAN]]
    /\ start \in [Timers -> Nat] /\ fires \in [Timers -> 0..Many]
    /\ asked \in Nat \cup {Never}

Init ==
    /\ now = 0 /\ timers = {} /\ tickled = FALSE
    /\ next = [i \in Timers |-> 0] /\ ms = [i \in Timers |-> 0]
    /\ cb = [i \in Timers |-> FALSE] /\ recurring = [i \in Timers |-> FALSE]
    /\ made = {} /\ handles = {}
    /\ pc = [t \in Threads |-> "free"] /\ arg = [t \in Threads |-> Idle]
    /\ start = [i \in Timers |-> 0] /\ fires = [i \in Timers |-> 0]
    /\ asked = Never /\ told = FALSE

\* m_mutex can be taken: no thread is stuck inside it.
Unlocked == \A u \in Threads : pc[u] # "stuck"

\* Timer::Comparator on two timers that are not null.
Comparator(n1, a1, n2, a2) == n1 < n2 \/ (n1 = n2 /\ a1 < a2)

Goto(t, point, a) == pc' = [pc EXCEPT ![t] = point] /\ arg' = [arg EXCEPT ![t] = a]

----------------------------------------------------------------------------
(***************************************************************************)
(* Adding a timer.                                                         *)
(***************************************************************************)
\* The constructor reads the clock before addTimer takes the lock.
Construct(t, i, period, recur) ==
    /\ pc[t] = "free"
    /\ i \notin made
    /\ made' = made \cup {i}
    /\ next' = [next EXCEPT ![i] = now + period]
    /\ ms' = [ms EXCEPT ![i] = period]
    /\ cb' = [cb EXCEPT ![i] = TRUE]
    /\ recurring' = [recurring EXCEPT ![i] = recur]
    /\ start' = [start EXCEPT ![i] = now]
    /\ Goto(t, "insert", [Idle EXCEPT !.timer = i])
    /\ UNCHANGED <<now, timers, tickled, handles, fires, asked, told>>

\* Mutant: a reset timer is put back without looking at the front.
AddTimerAnywhere(t, i, others, due) ==
    /\ timers' = others \cup {i}
    /\ Goto(t, "free", Idle)
    /\ handles' = handles \cup {i}
    /\ UNCHANGED tickled

\* addTimer(val, lock): insert; if the timer became the front and nobody was
\* tickled since the last getNextTimer(), notify after the unlock.
AddTimer(t, i, others, due) ==
    LET atFront == ~tickled /\ \A j \in others : Comparator(due, i, next[j], j)
    IN  /\ timers' = others \cup {i}
        /\ tickled' = (tickled \/ atFront)
        /\ IF atFront
             THEN Goto(t, "notify", [Idle EXCEPT !.timer = i]) /\ UNCHANGED handles
             ELSE Goto(t, "free", Idle) /\ handles' = handles \cup {i}

Insert(t) ==
    /\ pc[t] = "insert" /\ Unlocked
    /\ AddTimer(t, arg[t].timer, timers, next[arg[t].timer])
    /\ UNCHANGED <<now, timerVars, history, asked, told>>

\* onTimerInsertAtFront(), then addTimer or reset returns.
Notify(t) ==
    /\ pc[t] = "notify"
    /\ told' = TRUE
    /\ handles' = handles \cup {arg[t].timer}
    /\ Goto(t, "free", Idle)
    /\ UNCHANGED <<now, timers, tickled, timerVars, history, asked>>

----------------------------------------------------------------------------
(***************************************************************************)
(* Timer::cancel, refresh and reset.                                       *)
(***************************************************************************)
Cancel(t, i) ==
    /\ pc[t] = "free" /\ Unlocked
    /\ i \in handles /\ cb[i] /\ i \in timers
    /\ cb' = [cb EXCEPT ![i] = FALSE]
    /\ timers' = timers \ {i}
    /\ UNCHANGED <<now, tickled, next, ms, recurring, made, handles, pc, arg, history, asked, told>>

\* cancel() does not compare the result of find() with end().  The callback of
\* an expired one-shot timer is kept, so cancelling it erases end(): undefined
\* behaviour.  With libstdc++ the tree code loops for ever on an empty set, with
\* m_mutex held, and otherwise ends in an invalid free; either way nobody gets
\* the lock again.
CancelExpired(t, i) ==
    /\ pc[t] = "free" /\ Unlocked
    /\ i \in handles /\ cb[i] /\ i \notin timers
    /\ pc' = [pc EXCEPT ![t] = "stuck"]
    /\ UNCHANGED <<now, timers, tickled, timerVars, handles, arg, history, asked, told>>

\* Mutant: no test against end(): an expired timer is inserted again.
RefreshRevives(t, i) ==
    /\ pc[t] = "free" /\ Unlocked
    /\ i \in handles /\ cb[i]
    /\ next' = [next EXCEPT ![i] = now + ms[i]]
    /\ start' = [start EXCEPT ![i] = now]
    /\ timers' = timers \cup {i}
    /\ UNCHANGED <<now, tickled, ms, cb, recurring, made, handles, pc, arg, fires, asked, told>>

\* refresh(): the period starts again now.  The timer only moves back, so the
\* front needs no notification.
Refresh(t, i) ==
    /\ pc[t] = "free" /\ Unlocked
    /\ i \in handles /\ cb[i] /\ i \in timers
    /\ next' = [next EXCEPT ![i] = now + ms[i]]
    /\ start' = [start EXCEPT ![i] = now]
    /\ UNCHANGED <<now, timers, tickled, ms, cb, recurring, made, handles, pc, arg,
                   fires, asked, told>>

\* reset(): the period is compared before the lock is taken.
ResetCheck(t, i, period, fromNow) ==
    /\ pc[t] = "free"
    /\ i \in handles
    /\ period # ms[i] \/ fromNow
    /\ Goto(t, "reset", [timer |-> i, time |-> period, now |-> fromNow])
    /\ UNCHANGED <<now, timers, tickled, timerVars, handles, history, asked, told>>

\* Mutant: m_ms is assigned before the start of the period is computed.
ResetSwapped(t) ==
    LET i == arg[t].timer
        period == arg[t].time
        begin == IF arg[t].now THEN now ELSE next[i] - period
    IN  /\ pc[t] = "reset" /\ Unlocked
        /\ cb[i] /\ i \in timers
        /\ begin >= 0
        /\ ms' = [ms EXCEPT ![i] = period]
        /\ next' = [next EXCEPT ![i] = begin + period]
        /\ start' = [start EXCEPT ![i] = IF arg[t].now THEN now ELSE @]
        /\ AddTimer(t, i, timers \ {i}, begin + period)
        /\ UNCHANGED <<now, cb, recurring, made, fires, asked, told>>

ResetLocked(t) ==
    LET i == arg[t].timer
        period == arg[t].time
        begin == IF arg[t].now THEN now ELSE next[i] - ms[i]
    IN  /\ pc[t] = "reset" /\ Unlocked
        /\ cb[i] /\ i \in timers
        /\ ms' = [ms EXCEPT ![i] = period]
        /\ next' = [next EXCEPT ![i] = begin + period]
        /\ start' = [start EXCEPT ![i] = IF arg[t].now THEN now ELSE @]
        /\ AddTimer(t, i, timers \ {i}, begin + period)
        /\ UNCHANGED <<now, cb, recurring, made, fires, asked, told>>

\* Cancelled or expired in the meantime: reset() returns false.
ResetFails(t) ==
    /\ pc[t] = "reset" /\ Unlocked
    /\ ~cb[arg[t].timer] \/ arg[t].timer \notin timers
    /\ Goto(t, "free", Idle)
    /\ UNCHANGED <<now, timers, tickled, timerVars, handles, history, asked, told>>

----------------------------------------------------------------------------
(***************************************************************************)
(* What the threads of the IOManager call.                                 *)
(***************************************************************************)
\* getNextTimer(): the answer is the time of the front.
GetNextTimer(t) ==
    /\ pc[t] = "free" /\ Unlocked
    /\ tickled' = FALSE
    /\ told' = FALSE
    /\ IF timers = {} THEN asked' = Never
       ELSE \E i \in timers : /\ \A j \in timers : next[i] <= next[j]
                              /\ asked' = next[i]
    /\ UNCHANGED <<now, timers, timerVars, handles, pc, arg, history>>

\* listExpiredCb reads the clock before it takes the lock.
ListBegin(t) ==
    /\ pc[t] = "free"
    /\ Goto(t, "list", [Idle EXCEPT !.time = now])
    /\ UNCHANGED <<now, timers, tickled, timerVars, handles, history, asked, told>>

ListEmpty(t) ==
    /\ pc[t] = "list" /\ Unlocked
    /\ timers = {}
    /\ Goto(t, "free", Idle)
    /\ UNCHANGED <<now, timers, tickled, timerVars, handles, history, asked, told>>

\* Collect the timers in due at the time that was read.
Collect(t, due) ==
    LET time == arg[t].time
        again == {i \in due : recurring[i]}
    IN  /\ timers' = (timers \ due) \cup again
        /\ next' = [i \in Timers |-> IF i \in again THEN time + ms[i] ELSE next[i]]
        /\ start' = [i \in Timers |-> IF i \in again THEN time ELSE start[i]]
        /\ fires' = [i \in Timers |-> IF i \in due /\ fires[i] < Many THEN fires[i] + 1
                                                                      ELSE fires[i]]
        /\ Goto(t, "free", Idle)
        /\ UNCHANGED <<now, tickled, ms, cb, recurring, made, handles, asked, told>>

\* Mutant: one timer per call.
ListExpiredOne(t, probe) ==
    /\ pc[t] = "list" /\ Unlocked
    /\ timers # {}
    /\ \E i \in timers : Collect(t, IF ~Comparator(arg[t].time, probe, next[i], i) THEN {i} ELSE {})

\* The timers up to upper_bound of a probe made on the heap: one that is due
\* exactly now is collected if its address is not above the probe's.
ListExpired(t, probe) ==
    /\ pc[t] = "list" /\ Unlocked
    /\ timers # {}
    /\ Collect(t, {i \in timers : ~Comparator(arg[t].time, probe, next[i], i)})

Tick ==
    /\ now < MaxTime
    /\ now' = now + 1
    /\ UNCHANGED <<timers, tickled, timerVars, handles, pc, arg, history, asked, told>>

Step(t) ==
    \/ \E i \in Timers, period \in Periods, recur \in BOOLEAN : Construct(t, i, period, recur)
    \/ Insert(t) \/ Notify(t)
    \/ \E i \in Timers : Cancel(t, i) \/ CancelExpired(t, i) \/ Refresh(t, i)
    \/ \E i \in Timers, period \in Periods, fromNow \in BOOLEAN : ResetCheck(t, i, period, fromNow)
    \/ ResetLocked(t) \/ ResetFails(t)
    \/ GetNextTimer(t)
    \/ ListBegin(t) \/ ListEmpty(t) \/ \E probe \in Timers \cup {-1} : ListExpired(t, probe)

\* Everybody waits for the lock.
Stuck == ~Unlocked /\ UNCHANGED vars

Next == Tick \/ Stuck \/ \E t \in Threads : Step(t)

Spec == Init /\ [][Next]_vars

----------------------------------------------------------------------------
(***************************************************************************)
(* Properties.                                                             *)
(***************************************************************************)
Inserting(i) == \E t \in Threads : pc[t] = "insert" /\ arg[t].timer = i

\* A one-shot timer is collected exactly once unless it is cancelled: at any
\* time it is waiting in m_timers or has been collected, never both, never
\* neither, whatever refresh and reset race with the expiry
\* (timer.cpp:46-85, 135-165).  A recurring timer stays in m_timers until it is
\* cancelled, and no timer there has lost its callback to cancel():
\* listExpiredCb copies m_cb without a test.
ExactlyOnce ==
    /\ \A i \in made : cb[i] /\ ~recurring[i] /\ ~Inserting(i) =>
         \/ i \in timers /\ fires[i] = 0
         \/ i \notin timers /\ fires[i] = 1
    /\ \A i \in made : cb[i] /\ recurring[i] => i \in timers \/ Inserting(i)
    /\ \A i \in timers : cb[i]

\* reset(ms, false) recovers the start of the period as m_next - m_ms: after
\* any number of resets, refreshes and recurrences that is still when the
\* period began, so no callback is collected before its period has passed.
PeriodIntact ==
    /\ TypeOK
    /\ \A i \in made : next[i] = start[i] + ms[i] /\ start[i] <= now

\* m_tickled suppresses notifications, getNextTimer() forgets it under a read
\* lock, refresh() never notifies: still, when the front is earlier than the
\* last waiter was told, the waiter has been or is about to be notified
\* (timer.cpp:94-105, 119-133).
FrontAnnounced ==
    timers # {} /\ (asked = Never \/ \E i \in timers : next[i] < asked) =>
        told \/ \E t \in Threads : pc[t] = "notify"

\* A call of listExpiredCb leaves no timer that was due before the time it read.
Drains ==
    [][\A t \in Threads : pc[t] = "list" /\ pc'[t] = "free" =>
          \A i \in timers' : next'[i] >= arg[t].time]_vars
=============================================================================
