--------------------------- MODULE FdEventsProofs ---------------------------
(***************************************************************************)
(* Proofs about FdEvents, for any number of threads, descriptors and       *)
(* fibers.                                                                 *)
(*                                                                         *)
(* Three things are kept in step by the code: m_pendingEventCount and the  *)
(* EventContexts with fd_ctx->event (BookInv), the registration in epoll   *)
(* with fd_ctx->event (KernelInv), and the reports a thread holds with     *)
(* what is still waited for (BatchInv, NoLostEdge).  With one thread in    *)
(* the pool nothing changes between epoll_wait and the lock, nor between   *)
(* the two halves of close() (OneInv); with several, what remains is that  *)
(* a registration, while it exists, agrees with fd_ctx->event.             *)
(***************************************************************************)
EXTENDS FdEvents, FiniteSetTheorems, TLAPS

----------------------------------------------------------------------------
(***************************************************************************)
(* The inductive invariant.                                                *)
(***************************************************************************)
Registered == {p \in Fds \X Events : p[2] \in event[p[1]]}

\* Bookkeeping without cardinalities of the sets of EventContexts.
BookInv ==
    /\ IsFiniteSet(Registered) /\ pending = Cardinality(Registered)
    /\ \A fd \in Fds, e \in Events : e \in event[fd] <=> waiter[fd][e] # NoFiber
    /\ \A f \in Fibers : fiber[f] = "waiting" <=> \E fd \in Fds, e \in Events : waiter[fd][e] = f
    /\ \A fd, gd \in Fds, e, d \in Events :
          waiter[fd][e] = waiter[gd][d] /\ waiter[fd][e] # NoFiber => fd = gd /\ e = d

\* A registration belongs to an open descriptor, watches what fd_ctx->event
\* holds, and is the only way onto the ready list.
KernelInv ==
    \A fd \in Fds :
        /\ reg[fd] => open[fd] /\ interest[fd] = event[fd] /\ event[fd] # {}
        /\ ~reg[fd] => interest[fd] = {}
        /\ fd \in list => reg[fd]

\* Reports are in the hands of a thread inside the loop of idle() only.
BatchInv == \A t \in Threads : pc[t] \in {"task", "close"} => batch[t] = Nothing

\* One thread: a report is never stale, and close() has cancelled everything.
OneInv ==
    OneThread =>
        /\ \A t \in Threads : pc[t] # "dead" /\ (t \notin pool => pc[t] = "task")
        /\ \A t \in Threads : pc[t] = "idle" => \A fd \in Fds : batch[t][fd] \cap Events \subseteq event[fd]
        /\ \A t \in Threads : pc[t] = "close" => event[closing[t]] = {}
        /\ \A fd \in Fds : IF open[fd] THEN reg[fd] <=> event[fd] # {} ELSE event[fd] = {}

IInv == TypeOK /\ BookInv /\ KernelInv /\ BatchInv /\ OneInv /\ NoLostEdge

----------------------------------------------------------------------------
\* The setup does not change; a pool of one thread has no second thread.
LEMMA Pool ==
    ASSUME TypeOK
    PROVE  /\ pool \subseteq Threads /\ fds \subseteq Fds /\ IsFiniteSet(pool)
           /\ OneThread => \A t, u \in pool : t = u
<1>1. PICK s \in Setups : s = <<pool, fds>>  BY DEF TypeOK
<1>2. pool = s[1] /\ fds = s[2]  BY <1>1
<1>3. pool \subseteq Threads /\ fds \subseteq Fds  BY <1>2 DEF Threads, Fds
<1>4. IsFiniteSet(pool)  BY <1>2, FdAssumption
<1>5. OneThread => \A t, u \in pool : t = u
  <2>1. SUFFICES ASSUME Cardinality(pool) = 1 PROVE \A t, u \in pool : t = u
    BY DEF OneThread
  <2>2. PICK x : pool = {x}  BY <1>4, <2>1, FS_Singleton
  <2>3. QED  BY <2>2
<1>6. QED  BY <1>3, <1>4, <1>5

\* Events taken from a descriptor.
LEMMA RegisteredLess ==
    ASSUME TypeOK, IsFiniteSet(Registered), NEW fd \in Fds, NEW S \in SUBSET Events,
           S \subseteq event[fd], event' = [event EXCEPT ![fd] = @ \ S]
    PROVE  /\ IsFiniteSet(Registered')
           /\ Cardinality(Registered') = Cardinality(Registered) - Cardinality(S)
<1>1. Registered' = Registered \ ({fd} \X S)
  <2>1. \A g \in Fds : event'[g] = IF g = fd THEN event[g] \ S ELSE event[g]  BY DEF TypeOK
  <2>2. \A p \in Fds \X Events : p \in {fd} \X S <=> p[1] = fd /\ p[2] \in S  OBVIOUS
  <2>3. Registered' = {p \in Fds \X Events : p[2] \in event'[p[1]]}  BY DEF Registered
  <2>4. QED  BY <2>1, <2>2, <2>3 DEF Registered
<1>2. Registered \cap ({fd} \X S) = {fd} \X S  BY DEF Registered
<1>3. IsFiniteSet(S)
  <2>1. IsFiniteSet(Events)
    <3>1. Events = ({} \cup {"READ"}) \cup {"WRITE"}  BY DEF Events
    <3>2. QED  BY <3>1, FS_EmptySet, FS_AddElement
  <2>2. QED  BY <2>1, FS_Subset
<1>4. Cardinality({fd} \X S) = Cardinality(S)
  <2>1. IsFiniteSet({fd}) /\ Cardinality({fd}) = 1  BY FS_Singleton
  <2>2. Cardinality({fd} \X S) = Cardinality({fd}) * Cardinality(S)  BY <1>3, <2>1, FS_Product
  <2>3. Cardinality(S) \in Nat  BY <1>3, FS_CardinalityType
  <2>4. QED  BY <2>1, <2>2, <2>3
<1>5. /\ IsFiniteSet(Registered \ ({fd} \X S))
      /\ Cardinality(Registered \ ({fd} \X S)) = Cardinality(Registered) - Cardinality(Registered \cap ({fd} \X S))
  BY FS_Difference
<1>6. QED  BY <1>1, <1>2, <1>4, <1>5

\* An event added to a descriptor.
LEMMA RegisteredMore ==
    ASSUME TypeOK, IsFiniteSet(Registered), NEW fd \in Fds, NEW e \in Events,
           e \notin event[fd], event' = [event EXCEPT ![fd] = @ \cup {e}]
    PROVE  /\ IsFiniteSet(Registered')
           /\ Cardinality(Registered') = Cardinality(Registered) + 1
<1>1. Registered' = Registered \cup {<<fd, e>>}
  <2>1. \A g \in Fds : event'[g] = IF g = fd THEN event[g] \cup {e} ELSE event[g]  BY DEF TypeOK
  <2>2. \A p \in Fds \X Events : p = <<fd, e>> <=> p[1] = fd /\ p[2] = e  OBVIOUS
  <2>3. Registered' = {p \in Fds \X Events : p[2] \in event'[p[1]]}  BY DEF Registered
  <2>4. QED  BY <2>1, <2>2, <2>3 DEF Registered
<1>2. <<fd, e>> \notin Registered  BY DEF Registered
<1>3. QED  BY <1>1, <1>2, FS_AddElement

\* What triggerEvent does to the books.
LEMMA TriggerBook ==
    ASSUME TypeOK, BookInv, NEW fd \in Fds, NEW S \in SUBSET Events, S \subseteq event[fd],
           TriggerEvents(fd, S)
    PROVE  /\ BookInv' /\ pending' \in Nat
           /\ event' = [event EXCEPT ![fd] = @ \ S]
           /\ event' \in [Fds -> SUBSET Events]
           /\ waiter' \in [Fds -> [Events -> Fibers \cup {NoFiber}]]
           /\ fiber' \in [Fibers -> {"running", "waiting", "queued", "dropped"}]
<1> USE DEF TypeOK, TriggerEvents
<1>1. IsFiniteSet(Registered') /\ pending' = Cardinality(Registered')
  BY RegisteredLess DEF BookInv
<1>2. pending' \in Nat  BY <1>1, FS_CardinalityType
<1>3. \A g \in Fds, d \in Events :
        /\ d \in event'[g] <=> d \in event[g] /\ ~(g = fd /\ d \in S)
        /\ waiter'[g][d] = IF g = fd /\ d \in S THEN NoFiber ELSE waiter[g][d]
  OBVIOUS
<1>4. \A f \in Fibers : fiber'[f] = IF \E d \in S : waiter[fd][d] = f THEN "queued" ELSE fiber[f]
  OBVIOUS
<1>5. /\ event' \in [Fds -> SUBSET Events]
      /\ waiter' \in [Fds -> [Events -> Fibers \cup {NoFiber}]]
      /\ fiber' \in [Fibers -> {"running", "waiting", "queued", "dropped"}]
  OBVIOUS
<1>6. event' = [event EXCEPT ![fd] = @ \ S]  OBVIOUS
<1> HIDE DEF TypeOK, TriggerEvents
<1>7. \A g \in Fds, d \in Events : d \in event'[g] <=> waiter'[g][d] # NoFiber
  BY <1>3 DEF BookInv
<1>8. \A g, h \in Fds, d, c \in Events :
        waiter'[g][d] = waiter'[h][c] /\ waiter'[g][d] # NoFiber => g = h /\ d = c
  BY <1>3 DEF BookInv
<1>9. ASSUME NEW f \in Fibers
      PROVE  fiber'[f] = "waiting" <=> \E g \in Fds, d \in Events : waiter'[g][d] = f
  <2>1. f # NoFiber  BY FdAssumption
  <2>2. CASE \E d \in S : waiter[fd][d] = f
    <3>1. PICK d \in S : waiter[fd][d] = f  BY <2>2
    <3>2. d \in Events /\ fiber'[f] = "queued"  BY <1>4, <3>1
    <3>3. \A g \in Fds, c \in Events : waiter'[g][c] # f
      <4>1. SUFFICES ASSUME NEW g \in Fds, NEW c \in Events, waiter'[g][c] = f PROVE FALSE
        OBVIOUS
      <4>2. waiter[g][c] = f /\ ~(g = fd /\ c \in S)  BY <1>3, <2>1, <4>1
      <4>3. g = fd /\ c = d  BY <2>1, <3>1, <3>2, <4>2 DEF BookInv
      <4>4. QED  BY <3>1, <4>2, <4>3
    <3>4. QED  BY <3>2, <3>3
  <2>3. CASE ~\E d \in S : waiter[fd][d] = f
    <3>1. fiber'[f] = fiber[f]  BY <1>4, <2>3
    <3>2. \A g \in Fds, d \in Events : waiter'[g][d] = f <=> waiter[g][d] = f  BY <1>3, <2>1, <2>3
    <3>3. QED  BY <3>1, <3>2 DEF BookInv
  <2>4. QED  BY <2>2, <2>3
<1>10. BookInv'  BY <1>1, <1>7, <1>8, <1>9 DEF BookInv
<1>11. QED  BY <1>2, <1>5, <1>6, <1>10

\* The fiber in an EventContext.
LEMMA Waiter ==
    ASSUME TypeOK, BookInv, NEW fd \in Fds, NEW e \in Events, e \in event[fd]
    PROVE  waiter[fd][e] \in Fibers /\ fiber[waiter[fd][e]] = "waiting"
BY DEF TypeOK, BookInv

\* The books stay in step with fd_ctx->event.
LEMMA BookStep ==
    ASSUME IInv, [Next]_vars
    PROVE  BookInv'
<1> TypeOK /\ BookInv  BY DEF IInv
<1>1. CASE UNCHANGED vars
  BY <1>1 DEF vars, ctxVars, threadVars, setup, epollVars, BookInv, Registered
<1>2. ASSUME NEW t \in pool, Poll(t)
      PROVE  BookInv'
  BY <1>2 DEF Poll, ctxVars, Done, BookInv, Registered
<1>3. ASSUME NEW t \in pool, LoopEnds(t)
      PROVE  BookInv'
  BY <1>3 DEF LoopEnds, ctxVars, Done, BookInv, Registered
<1>4. ASSUME NEW t \in pool, NEW fd \in fds, HandleSkips(t, fd)
      PROVE  BookInv'
  BY <1>4 DEF HandleSkips, ctxVars, Done, BookInv, Registered
<1>5. ASSUME NEW t \in pool, NEW fd \in fds, Handle(t, fd)
      PROVE  BookInv'
  <2>1. TriggerEvents(fd, RealEvents(t, fd)) /\ RealEvents(t, fd) \in SUBSET Events /\ RealEvents(t, fd) \subseteq event[fd] /\ fd \in Fds
    BY <1>5, Pool DEF Handle, CancelAllEvents, TypeOK, Events, RealEvents
  <2>2. QED  BY <2>1, TriggerBook
<1>6. ASSUME NEW t \in pool, NEW fd \in fds, HandleAborts(t, fd)
      PROVE  BookInv'
  BY <1>6 DEF HandleAborts, ctxVars, Done, BookInv, Registered
<1>7. ASSUME NEW t \in pool, CloseFd(t)
      PROVE  BookInv'
  BY <1>7 DEF CloseFd, ctxVars, Done, BookInv, Registered
<1>8. ASSUME NEW t \in pool, NEW fd \in fds, CancelAll(t, fd)
      PROVE  BookInv'
  <2>1. TriggerEvents(fd, event[fd]) /\ event[fd] \in SUBSET Events /\ event[fd] \subseteq event[fd] /\ fd \in Fds
    BY <1>8, Pool DEF CancelAll, CancelAllEvents, TypeOK, Events, RealEvents
  <2>2. QED  BY <2>1, TriggerBook
<1>9. ASSUME NEW t \in pool, NEW fd \in fds, CloseCancel(t, fd)
      PROVE  BookInv'
  <2>1. event[fd] \in SUBSET Events /\ fd \in Fds  BY <1>9, Pool DEF TypeOK
  <2>2. CASE CancelAllEvents(fd)
    <3>1. TriggerEvents(fd, event[fd])  BY <2>2 DEF CancelAllEvents
    <3>2. QED  BY <2>1, <3>1, TriggerBook
  <2>3. CASE UNCHANGED ctxVars  BY <2>3 DEF ctxVars, BookInv, Registered
  <2>4. QED  BY <1>9, <2>2, <2>3 DEF CloseCancel
<1>10. ASSUME NEW t \in pool, NEW fd \in fds, NEW e \in Events, DelEvent(t, fd, e)
      PROVE  BookInv'
  <2> DEFINE w == waiter[fd][e]
  <2>1. fd \in Fds /\ e \in event[fd]  BY <1>10, Pool DEF DelEvent
  <2>2. /\ pending' = pending - 1 /\ event' = [event EXCEPT ![fd] = @ \ {e}]
        /\ fiber' = [fiber EXCEPT ![w] = "dropped"] /\ waiter' = [waiter EXCEPT ![fd][e] = NoFiber]
    BY <1>10 DEF DelEvent
  <2>3. w \in Fibers /\ fiber[w] = "waiting" /\ w # NoFiber  BY <2>1, Waiter, FdAssumption
  <2>4. \A g \in Fds, d \in Events :
          /\ d \in event'[g] <=> d \in event[g] /\ ~(g = fd /\ d = e)
          /\ waiter'[g][d] = IF g = fd /\ d = e THEN NoFiber ELSE waiter[g][d]
    BY <2>2 DEF TypeOK
  <2>5. \A f \in Fibers : fiber'[f] = IF f = w THEN "dropped" ELSE fiber[f]  BY <2>2 DEF TypeOK
  <2>6. IsFiniteSet(Registered') /\ pending' = Cardinality(Registered')
    <3>1. {e} \in SUBSET Events /\ {e} \subseteq event[fd] /\ Cardinality({e}) = 1  BY <2>1, FS_Singleton
    <3>2. QED  BY <2>1, <2>2, <3>1, RegisteredLess DEF BookInv
  <2> HIDE DEF w
  <2>7. \A g \in Fds, d \in Events : waiter[g][d] = w <=> g = fd /\ d = e
    BY <2>1, <2>3 DEF BookInv, w
  <2>8. \A f \in Fibers : fiber'[f] = "waiting" <=> \E g \in Fds, d \in Events : waiter'[g][d] = f
    <3>1. SUFFICES ASSUME NEW f \in Fibers
                   PROVE  fiber'[f] = "waiting" <=> \E g \in Fds, d \in Events : waiter'[g][d] = f
      OBVIOUS
    <3>2. f # NoFiber  BY FdAssumption
    <3>3. CASE f = w  BY <2>3, <2>4, <2>5, <2>7, <3>3
    <3>4. CASE f # w  BY <2>4, <2>5, <2>7, <3>2, <3>4 DEF BookInv
    <3>5. QED  BY <3>3, <3>4
  <2>9. QED  BY <2>4, <2>6, <2>8 DEF BookInv
<1>11. ASSUME NEW t \in pool, NEW fd \in fds, NEW e \in Events, CancelEvent(t, fd, e)
      PROVE  BookInv'
  <2>1. TriggerEvents(fd, {e}) /\ {e} \in SUBSET Events /\ {e} \subseteq event[fd] /\ fd \in Fds
    BY <1>11, Pool DEF CancelEvent, CancelAllEvents, TypeOK, Events, RealEvents
  <2>2. QED  BY <2>1, TriggerBook
<1>12. ASSUME NEW t \in pool, NEW f \in Fibers, NEW fd \in fds, NEW e \in Events, AddEvent(t, f, fd, e)
      PROVE  BookInv'
  <2>1. fd \in Fds /\ e \notin event[fd] /\ fiber[f] = "running"  BY <1>12, Pool DEF AddEvent
  <2>2. /\ pending' = pending + 1 /\ event' = [event EXCEPT ![fd] = @ \cup {e}]
        /\ waiter' = [waiter EXCEPT ![fd][e] = f] /\ fiber' = [fiber EXCEPT ![f] = "waiting"]
    BY <1>12 DEF AddEvent
  <2>3. f # NoFiber /\ \A g \in Fds, d \in Events : waiter[g][d] # f
    BY <2>1, FdAssumption DEF BookInv
  <2>4. \A g \in Fds, d \in Events :
          /\ d \in event'[g] <=> d \in event[g] \/ (g = fd /\ d = e)
          /\ waiter'[g][d] = IF g = fd /\ d = e THEN f ELSE waiter[g][d]
    BY <2>2 DEF TypeOK
  <2>5. \A h \in Fibers : fiber'[h] = IF h = f THEN "waiting" ELSE fiber[h]  BY <2>2 DEF TypeOK
  <2>6. IsFiniteSet(Registered') /\ pending' = Cardinality(Registered')
    BY <2>1, <2>2, RegisteredMore DEF BookInv
  <2>7. waiter[fd][e] = NoFiber  BY <2>1 DEF BookInv
  <2>8. \A h \in Fibers : fiber'[h] = "waiting" <=> \E g \in Fds, d \in Events : waiter'[g][d] = h
    <3>1. SUFFICES ASSUME NEW h \in Fibers
                   PROVE  fiber'[h] = "waiting" <=> \E g \in Fds, d \in Events : waiter'[g][d] = h
      OBVIOUS
    <3>2. h # NoFiber  BY FdAssumption
    <3>3. CASE h = f  BY <2>1, <2>4, <2>5, <3>3
    <3>4. CASE h # f  BY <2>4, <2>5, <2>7, <3>2, <3>4 DEF BookInv
    <3>5. QED  BY <3>3, <3>4
  <2>9. QED  BY <2>3, <2>4, <2>6, <2>8 DEF BookInv
<1>13. ASSUME NEW f \in Fibers, Resume(f)
      PROVE  BookInv'
  <2>1. UNCHANGED <<event, waiter, pending>> /\ fiber[f] = "queued" /\ fiber' = [fiber EXCEPT ![f] = "running"]
    BY <1>13 DEF Resume
  <2>2. \A h \in Fibers : fiber'[h] = "waiting" <=> fiber[h] = "waiting"  BY <2>1 DEF TypeOK
  <2>3. QED  BY <2>1, <2>2 DEF BookInv, Registered
<1>14. ASSUME NEW fd \in fds, Reopen(fd)
      PROVE  BookInv'
  BY <1>14 DEF Reopen, ctxVars, Done, BookInv, Registered
<1>15. ASSUME NEW fd \in fds, NEW x \in Events \cup {"ERR"}, BecomeReady(fd, x)
      PROVE  BookInv'
  BY <1>15 DEF BecomeReady, ctxVars, Done, BookInv, Registered
<1>16. ASSUME NEW fd \in fds, NEW e \in Events, Exhaust(fd, e)
      PROVE  BookInv'
  BY <1>16 DEF Exhaust, ctxVars, Done, BookInv, Registered
<1>17. QED
  BY <1>1, <1>2, <1>3, <1>4, <1>5, <1>6, <1>7, <1>8, <1>9, <1>10, <1>11, <1>12, <1>13, <1>14, <1>15, <1>16 DEF Next, IdleStep, TaskStep

\* What epoll_ctl does to the registrations and the ready list.
LEMMA Ctl ==
    ASSUME TypeOK, NEW fd \in Fds, NEW events \in SUBSET Events, EpollCtl(fd, events)
    PROVE  /\ reg' \in [Fds -> BOOLEAN] /\ interest' \in [Fds -> SUBSET Events] /\ list' \subseteq Fds
           /\ (reg'[fd] <=> events # {}) /\ interest'[fd] = events
           /\ fd \in list' => events # {}
           /\ events # {} /\ Report(fd, events) # {} => fd \in list'
           /\ \A g \in Fds : g # fd => /\ reg'[g] = reg[g] /\ interest'[g] = interest[g]
                                       /\ g \in list' <=> g \in list
<1>1. /\ reg' = [reg EXCEPT ![fd] = events # {}] /\ interest' = [interest EXCEPT ![fd] = events]
      /\ list' = IF events = {} THEN list \ {fd}
                 ELSE IF Report(fd, events) # {} THEN list \cup {fd} ELSE list
  BY DEF EpollCtl
<1>2. QED  BY <1>1 DEF TypeOK

\* epoll_ctl with what fd_ctx->event becomes.
LEMMA CtlKernel ==
    ASSUME TypeOK, KernelInv, NEW fd \in Fds, NEW events \in SUBSET Events, EpollCtl(fd, events),
           open[fd], open' = open, event' = [event EXCEPT ![fd] = events]
    PROVE  KernelInv'
<1>1. /\ (reg'[fd] <=> events # {}) /\ interest'[fd] = events /\ (fd \in list' => events # {})
      /\ \A g \in Fds : g # fd => reg'[g] = reg[g] /\ interest'[g] = interest[g] /\ (g \in list' <=> g \in list)
  BY Ctl
<1>2. \A g \in Fds : event'[g] = IF g = fd THEN events ELSE event[g]  BY DEF TypeOK
<1>3. SUFFICES ASSUME NEW g \in Fds
               PROVE  /\ reg'[g] => open[g] /\ interest'[g] = event'[g] /\ event'[g] # {}
                      /\ ~reg'[g] => interest'[g] = {}
                      /\ g \in list' => reg'[g]
  BY DEF KernelInv
<1>4. CASE g = fd  BY <1>1, <1>2, <1>4
<1>5. CASE g # fd  BY <1>1, <1>2, <1>5 DEF KernelInv
<1>6. QED  BY <1>4, <1>5

\* ... puts the descriptor on the ready list if one of the events is ready.
LEMMA CtlEdge ==
    ASSUME TypeOK, NoLostEdge, NEW fd \in Fds, NEW events \in SUBSET Events, EpollCtl(fd, events),
           event' = [event EXCEPT ![fd] = events], ready' = ready, pool' = pool,
           \A u \in Threads, g \in Fds : g # fd => batch'[u][g] = batch[u][g]
    PROVE  NoLostEdge'
<1>1. /\ (events # {} /\ Report(fd, events) # {} => fd \in list')
      /\ \A g \in Fds : g # fd => reg'[g] = reg[g] /\ (g \in list' <=> g \in list)
  BY Ctl
<1>2. \A g \in Fds : event'[g] = IF g = fd THEN events ELSE event[g]  BY DEF TypeOK
<1>3. SUFFICES ASSUME NEW g \in Fds, NEW e \in event'[g], OneThread \/ reg'[g], Report(g, {e}) # {}
               PROVE  g \in list' \/ \E t \in Threads : batch'[t][g] \cap {e, "ERR"} # {}
  BY DEF NoLostEdge, OneThread, Report
<1>4. CASE g = fd
  <2>1. e \in events /\ Report(fd, events) # {}  BY <1>2, <1>3, <1>4 DEF Report
  <2>2. QED  BY <1>1, <1>4, <2>1
<1>5. CASE g # fd
  <2>1. e \in event[g] /\ (OneThread \/ reg[g])  BY <1>1, <1>2, <1>3, <1>5
  <2>2. g \in list \/ \E t \in Threads : batch[t][g] \cap {e, "ERR"} # {}  BY <1>3, <2>1 DEF NoLostEdge
  <2>3. QED  BY <1>1, <1>5, <2>2
<1>6. QED  BY <1>4, <1>5

\* Types.
LEMMA TypeStep ==
    ASSUME IInv, [Next]_vars
    PROVE  TypeOK'
<1> TypeOK /\ BookInv  BY DEF IInv
<1>20. pending' \in Nat  BY BookStep, FS_CardinalityType DEF BookInv
<1>1. CASE UNCHANGED vars
  BY <1>1 DEF vars, ctxVars, threadVars, setup, epollVars, TypeOK
<1>2. ASSUME NEW t \in pool, Poll(t)
      PROVE  TypeOK'
  BY <1>2, <1>20, Pool DEF Poll, ctxVars, threadVars, setup, epollVars, Done, TypeOK, Nothing, Report
<1>3. ASSUME NEW t \in pool, LoopEnds(t)
      PROVE  TypeOK'
  BY <1>3, <1>20, Pool DEF LoopEnds, ctxVars, threadVars, setup, epollVars, Done, TypeOK, Nothing, Report
<1>4. ASSUME NEW t \in pool, NEW fd \in fds, HandleSkips(t, fd)
      PROVE  TypeOK'
  BY <1>4, <1>20, Pool DEF HandleSkips, ctxVars, threadVars, setup, epollVars, Done, TypeOK, Nothing, Report
<1>5. ASSUME NEW t \in pool, NEW fd \in fds, Handle(t, fd)
      PROVE  TypeOK'
  <2>1. fd \in Fds /\ event[fd] \ RealEvents(t, fd) \in SUBSET Events /\ EpollCtl(fd, event[fd] \ RealEvents(t, fd))
    BY <1>5, Pool DEF Handle, CancelAllEvents, TypeOK, Events, RealEvents
  <2>2. reg' \in [Fds -> BOOLEAN] /\ interest' \in [Fds -> SUBSET Events] /\ list' \subseteq Fds
    BY <2>1, Ctl

  <2>3. TriggerEvents(fd, RealEvents(t, fd)) /\ RealEvents(t, fd) \in SUBSET Events /\ RealEvents(t, fd) \subseteq event[fd]
    BY <1>5, <2>1 DEF Handle, CancelAllEvents, TypeOK, Events, RealEvents
  <2>4. /\ event' \in [Fds -> SUBSET Events] /\ waiter' \in [Fds -> [Events -> Fibers \cup {NoFiber}]]
        /\ fiber' \in [Fibers -> {"running", "waiting", "queued", "dropped"}]
    BY <2>1, <2>3, TriggerBook
  <2>5. QED  BY <1>5, <1>20, <2>2, <2>4 DEF Handle, Done, setup, TypeOK
<1>6. ASSUME NEW t \in pool, NEW fd \in fds, HandleAborts(t, fd)
      PROVE  TypeOK'
  BY <1>6, <1>20, Pool DEF HandleAborts, ctxVars, threadVars, setup, epollVars, Done, TypeOK, Nothing, Report
<1>7. ASSUME NEW t \in pool, CloseFd(t)
      PROVE  TypeOK'
  BY <1>7, <1>20, Pool DEF CloseFd, ctxVars, threadVars, setup, epollVars, Done, TypeOK, Nothing, Report
<1>8. ASSUME NEW t \in pool, NEW fd \in fds, CancelAll(t, fd)
      PROVE  TypeOK'
  <2>1. fd \in Fds /\ {} \in SUBSET Events /\ EpollCtl(fd, {})
    BY <1>8, Pool DEF CancelAll, CancelAllEvents, TypeOK, Events, RealEvents
  <2>2. reg' \in [Fds -> BOOLEAN] /\ interest' \in [Fds -> SUBSET Events] /\ list' \subseteq Fds
    BY <2>1, Ctl

  <2>3. TriggerEvents(fd, event[fd]) /\ event[fd] \in SUBSET Events /\ event[fd] \subseteq event[fd]
    BY <1>8, <2>1 DEF CancelAll, CancelAllEvents, TypeOK, Events, RealEvents
  <2>4. /\ event' \in [Fds -> SUBSET Events] /\ waiter' \in [Fds -> [Events -> Fibers \cup {NoFiber}]]
        /\ fiber' \in [Fibers -> {"running", "waiting", "queued", "dropped"}]
    BY <2>1, <2>3, TriggerBook
  <2>5. QED  BY <1>8, <1>20, <2>2, <2>4 DEF CancelAll, threadVars, setup, TypeOK
<1>9. ASSUME NEW t \in pool, NEW fd \in fds, CloseCancel(t, fd)
      PROVE  TypeOK'
  <2>1. fd \in Fds /\ event[fd] \in SUBSET Events  BY <1>9, Pool DEF TypeOK
  <2>2. CASE CancelAllEvents(fd)
    <3>1. EpollCtl(fd, {}) /\ TriggerEvents(fd, event[fd])  BY <2>2 DEF CancelAllEvents
    <3>2. reg' \in [Fds -> BOOLEAN] /\ interest' \in [Fds -> SUBSET Events] /\ list' \subseteq Fds
      BY <2>1, <3>1, Ctl
    <3>3. /\ event' \in [Fds -> SUBSET Events] /\ waiter' \in [Fds -> [Events -> Fibers \cup {NoFiber}]]
          /\ fiber' \in [Fibers -> {"running", "waiting", "queued", "dropped"}]
      BY <2>1, <3>1, TriggerBook
    <3>4. QED  BY <1>9, <1>20, <2>1, <3>2, <3>3 DEF CloseCancel, setup, TypeOK
  <2>3. CASE UNCHANGED <<ctxVars, epollVars>>
    BY <1>9, <2>1, <2>3 DEF CloseCancel, setup, ctxVars, epollVars, TypeOK
  <2>4. QED  BY <1>9, <2>2, <2>3 DEF CloseCancel
<1>10. ASSUME NEW t \in pool, NEW fd \in fds, NEW e \in Events, DelEvent(t, fd, e)
      PROVE  TypeOK'
  <2>1. fd \in Fds /\ event[fd] \ {e} \in SUBSET Events /\ EpollCtl(fd, event[fd] \ {e})
    BY <1>10, Pool DEF DelEvent, TypeOK
  <2>2. reg' \in [Fds -> BOOLEAN] /\ interest' \in [Fds -> SUBSET Events] /\ list' \subseteq Fds
    BY <2>1, Ctl

  <2>3. waiter[fd][e] \in Fibers  BY <1>10, <2>1, Waiter DEF DelEvent
  <2>4. QED  BY <1>10, <1>20, <2>1, <2>2, <2>3 DEF DelEvent, threadVars, setup, TypeOK
<1>11. ASSUME NEW t \in pool, NEW fd \in fds, NEW e \in Events, CancelEvent(t, fd, e)
      PROVE  TypeOK'
  <2>1. fd \in Fds /\ event[fd] \ {e} \in SUBSET Events /\ EpollCtl(fd, event[fd] \ {e})
    BY <1>11, Pool DEF CancelEvent, CancelAllEvents, TypeOK, Events, RealEvents
  <2>2. reg' \in [Fds -> BOOLEAN] /\ interest' \in [Fds -> SUBSET Events] /\ list' \subseteq Fds
    BY <2>1, Ctl

  <2>3. TriggerEvents(fd, {e}) /\ {e} \in SUBSET Events /\ {e} \subseteq event[fd]
    BY <1>11, <2>1 DEF CancelEvent, CancelAllEvents, TypeOK, Events, RealEvents
  <2>4. /\ event' \in [Fds -> SUBSET Events] /\ waiter' \in [Fds -> [Events -> Fibers \cup {NoFiber}]]
        /\ fiber' \in [Fibers -> {"running", "waiting", "queued", "dropped"}]
    BY <2>1, <2>3, TriggerBook
  <2>5. QED  BY <1>11, <1>20, <2>2, <2>4 DEF CancelEvent, threadVars, setup, TypeOK
<1>12. ASSUME NEW t \in pool, NEW f \in Fibers, NEW fd \in fds, NEW e \in Events, AddEvent(t, f, fd, e)
      PROVE  TypeOK'
  <2>1. fd \in Fds /\ event[fd] \cup {e} \in SUBSET Events /\ EpollCtl(fd, event[fd] \cup {e})
    BY <1>12, Pool DEF AddEvent, TypeOK
  <2>2. reg' \in [Fds -> BOOLEAN] /\ interest' \in [Fds -> SUBSET Events] /\ list' \subseteq Fds
    BY <2>1, Ctl

  <2>3. QED  BY <1>12, <1>20, <2>1, <2>2 DEF AddEvent, threadVars, setup, TypeOK
<1>13. ASSUME NEW f \in Fibers, Resume(f)
      PROVE  TypeOK'
  BY <1>13, <1>20, Pool DEF Resume, ctxVars, threadVars, setup, epollVars, Done, TypeOK, Nothing, Report
<1>14. ASSUME NEW fd \in fds, Reopen(fd)
      PROVE  TypeOK'
  BY <1>14, <1>20, Pool DEF Reopen, ctxVars, threadVars, setup, epollVars, Done, TypeOK, Nothing, Report
<1>15. ASSUME NEW fd \in fds, NEW x \in Events \cup {"ERR"}, BecomeReady(fd, x)
      PROVE  TypeOK'
  BY <1>15, <1>20, Pool DEF BecomeReady, ctxVars, threadVars, setup, epollVars, Done, TypeOK, Nothing, Report
<1>16. ASSUME NEW fd \in fds, NEW e \in Events, Exhaust(fd, e)
      PROVE  TypeOK'
  BY <1>16, <1>20, Pool DEF Exhaust, ctxVars, threadVars, setup, epollVars, Done, TypeOK, Nothing, Report
<1>17. QED
  BY <1>1, <1>2, <1>3, <1>4, <1>5, <1>6, <1>7, <1>8, <1>9, <1>10, <1>11, <1>12, <1>13, <1>14, <1>15, <1>16 DEF Next, IdleStep, TaskStep

\* A registration agrees with fd_ctx->event.
LEMMA KernelStep ==
    ASSUME IInv, [Next]_vars
    PROVE  KernelInv'
<1> TypeOK /\ KernelInv  BY DEF IInv
<1>1. CASE UNCHANGED vars
  BY <1>1 DEF vars, ctxVars, threadVars, setup, epollVars, KernelInv
<1>2. ASSUME NEW t \in pool, Poll(t)
      PROVE  KernelInv'
  BY <1>2 DEF Poll, ctxVars, threadVars, epollVars, Done, TypeOK, KernelInv
<1>3. ASSUME NEW t \in pool, LoopEnds(t)
      PROVE  KernelInv'
  BY <1>3 DEF LoopEnds, ctxVars, threadVars, epollVars, Done, TypeOK, KernelInv
<1>4. ASSUME NEW t \in pool, NEW fd \in fds, HandleSkips(t, fd)
      PROVE  KernelInv'
  BY <1>4 DEF HandleSkips, ctxVars, threadVars, epollVars, Done, TypeOK, KernelInv
<1>5. ASSUME NEW t \in pool, NEW fd \in fds, Handle(t, fd)
      PROVE  KernelInv'
  <2>1. fd \in Fds /\ event[fd] \ RealEvents(t, fd) \in SUBSET Events /\ EpollCtl(fd, event[fd] \ RealEvents(t, fd)) /\ open[fd]
    BY <1>5, Pool DEF Handle, CancelAllEvents, CtlSucceeds, TypeOK, Events
  <2>2. event' = [event EXCEPT ![fd] = event[fd] \ RealEvents(t, fd)] /\ open' = open
    BY <1>5 DEF Handle, CancelAllEvents, TriggerEvents, threadVars, setup, Done, TypeOK
  <2>3. QED  BY <2>1, <2>2, CtlKernel
<1>6. ASSUME NEW t \in pool, NEW fd \in fds, HandleAborts(t, fd)
      PROVE  KernelInv'
  BY <1>6 DEF HandleAborts, ctxVars, threadVars, epollVars, Done, TypeOK, KernelInv
<1>7. ASSUME NEW t \in pool, CloseFd(t)
      PROVE  KernelInv'
  BY <1>7 DEF CloseFd, ctxVars, TypeOK, KernelInv
<1>8. ASSUME NEW t \in pool, NEW fd \in fds, CancelAll(t, fd)
      PROVE  KernelInv'
  <2>1. fd \in Fds /\ {} \in SUBSET Events /\ EpollCtl(fd, {}) /\ open[fd]
    BY <1>8, Pool DEF CancelAll, CancelAllEvents, CtlSucceeds, TypeOK, Events
  <2>2. event' = [event EXCEPT ![fd] = {}] /\ open' = open
    BY <1>8 DEF CancelAll, CancelAllEvents, TriggerEvents, threadVars, setup, Done, TypeOK
  <2>3. QED  BY <2>1, <2>2, CtlKernel
<1>9. ASSUME NEW t \in pool, NEW fd \in fds, CloseCancel(t, fd)
      PROVE  KernelInv'
  <2>1. fd \in Fds /\ open' = open /\ open[fd]  BY <1>9, Pool DEF CloseCancel
  <2>2. CASE CancelAllEvents(fd)
    <3>1. EpollCtl(fd, {}) /\ event' = [event EXCEPT ![fd] = {}]
      BY <2>2 DEF CancelAllEvents, TriggerEvents, TypeOK
    <3>2. {} \in SUBSET Events  OBVIOUS
    <3>3. QED  BY <2>1, <3>1, <3>2, CtlKernel
  <2>3. CASE UNCHANGED <<ctxVars, epollVars>>
    BY <2>1, <2>3 DEF ctxVars, epollVars, KernelInv
  <2>4. QED  BY <1>9, <2>2, <2>3 DEF CloseCancel
<1>10. ASSUME NEW t \in pool, NEW fd \in fds, NEW e \in Events, DelEvent(t, fd, e)
      PROVE  KernelInv'
  <2>1. fd \in Fds /\ event[fd] \ {e} \in SUBSET Events /\ EpollCtl(fd, event[fd] \ {e}) /\ open[fd]
    BY <1>10, Pool DEF DelEvent, CancelAllEvents, CtlSucceeds, TypeOK, Events
  <2>2. event' = [event EXCEPT ![fd] = event[fd] \ {e}] /\ open' = open
    BY <1>10 DEF DelEvent, CancelAllEvents, TriggerEvents, threadVars, setup, Done, TypeOK
  <2>3. QED  BY <2>1, <2>2, CtlKernel
<1>11. ASSUME NEW t \in pool, NEW fd \in fds, NEW e \in Events, CancelEvent(t, fd, e)
      PROVE  KernelInv'
  <2>1. fd \in Fds /\ event[fd] \ {e} \in SUBSET Events /\ EpollCtl(fd, event[fd] \ {e}) /\ open[fd]
    BY <1>11, Pool DEF CancelEvent, CancelAllEvents, CtlSucceeds, TypeOK, Events
  <2>2. event' = [event EXCEPT ![fd] = event[fd] \ {e}] /\ open' = open
    BY <1>11 DEF CancelEvent, CancelAllEvents, TriggerEvents, threadVars, setup, Done, TypeOK
  <2>3. QED  BY <2>1, <2>2, CtlKernel
<1>12. ASSUME NEW t \in pool, NEW f \in Fibers, NEW fd \in fds, NEW e \in Events, AddEvent(t, f, fd, e)
      PROVE  KernelInv'
  <2>1. fd \in Fds /\ event[fd] \cup {e} \in SUBSET Events /\ EpollCtl(fd, event[fd] \cup {e}) /\ open[fd]
    BY <1>12, Pool DEF AddEvent, CancelAllEvents, CtlSucceeds, TypeOK, Events
  <2>2. event' = [event EXCEPT ![fd] = event[fd] \cup {e}] /\ open' = open
    BY <1>12 DEF AddEvent, CancelAllEvents, TriggerEvents, threadVars, setup, Done, TypeOK
  <2>3. QED  BY <2>1, <2>2, CtlKernel
<1>13. ASSUME NEW f \in Fibers, Resume(f)
      PROVE  KernelInv'
  BY <1>13 DEF Resume, ctxVars, threadVars, epollVars, Done, TypeOK, KernelInv
<1>14. ASSUME NEW fd \in fds, Reopen(fd)
      PROVE  KernelInv'
  BY <1>14 DEF Reopen, ctxVars, threadVars, epollVars, Done, TypeOK, KernelInv
<1>15. ASSUME NEW fd \in fds, NEW x \in Events \cup {"ERR"}, BecomeReady(fd, x)
      PROVE  KernelInv'
  BY <1>15 DEF BecomeReady, ctxVars, threadVars, epollVars, Done, TypeOK, KernelInv
<1>16. ASSUME NEW fd \in fds, NEW e \in Events, Exhaust(fd, e)
      PROVE  KernelInv'
  BY <1>16 DEF Exhaust, ctxVars, threadVars, epollVars, Done, TypeOK, KernelInv
<1>17. QED
  BY <1>1, <1>2, <1>3, <1>4, <1>5, <1>6, <1>7, <1>8, <1>9, <1>10, <1>11, <1>12, <1>13, <1>14, <1>15, <1>16 DEF Next, IdleStep, TaskStep

\* Only a thread inside the loop holds reports.
LEMMA BatchStep ==
    ASSUME IInv, [Next]_vars
    PROVE  BatchInv'
<1> TypeOK /\ BatchInv  BY DEF IInv
<1>1. CASE UNCHANGED vars
  BY <1>1 DEF vars, ctxVars, threadVars, setup, epollVars, BatchInv
<1>2. ASSUME NEW t \in pool, Poll(t)
      PROVE  BatchInv'
  BY <1>2, Pool DEF Poll, ctxVars, threadVars, setup, epollVars, Done, Nothing, TypeOK, BatchInv
<1>3. ASSUME NEW t \in pool, LoopEnds(t)
      PROVE  BatchInv'
  BY <1>3, Pool DEF LoopEnds, ctxVars, threadVars, setup, epollVars, Done, Nothing, TypeOK, BatchInv
<1>4. ASSUME NEW t \in pool, NEW fd \in fds, HandleSkips(t, fd)
      PROVE  BatchInv'
  BY <1>4, Pool DEF HandleSkips, ctxVars, threadVars, setup, epollVars, Done, Nothing, TypeOK, BatchInv
<1>5. ASSUME NEW t \in pool, NEW fd \in fds, Handle(t, fd)
      PROVE  BatchInv'
  BY <1>5, Pool DEF Handle, ctxVars, threadVars, setup, epollVars, Done, Nothing, TypeOK, BatchInv
<1>6. ASSUME NEW t \in pool, NEW fd \in fds, HandleAborts(t, fd)
      PROVE  BatchInv'
  BY <1>6, Pool DEF HandleAborts, ctxVars, threadVars, setup, epollVars, Done, Nothing, TypeOK, BatchInv
<1>7. ASSUME NEW t \in pool, CloseFd(t)
      PROVE  BatchInv'
  BY <1>7, Pool DEF CloseFd, ctxVars, threadVars, setup, epollVars, Done, Nothing, TypeOK, BatchInv
<1>8. ASSUME NEW t \in pool, NEW fd \in fds, CancelAll(t, fd)
      PROVE  BatchInv'
  BY <1>8, Pool DEF CancelAll, ctxVars, threadVars, setup, epollVars, Done, Nothing, TypeOK, BatchInv
<1>9. ASSUME NEW t \in pool, NEW fd \in fds, CloseCancel(t, fd)
      PROVE  BatchInv'
  BY <1>9, Pool DEF CloseCancel, ctxVars, threadVars, setup, epollVars, Done, Nothing, TypeOK, BatchInv
<1>10. ASSUME NEW t \in pool, NEW fd \in fds, NEW e \in Events, DelEvent(t, fd, e)
      PROVE  BatchInv'
  BY <1>10, Pool DEF DelEvent, ctxVars, threadVars, setup, epollVars, Done, Nothing, TypeOK, BatchInv
<1>11. ASSUME NEW t \in pool, NEW fd \in fds, NEW e \in Events, CancelEvent(t, fd, e)
      PROVE  BatchInv'
  BY <1>11, Pool DEF CancelEvent, ctxVars, threadVars, setup, epollVars, Done, Nothing, TypeOK, BatchInv
<1>12. ASSUME NEW t \in pool, NEW f \in Fibers, NEW fd \in fds, NEW e \in Events, AddEvent(t, f, fd, e)
      PROVE  BatchInv'
  BY <1>12, Pool DEF AddEvent, ctxVars, threadVars, setup, epollVars, Done, Nothing, TypeOK, BatchInv
<1>13. ASSUME NEW f \in Fibers, Resume(f)
      PROVE  BatchInv'
  BY <1>13, Pool DEF Resume, ctxVars, threadVars, setup, epollVars, Done, Nothing, TypeOK, BatchInv
<1>14. ASSUME NEW fd \in fds, Reopen(fd)
      PROVE  BatchInv'
  BY <1>14, Pool DEF Reopen, ctxVars, threadVars, setup, epollVars, Done, Nothing, TypeOK, BatchInv
<1>15. ASSUME NEW fd \in fds, NEW x \in Events \cup {"ERR"}, BecomeReady(fd, x)
      PROVE  BatchInv'
  BY <1>15, Pool DEF BecomeReady, ctxVars, threadVars, setup, epollVars, Done, Nothing, TypeOK, BatchInv
<1>16. ASSUME NEW fd \in fds, NEW e \in Events, Exhaust(fd, e)
      PROVE  BatchInv'
  BY <1>16, Pool DEF Exhaust, ctxVars, threadVars, setup, epollVars, Done, Nothing, TypeOK, BatchInv
<1>17. QED
  BY <1>1, <1>2, <1>3, <1>4, <1>5, <1>6, <1>7, <1>8, <1>9, <1>10, <1>11, <1>12, <1>13, <1>14, <1>15, <1>16 DEF Next, IdleStep, TaskStep

\* One thread: while it runs a task, nobody holds reports or is closing.
LEMMA Alone ==
    ASSUME TypeOK, OneInv, OneThread, NEW t \in pool
    PROVE  t \in Threads /\ \A u \in Threads : u # t => pc[u] = "task"
BY Pool DEF OneInv

\* ... so what it does with a registration keeps the two in step.
LEMMA CtlOne ==
    ASSUME TypeOK, OneInv, OneThread, NEW t \in pool, pc[t] = "task", NEW fd \in Fds,
           NEW events \in SUBSET Events, EpollCtl(fd, events), open[fd], open' = open,
           event' = [event EXCEPT ![fd] = events], UNCHANGED <<pool, pc>>
    PROVE  OneInv'
<1>1. \A u \in Threads : pc[u] = "task" /\ pc'[u] = "task"  BY Alone
<1>2. /\ reg'[fd] <=> events # {}
      /\ \A g \in Fds : g # fd => reg'[g] = reg[g]
  BY Ctl
<1>3. \A g \in Fds : event'[g] = IF g = fd THEN events ELSE event[g]  BY DEF TypeOK
<1>4. SUFFICES ASSUME NEW g \in Fds
               PROVE  IF open[g] THEN reg'[g] <=> event'[g] # {} ELSE event'[g] = {}
  BY <1>1 DEF OneInv
<1>5. CASE g = fd  BY <1>2, <1>3, <1>5
<1>6. CASE g # fd  BY <1>2, <1>3, <1>6 DEF OneInv
<1>7. QED  BY <1>5, <1>6

\* One thread.
LEMMA OneStep ==
    ASSUME IInv, [Next]_vars
    PROVE  OneInv'
<1> SUFFICES ASSUME OneThread' PROVE OneInv'
  BY DEF OneInv
<1> TypeOK /\ KernelInv /\ BatchInv /\ OneInv  BY DEF IInv
<1>20. pool' = pool /\ fds' = fds
  <2>1. CASE Next  BY <2>1 DEF Next, IdleStep, TaskStep, Poll, LoopEnds, HandleSkips, Handle, HandleAborts, CloseFd,
          CancelAll, CloseCancel, DelEvent, CancelEvent, AddEvent, Resume, Reopen, BecomeReady, Exhaust,
          Done, threadVars, setup
  <2>2. CASE UNCHANGED vars  BY <2>2 DEF vars, threadVars, setup
  <2>3. QED  BY <2>1, <2>2
<1>21. OneThread  BY <1>20 DEF OneThread
<1>1. CASE UNCHANGED vars
  BY <1>1, <1>21 DEF vars, ctxVars, threadVars, setup, epollVars, OneInv
<1>2. ASSUME NEW t \in pool, Poll(t)
      PROVE  OneInv'
  <2>1. /\ UNCHANGED <<event, open, reg, pool, closing>> /\ t \in Threads
        /\ pc' = [pc EXCEPT ![t] = "idle"]
        /\ batch' = [batch EXCEPT ![t] =
                        [fd \in Fds |-> IF fd \in list THEN Report(fd, interest[fd]) ELSE {}]]
    BY <1>2, Pool DEF Poll, setup, ctxVars
  <2>2. \A g \in Fds : batch'[t][g] \cap Events \subseteq event[g]
    <3>1. \A g \in Fds : batch'[t][g] = IF g \in list THEN Report(g, interest[g]) ELSE {}
      BY <2>1 DEF TypeOK
    <3>2. \A g \in list : interest[g] = event[g]  BY DEF KernelInv, TypeOK
    <3>3. QED  BY <3>1, <3>2 DEF Report, Events
  <2>3. \A u \in Threads : u # t => pc[u] = "task" /\ pc'[u] = "task"  BY <1>21, <2>1, Alone DEF TypeOK
  <2>4. pc'[t] = "idle"  BY <2>1 DEF TypeOK
  <2>5. QED  BY <1>21, <2>1, <2>2, <2>3, <2>4 DEF OneInv
<1>3. ASSUME NEW t \in pool, LoopEnds(t)
      PROVE  OneInv'
  BY <1>3, <1>21, Pool DEF LoopEnds, ctxVars, threadVars, setup, epollVars, Done, TypeOK, OneInv
<1>4. ASSUME NEW t \in pool, NEW fd \in fds, HandleSkips(t, fd)
      PROVE  OneInv'
  <2>1. /\ UNCHANGED <<event, open, reg, pc, pool, closing>> /\ pc[t] = "idle" /\ fd \in Fds /\ t \in Threads
        /\ batch' = [batch EXCEPT ![t][fd] = {}]
    BY <1>4, Pool DEF HandleSkips, Done, setup, ctxVars, epollVars
  <2>2. \A u \in Threads, g \in Fds : batch'[u][g] = IF u = t /\ g = fd THEN {} ELSE batch[u][g]
    BY <2>1 DEF TypeOK
  <2>3. QED  BY <1>21, <2>1, <2>2 DEF OneInv
<1>5. ASSUME NEW t \in pool, NEW fd \in fds, Handle(t, fd)
      PROVE  OneInv'
  <2> DEFINE real == RealEvents(t, fd)
  <2>1. fd \in Fds /\ event[fd] \ real \in SUBSET Events /\ EpollCtl(fd, event[fd] \ real) /\ open[fd]
    BY <1>5, Pool DEF Handle, CtlSucceeds, TypeOK
  <2>2. /\ event' = [event EXCEPT ![fd] = event[fd] \ real] /\ open' = open /\ UNCHANGED <<pool, pc>>
        /\ batch' = [batch EXCEPT ![t][fd] = {}] /\ pc[t] = "idle"
    BY <1>5 DEF Handle, TriggerEvents, Done, setup, TypeOK
  <2> HIDE DEF real
  <2>3. t \in Threads /\ \A u \in Threads : u # t => pc[u] = "task"  BY <1>21, Alone
  <2>4. \A g \in Fds : event'[g] = IF g = fd THEN event[fd] \ real ELSE event[g]  BY <2>2 DEF TypeOK
  <2>5. \A g \in Fds : batch'[t][g] = IF g = fd THEN {} ELSE batch[t][g]  BY <2>2, <2>3 DEF TypeOK
  <2>6. /\ reg'[fd] <=> event[fd] \ real # {}
        /\ \A g \in Fds : g # fd => reg'[g] = reg[g]
    BY <2>1, Ctl
  <2>7. \A g \in Fds : IF open'[g] THEN reg'[g] <=> event'[g] # {} ELSE event'[g] = {}
    BY <1>21, <2>1, <2>2, <2>4, <2>6 DEF OneInv
  <2>8. \A g \in Fds : batch'[t][g] \cap Events \subseteq event'[g]
    BY <1>21, <2>2, <2>3, <2>4, <2>5 DEF OneInv
  <2>9. QED  BY <1>21, <2>2, <2>3, <2>7, <2>8 DEF OneInv
<1>6. ASSUME NEW t \in pool, NEW fd \in fds, HandleAborts(t, fd)
      PROVE  OneInv'
  <2>1. t \in Threads /\ fd \in Fds /\ pc[t] = "idle"  BY <1>6, Pool DEF HandleAborts
  <2>2. RealEvents(t, fd) \subseteq event[fd]  BY <1>21, <2>1 DEF OneInv, RealEvents
  <2>3. QED  BY <1>6, <2>2 DEF HandleAborts
<1>7. ASSUME NEW t \in pool, CloseFd(t)
      PROVE  OneInv'
  <2> DEFINE fd == closing[t]
  <2>1. t \in Threads /\ fd \in Fds /\ pc[t] = "close"  BY <1>7, Pool DEF CloseFd, TypeOK
  <2>2. event[fd] = {}  BY <1>21, <2>1 DEF OneInv
  <2>3. /\ open' = [open EXCEPT ![fd] = FALSE] /\ reg' = [reg EXCEPT ![fd] = FALSE]
        /\ pc' = [pc EXCEPT ![t] = "task"] /\ UNCHANGED <<event, pool>>
    BY <1>7 DEF CloseFd, ctxVars, setup
  <2> HIDE DEF fd
  <2>4. \A u \in Threads : pc'[u] = "task"  BY <1>21, <2>1, <2>3, Alone DEF TypeOK
  <2>5. \A g \in Fds : IF open'[g] THEN reg'[g] <=> event'[g] # {} ELSE event'[g] = {}
    BY <1>21, <2>1, <2>2, <2>3 DEF OneInv, TypeOK
  <2>6. QED  BY <2>4, <2>5 DEF OneInv
<1>8. ASSUME NEW t \in pool, NEW fd \in fds, CancelAll(t, fd)
      PROVE  OneInv'
  <2>1. fd \in Fds /\ {} \in SUBSET Events /\ EpollCtl(fd, {}) /\ open[fd]
    BY <1>8, Pool DEF CancelAll, CancelAllEvents, CtlSucceeds, TypeOK, Events
  <2>2. event' = [event EXCEPT ![fd] = {}] /\ open' = open /\ UNCHANGED <<pool, pc>> /\ pc[t] = "task"
    BY <1>8 DEF CancelAll, CancelAllEvents, TriggerEvents, threadVars, setup, TypeOK
  <2>3. QED  BY <1>21, <2>1, <2>2, CtlOne
<1>9. ASSUME NEW t \in pool, NEW fd \in fds, CloseCancel(t, fd)
      PROVE  OneInv'
  <2>1. /\ t \in Threads /\ fd \in Fds /\ pc[t] = "task" /\ open[fd] /\ open' = open /\ pool' = pool
        /\ pc' = [pc EXCEPT ![t] = "close"] /\ closing' = [closing EXCEPT ![t] = fd]
    BY <1>9, Pool DEF CloseCancel, setup
  <2>2. \A u \in Threads : u # t => pc'[u] = "task"  BY <1>21, <2>1, Alone DEF TypeOK
  <2>3. pc'[t] = "close" /\ closing'[t] = fd  BY <2>1 DEF TypeOK
  <2>4. /\ event'[fd] = {} /\ ~reg'[fd]
        /\ \A g \in Fds : g # fd => event'[g] = event[g] /\ reg'[g] = reg[g]
    <3>1. CASE CancelAllEvents(fd)
      <4>1. EpollCtl(fd, {}) /\ event' = [event EXCEPT ![fd] = {}] /\ {} \in SUBSET Events
        BY <3>1 DEF CancelAllEvents, TriggerEvents, TypeOK
      <4>2. ~reg'[fd] /\ \A g \in Fds : g # fd => reg'[g] = reg[g]  BY <2>1, <4>1, Ctl
      <4>3. QED  BY <2>1, <4>1, <4>2 DEF TypeOK
    <3>2. CASE (event[fd] = {} \/ ~CtlSucceeds(fd)) /\ UNCHANGED <<ctxVars, epollVars>>
      BY <1>21, <2>1, <3>2 DEF OneInv, CtlSucceeds, ctxVars, epollVars
    <3>3. QED  BY <1>9, <3>1, <3>2 DEF CloseCancel
  <2>5. \A g \in Fds : IF open'[g] THEN reg'[g] <=> event'[g] # {} ELSE event'[g] = {}
    BY <1>21, <2>1, <2>4 DEF OneInv
  <2>6. \A u \in Threads : pc'[u] # "dead" /\ pc'[u] # "idle" /\ (u \notin pool' => pc'[u] = "task")
    BY <2>1, <2>2, <2>3
  <2>7. \A u \in Threads : pc'[u] = "close" => event'[closing'[u]] = {}  BY <2>2, <2>3, <2>4
  <2>8. QED  BY <2>5, <2>6, <2>7 DEF OneInv
<1>10. ASSUME NEW t \in pool, NEW fd \in fds, NEW e \in Events, DelEvent(t, fd, e)
      PROVE  OneInv'
  <2>1. fd \in Fds /\ event[fd] \ {e} \in SUBSET Events /\ EpollCtl(fd, event[fd] \ {e}) /\ open[fd]
    BY <1>10, Pool DEF DelEvent, CancelAllEvents, CtlSucceeds, TypeOK, Events
  <2>2. event' = [event EXCEPT ![fd] = event[fd] \ {e}] /\ open' = open /\ UNCHANGED <<pool, pc>> /\ pc[t] = "task"
    BY <1>10 DEF DelEvent, CancelAllEvents, TriggerEvents, threadVars, setup, TypeOK
  <2>3. QED  BY <1>21, <2>1, <2>2, CtlOne
<1>11. ASSUME NEW t \in pool, NEW fd \in fds, NEW e \in Events, CancelEvent(t, fd, e)
      PROVE  OneInv'
  <2>1. fd \in Fds /\ event[fd] \ {e} \in SUBSET Events /\ EpollCtl(fd, event[fd] \ {e}) /\ open[fd]
    BY <1>11, Pool DEF CancelEvent, CancelAllEvents, CtlSucceeds, TypeOK, Events
  <2>2. event' = [event EXCEPT ![fd] = event[fd] \ {e}] /\ open' = open /\ UNCHANGED <<pool, pc>> /\ pc[t] = "task"
    BY <1>11 DEF CancelEvent, CancelAllEvents, TriggerEvents, threadVars, setup, TypeOK
  <2>3. QED  BY <1>21, <2>1, <2>2, CtlOne
<1>12. ASSUME NEW t \in pool, NEW f \in Fibers, NEW fd \in fds, NEW e \in Events, AddEvent(t, f, fd, e)
      PROVE  OneInv'
  <2>1. fd \in Fds /\ event[fd] \cup {e} \in SUBSET Events /\ EpollCtl(fd, event[fd] \cup {e}) /\ open[fd]
    BY <1>12, Pool DEF AddEvent, CancelAllEvents, CtlSucceeds, TypeOK, Events
  <2>2. event' = [event EXCEPT ![fd] = event[fd] \cup {e}] /\ open' = open /\ UNCHANGED <<pool, pc>> /\ pc[t] = "task"
    BY <1>12 DEF AddEvent, CancelAllEvents, TriggerEvents, threadVars, setup, TypeOK
  <2>3. QED  BY <1>21, <2>1, <2>2, CtlOne
<1>13. ASSUME NEW f \in Fibers, Resume(f)
      PROVE  OneInv'
  BY <1>13, <1>21, Pool DEF Resume, ctxVars, threadVars, setup, epollVars, Done, TypeOK, OneInv
<1>14. ASSUME NEW fd \in fds, Reopen(fd)
      PROVE  OneInv'
  BY <1>14, <1>21, Pool DEF Reopen, ctxVars, threadVars, setup, epollVars, TypeOK, OneInv, KernelInv
<1>15. ASSUME NEW fd \in fds, NEW x \in Events \cup {"ERR"}, BecomeReady(fd, x)
      PROVE  OneInv'
  BY <1>15, <1>21, Pool DEF BecomeReady, ctxVars, threadVars, setup, epollVars, Done, TypeOK, OneInv
<1>16. ASSUME NEW fd \in fds, NEW e \in Events, Exhaust(fd, e)
      PROVE  OneInv'
  BY <1>16, <1>21, Pool DEF Exhaust, ctxVars, threadVars, setup, epollVars, Done, TypeOK, OneInv
<1>17. QED
  BY <1>1, <1>2, <1>3, <1>4, <1>5, <1>6, <1>7, <1>8, <1>9, <1>10, <1>11, <1>12, <1>13, <1>14, <1>15, <1>16 DEF Next, IdleStep, TaskStep

\* No edge is lost.
LEMMA EdgeStep ==
    ASSUME IInv, [Next]_vars
    PROVE  NoLostEdge'
<1> TypeOK /\ KernelInv /\ BatchInv /\ OneInv /\ NoLostEdge  BY DEF IInv
<1>1. CASE UNCHANGED vars
  BY <1>1 DEF vars, ctxVars, threadVars, setup, epollVars, NoLostEdge, OneThread, Report
<1>2. ASSUME NEW t \in pool, Poll(t)
      PROVE  NoLostEdge'
  <2>1. /\ UNCHANGED <<event, reg, pool, ready>> /\ t \in Threads /\ pc[t] = "task"
        /\ batch' = [batch EXCEPT ![t] =
                        [fd \in Fds |-> IF fd \in list THEN Report(fd, interest[fd]) ELSE {}]]
    BY <1>2, Pool DEF Poll, setup, ctxVars
  <2>2. \A g \in Fds : batch'[t][g] = IF g \in list THEN Report(g, interest[g]) ELSE {}
    BY <2>1 DEF TypeOK
  <2>3. \A u \in Threads : u # t => batch'[u] = batch[u]  BY <2>1 DEF TypeOK
  <2>4. \A g \in Fds : batch[t][g] = {}  BY <2>1 DEF BatchInv, Nothing
  <2>5. SUFFICES ASSUME NEW g \in Fds, NEW e \in event[g], OneThread \/ reg[g], Report(g, {e}) # {}
                 PROVE  \E u \in Threads : batch'[u][g] \cap {e, "ERR"} # {}
    BY <2>1 DEF NoLostEdge, OneThread, Report
  <2>6. CASE g \in list
    <3>1. e \in interest[g]  BY <2>6 DEF KernelInv
    <3>2. PICK y \in {e, "ERR"} : y \in ready[g]  BY <2>5 DEF Report
    <3>3. y \in batch'[t][g]  BY <2>2, <2>6, <3>1, <3>2 DEF Report
    <3>4. QED  BY <2>1, <3>2, <3>3
  <2>7. CASE g \notin list
    <3>1. PICK u \in Threads : batch[u][g] \cap {e, "ERR"} # {}  BY <2>5, <2>7 DEF NoLostEdge
    <3>2. QED  BY <2>3, <2>4, <3>1
  <2>8. QED  BY <2>6, <2>7
<1>3. ASSUME NEW t \in pool, LoopEnds(t)
      PROVE  NoLostEdge'
  BY <1>3 DEF LoopEnds, ctxVars, threadVars, setup, epollVars, Done, NoLostEdge, OneThread, Report
<1>4. ASSUME NEW t \in pool, NEW fd \in fds, HandleSkips(t, fd)
      PROVE  NoLostEdge'
  <2>1. /\ UNCHANGED <<event, reg, pool, ready, list>> /\ t \in Threads /\ fd \in Fds
        /\ batch' = [batch EXCEPT ![t][fd] = {}]
    BY <1>4, Pool DEF HandleSkips, Done, setup, ctxVars, epollVars
  <2>2. \A u \in Threads, g \in Fds : batch'[u][g] = IF u = t /\ g = fd THEN {} ELSE batch[u][g]
    BY <2>1 DEF TypeOK
  <2>3. SUFFICES ASSUME NEW g \in Fds, NEW e \in event[g], OneThread \/ reg[g], Report(g, {e}) # {}
                 PROVE  g \in list \/ \E u \in Threads : batch'[u][g] \cap {e, "ERR"} # {}
    BY <2>1 DEF NoLostEdge, OneThread, Report
  <2>4. g \in list \/ \E u \in Threads : batch[u][g] \cap {e, "ERR"} # {}  BY <2>3 DEF NoLostEdge
  <2>5. CASE g # fd  BY <2>2, <2>4, <2>5
  <2>6. CASE g = fd
    <3>1. CtlSucceeds(fd)  BY <2>3, <2>6 DEF CtlSucceeds, KernelInv, OneInv
    <3>2. RealEvents(t, fd) \cap event[fd] = {}  BY <1>4, <3>1 DEF HandleSkips
    <3>3. e \in Events  BY <2>3 DEF TypeOK
    <3>4. batch[t][fd] \cap {e, "ERR"} = {}  BY <2>3, <2>6, <3>2, <3>3 DEF RealEvents
    <3>5. QED  BY <2>2, <2>4, <2>6, <3>4
  <2>7. QED  BY <2>5, <2>6
<1>5. ASSUME NEW t \in pool, NEW fd \in fds, Handle(t, fd)
      PROVE  NoLostEdge'
  <2>1. fd \in Fds /\ event[fd] \ RealEvents(t, fd) \in SUBSET Events /\ EpollCtl(fd, event[fd] \ RealEvents(t, fd))
    BY <1>5, Pool DEF Handle, CancelAllEvents, TypeOK, Events
  <2>2. event' = [event EXCEPT ![fd] = event[fd] \ RealEvents(t, fd)] /\ ready' = ready /\ pool' = pool
    BY <1>5 DEF Handle, CancelAllEvents, TriggerEvents, threadVars, setup, Done, TypeOK
  <2>3. \A u \in Threads, g \in Fds : g # fd => batch'[u][g] = batch[u][g]
    BY <1>5, Pool DEF Handle, threadVars, Done, TypeOK
  <2>4. QED  BY <2>1, <2>2, <2>3, CtlEdge
<1>6. ASSUME NEW t \in pool, NEW fd \in fds, HandleAborts(t, fd)
      PROVE  NoLostEdge'
  BY <1>6 DEF HandleAborts, ctxVars, threadVars, setup, epollVars, Done, NoLostEdge, OneThread, Report
<1>7. ASSUME NEW t \in pool, CloseFd(t)
      PROVE  NoLostEdge'
  <2> DEFINE fd == closing[t]
  <2>1. t \in Threads /\ fd \in Fds /\ pc[t] = "close"  BY <1>7, Pool DEF CloseFd, TypeOK
  <2>2. OneThread => event[fd] = {}  BY <2>1 DEF OneInv
  <2>3. /\ reg' = [reg EXCEPT ![fd] = FALSE] /\ list' = list \ {fd} /\ ready' = [ready EXCEPT ![fd] = {}]
        /\ UNCHANGED <<event, pool, batch>>
    BY <1>7 DEF CloseFd, ctxVars, setup
  <2> HIDE DEF fd
  <2>4. \A g \in Fds : g # fd => reg'[g] = reg[g] /\ ready'[g] = ready[g]  BY <2>3 DEF TypeOK
  <2>5. ready'[fd] = {}  BY <2>1, <2>3 DEF TypeOK
  <2>6. QED  BY <2>1, <2>3, <2>4, <2>5 DEF NoLostEdge, OneThread, Report
<1>8. ASSUME NEW t \in pool, NEW fd \in fds, CancelAll(t, fd)
      PROVE  NoLostEdge'
  <2>1. fd \in Fds /\ {} \in SUBSET Events /\ EpollCtl(fd, {})
    BY <1>8, Pool DEF CancelAll, CancelAllEvents, TypeOK, Events
  <2>2. event' = [event EXCEPT ![fd] = {}] /\ ready' = ready /\ pool' = pool
    BY <1>8 DEF CancelAll, CancelAllEvents, TriggerEvents, threadVars, setup, Done, TypeOK
  <2>3. \A u \in Threads, g \in Fds : g # fd => batch'[u][g] = batch[u][g]
    BY <1>8, Pool DEF CancelAll, threadVars, Done, TypeOK
  <2>4. QED  BY <2>1, <2>2, <2>3, CtlEdge
<1>9. ASSUME NEW t \in pool, NEW fd \in fds, CloseCancel(t, fd)
      PROVE  NoLostEdge'
  <2>1. fd \in Fds /\ pool' = pool /\ batch' = batch /\ ready' = ready  BY <1>9, Pool DEF CloseCancel, setup
  <2>2. CASE CancelAllEvents(fd)
    <3>1. EpollCtl(fd, {}) /\ event' = [event EXCEPT ![fd] = {}] /\ {} \in SUBSET Events
      BY <2>2 DEF CancelAllEvents, TriggerEvents, TypeOK
    <3>2. QED  BY <2>1, <3>1, CtlEdge
  <2>3. CASE UNCHANGED <<ctxVars, epollVars>>
    BY <2>1, <2>3 DEF ctxVars, epollVars, NoLostEdge, OneThread, Report
  <2>4. QED  BY <1>9, <2>2, <2>3 DEF CloseCancel
<1>10. ASSUME NEW t \in pool, NEW fd \in fds, NEW e \in Events, DelEvent(t, fd, e)
      PROVE  NoLostEdge'
  <2>1. fd \in Fds /\ event[fd] \ {e} \in SUBSET Events /\ EpollCtl(fd, event[fd] \ {e})
    BY <1>10, Pool DEF DelEvent, CancelAllEvents, TypeOK, Events
  <2>2. event' = [event EXCEPT ![fd] = event[fd] \ {e}] /\ ready' = ready /\ pool' = pool
    BY <1>10 DEF DelEvent, CancelAllEvents, TriggerEvents, threadVars, setup, Done, TypeOK
  <2>3. \A u \in Threads, g \in Fds : g # fd => batch'[u][g] = batch[u][g]
    BY <1>10, Pool DEF DelEvent, threadVars, Done, TypeOK
  <2>4. QED  BY <2>1, <2>2, <2>3, CtlEdge
<1>11. ASSUME NEW t \in pool, NEW fd \in fds, NEW e \in Events, CancelEvent(t, fd, e)
      PROVE  NoLostEdge'
  <2>1. fd \in Fds /\ event[fd] \ {e} \in SUBSET Events /\ EpollCtl(fd, event[fd] \ {e})
    BY <1>11, Pool DEF CancelEvent, CancelAllEvents, TypeOK, Events
  <2>2. event' = [event EXCEPT ![fd] = event[fd] \ {e}] /\ ready' = ready /\ pool' = pool
    BY <1>11 DEF CancelEvent, CancelAllEvents, TriggerEvents, threadVars, setup, Done, TypeOK
  <2>3. \A u \in Threads, g \in Fds : g # fd => batch'[u][g] = batch[u][g]
    BY <1>11, Pool DEF CancelEvent, threadVars, Done, TypeOK
  <2>4. QED  BY <2>1, <2>2, <2>3, CtlEdge
<1>12. ASSUME NEW t \in pool, NEW f \in Fibers, NEW fd \in fds, NEW e \in Events, AddEvent(t, f, fd, e)
      PROVE  NoLostEdge'
  <2>1. fd \in Fds /\ event[fd] \cup {e} \in SUBSET Events /\ EpollCtl(fd, event[fd] \cup {e})
    BY <1>12, Pool DEF AddEvent, CancelAllEvents, TypeOK, Events
  <2>2. event' = [event EXCEPT ![fd] = event[fd] \cup {e}] /\ ready' = ready /\ pool' = pool
    BY <1>12 DEF AddEvent, CancelAllEvents, TriggerEvents, threadVars, setup, Done, TypeOK
  <2>3. \A u \in Threads, g \in Fds : g # fd => batch'[u][g] = batch[u][g]
    BY <1>12, Pool DEF AddEvent, threadVars, Done, TypeOK
  <2>4. QED  BY <2>1, <2>2, <2>3, CtlEdge
<1>13. ASSUME NEW f \in Fibers, Resume(f)
      PROVE  NoLostEdge'
  BY <1>13 DEF Resume, ctxVars, threadVars, setup, epollVars, Done, NoLostEdge, OneThread, Report
<1>14. ASSUME NEW fd \in fds, Reopen(fd)
      PROVE  NoLostEdge'
  BY <1>14 DEF Reopen, ctxVars, threadVars, setup, epollVars, Done, NoLostEdge, OneThread, Report
<1>15. ASSUME NEW fd \in fds, NEW x \in Events \cup {"ERR"}, BecomeReady(fd, x)
      PROVE  NoLostEdge'
  <2>1. /\ fd \in Fds /\ open[fd] /\ ready' = [ready EXCEPT ![fd] = @ \cup {x}] /\ UNCHANGED <<event, reg, pool, batch>>
        /\ list' = IF reg[fd] /\ x \in interest[fd] \cup {"ERR"} THEN list \cup {fd} ELSE list
    BY <1>15, Pool DEF BecomeReady, ctxVars, threadVars, setup
  <2>2. \A g \in Fds : ready'[g] = IF g = fd THEN ready[g] \cup {x} ELSE ready[g]  BY <2>1 DEF TypeOK
  <2>3. SUFFICES ASSUME NEW g \in Fds, NEW e \in event[g], OneThread \/ reg[g], ready'[g] \cap {e, "ERR"} # {}
                 PROVE  g \in list' \/ \E u \in Threads : batch[u][g] \cap {e, "ERR"} # {}
    BY <2>1 DEF NoLostEdge, OneThread, Report
  <2>4. CASE Report(g, {e}) # {}  BY <2>1, <2>3, <2>4 DEF NoLostEdge
  <2>5. CASE Report(g, {e}) = {}
    <3>1. g = fd /\ x \in {e, "ERR"}  BY <2>2, <2>3, <2>5 DEF Report
    <3>2. reg[fd] /\ interest[fd] = event[fd]  BY <2>1, <2>3, <3>1 DEF OneInv, KernelInv
    <3>3. QED  BY <2>1, <2>3, <3>1, <3>2
  <2>6. QED  BY <2>4, <2>5
<1>16. ASSUME NEW fd \in fds, NEW e \in Events, Exhaust(fd, e)
      PROVE  NoLostEdge'
  <2>1. /\ fd \in Fds /\ ready' = [ready EXCEPT ![fd] = @ \ {e}] /\ UNCHANGED <<event, reg, pool, batch, list>>
    BY <1>16, Pool DEF Exhaust, ctxVars, threadVars, setup, epollVars
  <2>2. \A g \in Fds : ready'[g] \subseteq ready[g]  BY <2>1 DEF TypeOK
  <2>3. QED  BY <2>1, <2>2 DEF NoLostEdge, OneThread, Report
<1>17. QED
  BY <1>1, <1>2, <1>3, <1>4, <1>5, <1>6, <1>7, <1>8, <1>9, <1>10, <1>11, <1>12, <1>13, <1>14, <1>15, <1>16 DEF Next, IdleStep, TaskStep

----------------------------------------------------------------------------
LEMMA InitIInv == Init => IInv
<1> SUFFICES ASSUME Init PROVE IInv
  OBVIOUS
<1> USE FdAssumption DEF Init
<1>1. PICK s \in Setups : pool = s[1] /\ fds = s[2]  OBVIOUS
<1>2. <<pool, fds>> \in Setups /\ fds # {}  BY <1>1
<1>3. fds \subseteq Fds  BY <1>1 DEF Fds
<1>4. (CHOOSE fd \in fds : TRUE) \in Fds  BY <1>2, <1>3
<1>5. TypeOK
  <2>1. waiter \in [Fds -> [Events -> Fibers \cup {NoFiber}]]  OBVIOUS
  <2>2. /\ Nothing \in [Fds -> SUBSET Events] /\ Nothing \in [Fds -> SUBSET (Events \cup {"ERR"})]
    BY DEF Nothing
  <2>3. batch \in [Threads -> [Fds -> SUBSET (Events \cup {"ERR"})]]  BY <2>2
  <2>4. closing \in [Threads -> Fds]  BY <1>4
  <2>5. QED  BY <1>2, <2>1, <2>2, <2>3, <2>4 DEF TypeOK
<1>6. BookInv
  <2>1. Registered = {}  BY DEF Registered, Nothing
  <2>2. IsFiniteSet(Registered) /\ Cardinality(Registered) = 0  BY <2>1, FS_EmptySet
  <2>3. QED  BY <2>2 DEF BookInv, Nothing
<1>7. KernelInv /\ BatchInv /\ OneInv /\ NoLostEdge
  BY DEF KernelInv, BatchInv, OneInv, NoLostEdge, Nothing
<1>8. QED  BY <1>5, <1>6, <1>7 DEF IInv

LEMMA NextIInv == IInv /\ [Next]_vars => IInv'
BY TypeStep, BookStep, KernelStep, BatchStep, OneStep, EdgeStep DEF IInv

\* The inductive invariant holds in every state of every execution.
THEOREM Invariance == Spec => []IInv
BY InitIInv, NextIInv, PTL DEF Spec

\* m_pendingEventCount is the number of registered events, whatever the
\* threads interleave, and every waiting fiber is in exactly one EventContext
\* (iomanager.cpp:95-257, 324-369).
THEOREM BooksBalance == Spec => []Bookkeeping
<1>1. ASSUME IInv PROVE Bookkeeping
  <2>1. TypeOK /\ BookInv  BY <1>1 DEF IInv
  <2>2. ASSUME NEW f \in Fibers
        PROVE  Cardinality({p \in Fds \X Events : waiter[p[1]][p[2]] = f})
                   = (IF fiber[f] = "waiting" THEN 1 ELSE 0)
    <3> DEFINE W == {p \in Fds \X Events : waiter[p[1]][p[2]] = f}
    <3>1. f # NoFiber  BY FdAssumption
    <3>2. CASE fiber[f] = "waiting"
      <4>1. PICK fd \in Fds, e \in Events : waiter[fd][e] = f  BY <2>1, <3>2 DEF BookInv
      <4>2. \A g \in Fds, d \in Events : waiter[g][d] = f => g = fd /\ d = e
        BY <2>1, <3>1, <4>1 DEF BookInv
      <4>3. \A p \in W : p = <<fd, e>>  BY <4>2
      <4>4. <<fd, e>> \in W  BY <4>1
      <4>5. W = {<<fd, e>>}  BY <4>3, <4>4
      <4>6. QED  BY <3>2, <4>5, FS_Singleton
    <3>3. CASE fiber[f] # "waiting"
      <4>1. W = {}  BY <2>1, <3>3 DEF BookInv
      <4>2. QED  BY <3>3, <4>1, FS_EmptySet
    <3>4. QED  BY <3>2, <3>3
  <2>3. QED  BY <2>1, <2>2 DEF Bookkeeping, BookInv, Registered
<1>2. QED  BY <1>1, Invariance, PTL

\* An event somebody waits for and that is ready is on the ready list or in
\* the hands of a thread that will trigger it: edge-triggered epoll reports it
\* once, and none of the registrations, reports and skipped reports in between
\* loses it (iomanager.cpp:324-369).
THEOREM NoEdgeIsLost == Spec => []NoLostEdge
<1>1. IInv => NoLostEdge  BY DEF IInv
<1>2. QED  BY <1>1, Invariance, PTL

\* With one thread the assertion of triggerEvent (iomanager.cpp:35) never
\* fails: a report is still waited for when its FdContext is locked.
THEOREM TriggerNeverAsserts == Spec => []TriggerAssertion
<1>1. IInv => TriggerAssertion  BY DEF IInv, OneInv, TriggerAssertion
<1>2. QED  BY <1>1, Invariance, PTL

\* With one thread nobody waits on a closed descriptor, and epoll watches
\* exactly what fd_ctx->event holds on an open one (hook.cpp:308,
\* iomanager.cpp:95-257).
THEOREM CloseLeavesNobody == Spec => []CloseCancelsAll
<1>1. IInv => CloseCancelsAll  BY DEF IInv, OneInv, KernelInv, CloseCancelsAll
<1>2. QED  BY <1>1, Invariance, PTL
=============================================================================
