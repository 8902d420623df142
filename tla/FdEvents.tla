------------------------------ MODULE FdEvents ------------------------------
(***************************************************************************)
(* IO events of an IOManager: FdContext, addEvent, delEvent, cancelEvent,  *)
(* cancelAll, triggerEvent, the event loop of IOManager::idle and the      *)
(* hooked close().                                                         *)
(*                                                                         *)
(* The kernel side (epoll, edge-triggered) is modelled by what the code    *)
(* relies on: a descriptor goes onto the ready list when it becomes ready  *)
(* for something it is registered for, and when it is ready at the time    *)
(* of EPOLL_CTL_ADD or MOD; epoll_wait takes it off the list and reports   *)
(* the readiness of that moment to one thread.  The thread locks the       *)
(* FdContext only later: what happens in between is the subject here.      *)
(***************************************************************************)
EXTENDS Integers, FiniteSets

CONSTANTS
    Setups,      \* the pairs of a set of threads and a set of descriptors to consider
    Fibers,      \* fibers that wait for events
    NoFiber

Events == {"READ", "WRITE"}

ASSUME FdAssumption ==
    /\ \A s \in Setups : /\ s = <<s[1], s[2]>>
                         /\ IsFiniteSet(s[1]) /\ IsFiniteSet(s[2]) /\ s[1] # {} /\ s[2] # {}
    /\ IsFiniteSet(Fibers) /\ NoFiber \notin Fibers

Threads == UNION {s[1] : s \in Setups}
Fds     == UNION {s[2] : s \in Setups}

VARIABLES
    pool, fds,                   \* the threads of the IOManager, the descriptors in use
    event, waiter, pending,      \* FdContext::event, the EventContexts, m_pendingEventCount
    fiber,                       \* where each fiber is
    pc, batch, closing,          \* threads: task, idle loop, close() or aborted; reports; descriptor
    open, reg, interest,         \* kernel: open, registered with epoll, its events
    ready, list                  \* kernel: readiness, ready list

ctxVars    == <<event, waiter, pending, fiber>>
setup      == <<pool, fds>>
threadVars == <<setup, pc, batch, closing>>
epollVars  == <<reg, interest, list>>
vars == <<ctxVars, threadVars, open, epollVars, ready>>

Nothing == [fd \in Fds |-> {}]

TypeOK ==
    /\ <<pool, fds>> \in Setups
    /\ event \in [Fds -> SUBSET Events] /\ interest \in [Fds -> SUBSET Events]
    /\ waiter \in [Fds -> [Events -> Fibers \cup {NoFiber}]]
    /\ pending \in Nat
    /\ fiber \in [Fibers -> {"running", "waiting", "queued", "dropped"}]
    /\ pc \in [Threads -> {"task", "idle", "close", "dead"}]
    /\ batch \in [Threads -> [Fds -> SUBSET (Events \cup {"ERR"})]]
    /\ closing \in [Threads -> Fds]
    /\ open \in [Fds -> BOOLEAN] /\ reg \in [Fds -> BOOLEAN]
    /\ ready \in [Fds -> SUBSET (Events \cup {"ERR"})]
    /\ list \subseteq Fds

Init ==
    /\ \E s \in Setups : pool = s[1] /\ fds = s[2]
    /\ event = Nothing /\ interest = Nothing
    /\ waiter = [fd \in Fds |-> [e \in Events |-> NoFiber]]
    /\ pending = 0
    /\ fiber = [f \in Fibers |-> "running"]
    /\ pc = [t \in Threads |-> "task"]
    /\ batch = [t \in Threads |-> Nothing]
    /\ closing = [t \in Threads |-> CHOOSE fd \in fds : TRUE]
    /\ open = [fd \in Fds |-> fd \in fds] /\ reg = [fd \in Fds |-> FALSE]
    /\ ready = Nothing /\ list = {}

----------------------------------------------------------------------------
(***************************************************************************)
(* epoll_ctl and epoll_wait.                                               *)
(***************************************************************************)
\* What epoll_wait would report: errors always, the rest when asked for.
Report(fd, events) == ready[fd] \cap (events \cup {"ERR"})

\* The operation the code chooses succeeds: ADD for a descriptor it holds no
\* event of, MOD or DEL otherwise.
CtlSucceeds(fd) == open[fd] /\ (reg[fd] <=> event[fd] # {})

\* ADD and MOD with a set of events, DEL with none.
EpollCtl(fd, events) ==
    /\ reg' = [reg EXCEPT ![fd] = events # {}]
    /\ interest' = [interest EXCEPT ![fd] = events]
    /\ list' = IF events = {} THEN list \ {fd}
               ELSE IF Report(fd, events) # {} THEN list \cup {fd} ELSE list

----------------------------------------------------------------------------
(***************************************************************************)
(* FdContext.                                                              *)
(***************************************************************************)
\* triggerEvent for each of events, with the decrement that follows each call:
\* the waiting fiber is scheduled and its EventContext cleared.
TriggerEvents(fd, events) ==
    /\ event' = [event EXCEPT ![fd] = @ \ events]
    /\ fiber' = [f \in Fibers |-> IF \E e \in events : waiter[fd][e] = f THEN "queued" ELSE fiber[f]]
    /\ waiter' = [waiter EXCEPT ![fd] = [e \in Events |-> IF e \in events THEN NoFiber ELSE @[e]]]
    /\ pending' = pending - Cardinality(events)

\* Mutant: ADD only; a registration that exists is left as it is.
AddEventNoMod(t, f, fd, e) ==
    /\ pc[t] = "task"
    /\ fiber[f] = "running"
    /\ e \notin event[fd]
    /\ CtlSucceeds(fd)
    /\ IF event[fd] = {} THEN EpollCtl(fd, {e}) ELSE UNCHANGED epollVars
    /\ pending' = pending + 1
    /\ event' = [event EXCEPT ![fd] = @ \cup {e}]
    /\ waiter' = [waiter EXCEPT ![fd][e] = f]
    /\ fiber' = [fiber EXCEPT ![f] = "waiting"]
    /\ UNCHANGED <<threadVars, open, ready>>

\* addEvent by the running fiber f, which then yields.  The same event twice
\* is refused by an assertion (iomanager.cpp:110-115), so users do not.
AddEvent(t, f, fd, e) ==
    /\ pc[t] = "task"
    /\ fiber[f] = "running"
    /\ e \notin event[fd]
    /\ CtlSucceeds(fd)
    /\ EpollCtl(fd, event[fd] \cup {e})
    /\ pending' = pending + 1
    /\ event' = [event EXCEPT ![fd] = @ \cup {e}]
    /\ waiter' = [waiter EXCEPT ![fd][e] = f]
    /\ fiber' = [fiber EXCEPT ![f] = "waiting"]
    /\ UNCHANGED <<threadVars, open, ready>>

\* Mutant: the count is not adjusted.
DelEventUncounted(t, fd, e) ==
    /\ pc[t] = "task"
    /\ e \in event[fd]
    /\ CtlSucceeds(fd)
    /\ EpollCtl(fd, event[fd] \ {e})
    /\ event' = [event EXCEPT ![fd] = @ \ {e}]
    /\ fiber' = [fiber EXCEPT ![waiter[fd][e]] = "dropped"]
    /\ waiter' = [waiter EXCEPT ![fd][e] = NoFiber]
    /\ UNCHANGED <<threadVars, open, ready, pending>>

\* delEvent: the EventContext is cleared and nobody is scheduled.
DelEvent(t, fd, e) ==
    /\ pc[t] = "task"
    /\ e \in event[fd]
    /\ CtlSucceeds(fd)
    /\ EpollCtl(fd, event[fd] \ {e})
    /\ pending' = pending - 1
    /\ event' = [event EXCEPT ![fd] = @ \ {e}]
    /\ fiber' = [fiber EXCEPT ![waiter[fd][e]] = "dropped"]
    /\ waiter' = [waiter EXCEPT ![fd][e] = NoFiber]
    /\ UNCHANGED <<threadVars, open, ready>>

CancelEvent(t, fd, e) ==
    /\ pc[t] = "task"
    /\ e \in event[fd]
    /\ CtlSucceeds(fd)
    /\ EpollCtl(fd, event[fd] \ {e})
    /\ TriggerEvents(fd, {e})
    /\ UNCHANGED <<threadVars, open, ready>>

CancelAllEvents(fd) ==
    /\ event[fd] # {}
    /\ CtlSucceeds(fd)
    /\ EpollCtl(fd, {})
    /\ TriggerEvents(fd, event[fd])

CancelAll(t, fd) ==
    /\ pc[t] = "task"
    /\ CancelAllEvents(fd)
    /\ UNCHANGED <<threadVars, open, ready>>

----------------------------------------------------------------------------
(***************************************************************************)
(* The event loop of idle().                                               *)
(***************************************************************************)
\* epoll_wait returns to one thread.
Poll(t) ==
    /\ pc[t] = "task"
    /\ \E fd \in list : Report(fd, interest[fd]) # {}
    /\ batch' = [batch EXCEPT ![t] =
                    [fd \in Fds |-> IF fd \in list THEN Report(fd, interest[fd]) ELSE {}]]
    /\ list' = {}
    /\ pc' = [pc EXCEPT ![t] = "idle"]
    /\ UNCHANGED <<ctxVars, setup, closing, open, reg, interest, ready>>

\* Mutant: an error stands for both events.
RealEventsUnmasked(t, fd) ==
    (batch[t][fd] \cap Events) \cup (IF "ERR" \in batch[t][fd] THEN Events ELSE {})

\* The events idle() sees in a report: an error or hang-up stands for whatever
\* the descriptor waits for at this moment.
RealEvents(t, fd) ==
    (batch[t][fd] \cap Events) \cup (IF "ERR" \in batch[t][fd] THEN event[fd] ELSE {})

Done(t, fd) == batch' = [batch EXCEPT ![t][fd] = {}] /\ UNCHANGED <<setup, pc, closing>>

\* Nobody waits for what was reported (any more), or epoll_ctl fails.
HandleSkips(t, fd) ==
    /\ pc[t] = "idle"
    /\ batch[t][fd] # {}
    /\ RealEvents(t, fd) \cap event[fd] = {} \/ ~CtlSucceeds(fd)
    /\ Done(t, fd)
    /\ UNCHANGED <<ctxVars, open, epollVars, ready>>

\* Everything reported is still waited for.
Handle(t, fd) ==
    /\ pc[t] = "idle"
    /\ RealEvents(t, fd) \cap event[fd] # {}
    /\ RealEvents(t, fd) \subseteq event[fd]
    /\ CtlSucceeds(fd)
    /\ EpollCtl(fd, event[fd] \ RealEvents(t, fd))
    /\ TriggerEvents(fd, RealEvents(t, fd))
    /\ Done(t, fd)
    /\ UNCHANGED <<open, ready>>

\* One of the events reported is no longer waited for: real_events is not
\* masked with fd_ctx->event, triggerEvent asserts and the process ends.
HandleAborts(t, fd) ==
    /\ pc[t] = "idle"
    /\ RealEvents(t, fd) \cap event[fd] # {}
    /\ ~(RealEvents(t, fd) \subseteq event[fd])
    /\ CtlSucceeds(fd)
    /\ pc' = [u \in Threads |-> "dead"]
    /\ UNCHANGED <<ctxVars, setup, batch, closing, open, epollVars, ready>>

LoopEnds(t) ==
    /\ pc[t] = "idle"
    /\ batch[t] = Nothing
    /\ pc' = [pc EXCEPT ![t] = "task"]
    /\ UNCHANGED <<ctxVars, setup, batch, closing, open, epollVars, ready>>

\* Scheduler::run takes the fiber and resumes it.
Resume(f) ==
    /\ fiber[f] = "queued"
    /\ fiber' = [fiber EXCEPT ![f] = "running"]
    /\ UNCHANGED <<event, waiter, pending, threadVars, open, epollVars, ready>>

----------------------------------------------------------------------------
(***************************************************************************)
(* close(): cancelAll, then the system call.                               *)
(***************************************************************************)
\* Mutant: the events of the descriptor are not cancelled.
CloseCancelNot(t, fd) ==
    /\ pc[t] = "task"
    /\ open[fd] /\ \A u \in Threads : ~(pc[u] = "close" /\ closing[u] = fd)
    /\ UNCHANGED <<ctxVars, epollVars>>
    /\ pc' = [pc EXCEPT ![t] = "close"]
    /\ closing' = [closing EXCEPT ![t] = fd]
    /\ UNCHANGED <<setup, batch, open, ready>>

CloseCancel(t, fd) ==
    /\ pc[t] = "task"
    /\ open[fd] /\ \A u \in Threads : ~(pc[u] = "close" /\ closing[u] = fd)
    /\ \/ CancelAllEvents(fd)
       \/ (event[fd] = {} \/ ~CtlSucceeds(fd)) /\ UNCHANGED <<ctxVars, epollVars>>
    /\ pc' = [pc EXCEPT ![t] = "close"]
    /\ closing' = [closing EXCEPT ![t] = fd]
    /\ UNCHANGED <<setup, batch, open, ready>>

\* The kernel forgets the registration of a closed descriptor.
CloseFd(t) ==
    /\ pc[t] = "close"
    /\ LET fd == closing[t] IN
         /\ open' = [open EXCEPT ![fd] = FALSE]
         /\ reg' = [reg EXCEPT ![fd] = FALSE]
         /\ interest' = [interest EXCEPT ![fd] = {}]
         /\ list' = list \ {fd}
         /\ ready' = [ready EXCEPT ![fd] = {}]
    /\ pc' = [pc EXCEPT ![t] = "task"]
    /\ UNCHANGED <<ctxVars, setup, batch, closing>>

\* socket() or accept() hands out the number again.
Reopen(fd) ==
    /\ ~open[fd]
    /\ open' = [open EXCEPT ![fd] = TRUE]
    /\ UNCHANGED <<ctxVars, threadVars, epollVars, ready>>

\* The peer or the network makes the descriptor ready; a second arrival is a
\* new edge.
BecomeReady(fd, x) ==
    /\ open[fd]
    /\ ready' = [ready EXCEPT ![fd] = @ \cup {x}]
    /\ list' = IF reg[fd] /\ x \in interest[fd] \cup {"ERR"} THEN list \cup {fd} ELSE list
    /\ UNCHANGED <<ctxVars, threadVars, open, reg, interest>>

\* A reader drains the socket, a writer fills its buffer.
Exhaust(fd, e) ==
    /\ e \in ready[fd]
    /\ ready' = [ready EXCEPT ![fd] = @ \ {e}]
    /\ UNCHANGED <<ctxVars, threadVars, open, epollVars>>

IdleStep(t) ==
    \/ Poll(t) \/ LoopEnds(t)
    \/ \E fd \in fds : HandleSkips(t, fd) \/ Handle(t, fd) \/ HandleAborts(t, fd)

TaskStep(t) ==
    \/ CloseFd(t)
    \/ \E fd \in fds : CancelAll(t, fd) \/ CloseCancel(t, fd)
    \/ \E fd \in fds, e \in Events : DelEvent(t, fd, e) \/ CancelEvent(t, fd, e)
    \/ \E f \in Fibers, fd \in fds, e \in Events : AddEvent(t, f, fd, e)

Next ==
    \/ \E t \in pool : IdleStep(t) \/ TaskStep(t)
    \/ \E f \in Fibers : Resume(f)
    \/ \E fd \in fds : Reopen(fd) \/ \E x \in Events \cup {"ERR"} : BecomeReady(fd, x)
    \/ \E fd \in fds, e \in Events : Exhaust(fd, e)

Spec == Init /\ [][Next]_vars

\* A thread finishes the close() it is in, and tasks do not keep it from
\* epoll_wait for ever: run() enters idle() whenever the queue is empty.
FairSpec ==
    /\ Spec
    /\ \A t \in Threads : WF_vars(t \in pool /\ CloseFd(t)) /\ SF_vars(t \in pool /\ IdleStep(t))

----------------------------------------------------------------------------
(***************************************************************************)
(* Properties.                                                             *)
(***************************************************************************)
\* Two threads of one pool can meet on a descriptor between epoll_wait and the
\* lock of its FdContext, and between the two halves of close(): what depends
\* on that not happening is claimed of one thread.
OneThread == Cardinality(pool) = 1

\* m_pendingEventCount, which decides whether the IOManager may stop, counts
\* exactly the registered events; every waiting fiber is in exactly one
\* EventContext, and an EventContext is set exactly when its event is.
Bookkeeping ==
    /\ TypeOK
    /\ pending = Cardinality({p \in Fds \X Events : p[2] \in event[p[1]]})
    /\ \A fd \in Fds, e \in Events : e \in event[fd] <=> waiter[fd][e] # NoFiber
    /\ \A f \in Fibers :
         Cardinality({p \in Fds \X Events : waiter[p[1]][p[2]] = f})
             = (IF fiber[f] = "waiting" THEN 1 ELSE 0)

\* Edge-triggered: an edge is reported once, to one thread.  An event somebody
\* waits for and that is ready is on the ready list, or in the hands of a thread
\* that will trigger it (iomanager.cpp:324-369).  The registration a descriptor
\* loses to a close() between its two halves is the exception.
NoLostEdge ==
    \A fd \in Fds : \A e \in event[fd] : (OneThread \/ reg[fd]) /\ Report(fd, {e}) # {} =>
        fd \in list \/ \E t \in Threads : batch[t][fd] \cap {e, "ERR"} # {}

\* triggerEvent is only called for an event the descriptor waits for: the
\* assertion LUWU_ASSERT(event & e), iomanager.cpp:35.
TriggerAssertion == OneThread => \A t \in Threads : pc[t] # "dead"

\* close() cancels "all events on the fd" (hook.cpp:308): nobody waits on a
\* descriptor that is closed, and on an open one epoll watches exactly the
\* events the FdContext holds, so that the choice between ADD, MOD and DEL by
\* fd_ctx->event never fails.
CloseCancelsAll ==
    OneThread => \A fd \in Fds :
        IF open[fd] THEN interest[fd] = event[fd] /\ (reg[fd] <=> event[fd] # {})
        ELSE event[fd] = {}

\* A fiber that waits for an event which stays ready is scheduled in the end.
ReadyIsDelivered ==
    OneThread => \A fd \in Fds, e \in Events :
        (e \in event[fd] /\ e \in ready[fd]) ~> (e \notin event[fd] \/ e \notin ready[fd])
=============================================================================
