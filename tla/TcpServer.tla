------------------------------ MODULE TcpServer ------------------------------
(***************************************************************************)
(* luwu/tcp_server.cpp on top of luwu/socket.cpp, luwu/fd_manager.cpp and  *)
(* the descriptor calls of luwu/hook.cpp (socket, accept, close, recv,     *)
(* fcntl, ioctl, setsockopt).                                              *)
(*                                                                         *)
(* The owner of the server binds sockets, starts and stops it; accept      *)
(* loops, handlers of connections and the task stop() leaves behind are    *)
(* fibers of one IOManager (m_worker = m_accept).  A descriptor is a small *)
(* number the kernel gives out again as soon as it is closed; the file     *)
(* behind it, the FdContext of the FdManager, the Socket that holds the    *)
(* number in m_sock and the waiter the IOManager has registered for it are *)
(* four records of the same thing, changed one after the other.            *)
(*                                                                         *)
(* The scheduler and the events are those of Scheduler and FdEvents,       *)
(* reduced to a FIFO queue and one reader per descriptor.                  *)
(***************************************************************************)
EXTENDS Integers, Sequences, FiniteSets, Functions

CONSTANTS
    Setups,        \* records threads, hooked, binds, peers, starts, stops: the instances
    Listeners,     \* Socket objects made by TCPServer::bind, one address each
    Clients,       \* connections, and the Socket objects accept() makes of them
    MaxFd,
    None

ASSUME ServerAssumption ==
    /\ \A s \in Setups : /\ IsFiniteSet(s.threads) /\ s.threads # {}
                         /\ s.binds \subseteq Listeners /\ s.peers \subseteq Clients
                         /\ s.hooked \in BOOLEAN /\ s.starts \in Nat /\ s.stops \in Nat
    /\ IsFiniteSet(Listeners)
    /\ Listeners \cap Clients = {} /\ None \notin Listeners \cup Clients
    /\ MaxFd \in Nat

Fds     == 1..MaxFd
Sockets == Listeners \cup Clients
Threads == UNION {s.threads : s \in Setups}

\* What the queue holds: accept loops, one per socket and start(); handlers,
\* one per connection; the closing tasks of stop().
Loops    == [kind : {"accept"}, of : Listeners, n : UNION {1..s.starts : s \in Setups}]
Handlers == [kind : {"handle"}, of : Clients, n : {0}]
Stoppers == [kind : {"stop"}, of : {None}, n : UNION {1..s.stops : s \in Setups}]
Tasks    == Loops \cup Handlers \cup Stoppers

ASSUME TaskAssumption == None \notin Tasks

NoFile == [of |-> None, nonblock |-> "off"]
NoCtx  == [of |-> None, user |-> FALSE]
NoWait == [task |-> None, of |-> None]
NoCall == [fd |-> -1, hooked |-> FALSE, new |-> -1, sock |-> None]

VARIABLES
    setup,
    queue, run,      \* the task queue, and the task each thread executes
    pc, call,        \* where each task is, and the locals of its system call
    file,            \* the kernel's table: the open file and its O_NONBLOCK
    ctx,             \* FdManager::m_fds: the FdContext of each descriptor
    waiting,         \* IOManager: the fiber registered to read, and the file it meant
    sock,            \* Socket::m_sock
    m_socks, m_stop, \* TCPServer
    starts, stops,   \* how often each has been called
    client,          \* what each peer has done
    early,           \* the owner has gone on before an earlier run had ended
    fault

poolVars   == <<queue, run>>
fdVars     == <<file, ctx, waiting>>
serverVars == <<m_socks, m_stop, starts, stops, early>>
vars == <<setup, poolVars, pc, call, fdVars, sock, serverVars, client, fault>>

Points == {"none", "queued", "check", "lookup", "call", "event", "parked", "blocked", "create", "init",
           "open", "stop", "cancel", "del", "close", "unset", "done"}

Calls    == [fd : Fds \cup {-1}, hooked : BOOLEAN, new : Fds \cup {-1}, sock : Sockets \cup {None}]
Files    == [of : Sockets \cup {None}, nonblock : {"on", "off", "cleared"}]
Contexts == [of : Sockets \cup {None}, user : BOOLEAN]
Waiters  == [task : Tasks \cup {None}, of : Sockets \cup {None}]
Peers    == [st : {"new", "backlog", "accepted", "refused"}, at : Listeners \cup {None},
             readable : BOOLEAN]

TypeOK ==
    /\ setup \in Setups
    /\ queue \in Seq(Tasks) /\ run \in [Threads -> Tasks \cup {None}]
    /\ pc \in [Tasks -> Points]
    /\ call \in [Tasks -> Calls] /\ file \in [Fds -> Files] /\ ctx \in [Fds -> Contexts]
    /\ waiting \in [Fds -> Waiters] /\ client \in [Clients -> Peers]
    /\ sock \in [Sockets -> Fds \cup {-1}]
    /\ m_socks \subseteq Listeners /\ m_stop \in BOOLEAN /\ early \in BOOLEAN
    /\ starts \in 0..setup.starts /\ stops \in 0..setup.stops
    /\ fault \in {"none", "assert"}

Init ==
    /\ setup \in Setups
    /\ queue = <<>> /\ run = [t \in Threads |-> None]
    /\ pc = [k \in Tasks |-> "none"] /\ call = [k \in Tasks |-> NoCall]
    /\ file = [fd \in Fds |-> NoFile] /\ ctx = [fd \in Fds |-> NoCtx]
    /\ waiting = [fd \in Fds |-> NoWait]
    /\ sock = [s \in Sockets |-> -1]
    /\ m_socks = {} /\ m_stop = TRUE /\ early = FALSE
    /\ starts = 0 /\ stops = 0
    /\ client = [c \in Clients |-> [st |-> "new", at |-> None, readable |-> FALSE]]
    /\ fault = "none"

----------------------------------------------------------------------------
(***************************************************************************)
(* Descriptors.                                                            *)
(***************************************************************************)
Open(fd)   == fd \in Fds /\ file[fd] # NoFile
HasCtx(fd) == fd \in Fds /\ ctx[fd] # NoCtx
FreeFds    == {fd \in Fds : ~Open(fd)}

\* The kernel gives out the smallest number that is free.
NewFd(fd) == fd \in FreeFds /\ \A gd \in FreeFds : fd <= gd

Backlog(l) == {c \in Clients : client[c].st = "backlog" /\ client[c].at = l}

\* The file can be accepted from or read.
Ready(f) == IF f.of \in Listeners THEN Backlog(f.of) # {} ELSE client[f.of].readable

\* A new FdContext for the socket `of` makes its descriptor non-blocking.
InitCtx(fd, of) ==
    /\ ctx' = [ctx EXCEPT ![fd] = [of |-> of, user |-> FALSE]]
    /\ file' = [file EXCEPT ![fd] = [of |-> of, nonblock |-> "on"]]

\* FdManager::get(fd, true): an existing context is returned as it is.
GetCtx(fd, of) == IF HasCtx(fd) THEN UNCHANGED <<file, ctx>> ELSE InitCtx(fd, of)

\* socket(): a thread that is not hooked makes no context.
NewSocket(fd, of) ==
    IF setup.hooked THEN GetCtx(fd, of)
    ELSE file' = [file EXCEPT ![fd] = [of |-> of, nonblock |-> "off"]] /\ UNCHANGED ctx

\* IOManager::cancelAll: epoll_ctl(DEL) finds the file the waiter was registered
\* for, and the waiter is put in the queue.  When the number has been closed or
\* given out again it fails, and the waiter stays.
Registered(fd) == waiting[fd].task # None /\ Open(fd) /\ file[fd].of = waiting[fd].of

CancelAll(fd) ==
    \/ /\ Registered(fd)
       /\ queue' = Append(queue, waiting[fd].task)
       /\ waiting' = [waiting EXCEPT ![fd] = NoWait]
    \/ ~Registered(fd) /\ UNCHANGED <<queue, waiting>>

\* close_f: the peers in the backlog of a listening socket are refused.
CloseFile(fd) ==
    /\ file' = [file EXCEPT ![fd] = NoFile]
    /\ client' = [c \in Clients |->
                    IF Open(fd) /\ c \in Backlog(file[fd].of) THEN [client[c] EXCEPT !.st = "refused"]
                                                             ELSE client[c]]

----------------------------------------------------------------------------
(***************************************************************************)
(* The owner.  It binds while the server is stopped, and not while a task  *)
(* of stop() is using m_socks, which is not locked.                        *)
(***************************************************************************)
Alive(k)   == pc[k] \notin {"none", "done"}
Unfinished == \E k \in Loops \cup Stoppers : Alive(k)
OwnerMay   == fault = "none" /\ \A t \in Threads : run[t] \notin Stoppers

Bind(l) ==
    /\ OwnerMay /\ m_stop
    /\ l \in setup.binds /\ sock[l] = -1
    /\ \A k \in Loops : k.of = l => pc[k] = "none"
    /\ \E fd \in Fds : NewFd(fd) /\ sock' = [sock EXCEPT ![l] = fd] /\ NewSocket(fd, l)
    /\ m_socks' = m_socks \cup {l}
    /\ early' = (early \/ Unfinished)
    /\ UNCHANGED <<setup, poolVars, pc, call, waiting, m_stop, starts, stops, client, fault>>

\* One address of several cannot be bound: m_socks is cleared, and the Sockets
\* no loop holds are destroyed, that is closed.
BindFails ==
    /\ OwnerMay /\ m_stop /\ m_socks # {}
    /\ LET dead == {l \in m_socks : \A k \in Loops : k.of = l => ~Alive(k)}
       IN /\ file' = [fd \in Fds |-> IF file[fd].of \in dead THEN NoFile ELSE file[fd]]
          /\ ctx' = [fd \in Fds |-> IF file[fd].of \in dead THEN NoCtx ELSE ctx[fd]]
          /\ sock' = [s \in Sockets |-> IF s \in dead THEN -1 ELSE sock[s]]
          /\ client' = [c \in Clients |-> IF client[c].st = "backlog" /\ client[c].at \in dead
                                          THEN [client[c] EXCEPT !.st = "refused"] ELSE client[c]]
    /\ m_socks' = {}
    /\ early' = (early \/ Unfinished)
    /\ UNCHANGED <<setup, poolVars, pc, call, waiting, m_stop, starts, stops, fault>>

\* The closures of start() are queued one after the other, in the order in
\* which the sockets were bound; any order here.
Start ==
    /\ OwnerMay /\ m_stop /\ m_socks # {}
    /\ starts < setup.starts
    /\ starts' = starts + 1
    /\ m_stop' = FALSE
    /\ LET new == {[kind |-> "accept", of |-> l, n |-> starts + 1] : l \in m_socks}
       IN /\ \E q \in Injection(1..Cardinality(new), new) : queue' = queue \o q
          /\ pc' = [k \in Tasks |-> IF k \in new THEN "queued" ELSE pc[k]]
    /\ early' = (early \/ Unfinished)
    /\ UNCHANGED <<setup, run, call, fdVars, sock, m_socks, stops, client, fault>>

\* Mutant of Stop: m_stop is left to the task.
StopLater ==
    /\ OwnerMay /\ stops < setup.stops /\ starts > 0
    /\ stops' = stops + 1
    /\ LET k == [kind |-> "stop", of |-> None, n |-> stops + 1]
       IN queue' = Append(queue, k) /\ pc' = [pc EXCEPT ![k] = "queued"]
    /\ UNCHANGED <<setup, run, call, fdVars, sock, m_socks, m_stop, starts, early, client, fault>>

Stop ==
    /\ OwnerMay /\ stops < setup.stops /\ starts > 0
    /\ stops' = stops + 1
    /\ m_stop' = TRUE
    /\ LET k == [kind |-> "stop", of |-> None, n |-> stops + 1]
       IN queue' = Append(queue, k) /\ pc' = [pc EXCEPT ![k] = "queued"]
    /\ UNCHANGED <<setup, run, call, fdVars, sock, m_socks, starts, early, client, fault>>

\* ~TCPServer, when nobody holds the server any more.
Destroy ==
    /\ OwnerMay /\ m_socks # {}
    /\ starts = setup.starts
    /\ \A k \in Tasks : ~Alive(k)
    /\ file' = [fd \in Fds |-> IF file[fd].of \in m_socks THEN NoFile ELSE file[fd]]
    /\ ctx' = [fd \in Fds |-> IF file[fd].of \in m_socks THEN NoCtx ELSE ctx[fd]]
    /\ sock' = [s \in Sockets |-> IF s \in m_socks THEN -1 ELSE sock[s]]
    /\ client' = [c \in Clients |-> IF client[c].st = "backlog" THEN [client[c] EXCEPT !.st = "refused"]
                                                             ELSE client[c]]
    /\ m_socks' = {}
    /\ UNCHANGED <<setup, poolVars, pc, call, waiting, m_stop, starts, stops, early, fault>>

----------------------------------------------------------------------------
(***************************************************************************)
(* The threads of the IOManager; their calls are hooked.                   *)
(***************************************************************************)
At(t, point) == fault = "none" /\ run[t] # None /\ pc[run[t]] = point
Goto(t, point) == pc' = [pc EXCEPT ![run[t]] = point]
Leave(t) == run' = [run EXCEPT ![t] = None]
Set(t, c) == call' = [call EXCEPT ![run[t]] = c]

FirstPoint(k) == CASE k.kind = "accept" -> "check"
                   [] k.kind = "handle" -> "open"
                   [] k.kind = "stop"   -> "stop"

\* A woken fiber goes on after yield(): `goto retry` in do_io.
Take(t) ==
    /\ fault = "none" /\ t \in setup.threads /\ run[t] = None /\ queue # <<>>
    /\ LET k == Head(queue)
       IN /\ run' = [run EXCEPT ![t] = k]
          /\ pc' = [pc EXCEPT ![k] = IF pc[k] = "queued" THEN FirstPoint(k) ELSE "call"]
    /\ queue' = Tail(queue)
    /\ UNCHANGED <<setup, call, fdVars, sock, serverVars, client, fault>>

\* The Socket of a loop that ends is destroyed, that is closed, when neither
\* m_socks nor another loop holds it.
LastOf(k) ==
    /\ k.of \notin m_socks /\ sock[k.of] # -1
    /\ \A j \in Loops : j # k /\ j.of = k.of => ~Alive(j)

\* startAccept: while (!m_stop).
CheckStop(t) ==
    /\ At(t, "check")
    /\ Set(t, NoCall)
    /\ \/ ~m_stop /\ Goto(t, "lookup") /\ UNCHANGED run
       \/ m_stop /\ LastOf(run[t]) /\ Goto(t, "cancel") /\ UNCHANGED run
       \/ m_stop /\ ~LastOf(run[t]) /\ Goto(t, "done") /\ Leave(t)
    /\ UNCHANGED <<setup, queue, fdVars, sock, serverVars, client, fault>>

\* Socket::accept and Socket::recv read m_sock, do_io the context of the
\* descriptor; without one, or if the user has made it non-blocking, the call
\* is left to the kernel.
Lookup(t) ==
    /\ At(t, "lookup")
    /\ LET fd == sock[run[t].of]
       IN Set(t, [NoCall EXCEPT !.fd = fd, !.hooked = HasCtx(fd) /\ ~ctx[fd].user])
    /\ Goto(t, "call")
    /\ UNCHANGED <<setup, poolVars, fdVars, sock, serverVars, client, fault>>

\* Where the task goes on when the call has failed: the loop tests m_stop
\* again, the handler closes the connection.
Failed(t) == Goto(t, IF run[t].kind = "accept" THEN "check" ELSE "cancel")

\* The descriptor is closed (EBADF), or accept() is given one that does not
\* listen (EINVAL).
CallFails(t) ==
    /\ At(t, "call")
    /\ LET fd == call[run[t]].fd
       IN Open(fd) => run[t].kind = "accept" /\ file[fd].of \notin Listeners
    /\ Failed(t)
    /\ UNCHANGED <<setup, poolVars, call, fdVars, sock, serverVars, client, fault>>

\* Nothing to accept or read: EAGAIN, which do_io turns into a wait, or, on a
\* blocking descriptor, a thread that stands still.
CallWaits(t) ==
    /\ At(t, "call")
    /\ LET c == call[run[t]]
       IN /\ Open(c.fd) /\ ~Ready(file[c.fd])
          /\ run[t].kind = "accept" => file[c.fd].of \in Listeners
          /\ \/ file[c.fd].nonblock # "on" /\ Goto(t, "blocked")
             \/ file[c.fd].nonblock = "on" /\ c.hooked /\ Goto(t, "event")
             \/ file[c.fd].nonblock = "on" /\ ~c.hooked /\ Failed(t)
    /\ UNCHANGED <<setup, poolVars, call, fdVars, sock, serverVars, client, fault>>

Unblock(t) ==
    /\ At(t, "blocked")
    /\ LET fd == call[run[t]].fd IN Open(fd) /\ Ready(file[fd])
    /\ Goto(t, "call")
    /\ UNCHANGED <<setup, poolVars, call, fdVars, sock, serverVars, client, fault>>

\* addEvent(fd, READ) and yield(): epoll refuses a closed descriptor, and the
\* assertion a second reader.
AddEvent(t) ==
    /\ At(t, "event")
    /\ LET fd == call[run[t]].fd
       IN \/ /\ waiting[fd].task # None
             /\ fault' = "assert" /\ UNCHANGED <<pc, run, waiting>>
          \/ /\ waiting[fd].task = None /\ ~Open(fd)
             /\ Failed(t) /\ UNCHANGED <<run, waiting, fault>>
          \/ /\ waiting[fd].task = None /\ Open(fd)
             /\ waiting' = [waiting EXCEPT ![fd] = [task |-> run[t], of |-> file[fd].of]]
             /\ Goto(t, "parked") /\ Leave(t) /\ UNCHANGED fault
    /\ UNCHANGED <<setup, queue, call, file, ctx, sock, serverVars, client>>

\* epoll reports the file the waiter was registered for.
Trigger(fd) ==
    /\ fault = "none" /\ Registered(fd) /\ Ready(file[fd])
    /\ CancelAll(fd)
    /\ UNCHANGED <<setup, run, pc, call, file, ctx, sock, serverVars, client, fault>>

\* accept_f succeeds.
Accept(t, c) ==
    /\ At(t, "call") /\ run[t].kind = "accept"
    /\ LET fd == call[run[t]].fd IN Open(fd) /\ c \in Backlog(file[fd].of)
    /\ client' = [client EXCEPT ![c].st = "accepted"]
    /\ \E fd \in Fds :
          /\ NewFd(fd)
          /\ file' = [file EXCEPT ![fd] = [of |-> c, nonblock |-> "off"]]
          /\ Set(t, [call[run[t]] EXCEPT !.new = fd, !.sock = c])
    /\ Goto(t, "create")
    /\ UNCHANGED <<setup, poolVars, ctx, waiting, sock, serverVars, fault>>

\* The hooked accept() makes the context of the new descriptor.
CreateCtx(t) ==
    /\ At(t, "create")
    /\ LET c == call[run[t]] IN GetCtx(c.new, c.sock)
    /\ Goto(t, "init")
    /\ UNCHANGED <<setup, poolVars, call, waiting, sock, serverVars, client, fault>>

\* Socket::init of the new Socket; then startAccept sets the receive timeout,
\* which the hooked setsockopt does not record, and queues the handler.  A
\* Socket that finds no context gives the descriptor up.
InitSocket(t) ==
    /\ At(t, "init")
    /\ LET c == call[run[t]]
           h == [kind |-> "handle", of |-> c.sock, n |-> 0]
       IN IF HasCtx(c.new)
          THEN /\ sock' = [sock EXCEPT ![c.sock] = c.new]
               /\ queue' = Append(queue, h)
               /\ pc' = [pc EXCEPT ![run[t]] = "check", ![h] = "queued"]
          ELSE Goto(t, "check") /\ UNCHANGED <<sock, queue>>
    /\ Set(t, NoCall)
    /\ UNCHANGED <<setup, run, fdVars, serverVars, client, fault>>

\* Mutant of Fcntl: the flags go to the kernel as they are.
FcntlUnchanged(t, on) ==
    /\ At(t, "open")
    /\ ctx' = [ctx EXCEPT ![sock[run[t].of]].user = on]
    /\ file' = [file EXCEPT ![sock[run[t].of]].nonblock = IF on THEN "on" ELSE "off"]
    /\ Goto(t, "lookup")
    /\ UNCHANGED <<setup, poolVars, call, waiting, sock, serverVars, client, fault>>

\* handleClient may change the mode of its descriptor: fcntl(F_SETFL) keeps
\* the kernel's O_NONBLOCK and notes the user's, ioctl(FIONBIO) changes both.
Fcntl(t, on) ==
    /\ At(t, "open")
    /\ ctx' = [ctx EXCEPT ![sock[run[t].of]].user = on]
    /\ Goto(t, "lookup")
    /\ UNCHANGED <<setup, poolVars, call, file, waiting, sock, serverVars, client, fault>>

Ioctl(t, on) ==
    /\ At(t, "open")
    /\ LET fd == sock[run[t].of]
       IN /\ ctx' = [ctx EXCEPT ![fd].user = on]
          /\ file' = [file EXCEPT ![fd].nonblock = IF on THEN "on" ELSE "cleared"]
    /\ Goto(t, "lookup")
    /\ UNCHANGED <<setup, poolVars, call, waiting, sock, serverVars, client, fault>>

\* It receives what the peer has sent, or its end, and closes the connection.
Receive(t) ==
    /\ At(t, "call") /\ run[t].kind = "handle"
    /\ LET fd == call[run[t]].fd IN Open(fd) /\ Ready(file[fd])
    /\ Goto(t, "cancel")
    /\ UNCHANGED <<setup, poolVars, call, fdVars, sock, serverVars, client, fault>>

----------------------------------------------------------------------------
(***************************************************************************)
(* Socket::close and the hooked close(): cancelAll, FdManager::del,        *)
(* close_f, and only then m_sock = -1.                                     *)
(***************************************************************************)
ClosingOf(k) == IF k.kind = "stop" THEN call[k].sock ELSE k.of
Closing(t)   == ClosingOf(run[t])

CloseCancel(t) ==
    /\ At(t, "cancel")
    /\ LET fd == sock[Closing(t)]
       IN \/ HasCtx(fd) /\ CancelAll(fd) /\ Goto(t, "del")
          \/ ~HasCtx(fd) /\ Goto(t, "close") /\ UNCHANGED <<queue, waiting>>
    /\ UNCHANGED <<setup, run, call, file, ctx, sock, serverVars, client, fault>>

CloseDel(t) ==
    /\ At(t, "del")
    /\ ctx' = [ctx EXCEPT ![sock[Closing(t)]] = NoCtx]
    /\ Goto(t, "close")
    /\ UNCHANGED <<setup, poolVars, call, file, waiting, sock, serverVars, client, fault>>

CloseFd(t) ==
    /\ At(t, "close")
    /\ CloseFile(sock[Closing(t)])
    /\ Goto(t, "unset")
    /\ UNCHANGED <<setup, poolVars, call, ctx, waiting, sock, serverVars, fault>>

\* Mutant of CloseUnset: m_sock keeps the number of the closed descriptor.
CloseKeepsNumber(t) ==
    /\ At(t, "unset")
    /\ Set(t, NoCall)
    /\ IF run[t].kind = "stop" THEN Goto(t, "stop") /\ UNCHANGED run
                               ELSE Goto(t, "done") /\ Leave(t)
    /\ UNCHANGED <<setup, queue, fdVars, sock, serverVars, client, fault>>

CloseUnset(t) ==
    /\ At(t, "unset")
    /\ sock' = [sock EXCEPT ![Closing(t)] = -1]
    /\ Set(t, NoCall)
    /\ IF run[t].kind = "stop" THEN Goto(t, "stop") /\ UNCHANGED run
                               ELSE Goto(t, "done") /\ Leave(t)
    /\ UNCHANGED <<setup, queue, fdVars, serverVars, client, fault>>

\* The task of stop(): cancelAll and close for every socket, then clear.
StopSocket(t, l) ==
    /\ At(t, "stop") /\ l \in m_socks /\ sock[l] # -1
    /\ Set(t, [NoCall EXCEPT !.sock = l])
    /\ CancelAll(sock[l])
    /\ Goto(t, "cancel")
    /\ UNCHANGED <<setup, run, file, ctx, sock, serverVars, client, fault>>

\* Mutant of StopClear: the sockets are dropped before they are closed.
StopClearFirst(t) ==
    /\ At(t, "stop")
    /\ m_socks' = {}
    /\ Set(t, NoCall)
    /\ Goto(t, "done") /\ Leave(t)
    /\ UNCHANGED <<setup, queue, fdVars, sock, m_stop, starts, stops, early, client, fault>>

StopClear(t) ==
    /\ At(t, "stop") /\ \A l \in m_socks : sock[l] = -1
    /\ m_socks' = {}
    /\ Set(t, NoCall)
    /\ Goto(t, "done") /\ Leave(t)
    /\ UNCHANGED <<setup, queue, fdVars, sock, m_stop, starts, stops, early, client, fault>>

----------------------------------------------------------------------------
(***************************************************************************)
(* The peers.                                                              *)
(***************************************************************************)
Connect(c, l) ==
    /\ fault = "none" /\ c \in setup.peers /\ client[c].st = "new"
    /\ \E fd \in Fds : file[fd].of = l
    /\ client' = [client EXCEPT ![c].st = "backlog", ![c].at = l]
    /\ UNCHANGED <<setup, poolVars, pc, call, fdVars, sock, serverVars, fault>>

\* The peer sends something or closes its side.
Speak(c) ==
    /\ fault = "none" /\ client[c].st \in {"backlog", "accepted"} /\ ~client[c].readable
    /\ client' = [client EXCEPT ![c].readable = TRUE]
    /\ UNCHANGED <<setup, poolVars, pc, call, fdVars, sock, serverVars, fault>>

ThreadStep(t) ==
    \/ Take(t) \/ CheckStop(t) \/ Lookup(t) \/ CallFails(t) \/ CallWaits(t) \/ Unblock(t)
    \/ AddEvent(t) \/ (\E c \in Clients : Accept(t, c)) \/ CreateCtx(t) \/ InitSocket(t)
    \/ (\E on \in BOOLEAN : Fcntl(t, on) \/ Ioctl(t, on)) \/ Receive(t)
    \/ CloseCancel(t) \/ CloseDel(t) \/ CloseFd(t) \/ CloseUnset(t)
    \/ (\E l \in Listeners : StopSocket(t, l)) \/ StopClear(t)

OwnerStep == (\E l \in Listeners : Bind(l)) \/ BindFails \/ Start \/ Stop \/ Destroy

PeerStep == \E c \in Clients : Speak(c) \/ \E l \in Listeners : Connect(c, l)

Next ==
    \/ \E t \in Threads : ThreadStep(t)
    \/ \E fd \in Fds : Trigger(fd)
    \/ OwnerStep
    \/ PeerStep

Spec == Init /\ [][Next]_vars

\* The threads of the pool run and epoll reports what is ready; the owner and
\* the peers owe nothing.
FairSpec ==
    /\ Spec
    /\ \A t \in Threads : WF_vars(ThreadStep(t))
    /\ \A fd \in Fds : WF_vars(Trigger(fd))

----------------------------------------------------------------------------
(***************************************************************************)
(* Properties.                                                             *)
(***************************************************************************)

\* No descriptor is lost and none is shared: a file that is open belongs to the
\* Socket that has its number, or to an accept() that has not returned; two
\* Sockets have the same number only while the first is being closed; and the
\* FdContext of a descriptor is that of its file.  It depends on the order in
\* which close() deletes the context and frees the number
\* (hook.cpp:311, socket.cpp:212).
DescriptorsOwned ==
    /\ \A fd \in Fds : Open(fd) =>
          \/ sock[file[fd].of] = fd
          \/ \E k \in Loops : pc[k] \in {"create", "init"} /\ call[k].new = fd
    /\ \A r, s \in Sockets : r # s /\ sock[r] = sock[s] /\ sock[r] # -1 =>
          \E k \in Tasks : pc[k] = "unset" /\ ClosingOf(k) \in {r, s}
    /\ \A fd \in Fds : HasCtx(fd) => Open(fd) /\ ctx[fd].of = file[fd].of

\* A thread of the IOManager never comes to stand still in accept() or recv(),
\* except on a socket bound outside a scheduler, which has no FdContext, and on
\* one that ioctl(FIONBIO) has made blocking in the kernel (hook.cpp:460).
ThreadsStayFree ==
    [][\A k \in Tasks : pc[k] # "blocked" /\ pc'[k] = "blocked" =>
          LET f == file[call[k].fd]
          IN f.nonblock = "cleared" \/ (f.of \in Listeners /\ ~setup.hooked)]_vars

\* As long as the owner starts or binds again only when the previous run has
\* ended, an accept loop of a running server waits on the open socket it was
\* started for: it neither spins on a closed one nor takes the connections of
\* another (tcp_server.cpp:77-87).
OwnSocket(k) == Open(call[k].fd) /\ file[call[k].fd].of = k.of

LoopsServeTheirs ==
    early \/ (~m_stop => \A k \in Loops : Alive(k) /\ call[k].fd # -1 => OwnSocket(k))

\* Moreover, on a pool of one thread and on a server of one address, addEvent
\* never finds a second reader.  (On two threads a loop that registers while
\* stop() closes its socket stays registered for the number, which the loop of
\* another address may be given for a connection.)
OrderlyLoops ==
    /\ TypeOK
    /\ LoopsServeTheirs
    /\ ~early /\ (Cardinality(setup.threads) = 1 \/ Cardinality(setup.binds) = 1) => fault = "none"

\* The pool has one thread, the sockets were bound under the hook, nobody went
\* on too early, and no handler holds the thread in a blocking descriptor.
Orderly ==
    /\ Cardinality(setup.threads) = 1 /\ setup.hooked /\ ~early
    /\ \A t \in Threads : ~At(t, "blocked")

\* After stop() every accept loop ends and every socket it served is closed
\* (TCPServer::stop), on an accept pool of one thread.
LoopsEnd ==
    <>[](m_stop /\ stops > 0 /\ Orderly) =>
    <>[](\A k \in Loops : ~Alive(k) /\ (pc[k] = "done" => sock[k.of] = -1))
=============================================================================
