-------------------------- MODULE TcpServerProofs --------------------------
(***************************************************************************)
(* Proofs about TcpServer, for any number of threads, sockets, connections *)
(* and descriptors.                                                        *)
(***************************************************************************)
EXTENDS TcpServer, FiniteSetTheorems, SequenceTheorems, TLAPS

\* One closing task runs at a time: stop() is called once, or the pool has one
\* thread.
OneCloser == \A s \in Setups : s.stops <= 1 \/ \A t, u \in s.threads : t = u

----------------------------------------------------------------------------
(***************************************************************************)
(* The inductive invariant.                                                *)
(***************************************************************************)
Running     == Points \ {"none", "queued", "parked", "done"}
ClosePoints == {"cancel", "del", "close", "unset"}

HandlerOf(c) == [kind |-> "handle", of |-> c, n |-> 0]

\* The loop k has accepted a connection for which there is no Socket yet.
Making(k) == pc[k] \in {"create", "init"}

\* A task is on one thread, in the queue once, or registered for one
\* descriptor.
RunsTask == \A t \in Threads : run[t] # None =>
    run[t] \in Tasks /\ pc[run[t]] \in Running /\ t \in setup.threads
RunsAlone == \A t, u \in Threads : run[t] = run[u] /\ run[t] # None => t = u
HasThread == \A k \in Tasks : pc[k] \in Running => \E t \in setup.threads : run[t] = k
QueueHolds == \A i \in 1..Len(queue) : queue[i] \in Tasks /\ pc[queue[i]] \in {"queued", "parked"}
QueuedOnce == \A i, j \in 1..Len(queue) : queue[i] = queue[j] => i = j
WaitsOnce == \A fd \in Fds : waiting[fd].task # None =>
    /\ waiting[fd].task \in Tasks /\ pc[waiting[fd].task] = "parked"
    /\ \A i \in 1..Len(queue) : queue[i] # waiting[fd].task
    /\ \A gd \in Fds : waiting[gd].task = waiting[fd].task => gd = fd

TaskInv == RunsTask /\ RunsAlone /\ HasThread /\ QueueHolds /\ QueuedOnce /\ WaitsOnce

\* Which points the tasks of each kind come to, and how many there have been.
PlaceInv ==
    /\ \A k \in Loops : pc[k] \notin {"open", "stop"}
    /\ \A k \in Handlers : pc[k] \notin {"check", "create", "init", "stop"}
    /\ \A k \in Stoppers : pc[k] \in {"none", "queued", "stop", "done"} \cup ClosePoints
    /\ \A k \in Loops : pc[k] # "none" => k.n <= starts
    /\ \A k \in Stoppers : pc[k] # "none" => k.n <= stops

\* Who closes a listening socket: one closing task, which finds it in m_socks,
\* or the last loop that holds it, when it is no longer there.
OneStopper   == \A j, k \in Stoppers : pc[j] \in Running /\ pc[k] \in Running => j = k
StopperHolds == \A k \in Stoppers : pc[k] \in ClosePoints => call[k].sock \in m_socks
LoopIsLast   == \A k \in Loops : pc[k] \in ClosePoints =>
    k.of \notin m_socks /\ \A j \in Loops : j # k /\ j.of = k.of => ~Alive(j)
ClosedInStop == \A l \in m_socks : sock[l] = -1 => \E k \in Stoppers : pc[k] \in Running

StopInv == OneStopper /\ StopperHolds /\ LoopIsLast /\ ClosedInStop

\* A connection is in one accept(), then with its handler, which has a context
\* until it deletes it.
HandlerHolds == \A c \in Clients : sock[c] = -1 <=> ~Alive(HandlerOf(c))
NotAccepted  == \A c \in Clients : client[c].st # "accepted" =>
    pc[HandlerOf(c)] = "none" /\ \A k \in Loops : Making(k) => call[k].sock # c
MakingHolds  == \A k \in Loops : Making(k) =>
    /\ call[k].new \in Fds /\ call[k].sock \in Clients
    /\ file[call[k].new].of = call[k].sock
    /\ pc[HandlerOf(call[k].sock)] = "none"
MakingOnce   == \A j, k \in Loops : Making(j) /\ Making(k) /\ call[j].sock = call[k].sock => j = k
CreateBare   == \A k \in Loops : pc[k] = "create" => ~HasCtx(call[k].new)
InitHasCtx   == \A k \in Loops : pc[k] = "init" => HasCtx(call[k].new)
HandlerCtx   == \A c \in Clients :
    Alive(HandlerOf(c)) /\ pc[HandlerOf(c)] \notin {"close", "unset"} => HasCtx(sock[c])
HandlerFd    == \A c \in Clients :
    pc[HandlerOf(c)] \in {"call", "event", "parked", "blocked"} => call[HandlerOf(c)].fd = sock[c]

ClientInv ==
    /\ HandlerHolds /\ NotAccepted /\ MakingHolds /\ MakingOnce
    /\ CreateBare /\ InitHasCtx /\ HandlerCtx /\ HandlerFd

\* The file, the context and the Socket of a descriptor agree, except between
\* close_f and m_sock = -1.
NothingOfNone == \A fd \in Fds :
    (file[fd].of = None => file[fd] = NoFile) /\ (ctx[fd].of = None => ctx[fd] = NoCtx)
FileHeld    == \A fd \in Fds : file[fd].of # None =>
    sock[file[fd].of] = fd \/ \E k \in Loops : Making(k) /\ call[k].new = fd
SocketHolds == \A s \in Sockets : sock[s] # -1 =>
    file[sock[s]].of = s \/ \E k \in Tasks : pc[k] = "unset" /\ ClosingOf(k) = s
CtxOfFile   == \A fd \in Fds : HasCtx(fd) => Open(fd) /\ ctx[fd].of = file[fd].of
ClosingHas  == \A k \in Tasks : pc[k] \in ClosePoints => sock[ClosingOf(k)] # -1
ClosingOpen == \A k \in Tasks : pc[k] \in ClosePoints \ {"unset"} =>
    file[sock[ClosingOf(k)]].of = ClosingOf(k)
ClosedGone  == \A k \in Tasks : pc[k] = "unset" => file[sock[ClosingOf(k)]].of # ClosingOf(k)
ClosingBare == \A k \in Tasks : pc[k] = "close" => ~HasCtx(sock[ClosingOf(k)])

OwnInv ==
    /\ NothingOfNone /\ FileHeld /\ SocketHolds /\ CtxOfFile
    /\ ClosingHas /\ ClosingOpen /\ ClosedGone /\ ClosingBare

\* Which open descriptors are blocking in the kernel.
ModeInv ==
    \A fd \in Fds : Open(fd) =>
        \/ file[fd].nonblock \in {"on", "cleared"}
        \/ file[fd].of \in Listeners /\ ~setup.hooked
        \/ \E k \in Loops : pc[k] = "create" /\ call[k].new = fd

\* The server runs and nobody went on too early.
RunInv ==
    /\ \A k \in Loops : pc[k] \in {"none", "queued", "done"} => call[k].fd = -1
    /\ ~early /\ ~m_stop =>
          /\ \A k \in Stoppers : ~Alive(k)
          /\ \A k \in Loops : Alive(k) =>
                k.of \in m_socks /\ (call[k].fd # -1 => call[k].fd = sock[k.of])

IInv == TypeOK /\ TaskInv /\ PlaceInv /\ StopInv /\ ClientInv /\ OwnInv /\ ModeInv /\ RunInv

----------------------------------------------------------------------------
\* Thread t takes its task from one point to another.
Moves(t, k, p, q) == k \in Tasks /\ run[t] = k /\ pc[k] = p /\ pc' = [pc EXCEPT ![k] = q]

\* The waiter of a descriptor is put in the queue, or nobody is registered for
\* the file it stands for.
Cancels(fd) ==
    \/ /\ waiting[fd].task \in Tasks
       /\ queue' = Append(queue, waiting[fd].task)
       /\ waiting' = [waiting EXCEPT ![fd] = NoWait]
    \/ ~Registered(fd) /\ UNCHANGED <<queue, waiting>>

\* The three kinds of tasks.
LEMMA Kinds ==
    /\ Tasks = Loops \cup Handlers \cup Stoppers
    /\ \A k \in Loops : k.kind = "accept" /\ k.of \in Listeners /\ k.n \in Nat
    /\ \A k \in Handlers : k.kind = "handle" /\ k.of \in Clients /\ k = HandlerOf(k.of)
    /\ \A k \in Stoppers : k.kind = "stop" /\ k.of = None /\ k.n \in Nat
    /\ \A c \in Clients : HandlerOf(c) \in Handlers /\ HandlerOf(c).of = c
    /\ \A c \in Clients : HandlerOf(c) = [kind |-> "handle", of |-> c, n |-> 0]
    /\ None \notin Tasks /\ None \notin Sockets /\ Listeners \cap Clients = {}
    /\ Sockets = Listeners \cup Clients
    /\ Fds \subseteq Nat
<1>1. Tasks = Loops \cup Handlers \cup Stoppers  BY DEF Tasks
<1>2. \A s \in Setups : s.starts \in Nat /\ s.stops \in Nat  BY ServerAssumption
<1>3. \A k \in Loops : k.kind = "accept" /\ k.of \in Listeners /\ k.n \in Nat
  BY <1>2 DEF Loops
<1>4. \A k \in Handlers : k.kind = "handle" /\ k.of \in Clients /\ k = HandlerOf(k.of)
  BY DEF Handlers, HandlerOf
<1>5. \A k \in Stoppers : k.kind = "stop" /\ k.of = None /\ k.n \in Nat
  BY <1>2 DEF Stoppers
<1>6. \A c \in Clients : HandlerOf(c) \in Handlers /\ HandlerOf(c).of = c
  BY DEF Handlers, HandlerOf
<1>7. \A c \in Clients : HandlerOf(c) = [kind |-> "handle", of |-> c, n |-> 0]
  BY DEF HandlerOf
<1>8. None \notin Tasks /\ None \notin Sockets /\ Listeners \cap Clients = {}
  BY ServerAssumption, TaskAssumption DEF Sockets
<1>9. Fds \subseteq Nat /\ Sockets = Listeners \cup Clients
  BY ServerAssumption DEF Fds, Sockets
<1>10. QED
  BY <1>1, <1>3, <1>4, <1>5, <1>6, <1>7, <1>8, <1>9

\* Tasks of different kinds are different, and a connection has one handler.
LEMMA Apart ==
    /\ Loops \subseteq Tasks /\ Handlers \subseteq Tasks /\ Stoppers \subseteq Tasks
    /\ \A k \in Tasks : k \in Loops \/ k \in Handlers \/ k \in Stoppers
    /\ \A k \in Loops : k \notin Handlers /\ k \notin Stoppers /\ k.of \in Listeners
    /\ \A k \in Handlers : k \notin Stoppers /\ k.of \in Clients /\ k = HandlerOf(k.of)
    /\ \A c \in Clients : HandlerOf(c) \in Handlers /\ HandlerOf(c).of = c
    /\ \A s \in Listeners : s \in Sockets /\ s \notin Clients /\ s # None
    /\ \A s \in Clients : s \in Sockets /\ s # None
    /\ \A s \in Sockets : s # None
    /\ -1 \notin Fds
<1>1. \A k \in Loops : k \notin Handlers /\ k \notin Stoppers  BY Kinds
<1>2. \A k \in Handlers : k \notin Stoppers  BY Kinds
<1>3. QED  BY <1>1, <1>2, Kinds

\* The records of the tables.
LEMMA NoRecords ==
    /\ NoCall \in Calls /\ NoFile \in Files /\ NoCtx \in Contexts /\ NoWait \in Waiters
    /\ NoCall.fd = -1 /\ NoFile.of = None /\ NoCtx.of = None /\ NoWait.task = None
BY Kinds DEF Calls, Files, Contexts, Waiters, NoCall, NoFile, NoCtx, NoWait

\* The record of a closing task.
LEMMA CloseRecord ==
    ASSUME NEW s \in Sockets
    PROVE  LET q == [NoCall EXCEPT !.sock = s] IN q \in Calls /\ q.fd = -1 /\ q.sock = s
BY Kinds DEF Calls, NoCall

\* The file of a new descriptor.
LEMMA FileRecord ==
    ASSUME NEW s \in Sockets, NEW m \in {"on", "off", "cleared"}
    PROVE  LET r == [of |-> s, nonblock |-> m]
           IN r \in Files /\ r.of = s /\ r.nonblock = m /\ r # NoFile
BY Kinds DEF Files, NoFile

\* A file with another mode.
LEMMA ModeRecord ==
    ASSUME NEW r \in Files, NEW m \in {"on", "off", "cleared"}
    PROVE  LET q == [r EXCEPT !.nonblock = m] IN q \in Files /\ q.of = r.of /\ q.nonblock = m
BY DEF Files

\* A new FdContext.
LEMMA ContextRecord ==
    ASSUME NEW s \in Sockets
    PROVE  LET r == [of |-> s, user |-> FALSE] IN r \in Contexts /\ r.of = s /\ r # NoCtx
BY Kinds DEF Contexts, NoCtx

\* An FdContext with another flag.
LEMMA UserRecord ==
    ASSUME NEW r \in Contexts, NEW u \in BOOLEAN
    PROVE  LET q == [r EXCEPT !.user = u] IN q \in Contexts /\ q.of = r.of
BY DEF Contexts

\* A registered waiter.
LEMMA WaitRecord ==
    ASSUME NEW k \in Tasks, NEW s \in Sockets \cup {None}
    PROVE  LET r == [task |-> k, of |-> s] IN r \in Waiters /\ r.task = k
BY DEF Waiters

\* The state of a peer.
LEMMA PeerRecord ==
    ASSUME NEW r \in Peers, NEW x \in {"new", "backlog", "accepted", "refused"}
    PROVE  LET q == [r EXCEPT !.st = x] IN q \in Peers /\ q.st = x
BY DEF Peers

\* What the fields hold.
LEMMA Fields ==
    /\ \A r \in Calls : r.fd \in Fds \cup {-1} /\ r.new \in Fds \cup {-1} /\ r.sock \in Sockets \cup {None}
    /\ \A r \in Files : r.of \in Sockets \cup {None} /\ r.nonblock \in {"on", "off", "cleared"}
    /\ \A r \in Contexts : r.of \in Sockets \cup {None}
    /\ \A r \in Waiters : r.task \in Tasks \cup {None}
    /\ \A r \in Peers : r.st \in {"new", "backlog", "accepted", "refused"}
BY DEF Calls, Files, Contexts, Waiters, Peers

\* What a thread executes, by where it is.
LEMMA Where ==
    ASSUME IInv, NEW t \in Threads, run[t] # None
    PROVE  LET k == run[t] IN
           /\ k \in Tasks /\ pc[k] \in Running
           /\ pc[k] \in {"check", "create", "init"} => k \in Loops
           /\ pc[k] = "open" => k \in Handlers
           /\ pc[k] = "stop" => k \in Stoppers
           /\ pc[k] \in {"lookup", "call", "event", "blocked"} => k \in Loops \cup Handlers
           /\ k.kind = "accept" <=> k \in Loops
           /\ k.kind = "handle" <=> k \in Handlers
           /\ k.kind = "stop" <=> k \in Stoppers
           /\ k \in Loops \cup Handlers => k.of \in Sockets
           /\ pc[k] = "open" => sock[k.of] \in Fds /\ HasCtx(sock[k.of])
           /\ pc[k] \in {"create", "init"} =>
                /\ call[k].new \in Fds /\ call[k].sock \in Clients
                /\ file[call[k].new].of = call[k].sock /\ pc[HandlerOf(call[k].sock)] = "none"
           /\ pc[k] = "init" => HasCtx(call[k].new)
           /\ pc[k] \in ClosePoints => ClosingOf(k) \in Sockets /\ sock[ClosingOf(k)] \in Fds
           /\ pc[k] \in ClosePoints \ {"unset"} => file[sock[ClosingOf(k)]].of = ClosingOf(k)
           /\ pc[k] = "close" => ~HasCtx(sock[ClosingOf(k)])
<1> DEFINE k == run[t]
<1>1. TypeOK /\ TaskInv /\ PlaceInv /\ StopInv /\ ClientInv /\ OwnInv  BY DEF IInv
<1>2. k \in Tasks /\ pc[k] \in Running  BY <1>1, Kinds DEF TypeOK, TaskInv, RunsTask
<1>3. /\ k.kind = "accept" <=> k \in Loops
      /\ k.kind = "handle" <=> k \in Handlers
      /\ k.kind = "stop" <=> k \in Stoppers
  BY <1>2, Kinds
<1>4. k \in Loops \cup Handlers => k.of \in Sockets  BY Kinds
<1>5. /\ pc[k] \in {"check", "create", "init"} => k \in Loops
      /\ pc[k] = "open" => k \in Handlers
      /\ pc[k] = "stop" => k \in Stoppers
      /\ pc[k] \in {"lookup", "call", "event", "blocked"} => k \in Loops \cup Handlers
  BY <1>1, <1>2, Kinds DEF PlaceInv, ClosePoints
<1>6. ASSUME pc[k] \in ClosePoints PROVE ClosingOf(k) \in Sockets /\ sock[ClosingOf(k)] \in Fds
  <2>1. ClosingOf(k) \in Sockets
    BY <1>1, <1>2, <1>3, <1>6, Kinds DEF ClosingOf, StopInv, StopperHolds, TypeOK
  <2>2. sock[ClosingOf(k)] # -1  BY <1>1, <1>2, <1>6 DEF OwnInv, ClosingHas
  <2>3. QED  BY <1>1, <2>1, <2>2 DEF TypeOK
<1>7. /\ pc[k] \in ClosePoints \ {"unset"} => file[sock[ClosingOf(k)]].of = ClosingOf(k)
      /\ pc[k] = "close" => ~HasCtx(sock[ClosingOf(k)])
  BY <1>1, <1>2 DEF OwnInv, ClosingOpen, ClosingBare
<1>8. ASSUME pc[k] = "open" PROVE sock[k.of] \in Fds /\ HasCtx(sock[k.of])
  <2>1. k \in Handlers /\ k.of \in Clients /\ k = HandlerOf(k.of)  BY <1>5, <1>8, Kinds
  <2>2. HasCtx(sock[k.of])  BY <1>1, <1>8, <2>1 DEF ClientInv, HandlerCtx, Alive
  <2>3. QED  BY <2>2 DEF HasCtx
<1>9. /\ pc[k] \in {"create", "init"} =>
           /\ call[k].new \in Fds /\ call[k].sock \in Clients
           /\ file[call[k].new].of = call[k].sock /\ pc[HandlerOf(call[k].sock)] = "none"
      /\ pc[k] = "init" => HasCtx(call[k].new)
  BY <1>1, <1>5 DEF ClientInv, MakingHolds, InitHasCtx, Making
<1>10. QED  BY <1>2, <1>3, <1>4, <1>5, <1>6, <1>7, <1>8, <1>9

\* The owner acts while no closing task runs.
LEMMA OwnerAlone ==
    ASSUME IInv, OwnerMay
    PROVE  \A k \in Stoppers : pc[k] \notin Running
<1>1. setup.threads \subseteq Threads  BY DEF IInv, TypeOK, Threads
<1>2. \A k \in Stoppers : pc[k] \in Running => \E t \in setup.threads : run[t] = k
  BY Kinds DEF IInv, TaskInv, HasThread
<1>3. QED  BY <1>1, <1>2 DEF OwnerMay

\* What the IOManager has registered.
LEMMA Waiting ==
    ASSUME IInv, NEW fd \in Fds
    PROVE  waiting[fd].task \in Tasks \cup {None}
BY Fields DEF IInv, TypeOK

\* Who closes what.
LEMMA Closers ==
    ASSUME IInv, NEW k \in Tasks, pc[k] \in ClosePoints
    PROVE  /\ ClosingOf(k) \in Sockets /\ sock[ClosingOf(k)] \in Fds
           /\ k \in Handlers => ClosingOf(k) = k.of
           /\ k \in Loops => ClosingOf(k) = k.of
           /\ k \in Stoppers => ClosingOf(k) = call[k].sock /\ ClosingOf(k) \in m_socks
           /\ ClosingOf(k) \in Clients => k = HandlerOf(ClosingOf(k))
<1>1. /\ k \in Handlers => ClosingOf(k) = k.of /\ k.of \in Clients
      /\ k \in Loops => ClosingOf(k) = k.of /\ k.of \in Listeners
      /\ k \in Stoppers => ClosingOf(k) = call[k].sock
  BY Kinds DEF ClosingOf
<1>2. k \in Stoppers => call[k].sock \in m_socks /\ m_socks \subseteq Listeners
  BY DEF IInv, TypeOK, StopInv, StopperHolds
<1>3. ClosingOf(k) \in Sockets  BY <1>1, <1>2, Apart
<1>4. sock[ClosingOf(k)] # -1  BY DEF IInv, OwnInv, ClosingHas
<1>5. sock[ClosingOf(k)] \in Fds  BY <1>3, <1>4 DEF IInv, TypeOK
<1>6. QED  BY <1>1, <1>2, <1>3, <1>5, Apart

\* The descriptor of a connection is the file of its peer until it is closed.
LEMMA HandlerFile ==
    ASSUME IInv, NEW c \in Clients, sock[c] # -1, pc[HandlerOf(c)] # "unset"
    PROVE  sock[c] \in Fds /\ file[sock[c]].of = c
<1>1. \A k \in Tasks : pc[k] = "unset" => ClosingOf(k) # c  BY Closers DEF ClosePoints
<1>2. sock[c] \in Fds  BY Apart DEF IInv, TypeOK
<1>3. QED  BY <1>1, <1>2, Apart DEF IInv, OwnInv, SocketHolds

\* The descriptor of a handler that has not closed it.
LEMMA HandlerOpen ==
    ASSUME IInv, NEW k \in Handlers, pc[k] \notin {"none", "done", "unset"}
    PROVE  k.of \in Clients /\ sock[k.of] \in Fds /\ file[sock[k.of]].of = k.of
<1>1. k.of \in Clients /\ k = HandlerOf(k.of)  BY Apart
<1>2. sock[k.of] # -1  BY <1>1 DEF IInv, ClientInv, HandlerHolds, Alive
<1>3. QED  BY <1>1, <1>2, HandlerFile

\* What a task closes, before a step and after it.
LEMMA ClosingKind ==
    /\ \A k \in Loops : ClosingOf(k) = k.of /\ ClosingOf(k)' = k.of
    /\ \A k \in Handlers : ClosingOf(k) = k.of /\ ClosingOf(k)' = k.of
    /\ \A k \in Stoppers : ClosingOf(k) = call[k].sock /\ ClosingOf(k)' = call'[k].sock
BY Kinds DEF ClosingOf

\* No two tasks close the same Socket.
LEMMA ClosersAlone ==
    ASSUME IInv, NEW j \in Tasks, NEW k \in Tasks,
           pc[j] \in ClosePoints, pc[k] \in ClosePoints, ClosingOf(j) = ClosingOf(k)
    PROVE  j = k
<1>1. ClosingOf(k) \in Sockets  BY Closers
<1>2. CASE ClosingOf(k) \in Clients  BY <1>2, Closers
<1>3. CASE ClosingOf(k) \in Listeners
  <2>1. j \notin Handlers /\ k \notin Handlers  BY <1>3, Closers, Apart
  <2>2. CASE j \in Loops /\ k \in Loops
    BY <2>2, Closers DEF IInv, StopInv, LoopIsLast, Alive, ClosePoints
  <2>3. CASE j \in Stoppers /\ k \in Stoppers
    BY <2>3 DEF IInv, StopInv, OneStopper, Running, ClosePoints, Points
  <2>4. CASE j \in Loops /\ k \in Stoppers  BY <2>4, Closers DEF IInv, StopInv, LoopIsLast
  <2>5. CASE j \in Stoppers /\ k \in Loops  BY <2>5, Closers DEF IInv, StopInv, LoopIsLast
  <2>6. QED  BY <2>1, <2>2, <2>3, <2>4, <2>5, Apart
<1>4. QED  BY <1>1, <1>2, <1>3 DEF Sockets

----------------------------------------------------------------------------
(***************************************************************************)
(* What each step does, without its helpers.                               *)
(***************************************************************************)
\* A thread takes the front of the queue: a new task starts, a parked one
\* goes on in its call.
TakeDoes(t) ==
    LET k == queue[1] IN
        /\ fault = "none" /\ t \in setup.threads /\ run[t] = None
        /\ queue # <<>> /\ k \in Tasks /\ queue' = Tail(queue) /\ run' = [run EXCEPT ![t] = k]
        /\ \/ pc[k] = "queued" /\ k \in Loops /\ pc' = [pc EXCEPT ![k] = "check"]
           \/ pc[k] = "queued" /\ k \in Handlers /\ pc' = [pc EXCEPT ![k] = "open"]
           \/ pc[k] = "queued" /\ k \in Stoppers /\ pc' = [pc EXCEPT ![k] = "stop"]
           \/ pc[k] = "parked" /\ k \in Loops \cup Handlers /\ pc' = [pc EXCEPT ![k] = "call"]
        /\ UNCHANGED <<setup, call, file, ctx, waiting, sock, m_socks, m_stop, starts,
                       stops, early, client, fault>>

\* This is what Take does.
LEMMA TakeEffect ==
    ASSUME IInv, NEW t \in Threads, Take(t)
    PROVE  TakeDoes(t)
<1>1. TypeOK /\ TaskInv /\ PlaceInv  BY DEF IInv
<1>2. queue # <<>> /\ 1 \in 1..Len(queue) /\ Head(queue) = queue[1] /\ queue[1] \in Tasks
  BY <1>1 DEF TypeOK, Take
<1>3. pc[queue[1]] \in {"queued", "parked"}  BY <1>1, <1>2 DEF TaskInv, QueueHolds
<1>4. pc[queue[1]] = "parked" => queue[1] \in Loops \cup Handlers
  BY <1>1, <1>2, Kinds DEF PlaceInv, ClosePoints
<1>5. /\ queue[1] \in Loops => FirstPoint(queue[1]) = "check"
      /\ queue[1] \in Handlers => FirstPoint(queue[1]) = "open"
      /\ queue[1] \in Stoppers => FirstPoint(queue[1]) = "stop"
  BY <1>2, Kinds DEF FirstPoint
<1>6. QED
  BY <1>2, <1>3, <1>4, <1>5, Kinds
  DEF TakeDoes, Take, poolVars, fdVars, serverVars, At, Goto, Leave, Set

\* A loop goes on, ends, or closes the Socket it is the last to hold.
CheckStopDoes(t) ==
    LET k == run[t] IN
        /\ k \in Loops /\ call' = [call EXCEPT ![k] = NoCall]
        /\ \/ ~m_stop /\ Moves(t, k, "check", "lookup") /\ run' = run
           \/ m_stop /\ LastOf(k) /\ Moves(t, k, "check", "cancel") /\ run' = run
           \/ m_stop /\ Moves(t, k, "check", "done") /\ run' = [run EXCEPT ![t] = None]
        /\ UNCHANGED <<setup, queue, file, ctx, waiting, sock, m_socks, m_stop, starts,
                       stops, early, client, fault>>

\* This is what CheckStop does.
LEMMA CheckStopEffect ==
    ASSUME IInv, NEW t \in Threads, CheckStop(t)
    PROVE  CheckStopDoes(t)
<1>1. run[t] # None /\ fault = "none"  BY DEF CheckStopDoes, CheckStop, At
<1>2. QED
  BY <1>1, Where, Kinds, NoRecords
  DEF Moves, ClosePoints, CheckStopDoes, CheckStop, poolVars, fdVars, serverVars, At,
      Goto, Leave, Set

\* A loop or a handler reads the number of its Socket.
LookupDoes(t) ==
    LET k == run[t] IN
        /\ k \in Loops \cup Handlers /\ k.of \in Sockets /\ Moves(t, k, "lookup", "call")
        /\ \E r \in Calls : r.fd = sock[k.of] /\ call' = [call EXCEPT ![k] = r]
        /\ UNCHANGED <<setup, queue, run, file, ctx, waiting, sock, m_socks, m_stop,
                       starts, stops, early, client, fault>>

\* This is what Lookup does.
LEMMA LookupEffect ==
    ASSUME IInv, NEW t \in Threads, Lookup(t)
    PROVE  LookupDoes(t)
<1> DEFINE k == run[t]
           h == HasCtx(sock[k.of]) /\ ~ctx[sock[k.of]].user
           r == [NoCall EXCEPT !.fd = sock[k.of], !.hooked = h]
<1>1. run[t] # None  BY DEF Lookup, At
<1>2. k \in Loops \cup Handlers /\ k \in Tasks /\ k.of \in Sockets
  BY <1>1, Where DEF Lookup, At
<1>3. h \in BOOLEAN  OBVIOUS
<1>4. sock[k.of] \in Fds \cup {-1}  BY <1>2 DEF IInv, TypeOK
<1> HIDE DEF h
<1>5. r \in Calls /\ r.fd = sock[k.of]
  <2>1. CASE h = TRUE  BY <1>4, <2>1, Kinds DEF Calls, NoCall
  <2>2. CASE h = FALSE  BY <1>4, <2>2, Kinds DEF Calls, NoCall
  <2>3. QED  BY <1>3, <2>1, <2>2
<1>6. call' = [call EXCEPT ![k] = r]  BY DEF Lookup, Set, h
<1> HIDE DEF r
<1>7. QED
  BY <1>2, <1>5, <1>6
  DEF Moves, LookupDoes, Lookup, poolVars, fdVars, serverVars, At, Goto, Leave, Set

\* The call fails: the loop tests m_stop again, the handler closes.
CallFailsDoes(t) ==
    LET k == run[t] IN
        /\ k \in Loops \cup Handlers
        /\ \/ k \in Loops /\ Moves(t, k, "call", "check")
           \/ k \in Handlers /\ Moves(t, k, "call", "cancel")
        /\ UNCHANGED <<setup, queue, run, call, file, ctx, waiting, sock, m_socks,
                       m_stop, starts, stops, early, client, fault>>

\* This is what CallFails does.
LEMMA CallFailsEffect ==
    ASSUME IInv, NEW t \in Threads, CallFails(t)
    PROVE  CallFailsDoes(t)
<1>1. run[t] # None /\ fault = "none"  BY DEF CallFailsDoes, CallFails, Failed, At
<1>2. QED
  BY <1>1, Where, Kinds, NoRecords
  DEF Moves, ClosePoints, CallFailsDoes, CallFails, Failed, poolVars, fdVars,
      serverVars, At, Goto, Leave, Set

\* The call would wait: the file is open, and a thread stands still only if
\* it is blocking.
CallWaitsDoes(t) ==
    LET k == run[t] IN
        /\ k \in Loops \cup Handlers
        /\ Open(call[k].fd) /\ (k \in Loops => file[call[k].fd].of \in Listeners)
        /\ \/ Moves(t, k, "call", "blocked") /\ file[call[k].fd].nonblock # "on"
           \/ Moves(t, k, "call", "event")
           \/ k \in Loops /\ Moves(t, k, "call", "check")
           \/ k \in Handlers /\ Moves(t, k, "call", "cancel")
        /\ UNCHANGED <<setup, queue, run, call, file, ctx, waiting, sock, m_socks,
                       m_stop, starts, stops, early, client, fault>>

\* This is what CallWaits does.
LEMMA CallWaitsEffect ==
    ASSUME IInv, NEW t \in Threads, CallWaits(t)
    PROVE  CallWaitsDoes(t)
<1>1. run[t] # None /\ fault = "none"  BY DEF CallWaitsDoes, CallWaits, Failed, At
<1>2. QED
  BY <1>1, Where, Kinds, NoRecords
  DEF Moves, ClosePoints, CallWaitsDoes, CallWaits, Failed, poolVars, fdVars,
      serverVars, At, Goto, Leave, Set

\* A thread that stood still goes on.
UnblockDoes(t) ==
    LET k == run[t] IN
        /\ k \in Loops \cup Handlers
        /\ Moves(t, k, "blocked", "call")
        /\ UNCHANGED <<setup, queue, run, call, file, ctx, waiting, sock, m_socks,
                       m_stop, starts, stops, early, client, fault>>

\* This is what Unblock does.
LEMMA UnblockEffect ==
    ASSUME IInv, NEW t \in Threads, Unblock(t)
    PROVE  UnblockDoes(t)
<1>1. run[t] # None /\ fault = "none"  BY DEF UnblockDoes, Unblock, At
<1>2. QED
  BY <1>1, Where, Kinds, NoRecords
  DEF Moves, ClosePoints, UnblockDoes, Unblock, poolVars, fdVars, serverVars, At, Goto,
      Leave, Set

\* The task is registered for a descriptor that has no waiter and leaves its
\* thread, or goes on.
AddEventDoes(t) ==
    LET k == run[t]  fd == call[k].fd IN
        /\ k \in Loops \cup Handlers /\ pc[k] = "event"
        /\ \/ fault' = "assert" /\ UNCHANGED <<pc, run, waiting>>
           \/ k \in Loops /\ Moves(t, k, "event", "check") /\ UNCHANGED <<run, waiting, fault>>
           \/ k \in Handlers /\ Moves(t, k, "event", "cancel") /\ UNCHANGED <<run, waiting, fault>>
           \/ /\ fd \in Fds /\ waiting[fd].task = None
              /\ \E w \in Waiters : w.task = k /\ waiting' = [waiting EXCEPT ![fd] = w]
              /\ Moves(t, k, "event", "parked") /\ run' = [run EXCEPT ![t] = None] /\ UNCHANGED fault
        /\ UNCHANGED <<setup, queue, call, file, ctx, sock, m_socks, m_stop, starts,
                       stops, early, client>>

\* This is what AddEvent does.
LEMMA AddEventEffect ==
    ASSUME IInv, NEW t \in Threads, AddEvent(t)
    PROVE  AddEventDoes(t)
<1> DEFINE k == run[t]
           fd == call[k].fd
           w == [task |-> k, of |-> file[fd].of]
<1>1. run[t] # None /\ pc[k] = "event"  BY DEF AddEvent, At
<1>2. k \in Loops \cup Handlers /\ k \in Tasks /\ (k.kind = "accept" <=> k \in Loops)
  BY <1>1, Where
<1>3. ASSUME fd \in Fds PROVE w \in Waiters /\ w.task = k
  <2>1. file[fd].of \in Sockets \cup {None}  BY <1>3, Fields DEF IInv, TypeOK
  <2>2. QED  BY <1>2, <2>1, WaitRecord
<1> HIDE DEF w
<1>4. \/ waiting' = waiting
      \/ fd \in Fds /\ waiting[fd].task = None /\ waiting' = [waiting EXCEPT ![fd] = w]
  BY DEF AddEvent, Open, w
<1>5. \/ fault' = "assert" /\ UNCHANGED <<pc, run, waiting>>
      \/ Failed(t) /\ UNCHANGED <<run, waiting, fault>>
      \/ /\ fd \in Fds /\ waiting[fd].task = None /\ waiting' = [waiting EXCEPT ![fd] = w]
         /\ Goto(t, "parked") /\ Leave(t) /\ UNCHANGED fault
  BY DEF AddEvent, Open, w
<1>6. QED
  BY <1>1, <1>2, <1>3, <1>5
  DEF Moves, AddEventDoes, AddEvent, Failed, poolVars, fdVars, serverVars, At, Goto,
      Leave, Set

\* The new descriptor gets its context and is made non-blocking.
CreateCtxDoes(t) ==
    LET k == run[t]  fd == call[k].new  c == call[k].sock IN
        /\ k \in Loops /\ fd \in Fds /\ c \in Clients /\ file[fd].of = c
        /\ Moves(t, k, "create", "init")
        /\ \E f \in Files : f.of = c /\ f.nonblock = "on" /\ file' = [file EXCEPT ![fd] = f]
        /\ \E x \in Contexts : x.of = c /\ ctx' = [ctx EXCEPT ![fd] = x]
        /\ UNCHANGED <<setup, queue, run, call, waiting, sock, m_socks, m_stop, starts,
                       stops, early, client, fault>>

\* This is what CreateCtx does.
LEMMA CreateCtxEffect ==
    ASSUME IInv, NEW t \in Threads, CreateCtx(t)
    PROVE  CreateCtxDoes(t)
<1> DEFINE k == run[t]
           fd == call[k].new
           c == call[k].sock
           f == [of |-> c, nonblock |-> "on"]
           x == [of |-> c, user |-> FALSE]
<1>1. run[t] # None /\ pc[k] = "create"  BY DEF CreateCtx, At
<1>2. k \in Loops /\ k \in Tasks /\ fd \in Fds /\ c \in Clients /\ c \in Sockets /\ file[fd].of = c
  BY <1>1, Where, Kinds
<1>3. ~HasCtx(fd)  BY <1>1, <1>2 DEF IInv, ClientInv, CreateBare
<1>4. f \in Files /\ f.of = c /\ f.nonblock = "on"  BY <1>2, FileRecord
<1>5. x \in Contexts /\ x.of = c  BY <1>2, ContextRecord
<1>6. file' = [file EXCEPT ![fd] = f] /\ ctx' = [ctx EXCEPT ![fd] = x]
  BY <1>3 DEF CreateCtx, GetCtx, InitCtx
<1> HIDE DEF f, x
<1>7. QED
  BY <1>1, <1>2, <1>4, <1>5, <1>6
  DEF Moves, CreateCtxDoes, CreateCtx, poolVars, fdVars, serverVars, At, Goto, Leave, Set

\* The new Socket gets the number, and its handler is queued.
InitSocketDoes(t) ==
    LET k == run[t]  fd == call[k].new  c == call[k].sock  h == HandlerOf(c) IN
        /\ k \in Loops /\ fd \in Fds /\ c \in Clients /\ h \in Handlers /\ h \in Tasks /\ pc[k] = "init"
        /\ file[fd].of = c /\ HasCtx(fd)
        /\ sock' = [sock EXCEPT ![c] = fd] /\ queue' = Append(queue, h)
        /\ pc[h] = "none" /\ h # k /\ pc' = [pc EXCEPT ![k] = "check", ![h] = "queued"]
        /\ call' = [call EXCEPT ![k] = NoCall]
        /\ UNCHANGED <<setup, run, file, ctx, waiting, m_socks, m_stop, starts, stops,
                       early, client, fault>>

\* This is what InitSocket does.
LEMMA InitSocketEffect ==
    ASSUME IInv, NEW t \in Threads, InitSocket(t)
    PROVE  InitSocketDoes(t)
<1> DEFINE k == run[t]
           fd == call[k].new
           c == call[k].sock
           h == HandlerOf(c)
<1>1. run[t] # None /\ pc[k] = "init"  BY DEF InitSocket, At
<1>2. /\ k \in Loops /\ fd \in Fds /\ c \in Clients /\ HasCtx(fd) /\ file[fd].of = c /\ pc[h] = "none"
  BY <1>1, Where
<1>3. h \in Handlers /\ h \in Tasks /\ h # k /\ h = [kind |-> "handle", of |-> c, n |-> 0]
  BY <1>1, <1>2, Kinds
<1>4. QED
  BY <1>1, <1>2, <1>3
  DEF InitSocketDoes, InitSocket, poolVars, fdVars, serverVars, At, Goto, Leave, Set

\* The handler has received something and closes.
ReceiveDoes(t) ==
    LET k == run[t] IN
        /\ k \in Handlers /\ Moves(t, k, "call", "cancel")
        /\ UNCHANGED <<setup, queue, run, call, file, ctx, waiting, sock, m_socks,
                       m_stop, starts, stops, early, client, fault>>

\* This is what Receive does.
LEMMA ReceiveEffect ==
    ASSUME IInv, NEW t \in Threads, Receive(t)
    PROVE  ReceiveDoes(t)
<1>1. run[t] # None /\ fault = "none"  BY DEF ReceiveDoes, Receive, At
<1>2. QED
  BY <1>1, Where, Kinds, NoRecords
  DEF Moves, ClosePoints, ReceiveDoes, Receive, poolVars, fdVars, serverVars, At, Goto,
      Leave, Set

\* The waiter of the descriptor is cancelled, if there is a context.
CloseCancelDoes(t) ==
    LET k == run[t]  s == ClosingOf(k)  fd == sock[s] IN
        /\ s \in Sockets /\ fd \in Fds /\ file[fd].of = s
        /\ \/ HasCtx(fd) /\ Moves(t, k, "cancel", "del") /\ Cancels(fd)
           \/ ~HasCtx(fd) /\ Moves(t, k, "cancel", "close") /\ UNCHANGED <<queue, waiting>>
        /\ UNCHANGED <<setup, run, call, file, ctx, sock, m_socks, m_stop, starts,
                       stops, early, client, fault>>

\* This is what CloseCancel does.
LEMMA CloseCancelEffect ==
    ASSUME IInv, NEW t \in Threads, CloseCancel(t)
    PROVE  CloseCancelDoes(t)
<1>1. run[t] # None  BY DEF CloseCancelDoes, CloseCancel, CancelAll, Closing, Cancels, At
<1>2. LET k == run[t]  s == ClosingOf(k) IN
      k \in Tasks /\ s \in Sockets /\ sock[s] \in Fds /\ file[sock[s]].of = s
  BY <1>1, Where
  DEF CloseCancelDoes, CloseCancel, CancelAll, Closing, Cancels, At, ClosePoints
<1>3. waiting[sock[Closing(t)]].task \in Tasks \cup {None}  BY <1>2, Waiting DEF Closing
<1>4. QED
  BY <1>1, <1>2, <1>3
  DEF Moves, CloseCancelDoes, CloseCancel, CancelAll, Closing, Cancels, Registered, poolVars,
      fdVars, serverVars, At, Goto, Leave, Set

\* The context is deleted.
CloseDelDoes(t) ==
    LET k == run[t]  s == ClosingOf(k)  fd == sock[s] IN
        /\ s \in Sockets /\ fd \in Fds /\ file[fd].of = s
        /\ Moves(t, k, "del", "close") /\ ctx' = [ctx EXCEPT ![fd] = NoCtx]
        /\ UNCHANGED <<setup, queue, run, call, file, waiting, sock, m_socks, m_stop,
                       starts, stops, early, client, fault>>

\* This is what CloseDel does.
LEMMA CloseDelEffect ==
    ASSUME IInv, NEW t \in Threads, CloseDel(t)
    PROVE  CloseDelDoes(t)
<1>1. run[t] # None /\ fault = "none"  BY DEF CloseDelDoes, CloseDel, Closing, At
<1>2. QED
  BY <1>1, Where, Kinds, NoRecords
  DEF Moves, ClosePoints, CloseDelDoes, CloseDel, Closing, poolVars, fdVars, serverVars,
      At, Goto, Leave, Set

\* The file is closed and the backlog refused.
CloseFdDoes(t) ==
    LET k == run[t]  s == ClosingOf(k)  fd == sock[s] IN
        /\ s \in Sockets /\ fd \in Fds /\ file[fd].of = s /\ ~HasCtx(fd)
        /\ Moves(t, k, "close", "unset") /\ file' = [file EXCEPT ![fd] = NoFile]
        /\ \A c \in Clients : client'[c].st = client[c].st \/ (client[c].st = "backlog" /\ client'[c].st = "refused")
        /\ client' \in [Clients -> Peers]
        /\ UNCHANGED <<setup, queue, run, call, ctx, waiting, sock, m_socks, m_stop,
                       starts, stops, early, fault>>

\* This is what CloseFd does.
LEMMA CloseFdEffect ==
    ASSUME IInv, NEW t \in Threads, CloseFd(t)
    PROVE  CloseFdDoes(t)
<1> DEFINE k == run[t]
           s == ClosingOf(k)
<1>1. run[t] # None  BY DEF CloseFd, At
<1>2. k \in Tasks /\ s \in Sockets /\ sock[s] \in Fds /\ file[sock[s]].of = s /\ ~HasCtx(sock[s])
  BY <1>1, Where DEF CloseFd, At, ClosePoints
<1>3. client \in [Clients -> Peers]  BY DEF IInv, TypeOK
<1>4. /\ \A c \in Clients : client'[c].st = client[c].st \/ (client[c].st = "backlog" /\ client'[c].st = "refused")
      /\ client' \in [Clients -> Peers]
  BY <1>3, PeerRecord DEF CloseFd, CloseFile, Backlog
<1>5. QED
  BY <1>1, <1>2, <1>4
  DEF Moves, CloseFdDoes, CloseFd, Closing, CloseFile, poolVars, fdVars, serverVars, At,
      Goto, Leave, Set

\* The Socket forgets the number; a closing task goes on to the next one.
CloseUnsetDoes(t) ==
    LET k == run[t]  s == ClosingOf(k) IN
        /\ s \in Sockets /\ sock' = [sock EXCEPT ![s] = -1] /\ call' = [call EXCEPT ![k] = NoCall]
        /\ \/ k \in Stoppers /\ Moves(t, k, "unset", "stop") /\ run' = run
           \/ k \in Loops \cup Handlers /\ Moves(t, k, "unset", "done") /\ run' = [run EXCEPT ![t] = None]
        /\ UNCHANGED <<setup, queue, file, ctx, waiting, m_socks, m_stop, starts, stops,
                       early, client, fault>>

\* This is what CloseUnset does.
LEMMA CloseUnsetEffect ==
    ASSUME IInv, NEW t \in Threads, CloseUnset(t)
    PROVE  CloseUnsetDoes(t)
<1> DEFINE k == run[t]
<1>1. run[t] # None  BY DEF CloseUnset, At
<1>2. k \in Tasks /\ ClosingOf(k) \in Sockets /\ (k.kind = "stop" <=> k \in Stoppers)
  BY <1>1, Where DEF CloseUnset, At, ClosePoints
<1>3. QED
  BY <1>1, <1>2, Kinds
  DEF Moves, CloseUnsetDoes, CloseUnset, Closing, poolVars, fdVars, serverVars, At,
      Goto, Leave, Set

\* m_socks is cleared and the closing task ends.
StopClearDoes(t) ==
    LET k == run[t] IN
        /\ k \in Stoppers /\ Moves(t, k, "stop", "done") /\ run' = [run EXCEPT ![t] = None]
        /\ call' = [call EXCEPT ![k] = NoCall] /\ m_socks' = {}
        /\ UNCHANGED <<setup, queue, file, ctx, waiting, sock, m_stop, starts, stops,
                       early, client, fault>>

\* This is what StopClear does.
LEMMA StopClearEffect ==
    ASSUME IInv, NEW t \in Threads, StopClear(t)
    PROVE  StopClearDoes(t)
<1>1. run[t] # None /\ fault = "none"  BY DEF StopClearDoes, StopClear, At
<1>2. QED
  BY <1>1, Where, Kinds, NoRecords
  DEF Moves, ClosePoints, StopClearDoes, StopClear, poolVars, fdVars, serverVars, At,
      Goto, Leave, Set

\* A connection of the backlog gets a descriptor that was free.
AcceptDoes(t, c) ==
    LET k == run[t] IN \E fd \in Fds :
        /\ k \in Loops /\ Moves(t, k, "call", "create") /\ ~Open(fd) /\ ~HasCtx(fd)
        /\ client[c].st = "backlog"
        /\ \E p \in Peers : p.st = "accepted" /\ client' = [client EXCEPT ![c] = p]
        /\ \E f \in Files : f.of = c /\ file' = [file EXCEPT ![fd] = f]
        /\ \E r \in Calls : r.fd = call[k].fd /\ r.new = fd /\ r.sock = c /\ call' = [call EXCEPT ![k] = r]
        /\ UNCHANGED <<setup, queue, run, ctx, waiting, sock, m_socks, m_stop, starts,
                       stops, early, fault>>

\* This is what Accept does.
LEMMA AcceptEffect ==
    ASSUME IInv, NEW t \in Threads, NEW c \in Clients, Accept(t, c)
    PROVE  AcceptDoes(t, c)
<1> DEFINE k == run[t]
           p == [client[c] EXCEPT !.st = "accepted"]
           f == [of |-> c, nonblock |-> "off"]
<1>1. run[t] # None /\ pc[k] = "call" /\ k.kind = "accept"  BY DEF Accept, At
<1>2. k \in Loops /\ k \in Tasks  BY <1>1, Where
<1>3. PICK fd \in Fds : /\ NewFd(fd)
                        /\ file' = [file EXCEPT ![fd] = f]
                        /\ call' = [call EXCEPT ![k] = [call[k] EXCEPT !.new = fd, !.sock = c]]
  BY DEF Accept, Set
<1> DEFINE r == [call[k] EXCEPT !.new = fd, !.sock = c]
<1>4. ~Open(fd) /\ ~HasCtx(fd)  BY <1>3 DEF NewFd, FreeFds, IInv, OwnInv, CtxOfFile
<1>5. client[c].st = "backlog"  BY DEF Accept, Backlog
<1>6. client \in [Clients -> Peers] /\ call \in [Tasks -> Calls]  BY DEF IInv, TypeOK
<1>7. p \in Peers /\ p.st = "accepted"  BY <1>6, PeerRecord
<1>8. client' = [client EXCEPT ![c] = p]  BY <1>6 DEF Accept
<1>9. f \in Files /\ f.of = c  BY Kinds, FileRecord
<1>10. r \in Calls /\ r.fd = call[k].fd /\ r.new = fd /\ r.sock = c
  <2>1. call[k] \in Calls /\ c \in Sockets  BY <1>2, <1>6, Kinds
  <2>2. fd \in Fds  BY <1>3
  <2>3. QED  BY <2>1, <2>2 DEF Calls
<1>11. call' = [call EXCEPT ![k] = r]  BY <1>3
<1>12. file' = [file EXCEPT ![fd] = f]  BY <1>3
<1> HIDE DEF p, f, r
<1>13. QED
  BY <1>1, <1>2, <1>4, <1>5, <1>7, <1>8, <1>9, <1>10, <1>11, <1>12
  DEF Moves, AcceptDoes, Accept, poolVars, fdVars, serverVars, At, Goto, Leave, Set

\* The flag of the context is changed.
FcntlDoes(t, on) ==
    LET k == run[t]  fd == sock[k.of] IN
        /\ k \in Handlers /\ fd \in Fds /\ HasCtx(fd) /\ Moves(t, k, "open", "lookup")
        /\ \E x \in Contexts : x.of = ctx[fd].of /\ ctx' = [ctx EXCEPT ![fd] = x]
        /\ UNCHANGED <<setup, queue, run, call, file, waiting, sock, m_socks, m_stop,
                       starts, stops, early, client, fault>>

\* This is what Fcntl does.
LEMMA FcntlEffect ==
    ASSUME IInv, NEW t \in Threads, NEW on \in BOOLEAN, Fcntl(t, on)
    PROVE  FcntlDoes(t, on)
<1> DEFINE k == run[t]
           fd == sock[k.of]
           x == [ctx[fd] EXCEPT !.user = on]
<1>1. run[t] # None /\ pc[k] = "open"  BY DEF Fcntl, At
<1>2. k \in Handlers /\ k \in Tasks /\ fd \in Fds /\ HasCtx(fd)  BY <1>1, Where
<1>3. ctx \in [Fds -> Contexts]  BY DEF IInv, TypeOK
<1>4. x \in Contexts /\ x.of = ctx[fd].of  BY <1>2, <1>3, UserRecord
<1>5. ctx' = [ctx EXCEPT ![fd] = x]  BY <1>2, <1>3 DEF Fcntl
<1> HIDE DEF x
<1>6. QED
  BY <1>1, <1>2, <1>4, <1>5
  DEF Moves, FcntlDoes, Fcntl, poolVars, fdVars, serverVars, At, Goto, Leave, Set

\* The flag of the context and the mode of the file are changed.
IoctlDoes(t, on) ==
    LET k == run[t]  fd == sock[k.of] IN
        /\ k \in Handlers /\ fd \in Fds /\ HasCtx(fd) /\ Moves(t, k, "open", "lookup")
        /\ \E x \in Contexts : x.of = ctx[fd].of /\ ctx' = [ctx EXCEPT ![fd] = x]
        /\ \E f \in Files : /\ f.of = file[fd].of /\ f.nonblock \in {"on", "cleared"}
             /\ file' = [file EXCEPT ![fd] = f]
        /\ UNCHANGED <<setup, queue, run, call, waiting, sock, m_socks, m_stop, starts,
                       stops, early, client, fault>>

\* This is what Ioctl does.
LEMMA IoctlEffect ==
    ASSUME IInv, NEW t \in Threads, NEW on \in BOOLEAN, Ioctl(t, on)
    PROVE  IoctlDoes(t, on)
<1> DEFINE k == run[t]
           fd == sock[k.of]
           m == IF on THEN "on" ELSE "cleared"
           x == [ctx[fd] EXCEPT !.user = on]
           f == [file[fd] EXCEPT !.nonblock = m]
<1>1. run[t] # None /\ pc[k] = "open"  BY DEF Ioctl, At
<1>2. k \in Handlers /\ k \in Tasks /\ fd \in Fds /\ HasCtx(fd)  BY <1>1, Where
<1>3. ctx \in [Fds -> Contexts] /\ file \in [Fds -> Files]  BY DEF IInv, TypeOK
<1>4. x \in Contexts /\ x.of = ctx[fd].of  BY <1>2, <1>3, UserRecord
<1>5. ctx' = [ctx EXCEPT ![fd] = x]  BY <1>2, <1>3 DEF Ioctl
<1>6. m \in {"on", "cleared"}  OBVIOUS
<1>7. file' = [file EXCEPT ![fd] = f]  BY <1>2, <1>3 DEF Ioctl
<1> HIDE DEF m
<1>8. f \in Files /\ f.of = file[fd].of /\ f.nonblock = m
  <2>1. file[fd] \in Files /\ m \in {"on", "off", "cleared"}  BY <1>2, <1>3, <1>6
  <2>2. QED  BY <2>1, ModeRecord
<1> HIDE DEF x, f
<1>9. QED
  BY <1>1, <1>2, <1>4, <1>5, <1>6, <1>7, <1>8
  DEF Moves, IoctlDoes, Ioctl, poolVars, fdVars, serverVars, At, Goto, Leave, Set

\* The closing task cancels the waiter of a socket and begins to close it.
StopSocketDoes(t, l) ==
    LET k == run[t]  fd == sock[l] IN
        /\ k \in Stoppers /\ Moves(t, k, "stop", "cancel") /\ l \in m_socks /\ fd \in Fds /\ Cancels(fd)
        /\ \E r \in Calls : r.fd = -1 /\ r.sock = l /\ call' = [call EXCEPT ![k] = r]
        /\ UNCHANGED <<setup, run, file, ctx, sock, m_socks, m_stop, starts, stops,
                       early, client, fault>>

\* This is what StopSocket does.
LEMMA StopSocketEffect ==
    ASSUME IInv, NEW t \in Threads, NEW l \in Listeners, StopSocket(t, l)
    PROVE  StopSocketDoes(t, l)
<1> DEFINE r == [NoCall EXCEPT !.sock = l]
<1>1. run[t] # None /\ pc[run[t]] = "stop"  BY DEF StopSocket, At
<1>2. run[t] \in Stoppers /\ run[t] \in Tasks  BY <1>1, Where
<1>3. sock[l] \in Fds  BY Kinds DEF StopSocket, IInv, TypeOK
<1>4. waiting[sock[l]].task \in Tasks \cup {None}  BY <1>3, Waiting
<1>5. r \in Calls /\ r.fd = -1 /\ r.sock = l  BY Kinds, CloseRecord
<1>6. call' = [call EXCEPT ![run[t]] = r]  BY DEF StopSocket, Set
<1> HIDE DEF r
<1>7. QED
  BY <1>1, <1>2, <1>3, <1>4, <1>5, <1>6
  DEF Moves, StopSocketDoes, StopSocket, CancelAll, Cancels, Registered, poolVars, fdVars,
      serverVars, At, Goto, Leave, Set

\* A waiter is put in the queue.
TriggerDoes(fd) ==
        /\ waiting[fd].task # None /\ Cancels(fd)
        /\ UNCHANGED <<setup, run, pc, call, file, ctx, sock, m_socks, m_stop, starts,
                       stops, early, client, fault>>

\* This is what Trigger does.
LEMMA TriggerEffect ==
    ASSUME IInv, NEW fd \in Fds, Trigger(fd)
    PROVE  TriggerDoes(fd)
BY Kinds, Waiting
DEF Moves, TriggerDoes, Trigger, CancelAll, Cancels, Registered, poolVars, fdVars, serverVars, At,
    Goto, Leave, Set

\* A listening socket gets a descriptor that was free, while no closing task
\* runs.
BindDoes(l) ==
    \E fd \in Fds :
        /\ \A k \in Stoppers : pc[k] \notin Running
        /\ m_stop /\ sock[l] = -1 /\ ~Open(fd) /\ ~HasCtx(fd) /\ \A k \in Loops : k.of = l => pc[k] = "none"
        /\ sock' = [sock EXCEPT ![l] = fd] /\ m_socks' = m_socks \cup {l}
        /\ \E f \in Files : /\ f.of = l /\ (f.nonblock = "on" \/ ~setup.hooked)
             /\ file' = [file EXCEPT ![fd] = f]
        /\ ctx' = ctx \/ \E x \in Contexts : x.of = l /\ ctx' = [ctx EXCEPT ![fd] = x]
        /\ early' \in BOOLEAN /\ (~early' => ~early)
        /\ UNCHANGED <<setup, queue, run, pc, call, waiting, m_stop, starts, stops,
                       client, fault>>

\* This is what Bind does.
LEMMA BindEffect ==
    ASSUME IInv, NEW l \in Listeners, Bind(l)
    PROVE  BindDoes(l)
<1>1. \A k \in Stoppers : pc[k] \notin Running  BY OwnerAlone DEF Bind
<1>2. PICK fd \in Fds : NewFd(fd) /\ sock' = [sock EXCEPT ![l] = fd] /\ NewSocket(fd, l)
  BY DEF Bind
<1>3. ~Open(fd)  BY <1>2 DEF NewFd, FreeFds
<1>4. ~HasCtx(fd)  BY <1>3 DEF IInv, OwnInv, CtxOfFile
<1>5. early' \in BOOLEAN /\ (~early' => ~early)  BY DEF Bind, IInv, TypeOK
<1> DEFINE on == [of |-> l, nonblock |-> "on"]
           off == [of |-> l, nonblock |-> "off"]
           x == [of |-> l, user |-> FALSE]
<1>6. \/ setup.hooked /\ file' = [file EXCEPT ![fd] = on] /\ ctx' = [ctx EXCEPT ![fd] = x]
      \/ ~setup.hooked /\ file' = [file EXCEPT ![fd] = off] /\ ctx' = ctx
  BY <1>2, <1>4 DEF NewSocket, GetCtx, InitCtx
<1>7. l \in Sockets  BY Kinds
<1>8. on \in Files /\ on.of = l /\ on.nonblock = "on" /\ off \in Files /\ off.of = l
  BY <1>7, FileRecord
<1>9. x \in Contexts /\ x.of = l  BY <1>7, ContextRecord
<1> HIDE DEF on, off, x
<1>10. \E f \in Files : /\ f.of = l /\ (f.nonblock = "on" \/ ~setup.hooked)
                        /\ file' = [file EXCEPT ![fd] = f]
  BY <1>6, <1>8
<1>11. ctx' = ctx \/ \E y \in Contexts : y.of = l /\ ctx' = [ctx EXCEPT ![fd] = y]
  BY <1>6, <1>9
<1>12. QED
  BY <1>1, <1>2, <1>3, <1>4, <1>5, <1>10, <1>11
  DEF BindDoes, Bind, poolVars, fdVars, serverVars, At, Goto, Leave, Set

\* The Sockets that no loop holds are closed, and m_socks is cleared.
BindFailsDoes ==
    LET dead == {l \in m_socks : \A k \in Loops : k.of = l => ~Alive(k)} IN
        /\ \A k \in Stoppers : pc[k] \notin Running
        /\ m_stop /\ \A k \in Loops : k.of \in dead => ~Alive(k)
        /\ \A s \in dead : s \in Listeners /\ s \notin Clients /\ s # None
        /\ file' = [fd \in Fds |-> IF file[fd].of \in dead THEN NoFile ELSE file[fd]]
        /\ ctx' = [fd \in Fds |-> IF file[fd].of \in dead THEN NoCtx ELSE ctx[fd]]
        /\ sock' = [s \in Sockets |-> IF s \in dead THEN -1 ELSE sock[s]]
        /\ \A c \in Clients : client'[c].st = client[c].st \/ (client[c].st = "backlog" /\ client'[c].st = "refused")
        /\ client' \in [Clients -> Peers]
        /\ m_socks' = {} /\ early' \in BOOLEAN /\ (~early' => ~early)
        /\ UNCHANGED <<setup, queue, run, pc, call, waiting, m_stop, starts, stops, fault>>

\* This is what BindFails does.
LEMMA BindFailsEffect ==
    ASSUME IInv, BindFails
    PROVE  BindFailsDoes
<1>1. \A k \in Stoppers : pc[k] \notin Running  BY OwnerAlone DEF BindFails
<1>2. client \in [Clients -> Peers]  BY DEF IInv, TypeOK
<1>3. /\ \A c \in Clients : client'[c].st = client[c].st \/ (client[c].st = "backlog" /\ client'[c].st = "refused")
      /\ client' \in [Clients -> Peers]
  BY <1>2, PeerRecord DEF BindFailsDoes, BindFails
<1>4. early' \in BOOLEAN /\ (~early' => ~early)  BY DEF BindFails, IInv, TypeOK
<1>5. m_socks \subseteq Listeners  BY DEF IInv, TypeOK
<1>6. QED
  BY Apart, <1>5, <1>1, <1>3, <1>4
  DEF BindFailsDoes, BindFails, poolVars, fdVars, serverVars, At, Goto, Leave, Set

\* A new loop for every socket is queued.
StartDoes ==
    \E q \in Seq(Tasks) :
        /\ \A i, j \in 1..Len(q) : q[i] = q[j] => i = j
        /\ \A i \in 1..Len(q) : q[i] \in Loops /\ pc[q[i]] = "none" /\ pc'[q[i]] = "queued"
        /\ \A k \in Stoppers : pc[k] \notin Running
        /\ queue' = queue \o q /\ pc' \in [Tasks -> Points]
        /\ \A k \in Tasks : \/ pc'[k] = pc[k]
              \/ /\ k \in Loops /\ k.of \in m_socks /\ k.n = starts + 1
                 /\ pc[k] = "none" /\ pc'[k] = "queued"
        /\ starts < setup.starts /\ starts' = starts + 1 /\ m_stop' = FALSE
        /\ early' \in BOOLEAN /\ (~early' => ~early /\ \A k \in Loops \cup Stoppers : ~Alive(k))
        /\ UNCHANGED <<setup, run, call, file, ctx, waiting, sock, m_socks, stops,
                       client, fault>>

\* This is what Start does.
LEMMA StartEffect ==
    ASSUME IInv, Start
    PROVE  StartDoes
<1> DEFINE new == {[kind |-> "accept", of |-> l, n |-> starts + 1] : l \in m_socks}
<1>1. \A k \in Stoppers : pc[k] \notin Running  BY OwnerAlone DEF Start
<1>2. TypeOK /\ PlaceInv  BY DEF IInv
<1>3. starts \in Nat /\ setup \in Setups /\ setup.starts \in Nat /\ starts < setup.starts /\ m_socks \subseteq Listeners
  BY <1>2, ServerAssumption DEF TypeOK, Start
<1>4. starts + 1 \in 1..setup.starts  BY <1>3
<1>5. new \subseteq Loops  BY <1>3, <1>4 DEF Loops
<1>6. \A k \in new : k.of \in m_socks /\ k.n = starts + 1  OBVIOUS
<1>7. \A k \in new : pc[k] = "none"  BY <1>2, <1>3, <1>5, <1>6, Kinds DEF PlaceInv
<1>8. IsFiniteSet(new)
  <2>1. IsFiniteSet(m_socks)  BY <1>3, ServerAssumption, FS_Subset
  <2>2. [l \in m_socks |-> [kind |-> "accept", of |-> l, n |-> starts + 1]] \in Surjection(m_socks, new)
    BY DEF Surjection
  <2>3. QED  BY <2>1, <2>2, FS_Surjection
<1>9. Cardinality(new) \in Nat  BY <1>8, FS_CardinalityType
<1>10. PICK q \in Injection(1..Cardinality(new), new) : queue' = queue \o q  BY DEF Start
<1>11. q \in [1..Cardinality(new) -> new] /\ \A i, j \in 1..Cardinality(new) : q[i] = q[j] => i = j
  BY <1>10 DEF Injection, IsInjective
<1>12. q \in Seq(Loops) /\ Len(q) = Cardinality(new)  BY <1>5, <1>9, <1>11
<1>13. early' \in BOOLEAN /\ (~early' => ~early /\ \A k \in Loops \cup Stoppers : ~Alive(k))
  BY <1>2 DEF Start, Unfinished, TypeOK
<1>14. pc' = [k \in Tasks |-> IF k \in new THEN "queued" ELSE pc[k]]  BY DEF Start
<1>15. /\ starts < setup.starts /\ starts' = starts + 1 /\ m_stop' = FALSE
       /\ UNCHANGED <<setup, run, call, file, ctx, waiting, sock, m_socks, stops,
                      client, fault>>
  BY DEF Start, fdVars
<1> HIDE DEF new
<1>16. \A i \in 1..Len(q) : q[i] \in new /\ q[i] \in Loops  BY <1>5, <1>11, <1>12
<1>17. \A i, j \in 1..Len(q) : q[i] = q[j] => i = j  BY <1>11, <1>12
<1>18. q \in Seq(Tasks)  BY <1>12, Kinds
<1>19. \A i \in 1..Len(q) : pc[q[i]] = "none" /\ pc'[q[i]] = "queued"
  BY <1>7, <1>14, <1>16, Apart
<1>20. \A k \in Tasks : \/ pc'[k] = pc[k]
                        \/ /\ k \in Loops /\ k.of \in m_socks /\ k.n = starts + 1
                           /\ pc[k] = "none" /\ pc'[k] = "queued"
  BY <1>5, <1>6, <1>7, <1>14
<1>21. pc' \in [Tasks -> Points]
  <2>1. pc \in [Tasks -> Points] /\ "queued" \in Points  BY <1>2 DEF TypeOK, Points
  <2>2. QED  BY <1>14, <2>1
<1>22. queue' = queue \o q  BY <1>10
<1>23. QED
  BY <1>1, <1>13, <1>15, <1>16, <1>17, <1>18, <1>19, <1>20, <1>21, <1>22 DEF StartDoes

\* A new closing task is queued.
StopDoes ==
    LET k == [kind |-> "stop", of |-> None, n |-> stops + 1] IN
        /\ k \in Stoppers /\ k \in Tasks /\ \A j \in Stoppers : pc[j] \notin Running
        /\ pc[k] = "none" /\ k.n = stops + 1
        /\ queue' = Append(queue, k) /\ pc' = [pc EXCEPT ![k] = "queued"]
        /\ stops < setup.stops /\ stops' = stops + 1 /\ m_stop' = TRUE
        /\ UNCHANGED <<setup, run, call, file, ctx, waiting, sock, m_socks, starts,
                       early, client, fault>>

\* This is what Stop does.
LEMMA StopEffect ==
    ASSUME IInv, Stop
    PROVE  StopDoes
<1> DEFINE k == [kind |-> "stop", of |-> None, n |-> stops + 1]
<1>1. \A j \in Stoppers : pc[j] \notin Running  BY OwnerAlone DEF Stop
<1>2. TypeOK /\ PlaceInv  BY DEF IInv
<1>3. stops \in Nat /\ setup \in Setups /\ setup.stops \in Nat /\ stops < setup.stops
  BY <1>2, ServerAssumption DEF TypeOK, Stop
<1>4. stops + 1 \in 1..setup.stops  BY <1>3
<1>5. k \in Stoppers /\ k \in Tasks  BY <1>3, <1>4 DEF Stoppers, Tasks
<1>6. k.n = stops + 1  OBVIOUS
<1>7. pc[k] = "none"  BY <1>2, <1>3, <1>5, <1>6 DEF PlaceInv
<1>8. QED
  BY <1>1, <1>5, <1>6, <1>7
  DEF StopDoes, Stop, poolVars, fdVars, serverVars, At, Goto, Leave, Set

\* The sockets are closed when no task is alive.
DestroyDoes ==
    LET dead == m_socks IN
        /\ \A k \in Tasks : ~Alive(k)
        /\ \A s \in dead : s \in Listeners /\ s \notin Clients /\ s # None
        /\ file' = [fd \in Fds |-> IF file[fd].of \in dead THEN NoFile ELSE file[fd]]
        /\ ctx' = [fd \in Fds |-> IF file[fd].of \in dead THEN NoCtx ELSE ctx[fd]]
        /\ sock' = [s \in Sockets |-> IF s \in dead THEN -1 ELSE sock[s]]
        /\ \A c \in Clients : client'[c].st = client[c].st \/ (client[c].st = "backlog" /\ client'[c].st = "refused")
        /\ client' \in [Clients -> Peers]
        /\ m_socks' = {}
        /\ UNCHANGED <<setup, queue, run, pc, call, waiting, m_stop, starts, stops,
                       early, fault>>

\* This is what Destroy does.
LEMMA DestroyEffect ==
    ASSUME IInv, Destroy
    PROVE  DestroyDoes
<1>2. client \in [Clients -> Peers]  BY DEF IInv, TypeOK
<1>3. /\ \A c \in Clients : client'[c].st = client[c].st \/ (client[c].st = "backlog" /\ client'[c].st = "refused")
      /\ client' \in [Clients -> Peers]
  BY <1>2, PeerRecord DEF DestroyDoes, Destroy
<1>5. m_socks \subseteq Listeners  BY DEF IInv, TypeOK
<1>6. QED
  BY Apart, <1>5, <1>3
  DEF DestroyDoes, Destroy, poolVars, fdVars, serverVars, At, Goto, Leave, Set

\* A peer sends; nothing else changes.
SpeakDoes(c) ==
        /\ \A d \in Clients : client'[d].st = client[d].st \/ (client[d].st = "new" /\ client'[d].st = "backlog")
        /\ client' \in [Clients -> Peers]
        /\ UNCHANGED <<setup, queue, run, pc, call, file, ctx, waiting, sock, m_socks,
                       m_stop, starts, stops, early, fault>>

\* This is what Speak does.
LEMMA SpeakEffect ==
    ASSUME IInv, NEW c \in Clients, Speak(c)
    PROVE  SpeakDoes(c)
<1> DEFINE r == [client[c] EXCEPT !.readable = TRUE]
<1>1. client \in [Clients -> Peers] /\ client[c] \in Peers  BY DEF IInv, TypeOK
<1>2. client' = [client EXCEPT ![c] = r]  BY <1>1 DEF SpeakDoes, Speak, Peers
<1>3. r \in Peers /\ (r.st = client[c].st \/ (client[c].st = "new" /\ r.st = "backlog"))
  BY <1>1 DEF SpeakDoes, Speak, Peers
<1> HIDE DEF r
<1>4. QED
  BY <1>1, <1>2, <1>3
  DEF SpeakDoes, Speak, poolVars, fdVars, serverVars, At, Goto, Leave, Set

\* A peer comes to the backlog.
ConnectDoes(c, l) ==
        /\ \A d \in Clients : client'[d].st = client[d].st \/ (client[d].st = "new" /\ client'[d].st = "backlog")
        /\ client' \in [Clients -> Peers]
        /\ UNCHANGED <<setup, queue, run, pc, call, file, ctx, waiting, sock, m_socks,
                       m_stop, starts, stops, early, fault>>

\* This is what Connect does.
LEMMA ConnectEffect ==
    ASSUME IInv, NEW c \in Clients, NEW l \in Listeners, Connect(c, l)
    PROVE  ConnectDoes(c, l)
<1> DEFINE r == [client[c] EXCEPT !.st = "backlog", !.at = l]
<1>1. client \in [Clients -> Peers] /\ client[c] \in Peers  BY DEF IInv, TypeOK
<1>2. client' = [client EXCEPT ![c] = r]  BY <1>1 DEF ConnectDoes, Connect, Peers
<1>3. r \in Peers /\ (r.st = client[c].st \/ (client[c].st = "new" /\ r.st = "backlog"))
  BY <1>1 DEF ConnectDoes, Connect, Peers
<1> HIDE DEF r
<1>4. QED
  BY <1>1, <1>2, <1>3
  DEF ConnectDoes, Connect, poolVars, fdVars, serverVars, At, Goto, Leave, Set


----------------------------------------------------------------------------
(***************************************************************************)
(* Each part of the invariant is preserved.                                *)
(***************************************************************************)

\* A step keeps the types.
LEMMA TypeStep ==
    ASSUME IInv, [Next]_vars
    PROVE  TypeOK'
<1>inv. TypeOK  BY DEF IInv
<1>setup. setup \in Setups  BY <1>inv DEF TypeOK
<1>m_socks. m_socks \subseteq Listeners  BY <1>inv DEF TypeOK
<1>m_stop. m_stop \in BOOLEAN  BY <1>inv DEF TypeOK
<1>early. early \in BOOLEAN  BY <1>inv DEF TypeOK
<1>fault. fault \in {"none", "assert"}  BY <1>inv DEF TypeOK
<1>starts. starts \in 0..setup.starts  BY <1>inv DEF TypeOK
<1>stops. stops \in 0..setup.stops  BY <1>inv DEF TypeOK
<1>queue. queue \in Seq(Tasks)  BY <1>inv DEF TypeOK
<1>run. run \in [Threads -> Tasks \cup {None}]  BY <1>inv DEF TypeOK
<1>pc. pc \in [Tasks -> Points]  BY <1>inv DEF TypeOK
<1>call. call \in [Tasks -> Calls]  BY <1>inv DEF TypeOK
<1>file. file \in [Fds -> Files]  BY <1>inv DEF TypeOK
<1>ctx. ctx \in [Fds -> Contexts]  BY <1>inv DEF TypeOK
<1>waiting. waiting \in [Fds -> Waiters]  BY <1>inv DEF TypeOK
<1>sock. sock \in [Sockets -> Fds \cup {-1}]  BY <1>inv DEF TypeOK
<1>client. client \in [Clients -> Peers]  BY <1>inv DEF TypeOK
<1>1. CASE UNCHANGED vars
  BY <1>1, <1>inv DEF vars, poolVars, fdVars, serverVars, TypeOK
<1>2. ASSUME NEW t \in Threads, Take(t)
      PROVE  TypeOK'
  <2>0. TakeDoes(t)  BY <1>2, TakeEffect
  <2>1. UNCHANGED <<setup, m_socks, m_stop, early, fault, starts, stops, call, file, ctx, waiting, sock, client>>
    BY <2>0 DEF TakeDoes
  <2>2. queue' \in Seq(Tasks)
    BY <2>0, <1>queue DEF TakeDoes, Cancels
  <2>3. run' \in [Threads -> Tasks \cup {None}]
    BY <2>0, <1>run DEF TakeDoes
  <2>4. pc' \in [Tasks -> Points]
    BY <2>0, <1>pc DEF TakeDoes, Moves, Points
  <2>5. QED
    BY <1>inv, <2>1, <2>2, <2>3, <2>4 DEF TypeOK
<1>3. ASSUME NEW t \in Threads, CheckStop(t)
      PROVE  TypeOK'
  <2>0. CheckStopDoes(t)  BY <1>3, CheckStopEffect
  <2>1. UNCHANGED <<setup, m_socks, m_stop, early, fault, starts, stops, queue, file, ctx, waiting, sock, client>>
    BY <2>0 DEF CheckStopDoes
  <2>2. run' \in [Threads -> Tasks \cup {None}]
    BY <2>0, <1>run DEF CheckStopDoes
  <2>3. pc' \in [Tasks -> Points]
    BY <2>0, <1>pc DEF CheckStopDoes, Moves, Points
  <2>4. call' \in [Tasks -> Calls]
    BY <2>0, <1>call, NoRecords DEF CheckStopDoes
  <2>5. QED
    BY <1>inv, <2>1, <2>2, <2>3, <2>4 DEF TypeOK
<1>4. ASSUME NEW t \in Threads, Lookup(t)
      PROVE  TypeOK'
  <2>0. LookupDoes(t)  BY <1>4, LookupEffect
  <2>1. UNCHANGED <<setup, m_socks, m_stop, early, fault, starts, stops, queue, run, file, ctx, waiting, sock, client>>
    BY <2>0 DEF LookupDoes
  <2>2. pc' \in [Tasks -> Points]
    BY <2>0, <1>pc DEF LookupDoes, Moves, Points
  <2>3. call' \in [Tasks -> Calls]
    BY <2>0, <1>call, NoRecords DEF LookupDoes
  <2>4. QED
    BY <1>inv, <2>1, <2>2, <2>3 DEF TypeOK
<1>5. ASSUME NEW t \in Threads, CallFails(t)
      PROVE  TypeOK'
  <2>0. CallFailsDoes(t)  BY <1>5, CallFailsEffect
  <2>1. UNCHANGED <<setup, m_socks, m_stop, early, fault, starts, stops, queue, run, call, file, ctx, waiting, sock, client>>
    BY <2>0 DEF CallFailsDoes
  <2>2. pc' \in [Tasks -> Points]
    BY <2>0, <1>pc DEF CallFailsDoes, Moves, Points
  <2>3. QED
    BY <1>inv, <2>1, <2>2 DEF TypeOK
<1>6. ASSUME NEW t \in Threads, CallWaits(t)
      PROVE  TypeOK'
  <2>0. CallWaitsDoes(t)  BY <1>6, CallWaitsEffect
  <2>1. UNCHANGED <<setup, m_socks, m_stop, early, fault, starts, stops, queue, run, call, file, ctx, waiting, sock, client>>
    BY <2>0 DEF CallWaitsDoes
  <2>2. pc' \in [Tasks -> Points]
    BY <2>0, <1>pc DEF CallWaitsDoes, Moves, Points
  <2>3. QED
    BY <1>inv, <2>1, <2>2 DEF TypeOK
<1>7. ASSUME NEW t \in Threads, Unblock(t)
      PROVE  TypeOK'
  <2>0. UnblockDoes(t)  BY <1>7, UnblockEffect
  <2>1. UNCHANGED <<setup, m_socks, m_stop, early, fault, starts, stops, queue, run, call, file, ctx, waiting, sock, client>>
    BY <2>0 DEF UnblockDoes
  <2>2. pc' \in [Tasks -> Points]
    BY <2>0, <1>pc DEF UnblockDoes, Moves, Points
  <2>3. QED
    BY <1>inv, <2>1, <2>2 DEF TypeOK
<1>8. ASSUME NEW t \in Threads, AddEvent(t)
      PROVE  TypeOK'
  <2>0. AddEventDoes(t)  BY <1>8, AddEventEffect
  <2>1. UNCHANGED <<setup, m_socks, m_stop, early, starts, stops, queue, call, file, ctx, sock, client>>
    BY <2>0 DEF AddEventDoes
  <2>2. fault' \in {"none", "assert"}
    BY <2>0, <1>fault DEF AddEventDoes
  <2>3. run' \in [Threads -> Tasks \cup {None}]
    BY <2>0, <1>run DEF AddEventDoes
  <2>4. pc' \in [Tasks -> Points]
    BY <2>0, <1>pc DEF AddEventDoes, Moves, Points
  <2>5. waiting' \in [Fds -> Waiters]
    BY <2>0, <1>waiting, NoRecords DEF AddEventDoes, Cancels
  <2>6. QED
    BY <1>inv, <2>1, <2>2, <2>3, <2>4, <2>5 DEF TypeOK
<1>9. ASSUME NEW t \in Threads, CreateCtx(t)
      PROVE  TypeOK'
  <2>0. CreateCtxDoes(t)  BY <1>9, CreateCtxEffect
  <2>1. UNCHANGED <<setup, m_socks, m_stop, early, fault, starts, stops, queue, run, call, waiting, sock, client>>
    BY <2>0 DEF CreateCtxDoes
  <2>2. pc' \in [Tasks -> Points]
    BY <2>0, <1>pc DEF CreateCtxDoes, Moves, Points
  <2>3. file' \in [Fds -> Files]
    BY <2>0, <1>file, NoRecords DEF CreateCtxDoes
  <2>4. ctx' \in [Fds -> Contexts]
    BY <2>0, <1>ctx, NoRecords DEF CreateCtxDoes
  <2>5. QED
    BY <1>inv, <2>1, <2>2, <2>3, <2>4 DEF TypeOK
<1>10. ASSUME NEW t \in Threads, InitSocket(t)
      PROVE  TypeOK'
  <2>0. InitSocketDoes(t)  BY <1>10, InitSocketEffect
  <2>1. UNCHANGED <<setup, m_socks, m_stop, early, fault, starts, stops, run, file, ctx, waiting, client>>
    BY <2>0 DEF InitSocketDoes
  <2>2. queue' \in Seq(Tasks)
    BY <2>0, <1>queue DEF InitSocketDoes, Cancels
  <2>3. pc' \in [Tasks -> Points]
    BY <2>0, <1>pc DEF InitSocketDoes, Moves, Points
  <2>4. call' \in [Tasks -> Calls]
    BY <2>0, <1>call, NoRecords DEF InitSocketDoes
  <2>5. sock' \in [Sockets -> Fds \cup {-1}]
    BY <2>0, <1>sock DEF InitSocketDoes
  <2>6. QED
    BY <1>inv, <2>1, <2>2, <2>3, <2>4, <2>5 DEF TypeOK
<1>11. ASSUME NEW t \in Threads, Receive(t)
      PROVE  TypeOK'
  <2>0. ReceiveDoes(t)  BY <1>11, ReceiveEffect
  <2>1. UNCHANGED <<setup, m_socks, m_stop, early, fault, starts, stops, queue, run, call, file, ctx, waiting, sock, client>>
    BY <2>0 DEF ReceiveDoes
  <2>2. pc' \in [Tasks -> Points]
    BY <2>0, <1>pc DEF ReceiveDoes, Moves, Points
  <2>3. QED
    BY <1>inv, <2>1, <2>2 DEF TypeOK
<1>12. ASSUME NEW t \in Threads, CloseCancel(t)
      PROVE  TypeOK'
  <2>0. CloseCancelDoes(t)  BY <1>12, CloseCancelEffect
  <2>1. UNCHANGED <<setup, m_socks, m_stop, early, fault, starts, stops, run, call, file, ctx, sock, client>>
    BY <2>0 DEF CloseCancelDoes
  <2>2. queue' \in Seq(Tasks)
    BY <2>0, <1>queue DEF CloseCancelDoes, Cancels
  <2>3. pc' \in [Tasks -> Points]
    BY <2>0, <1>pc DEF CloseCancelDoes, Moves, Points
  <2>4. waiting' \in [Fds -> Waiters]
    BY <2>0, <1>waiting, NoRecords DEF CloseCancelDoes, Cancels
  <2>5. QED
    BY <1>inv, <2>1, <2>2, <2>3, <2>4 DEF TypeOK
<1>13. ASSUME NEW t \in Threads, CloseDel(t)
      PROVE  TypeOK'
  <2>0. CloseDelDoes(t)  BY <1>13, CloseDelEffect
  <2>1. UNCHANGED <<setup, m_socks, m_stop, early, fault, starts, stops, queue, run, call, file, waiting, sock, client>>
    BY <2>0 DEF CloseDelDoes
  <2>2. pc' \in [Tasks -> Points]
    BY <2>0, <1>pc DEF CloseDelDoes, Moves, Points
  <2>3. ctx' \in [Fds -> Contexts]
    BY <2>0, <1>ctx, NoRecords DEF CloseDelDoes
  <2>4. QED
    BY <1>inv, <2>1, <2>2, <2>3 DEF TypeOK
<1>14. ASSUME NEW t \in Threads, CloseFd(t)
      PROVE  TypeOK'
  <2>0. CloseFdDoes(t)  BY <1>14, CloseFdEffect
  <2>1. UNCHANGED <<setup, m_socks, m_stop, early, fault, starts, stops, queue, run, call, ctx, waiting, sock>>
    BY <2>0 DEF CloseFdDoes
  <2>2. pc' \in [Tasks -> Points]
    BY <2>0, <1>pc DEF CloseFdDoes, Moves, Points
  <2>3. file' \in [Fds -> Files]
    BY <2>0, <1>file, NoRecords DEF CloseFdDoes
  <2>4. client' \in [Clients -> Peers]
    BY <2>0, <1>client DEF CloseFdDoes
  <2>5. QED
    BY <1>inv, <2>1, <2>2, <2>3, <2>4 DEF TypeOK
<1>15. ASSUME NEW t \in Threads, CloseUnset(t)
      PROVE  TypeOK'
  <2>0. CloseUnsetDoes(t)  BY <1>15, CloseUnsetEffect
  <2>1. UNCHANGED <<setup, m_socks, m_stop, early, fault, starts, stops, queue, file, ctx, waiting, client>>
    BY <2>0 DEF CloseUnsetDoes
  <2>2. run' \in [Threads -> Tasks \cup {None}]
    BY <2>0, <1>run DEF CloseUnsetDoes
  <2>3. pc' \in [Tasks -> Points]
    BY <2>0, <1>pc DEF CloseUnsetDoes, Moves, Points
  <2>4. call' \in [Tasks -> Calls]
    BY <2>0, <1>call, NoRecords DEF CloseUnsetDoes
  <2>5. sock' \in [Sockets -> Fds \cup {-1}]
    BY <2>0, <1>sock DEF CloseUnsetDoes
  <2>6. QED
    BY <1>inv, <2>1, <2>2, <2>3, <2>4, <2>5 DEF TypeOK
<1>16. ASSUME NEW t \in Threads, StopClear(t)
      PROVE  TypeOK'
  <2>0. StopClearDoes(t)  BY <1>16, StopClearEffect
  <2>1. UNCHANGED <<setup, m_stop, early, fault, starts, stops, queue, file, ctx, waiting, sock, client>>
    BY <2>0 DEF StopClearDoes
  <2>2. m_socks' \subseteq Listeners
    BY <2>0, <1>m_socks DEF StopClearDoes
  <2>3. run' \in [Threads -> Tasks \cup {None}]
    BY <2>0, <1>run DEF StopClearDoes
  <2>4. pc' \in [Tasks -> Points]
    BY <2>0, <1>pc DEF StopClearDoes, Moves, Points
  <2>5. call' \in [Tasks -> Calls]
    BY <2>0, <1>call, NoRecords DEF StopClearDoes
  <2>6. QED
    BY <1>inv, <2>1, <2>2, <2>3, <2>4, <2>5 DEF TypeOK
<1>17. ASSUME NEW t \in Threads, NEW c \in Clients, Accept(t, c)
      PROVE  TypeOK'
  <2>0. AcceptDoes(t, c)  BY <1>17, AcceptEffect
  <2>1. UNCHANGED <<setup, m_socks, m_stop, early, fault, starts, stops, queue, run, ctx, waiting, sock>>
    BY <2>0 DEF AcceptDoes
  <2>2. pc' \in [Tasks -> Points]
    BY <2>0, <1>pc DEF AcceptDoes, Moves, Points
  <2>3. call' \in [Tasks -> Calls]
    BY <2>0, <1>call, NoRecords DEF AcceptDoes
  <2>4. file' \in [Fds -> Files]
    BY <2>0, <1>file, NoRecords DEF AcceptDoes
  <2>5. client' \in [Clients -> Peers]
    BY <2>0, <1>client DEF AcceptDoes
  <2>6. QED
    BY <1>inv, <2>1, <2>2, <2>3, <2>4, <2>5 DEF TypeOK
<1>18. ASSUME NEW t \in Threads, NEW on \in BOOLEAN, Fcntl(t, on)
      PROVE  TypeOK'
  <2>0. FcntlDoes(t, on)  BY <1>18, FcntlEffect
  <2>1. UNCHANGED <<setup, m_socks, m_stop, early, fault, starts, stops, queue, run, call, file, waiting, sock, client>>
    BY <2>0 DEF FcntlDoes
  <2>2. pc' \in [Tasks -> Points]
    BY <2>0, <1>pc DEF FcntlDoes, Moves, Points
  <2>3. ctx' \in [Fds -> Contexts]
    BY <2>0, <1>ctx, NoRecords DEF FcntlDoes
  <2>4. QED
    BY <1>inv, <2>1, <2>2, <2>3 DEF TypeOK
<1>19. ASSUME NEW t \in Threads, NEW on \in BOOLEAN, Ioctl(t, on)
      PROVE  TypeOK'
  <2>0. IoctlDoes(t, on)  BY <1>19, IoctlEffect
  <2>1. UNCHANGED <<setup, m_socks, m_stop, early, fault, starts, stops, queue, run, call, waiting, sock, client>>
    BY <2>0 DEF IoctlDoes
  <2>2. pc' \in [Tasks -> Points]
    BY <2>0, <1>pc DEF IoctlDoes, Moves, Points
  <2>3. file' \in [Fds -> Files]
    BY <2>0, <1>file, NoRecords DEF IoctlDoes
  <2>4. ctx' \in [Fds -> Contexts]
    BY <2>0, <1>ctx, NoRecords DEF IoctlDoes
  <2>5. QED
    BY <1>inv, <2>1, <2>2, <2>3, <2>4 DEF TypeOK
<1>20. ASSUME NEW t \in Threads, NEW l \in Listeners, StopSocket(t, l)
      PROVE  TypeOK'
  <2>0. StopSocketDoes(t, l)  BY <1>20, StopSocketEffect
  <2>1. UNCHANGED <<setup, m_socks, m_stop, early, fault, starts, stops, run, file, ctx, sock, client>>
    BY <2>0 DEF StopSocketDoes
  <2>2. queue' \in Seq(Tasks)
    BY <2>0, <1>queue DEF StopSocketDoes, Cancels
  <2>3. pc' \in [Tasks -> Points]
    BY <2>0, <1>pc DEF StopSocketDoes, Moves, Points
  <2>4. call' \in [Tasks -> Calls]
    BY <2>0, <1>call, NoRecords DEF StopSocketDoes
  <2>5. waiting' \in [Fds -> Waiters]
    BY <2>0, <1>waiting, NoRecords DEF StopSocketDoes, Cancels
  <2>6. QED
    BY <1>inv, <2>1, <2>2, <2>3, <2>4, <2>5 DEF TypeOK
<1>21. ASSUME NEW fd \in Fds, Trigger(fd)
      PROVE  TypeOK'
  <2>0. TriggerDoes(fd)  BY <1>21, TriggerEffect
  <2>1. UNCHANGED <<setup, m_socks, m_stop, early, fault, starts, stops, run, pc, call, file, ctx, sock, client>>
    BY <2>0 DEF TriggerDoes
  <2>2. queue' \in Seq(Tasks)
    BY <2>0, <1>queue DEF TriggerDoes, Cancels
  <2>3. waiting' \in [Fds -> Waiters]
    BY <2>0, <1>waiting, NoRecords DEF TriggerDoes, Cancels
  <2>4. QED
    BY <1>inv, <2>1, <2>2, <2>3 DEF TypeOK
<1>22. ASSUME NEW l \in Listeners, Bind(l)
      PROVE  TypeOK'
  <2>0. BindDoes(l)  BY <1>22, BindEffect
  <2>1. UNCHANGED <<setup, m_stop, fault, starts, stops, queue, run, pc, call, waiting, client>>
    BY <2>0 DEF BindDoes
  <2>2. m_socks' \subseteq Listeners
    BY <2>0, <1>m_socks DEF BindDoes
  <2>3. early' \in BOOLEAN
    BY <2>0, <1>early DEF BindDoes
  <2>4. file' \in [Fds -> Files]
    BY <2>0, <1>file, NoRecords DEF BindDoes
  <2>5. ctx' \in [Fds -> Contexts]
    BY <2>0, <1>ctx, NoRecords DEF BindDoes
  <2>6. sock' \in [Sockets -> Fds \cup {-1}]
    BY <2>0, <1>sock DEF BindDoes
  <2>7. QED
    BY <1>inv, <2>1, <2>2, <2>3, <2>4, <2>5, <2>6 DEF TypeOK
<1>23. CASE BindFails
  <2>0. BindFailsDoes  BY <1>23, BindFailsEffect
  <2>1. UNCHANGED <<setup, m_stop, fault, starts, stops, queue, run, pc, call, waiting>>
    BY <2>0 DEF BindFailsDoes
  <2>2. m_socks' \subseteq Listeners
    BY <2>0, <1>m_socks DEF BindFailsDoes
  <2>3. early' \in BOOLEAN
    BY <2>0, <1>early DEF BindFailsDoes
  <2>4. file' \in [Fds -> Files]
    BY <2>0, <1>file, NoRecords DEF BindFailsDoes
  <2>5. ctx' \in [Fds -> Contexts]
    BY <2>0, <1>ctx, NoRecords DEF BindFailsDoes
  <2>6. sock' \in [Sockets -> Fds \cup {-1}]
    BY <2>0, <1>sock DEF BindFailsDoes
  <2>7. client' \in [Clients -> Peers]
    BY <2>0, <1>client DEF BindFailsDoes
  <2>8. QED
    BY <1>inv, <2>1, <2>2, <2>3, <2>4, <2>5, <2>6, <2>7 DEF TypeOK
<1>24. CASE Start
  <2>0. StartDoes  BY <1>24, StartEffect
  <2>1. UNCHANGED <<setup, m_socks, fault, stops, run, call, file, ctx, waiting, sock, client>>
    BY <2>0 DEF StartDoes
  <2>2. m_stop' \in BOOLEAN
    BY <2>0, <1>m_stop DEF StartDoes
  <2>3. early' \in BOOLEAN
    BY <2>0, <1>early DEF StartDoes
  <2>4. starts' \in 0..setup.starts
    BY <2>0, <1>setup, <1>starts, ServerAssumption DEF StartDoes
  <2>5. queue' \in Seq(Tasks)
    BY <2>0, <1>queue DEF StartDoes, Cancels
  <2>6. pc' \in [Tasks -> Points]
    BY <2>0, <1>pc DEF StartDoes, Moves, Points
  <2>7. QED
    BY <1>inv, <2>1, <2>2, <2>3, <2>4, <2>5, <2>6 DEF TypeOK
<1>25. CASE Stop
  <2>0. StopDoes  BY <1>25, StopEffect
  <2>1. UNCHANGED <<setup, m_socks, early, fault, starts, run, call, file, ctx, waiting, sock, client>>
    BY <2>0 DEF StopDoes
  <2>2. m_stop' \in BOOLEAN
    BY <2>0, <1>m_stop DEF StopDoes
  <2>3. stops' \in 0..setup.stops
    BY <2>0, <1>setup, <1>stops, ServerAssumption DEF StopDoes
  <2>4. queue' \in Seq(Tasks)
    BY <2>0, <1>queue DEF StopDoes, Cancels
  <2>5. pc' \in [Tasks -> Points]
    BY <2>0, <1>pc DEF StopDoes, Moves, Points
  <2>6. QED
    BY <1>inv, <2>1, <2>2, <2>3, <2>4, <2>5 DEF TypeOK
<1>26. CASE Destroy
  <2>0. DestroyDoes  BY <1>26, DestroyEffect
  <2>1. UNCHANGED <<setup, m_stop, early, fault, starts, stops, queue, run, pc, call, waiting>>
    BY <2>0 DEF DestroyDoes
  <2>2. m_socks' \subseteq Listeners
    BY <2>0, <1>m_socks DEF DestroyDoes
  <2>3. file' \in [Fds -> Files]
    BY <2>0, <1>file, NoRecords DEF DestroyDoes
  <2>4. ctx' \in [Fds -> Contexts]
    BY <2>0, <1>ctx, NoRecords DEF DestroyDoes
  <2>5. sock' \in [Sockets -> Fds \cup {-1}]
    BY <2>0, <1>sock DEF DestroyDoes
  <2>6. client' \in [Clients -> Peers]
    BY <2>0, <1>client DEF DestroyDoes
  <2>7. QED
    BY <1>inv, <2>1, <2>2, <2>3, <2>4, <2>5, <2>6 DEF TypeOK
<1>27. ASSUME NEW c \in Clients, Speak(c)
      PROVE  TypeOK'
  <2>0. SpeakDoes(c)  BY <1>27, SpeakEffect
  <2>1. UNCHANGED <<setup, m_socks, m_stop, early, fault, starts, stops, queue, run, pc, call, file, ctx, waiting, sock>>
    BY <2>0 DEF SpeakDoes
  <2>2. client' \in [Clients -> Peers]
    BY <2>0, <1>client DEF SpeakDoes
  <2>3. QED
    BY <1>inv, <2>1, <2>2 DEF TypeOK
<1>28. ASSUME NEW c \in Clients, NEW l \in Listeners, Connect(c, l)
      PROVE  TypeOK'
  <2>0. ConnectDoes(c, l)  BY <1>28, ConnectEffect
  <2>1. UNCHANGED <<setup, m_socks, m_stop, early, fault, starts, stops, queue, run, pc, call, file, ctx, waiting, sock>>
    BY <2>0 DEF ConnectDoes
  <2>2. client' \in [Clients -> Peers]
    BY <2>0, <1>client DEF ConnectDoes
  <2>3. QED
    BY <1>inv, <2>1, <2>2 DEF TypeOK
<1>29. QED
  BY <1>1, <1>2, <1>3, <1>4, <1>5, <1>6, <1>7, <1>8, <1>9, <1>10, <1>11, <1>12, <1>13,
     <1>14, <1>15, <1>16, <1>17, <1>18, <1>19, <1>20, <1>21, <1>22, <1>23, <1>24, <1>25,
     <1>26, <1>27, <1>28
  DEF Next, ThreadStep, OwnerStep, PeerStep

\* A step takes a task only to points of its kind.
LEMMA PlaceStep ==
    ASSUME IInv, [Next]_vars
    PROVE  PlaceInv'
<1>inv. TypeOK /\ PlaceInv  BY DEF IInv
<1>starts. starts \in 0..setup.starts  BY <1>inv DEF TypeOK
<1>stops. stops \in 0..setup.stops  BY <1>inv DEF TypeOK
<1>pc. pc \in [Tasks -> Points]  BY <1>inv DEF TypeOK
<1>1. CASE UNCHANGED vars
  BY <1>1, <1>inv DEF vars, poolVars, fdVars, serverVars, PlaceInv, ClosePoints
<1>2. ASSUME NEW t \in Threads, Take(t)
      PROVE  PlaceInv'
  <2>0. TakeDoes(t)  BY <1>2, TakeEffect
  <2>1. QED
    BY <2>0, <1>inv, <1>pc, Kinds DEF TakeDoes, PlaceInv, ClosePoints
<1>3. ASSUME NEW t \in Threads, CheckStop(t)
      PROVE  PlaceInv'
  <2>0. CheckStopDoes(t)  BY <1>3, CheckStopEffect
  <2>1. QED
    BY <2>0, <1>inv, <1>pc, Kinds DEF CheckStopDoes, Moves, PlaceInv, ClosePoints
<1>4. ASSUME NEW t \in Threads, Lookup(t)
      PROVE  PlaceInv'
  <2>0. LookupDoes(t)  BY <1>4, LookupEffect
  <2>1. QED
    BY <2>0, <1>inv, <1>pc, Kinds DEF LookupDoes, Moves, PlaceInv, ClosePoints
<1>5. ASSUME NEW t \in Threads, CallFails(t)
      PROVE  PlaceInv'
  <2>0. CallFailsDoes(t)  BY <1>5, CallFailsEffect
  <2>1. QED
    BY <2>0, <1>inv, <1>pc, Kinds DEF CallFailsDoes, Moves, PlaceInv, ClosePoints
<1>6. ASSUME NEW t \in Threads, CallWaits(t)
      PROVE  PlaceInv'
  <2>0. CallWaitsDoes(t)  BY <1>6, CallWaitsEffect
  <2>1. QED
    BY <2>0, <1>inv, <1>pc, Kinds DEF CallWaitsDoes, Moves, PlaceInv, ClosePoints
<1>7. ASSUME NEW t \in Threads, Unblock(t)
      PROVE  PlaceInv'
  <2>0. UnblockDoes(t)  BY <1>7, UnblockEffect
  <2>1. QED
    BY <2>0, <1>inv, <1>pc, Kinds DEF UnblockDoes, Moves, PlaceInv, ClosePoints
<1>8. ASSUME NEW t \in Threads, AddEvent(t)
      PROVE  PlaceInv'
  <2>0. AddEventDoes(t)  BY <1>8, AddEventEffect
  <2>1. QED
    BY <2>0, <1>inv, <1>pc, Kinds DEF AddEventDoes, Moves, PlaceInv, ClosePoints
<1>9. ASSUME NEW t \in Threads, CreateCtx(t)
      PROVE  PlaceInv'
  <2>0. CreateCtxDoes(t)  BY <1>9, CreateCtxEffect
  <2>1. QED
    BY <2>0, <1>inv, <1>pc, Kinds DEF CreateCtxDoes, Moves, PlaceInv, ClosePoints
<1>10. ASSUME NEW t \in Threads, InitSocket(t)
      PROVE  PlaceInv'
  <2>0. InitSocketDoes(t)  BY <1>10, InitSocketEffect
  <2>1. QED
    BY <2>0, <1>inv, <1>pc, Kinds DEF InitSocketDoes, PlaceInv, ClosePoints
<1>11. ASSUME NEW t \in Threads, Receive(t)
      PROVE  PlaceInv'
  <2>0. ReceiveDoes(t)  BY <1>11, ReceiveEffect
  <2>1. QED
    BY <2>0, <1>inv, <1>pc, Kinds DEF ReceiveDoes, Moves, PlaceInv, ClosePoints
<1>12. ASSUME NEW t \in Threads, CloseCancel(t)
      PROVE  PlaceInv'
  <2>0. CloseCancelDoes(t)  BY <1>12, CloseCancelEffect
  <2>1. QED
    BY <2>0, <1>inv, <1>pc, Kinds DEF CloseCancelDoes, Moves, Cancels, PlaceInv, ClosePoints
<1>13. ASSUME NEW t \in Threads, CloseDel(t)
      PROVE  PlaceInv'
  <2>0. CloseDelDoes(t)  BY <1>13, CloseDelEffect
  <2>1. QED
    BY <2>0, <1>inv, <1>pc, Kinds DEF CloseDelDoes, Moves, PlaceInv, ClosePoints
<1>14. ASSUME NEW t \in Threads, CloseFd(t)
      PROVE  PlaceInv'
  <2>0. CloseFdDoes(t)  BY <1>14, CloseFdEffect
  <2>1. QED
    BY <2>0, <1>inv, <1>pc, Kinds DEF CloseFdDoes, Moves, PlaceInv, ClosePoints
<1>15. ASSUME NEW t \in Threads, CloseUnset(t)
      PROVE  PlaceInv'
  <2>0. CloseUnsetDoes(t)  BY <1>15, CloseUnsetEffect
  <2>1. QED
    BY <2>0, <1>inv, <1>pc, Kinds DEF CloseUnsetDoes, Moves, PlaceInv, ClosePoints
<1>16. ASSUME NEW t \in Threads, StopClear(t)
      PROVE  PlaceInv'
  <2>0. StopClearDoes(t)  BY <1>16, StopClearEffect
  <2>1. QED
    BY <2>0, <1>inv, <1>pc, Kinds DEF StopClearDoes, Moves, PlaceInv, ClosePoints
<1>17. ASSUME NEW t \in Threads, NEW c \in Clients, Accept(t, c)
      PROVE  PlaceInv'
  <2>0. AcceptDoes(t, c)  BY <1>17, AcceptEffect
  <2>1. QED
    BY <2>0, <1>inv, <1>pc, Kinds DEF AcceptDoes, Moves, PlaceInv, ClosePoints
<1>18. ASSUME NEW t \in Threads, NEW on \in BOOLEAN, Fcntl(t, on)
      PROVE  PlaceInv'
  <2>0. FcntlDoes(t, on)  BY <1>18, FcntlEffect
  <2>1. QED
    BY <2>0, <1>inv, <1>pc, Kinds DEF FcntlDoes, Moves, PlaceInv, ClosePoints
<1>19. ASSUME NEW t \in Threads, NEW on \in BOOLEAN, Ioctl(t, on)
      PROVE  PlaceInv'
  <2>0. IoctlDoes(t, on)  BY <1>19, IoctlEffect
  <2>1. QED
    BY <2>0, <1>inv, <1>pc, Kinds DEF IoctlDoes, Moves, PlaceInv, ClosePoints
<1>20. ASSUME NEW t \in Threads, NEW l \in Listeners, StopSocket(t, l)
      PROVE  PlaceInv'
  <2>0. StopSocketDoes(t, l)  BY <1>20, StopSocketEffect
  <2>1. QED
    BY <2>0, <1>inv, <1>pc, Kinds DEF StopSocketDoes, Moves, Cancels, PlaceInv, ClosePoints
<1>21. ASSUME NEW fd \in Fds, Trigger(fd)
      PROVE  PlaceInv'
  <2>0. TriggerDoes(fd)  BY <1>21, TriggerEffect
  <2>1. QED
    BY <2>0, <1>inv DEF TriggerDoes, Cancels, PlaceInv, ClosePoints
<1>22. ASSUME NEW l \in Listeners, Bind(l)
      PROVE  PlaceInv'
  <2>0. BindDoes(l)  BY <1>22, BindEffect
  <2>1. QED
    BY <2>0, <1>inv DEF BindDoes, PlaceInv, ClosePoints
<1>23. CASE BindFails
  <2>0. BindFailsDoes  BY <1>23, BindFailsEffect
  <2>1. QED
    BY <2>0, <1>inv DEF BindFailsDoes, PlaceInv, ClosePoints
<1>24. CASE Start
  <2>0. StartDoes  BY <1>24, StartEffect
  <2>1. QED
    BY <2>0, <1>inv, <1>pc, <1>starts, Kinds DEF StartDoes, PlaceInv, ClosePoints
<1>25. CASE Stop
  <2>0. StopDoes  BY <1>25, StopEffect
  <2>1. QED
    BY <2>0, <1>inv, <1>pc, <1>stops, Kinds DEF StopDoes, PlaceInv, ClosePoints
<1>26. CASE Destroy
  <2>0. DestroyDoes  BY <1>26, DestroyEffect
  <2>1. QED
    BY <2>0, <1>inv DEF DestroyDoes, PlaceInv, ClosePoints
<1>27. ASSUME NEW c \in Clients, Speak(c)
      PROVE  PlaceInv'
  <2>0. SpeakDoes(c)  BY <1>27, SpeakEffect
  <2>1. QED
    BY <2>0, <1>inv DEF SpeakDoes, PlaceInv, ClosePoints
<1>28. ASSUME NEW c \in Clients, NEW l \in Listeners, Connect(c, l)
      PROVE  PlaceInv'
  <2>0. ConnectDoes(c, l)  BY <1>28, ConnectEffect
  <2>1. QED
    BY <2>0, <1>inv DEF ConnectDoes, PlaceInv, ClosePoints
<1>29. QED
  BY <1>1, <1>2, <1>3, <1>4, <1>5, <1>6, <1>7, <1>8, <1>9, <1>10, <1>11, <1>12, <1>13,
     <1>14, <1>15, <1>16, <1>17, <1>18, <1>19, <1>20, <1>21, <1>22, <1>23, <1>24, <1>25,
     <1>26, <1>27, <1>28
  DEF Next, ThreadStep, OwnerStep, PeerStep

\* A step leaves one closer to a Socket, when one closing task runs at a time.
LEMMA StopStep ==
    ASSUME IInv, [Next]_vars, OneCloser
    PROVE  StopInv'
<1>inv. TypeOK /\ TaskInv /\ PlaceInv /\ StopInv  BY DEF IInv
<1>m_socks. m_socks \subseteq Listeners  BY <1>inv DEF TypeOK
<1>pc. pc \in [Tasks -> Points]  BY <1>inv DEF TypeOK
<1>call. call \in [Tasks -> Calls]  BY <1>inv DEF TypeOK
<1>sock. sock \in [Sockets -> Fds \cup {-1}]  BY <1>inv DEF TypeOK
<1>1. CASE UNCHANGED vars
  BY <1>1, <1>inv
  DEF vars, poolVars, fdVars, serverVars, StopInv, ClosePoints, Running, Alive,
      PlaceInv, OneStopper, StopperHolds, LoopIsLast, ClosedInStop
<1>2. ASSUME NEW t \in Threads, Take(t)
      PROVE  StopInv'
  <2>0. TakeDoes(t)  BY <1>2, TakeEffect
  <2>1. OneStopper'
    <3>1. SUFFICES ASSUME NEW j \in Stoppers, pc[j] \in Running, queue[1] \in Stoppers, pc[queue[1]] = "queued"
                   PROVE  FALSE
      BY <2>0, <1>inv, <1>pc, Apart DEF TakeDoes, StopInv, OneStopper, Running
    <3>2. PICK u \in setup.threads : run[u] = j
      BY <1>inv, <3>1, Apart DEF TaskInv, HasThread
    <3>3. u # t /\ t \in setup.threads /\ setup \in Setups
      BY <2>0, <1>inv, <3>2, Kinds DEF TakeDoes, TypeOK
    <3>4. setup.stops <= 1 /\ stops <= 1 /\ stops \in Nat
      BY <3>3, <1>inv, ServerAssumption DEF OneCloser, TypeOK
    <3>5. j.n <= 1 /\ queue[1].n <= 1  BY <1>inv, <3>1, <3>4, Kinds DEF PlaceInv, Running
    <3>6. j = queue[1]  BY <3>1, <3>5, ServerAssumption DEF Stoppers
    <3>7. QED  BY <3>1, <3>6 DEF Running
  <2>2. StopperHolds'
    BY <2>0, <1>inv, <1>pc, Kinds DEF TakeDoes, StopInv, StopperHolds, ClosePoints
  <2>3. LoopIsLast'
    BY <2>0, <1>inv, <1>pc, Kinds DEF TakeDoes, StopInv, LoopIsLast, Alive, ClosePoints
  <2>4. ClosedInStop'
    BY <2>0, <1>inv, <1>pc, Apart DEF TakeDoes, StopInv, ClosedInStop, Running, Points
  <2>5. QED  BY <2>1, <2>2, <2>3, <2>4 DEF StopInv
<1>3. ASSUME NEW t \in Threads, CheckStop(t)
      PROVE  StopInv'
  <2>0. CheckStopDoes(t)  BY <1>3, CheckStopEffect
  <2>1. OneStopper'
    BY <2>0, <1>inv, <1>pc, Kinds DEF CheckStopDoes, Moves, StopInv, OneStopper, Running
  <2>2. StopperHolds'
    BY <2>0, <1>inv, <1>pc, <1>call, Kinds
    DEF CheckStopDoes, Moves, StopInv, StopperHolds, ClosePoints
  <2>3. LoopIsLast'
    BY <2>0, <1>inv, <1>pc, Apart
    DEF CheckStopDoes, Moves, StopInv, LoopIsLast, Alive, ClosePoints, LastOf
  <2>4. ClosedInStop'
    BY <2>0, <1>inv, <1>pc, Apart
    DEF CheckStopDoes, Moves, StopInv, ClosedInStop, Running, Points
  <2>5. QED  BY <2>1, <2>2, <2>3, <2>4 DEF StopInv
<1>4. ASSUME NEW t \in Threads, Lookup(t)
      PROVE  StopInv'
  <2>0. LookupDoes(t)  BY <1>4, LookupEffect
  <2>1. QED
    BY <2>0, <1>inv, <1>pc, <1>call, Kinds
    DEF LookupDoes, Moves, StopInv, ClosePoints, Running, Alive, PlaceInv, OneStopper,
        StopperHolds, LoopIsLast, ClosedInStop
<1>5. ASSUME NEW t \in Threads, CallFails(t)
      PROVE  StopInv'
  <2>0. CallFailsDoes(t)  BY <1>5, CallFailsEffect
  <2>1. QED
    BY <2>0, <1>inv, <1>pc, Kinds
    DEF CallFailsDoes, Moves, StopInv, ClosePoints, Running, Alive, PlaceInv,
        OneStopper, StopperHolds, LoopIsLast, ClosedInStop
<1>6. ASSUME NEW t \in Threads, CallWaits(t)
      PROVE  StopInv'
  <2>0. CallWaitsDoes(t)  BY <1>6, CallWaitsEffect
  <2>1. QED
    BY <2>0, <1>inv, <1>pc, Kinds
    DEF CallWaitsDoes, Moves, StopInv, ClosePoints, Running, Alive, PlaceInv,
        OneStopper, StopperHolds, LoopIsLast, ClosedInStop
<1>7. ASSUME NEW t \in Threads, Unblock(t)
      PROVE  StopInv'
  <2>0. UnblockDoes(t)  BY <1>7, UnblockEffect
  <2>1. QED
    BY <2>0, <1>inv, <1>pc, Kinds
    DEF UnblockDoes, Moves, StopInv, ClosePoints, Running, Alive, PlaceInv, OneStopper,
        StopperHolds, LoopIsLast, ClosedInStop
<1>8. ASSUME NEW t \in Threads, AddEvent(t)
      PROVE  StopInv'
  <2>0. AddEventDoes(t)  BY <1>8, AddEventEffect
  <2>1. QED
    BY <2>0, <1>inv, <1>pc, Kinds
    DEF AddEventDoes, Moves, StopInv, ClosePoints, Running, Alive, PlaceInv, OneStopper,
        StopperHolds, LoopIsLast, ClosedInStop
<1>9. ASSUME NEW t \in Threads, CreateCtx(t)
      PROVE  StopInv'
  <2>0. CreateCtxDoes(t)  BY <1>9, CreateCtxEffect
  <2>1. QED
    BY <2>0, <1>inv, <1>pc, Kinds
    DEF CreateCtxDoes, Moves, StopInv, ClosePoints, Running, Alive, PlaceInv,
        OneStopper, StopperHolds, LoopIsLast, ClosedInStop
<1>10. ASSUME NEW t \in Threads, InitSocket(t)
      PROVE  StopInv'
  <2>0. InitSocketDoes(t)  BY <1>10, InitSocketEffect
  <2>1. OneStopper'
    BY <2>0, <1>inv, <1>pc, Kinds DEF InitSocketDoes, StopInv, OneStopper, Running
  <2>2. StopperHolds'
    BY <2>0, <1>inv, <1>pc, <1>call, <1>sock, Kinds
    DEF InitSocketDoes, StopInv, StopperHolds, ClosePoints
  <2>3. LoopIsLast'
    <3>1. run[t] \in Loops /\ pc[run[t]] = "init" /\ pc'[run[t]] = "check" /\ m_socks' = m_socks
      BY <2>0, <1>pc, Kinds DEF InitSocketDoes
    <3>2. \A j \in Loops : j # run[t] => pc'[j] = pc[j]
      BY <2>0, <1>pc, Kinds DEF InitSocketDoes
    <3>3. LoopIsLast  BY <1>inv DEF StopInv
    <3>4. QED  BY <3>1, <3>2, <3>3 DEF LoopIsLast, Alive, ClosePoints
  <2>4. ClosedInStop'
    BY <2>0, <1>inv, <1>pc, <1>sock, Apart
    DEF InitSocketDoes, StopInv, ClosedInStop, Running, Points
  <2>5. QED  BY <2>1, <2>2, <2>3, <2>4 DEF StopInv
<1>11. ASSUME NEW t \in Threads, Receive(t)
      PROVE  StopInv'
  <2>0. ReceiveDoes(t)  BY <1>11, ReceiveEffect
  <2>1. QED
    BY <2>0, <1>inv, <1>pc, Kinds
    DEF ReceiveDoes, Moves, StopInv, ClosePoints, Running, Alive, PlaceInv, OneStopper,
        StopperHolds, LoopIsLast, ClosedInStop
<1>12. ASSUME NEW t \in Threads, CloseCancel(t)
      PROVE  StopInv'
  <2>0. CloseCancelDoes(t)  BY <1>12, CloseCancelEffect
  <2>1. OneStopper'
    BY <2>0, <1>inv, <1>pc, Kinds
    DEF CloseCancelDoes, Moves, Cancels, StopInv, OneStopper, Running
  <2>2. StopperHolds'
    BY <2>0, <1>inv, <1>pc, Kinds
    DEF CloseCancelDoes, Moves, Cancels, StopInv, StopperHolds, ClosePoints
  <2>3. LoopIsLast'
    BY <2>0, <1>inv, <1>pc, Kinds
    DEF CloseCancelDoes, Moves, Cancels, StopInv, LoopIsLast, Alive, ClosePoints
  <2>4. ClosedInStop'
    BY <2>0, <1>inv, <1>pc, Apart
    DEF CloseCancelDoes, Moves, Cancels, StopInv, ClosedInStop, Running, Points
  <2>5. QED  BY <2>1, <2>2, <2>3, <2>4 DEF StopInv
<1>13. ASSUME NEW t \in Threads, CloseDel(t)
      PROVE  StopInv'
  <2>0. CloseDelDoes(t)  BY <1>13, CloseDelEffect
  <2>1. OneStopper'
    BY <2>0, <1>inv, <1>pc, Kinds DEF CloseDelDoes, Moves, StopInv, OneStopper, Running
  <2>2. StopperHolds'
    BY <2>0, <1>inv, <1>pc, Kinds
    DEF CloseDelDoes, Moves, StopInv, StopperHolds, ClosePoints
  <2>3. LoopIsLast'
    BY <2>0, <1>inv, <1>pc, Kinds
    DEF CloseDelDoes, Moves, StopInv, LoopIsLast, Alive, ClosePoints
  <2>4. ClosedInStop'
    BY <2>0, <1>inv, <1>pc, Apart
    DEF CloseDelDoes, Moves, StopInv, ClosedInStop, Running, Points
  <2>5. QED  BY <2>1, <2>2, <2>3, <2>4 DEF StopInv
<1>14. ASSUME NEW t \in Threads, CloseFd(t)
      PROVE  StopInv'
  <2>0. CloseFdDoes(t)  BY <1>14, CloseFdEffect
  <2>1. OneStopper'
    BY <2>0, <1>inv, <1>pc, Kinds DEF CloseFdDoes, Moves, StopInv, OneStopper, Running
  <2>2. StopperHolds'
    BY <2>0, <1>inv, <1>pc, Kinds DEF CloseFdDoes, Moves, StopInv, StopperHolds, ClosePoints
  <2>3. LoopIsLast'
    BY <2>0, <1>inv, <1>pc, Kinds
    DEF CloseFdDoes, Moves, StopInv, LoopIsLast, Alive, ClosePoints
  <2>4. ClosedInStop'
    BY <2>0, <1>inv, <1>pc, Apart
    DEF CloseFdDoes, Moves, StopInv, ClosedInStop, Running, Points
  <2>5. QED  BY <2>1, <2>2, <2>3, <2>4 DEF StopInv
<1>15. ASSUME NEW t \in Threads, CloseUnset(t)
      PROVE  StopInv'
  <2>0. CloseUnsetDoes(t)  BY <1>15, CloseUnsetEffect
  <2>1. OneStopper'
    BY <2>0, <1>inv, <1>pc, Kinds DEF CloseUnsetDoes, Moves, StopInv, OneStopper, Running
  <2>2. StopperHolds'
    BY <2>0, <1>inv, <1>pc, <1>call, <1>sock, Kinds
    DEF CloseUnsetDoes, Moves, StopInv, StopperHolds, ClosePoints
  <2>3. LoopIsLast'
    BY <2>0, <1>inv, <1>pc, Kinds
    DEF CloseUnsetDoes, Moves, StopInv, LoopIsLast, Alive, ClosePoints
  <2>4. ClosedInStop'
    <3> DEFINE k == run[t]
               s == ClosingOf(k)
    <3>1. k \in Tasks /\ pc[k] = "unset" /\ pc[k] \in ClosePoints
      BY <2>0 DEF CloseUnsetDoes, Moves, ClosePoints
    <3>2. CASE k \in Stoppers
      <4>1. pc'[k] \in Running
        BY <2>0, <1>pc, <3>1, <3>2, Apart DEF CloseUnsetDoes, Moves, Running, Points
      <4>2. QED  BY <3>2, <4>1 DEF ClosedInStop
    <3>3. CASE k \notin Stoppers
      <4>1. s \notin m_socks
        BY <1>inv, <1>m_socks, <3>1, <3>3, Closers, Apart DEF StopInv, LoopIsLast
      <4>2. \A l \in m_socks : sock'[l] = sock[l]
        BY <2>0, <4>1, <1>sock, <1>m_socks, Apart DEF CloseUnsetDoes
      <4>3. \A j \in Stoppers : pc'[j] = pc[j]
        BY <2>0, <1>pc, <3>3, Apart DEF CloseUnsetDoes, Moves
      <4>4. m_socks' = m_socks  BY <2>0 DEF CloseUnsetDoes
      <4>5. QED  BY <1>inv, <4>2, <4>3, <4>4 DEF StopInv, ClosedInStop
    <3>4. QED  BY <3>2, <3>3
  <2>5. QED  BY <2>1, <2>2, <2>3, <2>4 DEF StopInv
<1>16. ASSUME NEW t \in Threads, StopClear(t)
      PROVE  StopInv'
  <2>0. StopClearDoes(t)  BY <1>16, StopClearEffect
  <2>1. QED
    BY <2>0, <1>inv, <1>pc, <1>call, <1>m_socks, Kinds
    DEF StopClearDoes, Moves, StopInv, ClosePoints, Running, Alive, PlaceInv,
        OneStopper, StopperHolds, LoopIsLast, ClosedInStop
<1>17. ASSUME NEW t \in Threads, NEW c \in Clients, Accept(t, c)
      PROVE  StopInv'
  <2>0. AcceptDoes(t, c)  BY <1>17, AcceptEffect
  <2>1. QED
    BY <2>0, <1>inv, <1>pc, <1>call, Kinds
    DEF AcceptDoes, Moves, StopInv, ClosePoints, Running, Alive, PlaceInv, OneStopper,
        StopperHolds, LoopIsLast, ClosedInStop
<1>18. ASSUME NEW t \in Threads, NEW on \in BOOLEAN, Fcntl(t, on)
      PROVE  StopInv'
  <2>0. FcntlDoes(t, on)  BY <1>18, FcntlEffect
  <2>1. QED
    BY <2>0, <1>inv, <1>pc, Kinds
    DEF FcntlDoes, Moves, StopInv, ClosePoints, Running, Alive, PlaceInv, OneStopper,
        StopperHolds, LoopIsLast, ClosedInStop
<1>19. ASSUME NEW t \in Threads, NEW on \in BOOLEAN, Ioctl(t, on)
      PROVE  StopInv'
  <2>0. IoctlDoes(t, on)  BY <1>19, IoctlEffect
  <2>1. QED
    BY <2>0, <1>inv, <1>pc, Kinds
    DEF IoctlDoes, Moves, StopInv, ClosePoints, Running, Alive, PlaceInv, OneStopper,
        StopperHolds, LoopIsLast, ClosedInStop
<1>20. ASSUME NEW t \in Threads, NEW l \in Listeners, StopSocket(t, l)
      PROVE  StopInv'
  <2>0. StopSocketDoes(t, l)  BY <1>20, StopSocketEffect
  <2>1. OneStopper'
    BY <2>0, <1>inv, <1>pc, Kinds
    DEF StopSocketDoes, Moves, Cancels, StopInv, OneStopper, Running
  <2>2. StopperHolds'
    BY <2>0, <1>inv, <1>pc, <1>call, Kinds
    DEF StopSocketDoes, Moves, Cancels, StopInv, StopperHolds, ClosePoints
  <2>3. LoopIsLast'
    BY <2>0, <1>inv, <1>pc, Kinds
    DEF StopSocketDoes, Moves, Cancels, StopInv, LoopIsLast, Alive, ClosePoints
  <2>4. ClosedInStop'
    BY <2>0, <1>inv, <1>pc, Apart
    DEF StopSocketDoes, Moves, Cancels, StopInv, ClosedInStop, Running, Points
  <2>5. QED  BY <2>1, <2>2, <2>3, <2>4 DEF StopInv
<1>21. ASSUME NEW fd \in Fds, Trigger(fd)
      PROVE  StopInv'
  <2>0. TriggerDoes(fd)  BY <1>21, TriggerEffect
  <2>1. QED
    BY <2>0, <1>inv
    DEF TriggerDoes, Cancels, StopInv, ClosePoints, Running, Alive, PlaceInv,
        OneStopper, StopperHolds, LoopIsLast, ClosedInStop
<1>22. ASSUME NEW l \in Listeners, Bind(l)
      PROVE  StopInv'
  <2>0. BindDoes(l)  BY <1>22, BindEffect
  <2>1. QED
    BY <2>0, <1>inv, <1>sock, <1>m_socks, Kinds
    DEF BindDoes, StopInv, ClosePoints, Running, Alive, PlaceInv, OneStopper,
        StopperHolds, LoopIsLast, ClosedInStop
<1>23. CASE BindFails
  <2>0. BindFailsDoes  BY <1>23, BindFailsEffect
  <2>1. QED
    BY <2>0, <1>inv, <1>pc, <1>call, <1>sock, <1>m_socks, Kinds
    DEF BindFailsDoes, StopInv, ClosePoints, Running, Alive, PlaceInv, OneStopper,
        StopperHolds, LoopIsLast, ClosedInStop
<1>24. CASE Start
  <2>0. StartDoes  BY <1>24, StartEffect
  <2>1. QED
    BY <2>0, <1>inv, <1>pc, Kinds
    DEF StartDoes, StopInv, ClosePoints, Running, Alive, PlaceInv, OneStopper,
        StopperHolds, LoopIsLast, ClosedInStop
<1>25. CASE Stop
  <2>0. StopDoes  BY <1>25, StopEffect
  <2>1. QED
    BY <2>0, <1>inv, <1>pc, Kinds
    DEF StopDoes, StopInv, ClosePoints, Running, Alive, PlaceInv, OneStopper,
        StopperHolds, LoopIsLast, ClosedInStop
<1>26. CASE Destroy
  <2>0. DestroyDoes  BY <1>26, DestroyEffect
  <2>1. QED
    BY <2>0, <1>inv, <1>sock, <1>m_socks, Kinds
    DEF DestroyDoes, StopInv, ClosePoints, Running, Alive, PlaceInv, OneStopper,
        StopperHolds, LoopIsLast, ClosedInStop
<1>27. ASSUME NEW c \in Clients, Speak(c)
      PROVE  StopInv'
  <2>0. SpeakDoes(c)  BY <1>27, SpeakEffect
  <2>1. QED
    BY <2>0, <1>inv
    DEF SpeakDoes, StopInv, ClosePoints, Running, Alive, PlaceInv, OneStopper,
        StopperHolds, LoopIsLast, ClosedInStop
<1>28. ASSUME NEW c \in Clients, NEW l \in Listeners, Connect(c, l)
      PROVE  StopInv'
  <2>0. ConnectDoes(c, l)  BY <1>28, ConnectEffect
  <2>1. QED
    BY <2>0, <1>inv
    DEF ConnectDoes, StopInv, ClosePoints, Running, Alive, PlaceInv, OneStopper,
        StopperHolds, LoopIsLast, ClosedInStop
<1>29. QED
  BY <1>1, <1>2, <1>3, <1>4, <1>5, <1>6, <1>7, <1>8, <1>9, <1>10, <1>11, <1>12, <1>13,
     <1>14, <1>15, <1>16, <1>17, <1>18, <1>19, <1>20, <1>21, <1>22, <1>23, <1>24, <1>25,
     <1>26, <1>27, <1>28
  DEF Next, ThreadStep, OwnerStep, PeerStep

\* A step leaves a connection with one accept() or with its handler.
LEMMA ClientStep ==
    ASSUME IInv, [Next]_vars
    PROVE  ClientInv'
<1>inv. TypeOK /\ PlaceInv /\ ClientInv /\ OwnInv  BY DEF IInv
<1>pc. pc \in [Tasks -> Points]  BY <1>inv DEF TypeOK
<1>call. call \in [Tasks -> Calls]  BY <1>inv DEF TypeOK
<1>file. file \in [Fds -> Files]  BY <1>inv DEF TypeOK
<1>ctx. ctx \in [Fds -> Contexts]  BY <1>inv DEF TypeOK
<1>sock. sock \in [Sockets -> Fds \cup {-1}]  BY <1>inv DEF TypeOK
<1>client. client \in [Clients -> Peers]  BY <1>inv DEF TypeOK
<1>1. CASE UNCHANGED vars
  BY <1>1, <1>inv
  DEF vars, poolVars, fdVars, serverVars, ClientInv, Making, Alive, HasCtx, PlaceInv,
      HandlerHolds, NotAccepted, MakingHolds, MakingOnce, CreateBare, InitHasCtx,
      HandlerCtx, HandlerFd
<1>2. ASSUME NEW t \in Threads, Take(t)
      PROVE  ClientInv'
  <2>0. TakeDoes(t)  BY <1>2, TakeEffect
  <2>1. HandlerHolds'
    BY <2>0, <1>inv, <1>pc, Kinds, NoRecords, Fields
    DEF TakeDoes, ClientInv, HandlerHolds, Alive
  <2>2. NotAccepted'
    BY <2>0, <1>inv, <1>pc, Kinds, NoRecords, Fields
    DEF TakeDoes, ClientInv, NotAccepted, Making
  <2>3. MakingHolds'
    BY <2>0, <1>inv, <1>pc, Kinds, NoRecords, Fields
    DEF TakeDoes, ClientInv, MakingHolds, Making
  <2>4. MakingOnce'
    BY <2>0, <1>inv, <1>pc, Kinds, NoRecords, Fields
    DEF TakeDoes, ClientInv, MakingOnce, Making
  <2>5. CreateBare'
    BY <2>0, <1>inv, <1>pc, Kinds, NoRecords, Fields
    DEF TakeDoes, ClientInv, CreateBare, HasCtx
  <2>6. InitHasCtx'
    BY <2>0, <1>inv, <1>pc, Kinds, NoRecords, Fields
    DEF TakeDoes, ClientInv, InitHasCtx, HasCtx
  <2>7. HandlerCtx'
    BY <2>0, <1>inv, <1>pc, Kinds, NoRecords, Fields
    DEF TakeDoes, ClientInv, HandlerCtx, Alive, HasCtx
  <2>8. HandlerFd'
    BY <2>0, <1>inv, <1>pc, Kinds, NoRecords, Fields DEF TakeDoes, ClientInv, HandlerFd
  <2>9. QED  BY <2>1, <2>2, <2>3, <2>4, <2>5, <2>6, <2>7, <2>8 DEF ClientInv
<1>3. ASSUME NEW t \in Threads, CheckStop(t)
      PROVE  ClientInv'
  <2>0. CheckStopDoes(t)  BY <1>3, CheckStopEffect
  <2>1. QED
    BY <2>0, <1>inv, <1>pc, <1>call, Kinds, NoRecords, Fields
    DEF CheckStopDoes, Moves, ClientInv, Making, Alive, HasCtx, PlaceInv, HandlerHolds,
        NotAccepted, MakingHolds, MakingOnce, CreateBare, InitHasCtx, HandlerCtx,
        HandlerFd
<1>4. ASSUME NEW t \in Threads, Lookup(t)
      PROVE  ClientInv'
  <2>0. LookupDoes(t)  BY <1>4, LookupEffect
  <2>1. QED
    BY <2>0, <1>inv, <1>pc, <1>call, Kinds, NoRecords, Fields
    DEF LookupDoes, Moves, ClientInv, Making, Alive, HasCtx, PlaceInv, HandlerHolds,
        NotAccepted, MakingHolds, MakingOnce, CreateBare, InitHasCtx, HandlerCtx,
        HandlerFd
<1>5. ASSUME NEW t \in Threads, CallFails(t)
      PROVE  ClientInv'
  <2>0. CallFailsDoes(t)  BY <1>5, CallFailsEffect
  <2>1. QED
    BY <2>0, <1>inv, <1>pc, Kinds, NoRecords, Fields
    DEF CallFailsDoes, Moves, ClientInv, Making, Alive, HasCtx, PlaceInv, HandlerHolds,
        NotAccepted, MakingHolds, MakingOnce, CreateBare, InitHasCtx, HandlerCtx,
        HandlerFd
<1>6. ASSUME NEW t \in Threads, CallWaits(t)
      PROVE  ClientInv'
  <2>0. CallWaitsDoes(t)  BY <1>6, CallWaitsEffect
  <2>1. QED
    BY <2>0, <1>inv, <1>pc, Kinds, NoRecords, Fields
    DEF CallWaitsDoes, Moves, ClientInv, Making, Alive, HasCtx, PlaceInv, HandlerHolds,
        NotAccepted, MakingHolds, MakingOnce, CreateBare, InitHasCtx, HandlerCtx,
        HandlerFd
<1>7. ASSUME NEW t \in Threads, Unblock(t)
      PROVE  ClientInv'
  <2>0. UnblockDoes(t)  BY <1>7, UnblockEffect
  <2>1. QED
    BY <2>0, <1>inv, <1>pc, Kinds, NoRecords, Fields
    DEF UnblockDoes, Moves, ClientInv, Making, Alive, HasCtx, PlaceInv, HandlerHolds,
        NotAccepted, MakingHolds, MakingOnce, CreateBare, InitHasCtx, HandlerCtx,
        HandlerFd
<1>8. ASSUME NEW t \in Threads, AddEvent(t)
      PROVE  ClientInv'
  <2>0. AddEventDoes(t)  BY <1>8, AddEventEffect
  <2>1. QED
    BY <2>0, <1>inv, <1>pc, Kinds, NoRecords, Fields
    DEF AddEventDoes, Moves, ClientInv, Making, Alive, HasCtx, PlaceInv, HandlerHolds,
        NotAccepted, MakingHolds, MakingOnce, CreateBare, InitHasCtx, HandlerCtx,
        HandlerFd
<1>9. ASSUME NEW t \in Threads, CreateCtx(t)
      PROVE  ClientInv'
  <2>0. CreateCtxDoes(t)  BY <1>9, CreateCtxEffect
  <2>1. QED
    BY <2>0, <1>inv, <1>pc, <1>file, <1>ctx, Kinds, NoRecords, Fields
    DEF CreateCtxDoes, Moves, ClientInv, Making, Alive, HasCtx, PlaceInv, HandlerHolds,
        NotAccepted, MakingHolds, MakingOnce, CreateBare, InitHasCtx, HandlerCtx,
        HandlerFd
<1>10. ASSUME NEW t \in Threads, InitSocket(t)
      PROVE  ClientInv'
  <2>0. InitSocketDoes(t)  BY <1>10, InitSocketEffect
  <2>1. HandlerHolds'
    BY <2>0, <1>inv, <1>pc, <1>sock, Kinds, NoRecords, Fields
    DEF InitSocketDoes, ClientInv, HandlerHolds, Alive
  <2>2. NotAccepted'
    BY <2>0, <1>inv, <1>pc, <1>call, <1>sock, Kinds, NoRecords, Fields
    DEF InitSocketDoes, ClientInv, NotAccepted, Making
  <2>3. MakingHolds'
    BY <2>0, <1>inv, <1>pc, <1>call, <1>sock, Apart, NoRecords
    DEF InitSocketDoes, ClientInv, MakingHolds, MakingOnce, Making
  <2>4. MakingOnce'
    BY <2>0, <1>inv, <1>pc, <1>call, <1>sock, Kinds, NoRecords, Fields
    DEF InitSocketDoes, ClientInv, MakingOnce, Making
  <2>5. CreateBare'
    BY <2>0, <1>inv, <1>pc, <1>call, Kinds, NoRecords, Fields
    DEF InitSocketDoes, ClientInv, CreateBare, HasCtx
  <2>6. InitHasCtx'
    BY <2>0, <1>inv, <1>pc, <1>call, Kinds, NoRecords, Fields
    DEF InitSocketDoes, ClientInv, InitHasCtx, HasCtx
  <2>7. HandlerCtx'
    BY <2>0, <1>inv, <1>pc, <1>sock, Apart, NoRecords
    DEF InitSocketDoes, ClientInv, HandlerCtx, Alive, HasCtx
  <2>8. HandlerFd'
    BY <2>0, <1>inv, <1>pc, <1>call, <1>sock, Kinds, NoRecords, Fields
    DEF InitSocketDoes, ClientInv, HandlerFd
  <2>9. QED  BY <2>1, <2>2, <2>3, <2>4, <2>5, <2>6, <2>7, <2>8 DEF ClientInv
<1>11. ASSUME NEW t \in Threads, Receive(t)
      PROVE  ClientInv'
  <2>0. ReceiveDoes(t)  BY <1>11, ReceiveEffect
  <2>1. QED
    BY <2>0, <1>inv, <1>pc, Kinds, NoRecords, Fields
    DEF ReceiveDoes, Moves, ClientInv, Making, Alive, HasCtx, PlaceInv, HandlerHolds,
        NotAccepted, MakingHolds, MakingOnce, CreateBare, InitHasCtx, HandlerCtx,
        HandlerFd
<1>12. ASSUME NEW t \in Threads, CloseCancel(t)
      PROVE  ClientInv'
  <2>0. CloseCancelDoes(t)  BY <1>12, CloseCancelEffect
  <2>1. QED
    BY <2>0, <1>inv, <1>pc, Kinds, NoRecords, Fields
    DEF CloseCancelDoes, Moves, Cancels, ClientInv, Making, Alive, HasCtx, PlaceInv,
        HandlerHolds, NotAccepted, MakingHolds, MakingOnce, CreateBare, InitHasCtx,
        HandlerCtx, HandlerFd
<1>13. ASSUME NEW t \in Threads, CloseDel(t)
      PROVE  ClientInv'
  <2>0. CloseDelDoes(t)  BY <1>13, CloseDelEffect
  <2>1. HandlerHolds'
    BY <2>0, <1>inv, <1>pc, Kinds, NoRecords, Fields
    DEF CloseDelDoes, Moves, ClientInv, HandlerHolds, Alive
  <2>2. NotAccepted'
    BY <2>0, <1>inv, <1>pc, Kinds, NoRecords, Fields
    DEF CloseDelDoes, Moves, ClientInv, NotAccepted, Making
  <2>3. MakingHolds'
    BY <2>0, <1>inv, <1>pc, Kinds, NoRecords, Fields
    DEF CloseDelDoes, Moves, ClientInv, MakingHolds, Making
  <2>4. MakingOnce'
    BY <2>0, <1>inv, <1>pc, Kinds, NoRecords, Fields
    DEF CloseDelDoes, Moves, ClientInv, MakingOnce, Making
  <2>5. CreateBare'
    BY <2>0, <1>inv, <1>pc, <1>ctx, Kinds, NoRecords, Fields
    DEF CloseDelDoes, Moves, ClientInv, CreateBare, HasCtx
  <2>6. InitHasCtx'
    BY <2>0, <1>inv, <1>pc, <1>ctx, Apart, NoRecords
    DEF CloseDelDoes, Moves, ClientInv, InitHasCtx, MakingHolds, HandlerHolds, HasCtx,
        Making, Alive
  <2>7. HandlerCtx'
    BY <2>0, <1>inv, <1>pc, <1>ctx, Apart, NoRecords, Closers, HandlerFile
    DEF CloseDelDoes, Moves, ClientInv, HandlerCtx, HandlerHolds, Alive, HasCtx, ClosePoints
  <2>8. HandlerFd'
    BY <2>0, <1>inv, <1>pc, Kinds, NoRecords, Fields
    DEF CloseDelDoes, Moves, ClientInv, HandlerFd
  <2>9. QED  BY <2>1, <2>2, <2>3, <2>4, <2>5, <2>6, <2>7, <2>8 DEF ClientInv
<1>14. ASSUME NEW t \in Threads, CloseFd(t)
      PROVE  ClientInv'
  <2>0. CloseFdDoes(t)  BY <1>14, CloseFdEffect
  <2>1. QED
    BY <2>0, <1>inv, <1>pc, <1>file, <1>client, Kinds, NoRecords, Fields
    DEF CloseFdDoes, Moves, ClientInv, Making, Alive, HasCtx, PlaceInv, HandlerHolds,
        NotAccepted, MakingHolds, MakingOnce, CreateBare, InitHasCtx, HandlerCtx,
        HandlerFd
<1>15. ASSUME NEW t \in Threads, CloseUnset(t)
      PROVE  ClientInv'
  <2>0. CloseUnsetDoes(t)  BY <1>15, CloseUnsetEffect
  <2>1. HandlerHolds'
    BY <2>0, <1>inv, <1>pc, <1>sock, Apart, NoRecords, Closers
    DEF CloseUnsetDoes, Moves, ClientInv, HandlerHolds, Alive, ClosePoints
  <2>2. NotAccepted'
    BY <2>0, <1>inv, <1>pc, <1>call, <1>sock, Kinds, NoRecords, Fields
    DEF CloseUnsetDoes, Moves, ClientInv, NotAccepted, Making
  <2>3. MakingHolds'
    BY <2>0, <1>inv, <1>pc, <1>call, <1>sock, Kinds, NoRecords, Fields
    DEF CloseUnsetDoes, Moves, ClientInv, MakingHolds, Making
  <2>4. MakingOnce'
    BY <2>0, <1>inv, <1>pc, <1>call, <1>sock, Kinds, NoRecords, Fields
    DEF CloseUnsetDoes, Moves, ClientInv, MakingOnce, Making
  <2>5. CreateBare'
    BY <2>0, <1>inv, <1>pc, <1>call, Kinds, NoRecords, Fields
    DEF CloseUnsetDoes, Moves, ClientInv, CreateBare, HasCtx
  <2>6. InitHasCtx'
    BY <2>0, <1>inv, <1>pc, <1>call, Kinds, NoRecords, Fields
    DEF CloseUnsetDoes, Moves, ClientInv, InitHasCtx, HasCtx
  <2>7. HandlerCtx'
    BY <2>0, <1>inv, <1>pc, <1>sock, Apart, NoRecords, Closers
    DEF CloseUnsetDoes, Moves, ClientInv, HandlerCtx, Alive, HasCtx, ClosePoints
  <2>8. HandlerFd'
    BY <2>0, <1>inv, <1>pc, <1>call, <1>sock, Apart, NoRecords, Closers
    DEF CloseUnsetDoes, Moves, ClientInv, HandlerFd, ClosePoints
  <2>9. QED  BY <2>1, <2>2, <2>3, <2>4, <2>5, <2>6, <2>7, <2>8 DEF ClientInv
<1>16. ASSUME NEW t \in Threads, StopClear(t)
      PROVE  ClientInv'
  <2>0. StopClearDoes(t)  BY <1>16, StopClearEffect
  <2>1. QED
    BY <2>0, <1>inv, <1>pc, <1>call, Kinds, NoRecords, Fields
    DEF StopClearDoes, Moves, ClientInv, Making, Alive, HasCtx, PlaceInv, HandlerHolds,
        NotAccepted, MakingHolds, MakingOnce, CreateBare, InitHasCtx, HandlerCtx,
        HandlerFd
<1>17. ASSUME NEW t \in Threads, NEW c \in Clients, Accept(t, c)
      PROVE  ClientInv'
  <2>0. AcceptDoes(t, c)  BY <1>17, AcceptEffect
  <2>1. HandlerHolds'
    BY <2>0, <1>inv, <1>pc, Kinds, NoRecords, Fields
    DEF AcceptDoes, Moves, ClientInv, HandlerHolds, Alive
  <2>2. NotAccepted'
    BY <2>0, <1>inv, <1>pc, <1>call, <1>client, Kinds, NoRecords, Fields
    DEF AcceptDoes, Moves, ClientInv, NotAccepted, Making
  <2>3. MakingHolds'
    BY <2>0, <1>inv, <1>pc, <1>call, <1>file, <1>client, Apart, NoRecords
    DEF AcceptDoes, Moves, ClientInv, MakingHolds, NotAccepted, Making, Open
  <2>4. MakingOnce'
    BY <2>0, <1>inv, <1>pc, <1>call, <1>client, Apart, NoRecords
    DEF AcceptDoes, Moves, ClientInv, MakingOnce, NotAccepted, Making
  <2>5. CreateBare'
    BY <2>0, <1>inv, <1>pc, <1>call, Kinds, NoRecords, Fields
    DEF AcceptDoes, Moves, ClientInv, CreateBare, HasCtx
  <2>6. InitHasCtx'
    BY <2>0, <1>inv, <1>pc, <1>call, Kinds, NoRecords, Fields
    DEF AcceptDoes, Moves, ClientInv, InitHasCtx, HasCtx
  <2>7. HandlerCtx'
    BY <2>0, <1>inv, <1>pc, Kinds, NoRecords, Fields
    DEF AcceptDoes, Moves, ClientInv, HandlerCtx, Alive, HasCtx
  <2>8. HandlerFd'
    BY <2>0, <1>inv, <1>pc, <1>call, Kinds, NoRecords, Fields
    DEF AcceptDoes, Moves, ClientInv, HandlerFd
  <2>9. QED  BY <2>1, <2>2, <2>3, <2>4, <2>5, <2>6, <2>7, <2>8 DEF ClientInv
<1>18. ASSUME NEW t \in Threads, NEW on \in BOOLEAN, Fcntl(t, on)
      PROVE  ClientInv'
  <2>0. FcntlDoes(t, on)  BY <1>18, FcntlEffect
  <2>1. HandlerHolds'
    BY <2>0, <1>inv, <1>pc, Kinds, NoRecords, Fields
    DEF FcntlDoes, Moves, ClientInv, HandlerHolds, Alive
  <2>2. NotAccepted'
    BY <2>0, <1>inv, <1>pc, Kinds, NoRecords, Fields
    DEF FcntlDoes, Moves, ClientInv, NotAccepted, Making
  <2>3. MakingHolds'
    BY <2>0, <1>inv, <1>pc, Kinds, NoRecords, Fields
    DEF FcntlDoes, Moves, ClientInv, MakingHolds, Making
  <2>4. MakingOnce'
    BY <2>0, <1>inv, <1>pc, Kinds, NoRecords, Fields
    DEF FcntlDoes, Moves, ClientInv, MakingOnce, Making
  <2>5. CreateBare'
    BY <2>0, <1>inv, <1>pc, <1>ctx, Kinds, NoRecords, Fields
    DEF FcntlDoes, Moves, ClientInv, CreateBare, HasCtx
  <2>6. InitHasCtx'
    BY <2>0, <1>inv, <1>pc, <1>ctx, Apart, NoRecords
    DEF FcntlDoes, Moves, ClientInv, OwnInv, InitHasCtx, NothingOfNone, HasCtx
  <2>7. HandlerCtx'
    BY <2>0, <1>inv, <1>pc, <1>ctx, Apart, NoRecords
    DEF FcntlDoes, Moves, ClientInv, OwnInv, HandlerCtx, NothingOfNone, Alive, HasCtx
  <2>8. HandlerFd'
    BY <2>0, <1>inv, <1>pc, Kinds, NoRecords, Fields
    DEF FcntlDoes, Moves, ClientInv, HandlerFd
  <2>9. QED  BY <2>1, <2>2, <2>3, <2>4, <2>5, <2>6, <2>7, <2>8 DEF ClientInv
<1>19. ASSUME NEW t \in Threads, NEW on \in BOOLEAN, Ioctl(t, on)
      PROVE  ClientInv'
  <2>0. IoctlDoes(t, on)  BY <1>19, IoctlEffect
  <2>1. HandlerHolds'
    BY <2>0, <1>inv, <1>pc, Kinds, NoRecords, Fields
    DEF IoctlDoes, Moves, ClientInv, HandlerHolds, Alive
  <2>2. NotAccepted'
    BY <2>0, <1>inv, <1>pc, Kinds, NoRecords, Fields
    DEF IoctlDoes, Moves, ClientInv, NotAccepted, Making
  <2>3. MakingHolds'
    BY <2>0, <1>inv, <1>pc, <1>file, Kinds, NoRecords, Fields
    DEF IoctlDoes, Moves, ClientInv, MakingHolds, Making
  <2>4. MakingOnce'
    BY <2>0, <1>inv, <1>pc, Kinds, NoRecords, Fields
    DEF IoctlDoes, Moves, ClientInv, MakingOnce, Making
  <2>5. CreateBare'
    BY <2>0, <1>inv, <1>pc, <1>ctx, Kinds, NoRecords, Fields
    DEF IoctlDoes, Moves, ClientInv, CreateBare, HasCtx
  <2>6. InitHasCtx'
    BY <2>0, <1>inv, <1>pc, <1>ctx, <1>file, Apart, NoRecords
    DEF IoctlDoes, Moves, ClientInv, OwnInv, InitHasCtx, NothingOfNone, HasCtx
  <2>7. HandlerCtx'
    BY <2>0, <1>inv, <1>pc, <1>ctx, <1>file, Apart, NoRecords
    DEF IoctlDoes, Moves, ClientInv, OwnInv, HandlerCtx, NothingOfNone, Alive, HasCtx
  <2>8. HandlerFd'
    BY <2>0, <1>inv, <1>pc, Kinds, NoRecords, Fields
    DEF IoctlDoes, Moves, ClientInv, HandlerFd
  <2>9. QED  BY <2>1, <2>2, <2>3, <2>4, <2>5, <2>6, <2>7, <2>8 DEF ClientInv
<1>20. ASSUME NEW t \in Threads, NEW l \in Listeners, StopSocket(t, l)
      PROVE  ClientInv'
  <2>0. StopSocketDoes(t, l)  BY <1>20, StopSocketEffect
  <2>1. QED
    BY <2>0, <1>inv, <1>pc, <1>call, Kinds, NoRecords, Fields
    DEF StopSocketDoes, Moves, Cancels, ClientInv, Making, Alive, HasCtx, PlaceInv,
        HandlerHolds, NotAccepted, MakingHolds, MakingOnce, CreateBare, InitHasCtx,
        HandlerCtx, HandlerFd
<1>21. ASSUME NEW fd \in Fds, Trigger(fd)
      PROVE  ClientInv'
  <2>0. TriggerDoes(fd)  BY <1>21, TriggerEffect
  <2>1. QED
    BY <2>0, <1>inv
    DEF TriggerDoes, Cancels, ClientInv, Making, Alive, HasCtx, PlaceInv, HandlerHolds,
        NotAccepted, MakingHolds, MakingOnce, CreateBare, InitHasCtx, HandlerCtx,
        HandlerFd
<1>22. ASSUME NEW l \in Listeners, Bind(l)
      PROVE  ClientInv'
  <2>0. BindDoes(l)  BY <1>22, BindEffect
  <2>1. HandlerHolds'
    BY <2>0, <1>inv, <1>sock, Kinds, NoRecords, Fields
    DEF BindDoes, ClientInv, HandlerHolds, Alive
  <2>2. NotAccepted'
    BY <2>0, <1>inv, <1>sock, Kinds, NoRecords, Fields
    DEF BindDoes, ClientInv, NotAccepted, Making
  <2>3. MakingHolds'
    BY <2>0, <1>inv, <1>file, <1>sock, Apart, NoRecords
    DEF BindDoes, ClientInv, MakingHolds, Making, Open
  <2>4. MakingOnce'
    BY <2>0, <1>inv, <1>sock, Kinds, NoRecords, Fields
    DEF BindDoes, ClientInv, MakingOnce, Making
  <2>5. CreateBare'
    BY <2>0, <1>inv, <1>ctx, <1>file, <1>sock, Apart, NoRecords
    DEF BindDoes, ClientInv, CreateBare, MakingHolds, HasCtx, Making, Open
  <2>6. InitHasCtx'
    BY <2>0, <1>inv, <1>ctx, <1>file, Apart, NoRecords
    DEF BindDoes, ClientInv, OwnInv, InitHasCtx, NothingOfNone, HasCtx
  <2>7. HandlerCtx'
    BY <2>0, <1>inv, <1>ctx, <1>sock, <1>file, Apart, NoRecords
    DEF BindDoes, ClientInv, OwnInv, HandlerCtx, NothingOfNone, Alive, HasCtx
  <2>8. HandlerFd'
    BY <2>0, <1>inv, <1>sock, Kinds, NoRecords, Fields DEF BindDoes, ClientInv, HandlerFd
  <2>9. QED  BY <2>1, <2>2, <2>3, <2>4, <2>5, <2>6, <2>7, <2>8 DEF ClientInv
<1>23. CASE BindFails
  <2>0. BindFailsDoes  BY <1>23, BindFailsEffect
  <2>1. HandlerHolds'
    BY <2>0, <1>inv, <1>sock, Apart, NoRecords
    DEF BindFailsDoes, ClientInv, HandlerHolds, Alive
  <2>2. NotAccepted'
    BY <2>0, <1>inv, <1>sock, <1>client, Kinds, NoRecords, Fields
    DEF BindFailsDoes, ClientInv, NotAccepted, Making
  <2>3. MakingHolds'
    BY <2>0, <1>inv, <1>file, <1>sock, Apart, NoRecords
    DEF BindFailsDoes, ClientInv, MakingHolds, Making
  <2>4. MakingOnce'
    BY <2>0, <1>inv, <1>sock, Kinds, NoRecords, Fields
    DEF BindFailsDoes, ClientInv, MakingOnce, Making
  <2>5. CreateBare'
    BY <2>0, <1>inv, <1>ctx, Kinds, NoRecords, Fields
    DEF BindFailsDoes, ClientInv, CreateBare, HasCtx
  <2>6. InitHasCtx'
    BY <2>0, <1>inv, <1>ctx, <1>file, <1>sock, Apart, NoRecords
    DEF BindFailsDoes, ClientInv, InitHasCtx, MakingHolds, HasCtx, Making
  <2>7. HandlerCtx'
    BY <2>0, <1>inv, <1>ctx, <1>sock, Apart, NoRecords, HandlerFile
    DEF BindFailsDoes, ClientInv, HandlerCtx, HandlerHolds, Alive, HasCtx
  <2>8. HandlerFd'
    BY <2>0, <1>inv, <1>sock, Apart, NoRecords DEF BindFailsDoes, ClientInv, HandlerFd
  <2>9. QED  BY <2>1, <2>2, <2>3, <2>4, <2>5, <2>6, <2>7, <2>8 DEF ClientInv
<1>24. CASE Start
  <2>0. StartDoes  BY <1>24, StartEffect
  <2>1. QED
    BY <2>0, <1>inv, <1>pc, Kinds, NoRecords, Fields
    DEF StartDoes, ClientInv, Making, Alive, HasCtx, PlaceInv, HandlerHolds,
        NotAccepted, MakingHolds, MakingOnce, CreateBare, InitHasCtx, HandlerCtx,
        HandlerFd
<1>25. CASE Stop
  <2>0. StopDoes  BY <1>25, StopEffect
  <2>1. QED
    BY <2>0, <1>inv, <1>pc, Kinds, NoRecords, Fields
    DEF StopDoes, ClientInv, Making, Alive, HasCtx, PlaceInv, HandlerHolds, NotAccepted,
        MakingHolds, MakingOnce, CreateBare, InitHasCtx, HandlerCtx, HandlerFd
<1>26. CASE Destroy
  <2>0. DestroyDoes  BY <1>26, DestroyEffect
  <2>1. QED
    BY <2>0, <1>inv, <1>sock, <1>file, <1>ctx, <1>client, Kinds, NoRecords, Fields
    DEF DestroyDoes, ClientInv, Making, Alive, HasCtx, PlaceInv, HandlerHolds,
        NotAccepted, MakingHolds, MakingOnce, CreateBare, InitHasCtx, HandlerCtx,
        HandlerFd
<1>27. ASSUME NEW c \in Clients, Speak(c)
      PROVE  ClientInv'
  <2>0. SpeakDoes(c)  BY <1>27, SpeakEffect
  <2>1. QED
    BY <2>0, <1>inv, <1>client, Kinds, NoRecords, Fields
    DEF SpeakDoes, ClientInv, Making, Alive, HasCtx, PlaceInv, HandlerHolds,
        NotAccepted, MakingHolds, MakingOnce, CreateBare, InitHasCtx, HandlerCtx,
        HandlerFd
<1>28. ASSUME NEW c \in Clients, NEW l \in Listeners, Connect(c, l)
      PROVE  ClientInv'
  <2>0. ConnectDoes(c, l)  BY <1>28, ConnectEffect
  <2>1. QED
    BY <2>0, <1>inv, <1>client, Kinds, NoRecords, Fields
    DEF ConnectDoes, ClientInv, Making, Alive, HasCtx, PlaceInv, HandlerHolds,
        NotAccepted, MakingHolds, MakingOnce, CreateBare, InitHasCtx, HandlerCtx,
        HandlerFd
<1>29. QED
  BY <1>1, <1>2, <1>3, <1>4, <1>5, <1>6, <1>7, <1>8, <1>9, <1>10, <1>11, <1>12, <1>13,
     <1>14, <1>15, <1>16, <1>17, <1>18, <1>19, <1>20, <1>21, <1>22, <1>23, <1>24, <1>25,
     <1>26, <1>27, <1>28
  DEF Next, ThreadStep, OwnerStep, PeerStep

\* A step leaves files, contexts and Sockets in agreement.
LEMMA OwnStep ==
    ASSUME IInv, [Next]_vars
    PROVE  OwnInv'
<1>inv. TypeOK /\ PlaceInv /\ ClientInv /\ StopInv /\ OwnInv  BY DEF IInv
<1>pc. pc \in [Tasks -> Points]  BY <1>inv DEF TypeOK
<1>call. call \in [Tasks -> Calls]  BY <1>inv DEF TypeOK
<1>file. file \in [Fds -> Files]  BY <1>inv DEF TypeOK
<1>ctx. ctx \in [Fds -> Contexts]  BY <1>inv DEF TypeOK
<1>sock. sock \in [Sockets -> Fds \cup {-1}]  BY <1>inv DEF TypeOK
<1>client. client \in [Clients -> Peers]  BY <1>inv DEF TypeOK
<1>1. CASE UNCHANGED vars
  BY <1>1, <1>inv
  DEF vars, poolVars, fdVars, serverVars, Making, ClosePoints, ClosingOf, HasCtx, Open,
      OwnInv, NothingOfNone, FileHeld, SocketHolds, CtxOfFile, ClosingHas, ClosingOpen,
      ClosedGone, ClosingBare
<1>2. ASSUME NEW t \in Threads, Take(t)
      PROVE  OwnInv'
  <2>0. TakeDoes(t)  BY <1>2, TakeEffect
  <2>closing. \A j \in Tasks : ClosingOf(j)' = ClosingOf(j)
    BY <2>0, <1>call, Apart, ClosingKind DEF TakeDoes
  <2>1. QED
    BY <2>0, <1>inv, <1>pc, <1>call, Apart, NoRecords, <2>closing
    DEF TakeDoes, OwnInv, NothingOfNone, FileHeld, SocketHolds, CtxOfFile, ClosingHas,
        ClosingOpen, ClosedGone, ClosingBare, Making, ClosePoints, HasCtx, Open
<1>3. ASSUME NEW t \in Threads, CheckStop(t)
      PROVE  OwnInv'
  <2>0. CheckStopDoes(t)  BY <1>3, CheckStopEffect
  <2>closing. \A j \in Tasks : ClosingOf(j)' = ClosingOf(j)
    BY <2>0, <1>call, Apart, ClosingKind DEF CheckStopDoes
  <2>1. NothingOfNone'
    BY <2>0, <1>inv, Apart, NoRecords DEF CheckStopDoes, Moves, OwnInv, NothingOfNone
  <2>2. FileHeld'
    BY <2>0, <1>inv, <1>pc, <1>call, Apart, NoRecords
    DEF CheckStopDoes, Moves, OwnInv, FileHeld, Making
  <2>3. SocketHolds'
    BY <2>0, <1>inv, <1>pc, <1>call, Apart, NoRecords, <2>closing
    DEF CheckStopDoes, Moves, OwnInv, SocketHolds
  <2>4. CtxOfFile'
    BY <2>0, <1>inv, Apart, NoRecords
    DEF CheckStopDoes, Moves, OwnInv, CtxOfFile, HasCtx, Open
  <2>5. ClosingHas'
    BY <2>0, <1>inv, <1>pc, <1>call, Apart, NoRecords, ClosingKind, Closers
    DEF CheckStopDoes, Moves, OwnInv, ClosingHas, ClosePoints, LastOf
  <2>6. ClosingOpen'
    BY <2>0, <1>inv, <1>pc, <1>call, Apart, NoRecords, ClosingKind, Closers
    DEF CheckStopDoes, Moves, OwnInv, ClosingOpen, SocketHolds, ClosePoints, LastOf, Alive
  <2>7. ClosedGone'
    BY <2>0, <1>inv, <1>pc, <1>call, Apart, NoRecords, <2>closing
    DEF CheckStopDoes, Moves, OwnInv, ClosedGone
  <2>8. ClosingBare'
    BY <2>0, <1>inv, <1>pc, <1>call, Apart, NoRecords, <2>closing
    DEF CheckStopDoes, Moves, OwnInv, ClosingBare, HasCtx
  <2>9. QED  BY <2>1, <2>2, <2>3, <2>4, <2>5, <2>6, <2>7, <2>8 DEF OwnInv
<1>4. ASSUME NEW t \in Threads, Lookup(t)
      PROVE  OwnInv'
  <2>0. LookupDoes(t)  BY <1>4, LookupEffect
  <2>closing. \A j \in Tasks : ClosingOf(j)' = ClosingOf(j)
    BY <2>0, <1>call, Apart, ClosingKind DEF LookupDoes
  <2>1. QED
    BY <2>0, <1>inv, <1>pc, <1>call, Apart, NoRecords, <2>closing
    DEF LookupDoes, Moves, OwnInv, NothingOfNone, FileHeld, SocketHolds, CtxOfFile,
        ClosingHas, ClosingOpen, ClosedGone, ClosingBare, Making, ClosePoints, HasCtx,
        Open
<1>5. ASSUME NEW t \in Threads, CallFails(t)
      PROVE  OwnInv'
  <2>0. CallFailsDoes(t)  BY <1>5, CallFailsEffect
  <2>closing. \A j \in Tasks : ClosingOf(j)' = ClosingOf(j)
    BY <2>0, <1>call, Apart, ClosingKind DEF CallFailsDoes
  <2>1. NothingOfNone'
    BY <2>0, <1>inv, Apart, NoRecords DEF CallFailsDoes, Moves, OwnInv, NothingOfNone
  <2>2. FileHeld'
    BY <2>0, <1>inv, <1>pc, Apart, NoRecords
    DEF CallFailsDoes, Moves, OwnInv, FileHeld, Making
  <2>3. SocketHolds'
    BY <2>0, <1>inv, <1>pc, Apart, NoRecords, <2>closing
    DEF CallFailsDoes, Moves, OwnInv, SocketHolds
  <2>4. CtxOfFile'
    BY <2>0, <1>inv, Apart, NoRecords
    DEF CallFailsDoes, Moves, OwnInv, CtxOfFile, HasCtx, Open
  <2>5. ClosingHas'
    BY <2>0, <1>inv, <1>pc, Apart, NoRecords, ClosingKind, HandlerOpen
    DEF CallFailsDoes, Moves, OwnInv, ClosingHas, ClosePoints
  <2>6. ClosingOpen'
    BY <2>0, <1>inv, <1>pc, Apart, NoRecords, ClosingKind, HandlerOpen
    DEF CallFailsDoes, Moves, OwnInv, ClosingOpen, ClosePoints
  <2>7. ClosedGone'
    BY <2>0, <1>inv, <1>pc, Apart, NoRecords, <2>closing
    DEF CallFailsDoes, Moves, OwnInv, ClosedGone
  <2>8. ClosingBare'
    BY <2>0, <1>inv, <1>pc, Apart, NoRecords, <2>closing
    DEF CallFailsDoes, Moves, OwnInv, ClosingBare, HasCtx
  <2>9. QED  BY <2>1, <2>2, <2>3, <2>4, <2>5, <2>6, <2>7, <2>8 DEF OwnInv
<1>6. ASSUME NEW t \in Threads, CallWaits(t)
      PROVE  OwnInv'
  <2>0. CallWaitsDoes(t)  BY <1>6, CallWaitsEffect
  <2>closing. \A j \in Tasks : ClosingOf(j)' = ClosingOf(j)
    BY <2>0, <1>call, Apart, ClosingKind DEF CallWaitsDoes
  <2>1. NothingOfNone'
    BY <2>0, <1>inv, Apart, NoRecords DEF CallWaitsDoes, Moves, OwnInv, NothingOfNone
  <2>2. FileHeld'
    BY <2>0, <1>inv, <1>pc, Apart, NoRecords
    DEF CallWaitsDoes, Moves, OwnInv, FileHeld, Making
  <2>3. SocketHolds'
    BY <2>0, <1>inv, <1>pc, Apart, NoRecords, <2>closing
    DEF CallWaitsDoes, Moves, OwnInv, SocketHolds
  <2>4. CtxOfFile'
    BY <2>0, <1>inv, Apart, NoRecords
    DEF CallWaitsDoes, Moves, OwnInv, CtxOfFile, HasCtx, Open
  <2>5. ClosingHas'
    BY <2>0, <1>inv, <1>pc, Apart, NoRecords, ClosingKind, HandlerOpen
    DEF CallWaitsDoes, Moves, OwnInv, ClosingHas, ClosePoints
  <2>6. ClosingOpen'
    BY <2>0, <1>inv, <1>pc, Apart, NoRecords, ClosingKind, HandlerOpen
    DEF CallWaitsDoes, Moves, OwnInv, ClosingOpen, ClosePoints
  <2>7. ClosedGone'
    BY <2>0, <1>inv, <1>pc, Apart, NoRecords, <2>closing
    DEF CallWaitsDoes, Moves, OwnInv, ClosedGone
  <2>8. ClosingBare'
    BY <2>0, <1>inv, <1>pc, Apart, NoRecords, <2>closing
    DEF CallWaitsDoes, Moves, OwnInv, ClosingBare, HasCtx
  <2>9. QED  BY <2>1, <2>2, <2>3, <2>4, <2>5, <2>6, <2>7, <2>8 DEF OwnInv
<1>7. ASSUME NEW t \in Threads, Unblock(t)
      PROVE  OwnInv'
  <2>0. UnblockDoes(t)  BY <1>7, UnblockEffect
  <2>closing. \A j \in Tasks : ClosingOf(j)' = ClosingOf(j)
    BY <2>0, <1>call, Apart, ClosingKind DEF UnblockDoes
  <2>1. QED
    BY <2>0, <1>inv, <1>pc, <1>call, Apart, NoRecords, <2>closing
    DEF UnblockDoes, Moves, OwnInv, NothingOfNone, FileHeld, SocketHolds, CtxOfFile,
        ClosingHas, ClosingOpen, ClosedGone, ClosingBare, Making, ClosePoints, HasCtx,
        Open
<1>8. ASSUME NEW t \in Threads, AddEvent(t)
      PROVE  OwnInv'
  <2>0. AddEventDoes(t)  BY <1>8, AddEventEffect
  <2>closing. \A j \in Tasks : ClosingOf(j)' = ClosingOf(j)
    BY <2>0, <1>call, Apart, ClosingKind DEF AddEventDoes
  <2>1. NothingOfNone'
    BY <2>0, <1>inv, Apart, NoRecords DEF AddEventDoes, Moves, OwnInv, NothingOfNone
  <2>2. FileHeld'
    BY <2>0, <1>inv, <1>pc, Apart, NoRecords
    DEF AddEventDoes, Moves, OwnInv, FileHeld, Making
  <2>3. SocketHolds'
    BY <2>0, <1>inv, <1>pc, Apart, NoRecords, <2>closing
    DEF AddEventDoes, Moves, OwnInv, SocketHolds
  <2>4. CtxOfFile'
    BY <2>0, <1>inv, Apart, NoRecords
    DEF AddEventDoes, Moves, OwnInv, CtxOfFile, HasCtx, Open
  <2>5. ClosingHas'
    BY <2>0, <1>inv, <1>pc, Apart, NoRecords, ClosingKind, HandlerOpen
    DEF AddEventDoes, Moves, OwnInv, ClosingHas, ClosePoints
  <2>6. ClosingOpen'
    BY <2>0, <1>inv, <1>pc, Apart, NoRecords, ClosingKind, HandlerOpen
    DEF AddEventDoes, Moves, OwnInv, ClosingOpen, ClosePoints
  <2>7. ClosedGone'
    BY <2>0, <1>inv, <1>pc, Apart, NoRecords, <2>closing
    DEF AddEventDoes, Moves, OwnInv, ClosedGone
  <2>8. ClosingBare'
    BY <2>0, <1>inv, <1>pc, Apart, NoRecords, <2>closing
    DEF AddEventDoes, Moves, OwnInv, ClosingBare, HasCtx
  <2>9. QED  BY <2>1, <2>2, <2>3, <2>4, <2>5, <2>6, <2>7, <2>8 DEF OwnInv
<1>9. ASSUME NEW t \in Threads, CreateCtx(t)
      PROVE  OwnInv'
  <2>0. CreateCtxDoes(t)  BY <1>9, CreateCtxEffect
  <2>closing. \A j \in Tasks : ClosingOf(j)' = ClosingOf(j)
    BY <2>0, <1>call, Apart, ClosingKind DEF CreateCtxDoes
  <2>1. NothingOfNone'
    BY <2>0, <1>inv, <1>file, <1>ctx, Apart, NoRecords
    DEF CreateCtxDoes, Moves, OwnInv, NothingOfNone
  <2>2. FileHeld'
    BY <2>0, <1>inv, <1>pc, <1>file, Apart, NoRecords
    DEF CreateCtxDoes, Moves, OwnInv, FileHeld, Making
  <2>3. SocketHolds'
    BY <2>0, <1>inv, <1>pc, <1>file, Apart, NoRecords, <2>closing
    DEF CreateCtxDoes, Moves, OwnInv, SocketHolds
  <2>4. CtxOfFile'
    BY <2>0, <1>inv, <1>file, <1>ctx, Apart, NoRecords
    DEF CreateCtxDoes, Moves, OwnInv, CtxOfFile, HasCtx, Open
  <2>5. ClosingHas'
    BY <2>0, <1>inv, <1>pc, Apart, NoRecords, <2>closing
    DEF CreateCtxDoes, Moves, OwnInv, ClosingHas, ClosePoints
  <2>6. ClosingOpen'
    BY <2>0, <1>inv, <1>pc, <1>file, Apart, NoRecords, <2>closing
    DEF CreateCtxDoes, Moves, OwnInv, ClosingOpen, ClosePoints
  <2>7. ClosedGone'
    BY <2>0, <1>inv, <1>pc, <1>file, Apart, NoRecords, <2>closing
    DEF CreateCtxDoes, Moves, OwnInv, ClosedGone
  <2>8. ClosingBare'
    BY <2>0, <1>inv, <1>pc, <1>ctx, <1>file, Apart, NoRecords, <2>closing, Closers
    DEF CreateCtxDoes, Moves, ClientInv, OwnInv, ClosingBare, ClosingOpen, MakingHolds,
        HasCtx, ClosePoints, Making
  <2>9. QED  BY <2>1, <2>2, <2>3, <2>4, <2>5, <2>6, <2>7, <2>8 DEF OwnInv
<1>10. ASSUME NEW t \in Threads, InitSocket(t)
      PROVE  OwnInv'
  <2>0. InitSocketDoes(t)  BY <1>10, InitSocketEffect
  <2>closing. \A j \in Tasks : ClosingOf(j)' = ClosingOf(j)
    BY <2>0, <1>call, Apart, ClosingKind DEF InitSocketDoes
  <2>1. NothingOfNone'
    BY <2>0, <1>inv, Apart, NoRecords DEF InitSocketDoes, OwnInv, NothingOfNone
  <2>2. FileHeld'
    BY <2>0, <1>inv, <1>pc, <1>call, <1>sock, Apart, NoRecords, <2>closing
    DEF InitSocketDoes, ClientInv, OwnInv, FileHeld, HandlerHolds, Making, Alive
  <2>3. SocketHolds'
    BY <2>0, <1>inv, <1>pc, <1>call, <1>sock, Apart, NoRecords, <2>closing
    DEF InitSocketDoes, OwnInv, SocketHolds
  <2>4. CtxOfFile'
    BY <2>0, <1>inv, Apart, NoRecords DEF InitSocketDoes, OwnInv, CtxOfFile, HasCtx, Open
  <2>5. ClosingHas'
    BY <2>0, <1>inv, <1>pc, <1>call, <1>sock, Apart, NoRecords, <2>closing
    DEF InitSocketDoes, OwnInv, ClosingHas, ClosePoints
  <2>6. ClosingOpen'
    BY <2>0, <1>inv, <1>pc, <1>call, <1>sock, Apart, NoRecords, <2>closing
    DEF InitSocketDoes, OwnInv, ClosingOpen, ClosePoints
  <2>7. ClosedGone'
    BY <2>0, <1>inv, <1>pc, <1>call, <1>sock, Apart, NoRecords, <2>closing, Closers
    DEF InitSocketDoes, OwnInv, ClosedGone, ClosePoints
  <2>8. ClosingBare'
    BY <2>0, <1>inv, <1>pc, <1>call, <1>sock, Apart, NoRecords, <2>closing, Closers
    DEF InitSocketDoes, OwnInv, ClosingBare, HasCtx, ClosePoints
  <2>9. QED  BY <2>1, <2>2, <2>3, <2>4, <2>5, <2>6, <2>7, <2>8 DEF OwnInv
<1>11. ASSUME NEW t \in Threads, Receive(t)
      PROVE  OwnInv'
  <2>0. ReceiveDoes(t)  BY <1>11, ReceiveEffect
  <2>closing. \A j \in Tasks : ClosingOf(j)' = ClosingOf(j)
    BY <2>0, <1>call, Apart, ClosingKind DEF ReceiveDoes
  <2>1. NothingOfNone'
    BY <2>0, <1>inv, Apart, NoRecords DEF ReceiveDoes, Moves, OwnInv, NothingOfNone
  <2>2. FileHeld'
    BY <2>0, <1>inv, <1>pc, Apart, NoRecords
    DEF ReceiveDoes, Moves, OwnInv, FileHeld, Making
  <2>3. SocketHolds'
    BY <2>0, <1>inv, <1>pc, Apart, NoRecords, <2>closing
    DEF ReceiveDoes, Moves, OwnInv, SocketHolds
  <2>4. CtxOfFile'
    BY <2>0, <1>inv, Apart, NoRecords
    DEF ReceiveDoes, Moves, OwnInv, CtxOfFile, HasCtx, Open
  <2>5. ClosingHas'
    BY <2>0, <1>inv, <1>pc, Apart, NoRecords, ClosingKind, HandlerOpen
    DEF ReceiveDoes, Moves, OwnInv, ClosingHas, ClosePoints
  <2>6. ClosingOpen'
    BY <2>0, <1>inv, <1>pc, Apart, NoRecords, ClosingKind, HandlerOpen
    DEF ReceiveDoes, Moves, OwnInv, ClosingOpen, ClosePoints
  <2>7. ClosedGone'
    BY <2>0, <1>inv, <1>pc, Apart, NoRecords, <2>closing
    DEF ReceiveDoes, Moves, OwnInv, ClosedGone
  <2>8. ClosingBare'
    BY <2>0, <1>inv, <1>pc, Apart, NoRecords, <2>closing
    DEF ReceiveDoes, Moves, OwnInv, ClosingBare, HasCtx
  <2>9. QED  BY <2>1, <2>2, <2>3, <2>4, <2>5, <2>6, <2>7, <2>8 DEF OwnInv
<1>12. ASSUME NEW t \in Threads, CloseCancel(t)
      PROVE  OwnInv'
  <2>0. CloseCancelDoes(t)  BY <1>12, CloseCancelEffect
  <2>closing. \A j \in Tasks : ClosingOf(j)' = ClosingOf(j)
    BY <2>0, <1>call, Apart, ClosingKind DEF CloseCancelDoes
  <2>1. NothingOfNone'
    BY <2>0, <1>inv, Apart, NoRecords
    DEF CloseCancelDoes, Moves, Cancels, OwnInv, NothingOfNone
  <2>2. FileHeld'
    BY <2>0, <1>inv, <1>pc, Apart, NoRecords
    DEF CloseCancelDoes, Moves, Cancels, OwnInv, FileHeld, Making
  <2>3. SocketHolds'
    BY <2>0, <1>inv, <1>pc, Apart, NoRecords, <2>closing
    DEF CloseCancelDoes, Moves, Cancels, OwnInv, SocketHolds
  <2>4. CtxOfFile'
    BY <2>0, <1>inv, Apart, NoRecords
    DEF CloseCancelDoes, Moves, Cancels, OwnInv, CtxOfFile, HasCtx, Open
  <2>5. ClosingHas'
    BY <2>0, <1>inv, <1>pc, Apart, NoRecords, <2>closing
    DEF CloseCancelDoes, Moves, Cancels, OwnInv, ClosingHas, ClosePoints
  <2>6. ClosingOpen'
    BY <2>0, <1>inv, <1>pc, Apart, NoRecords, <2>closing
    DEF CloseCancelDoes, Moves, Cancels, OwnInv, ClosingOpen, ClosePoints
  <2>7. ClosedGone'
    BY <2>0, <1>inv, <1>pc, Apart, NoRecords, <2>closing
    DEF CloseCancelDoes, Moves, Cancels, OwnInv, ClosedGone
  <2>8. ClosingBare'
    BY <2>0, <1>inv, <1>pc, Apart, NoRecords, <2>closing
    DEF CloseCancelDoes, Moves, Cancels, OwnInv, ClosingBare, HasCtx
  <2>9. QED  BY <2>1, <2>2, <2>3, <2>4, <2>5, <2>6, <2>7, <2>8 DEF OwnInv
<1>13. ASSUME NEW t \in Threads, CloseDel(t)
      PROVE  OwnInv'
  <2>0. CloseDelDoes(t)  BY <1>13, CloseDelEffect
  <2>closing. \A j \in Tasks : ClosingOf(j)' = ClosingOf(j)
    BY <2>0, <1>call, Apart, ClosingKind DEF CloseDelDoes
  <2>1. NothingOfNone'
    BY <2>0, <1>inv, <1>ctx, Apart, NoRecords DEF CloseDelDoes, Moves, OwnInv, NothingOfNone
  <2>2. FileHeld'
    BY <2>0, <1>inv, <1>pc, Apart, NoRecords
    DEF CloseDelDoes, Moves, OwnInv, FileHeld, Making
  <2>3. SocketHolds'
    BY <2>0, <1>inv, <1>pc, Apart, NoRecords, <2>closing
    DEF CloseDelDoes, Moves, OwnInv, SocketHolds
  <2>4. CtxOfFile'
    BY <2>0, <1>inv, <1>ctx, Apart, NoRecords
    DEF CloseDelDoes, Moves, OwnInv, CtxOfFile, HasCtx, Open
  <2>5. ClosingHas'
    BY <2>0, <1>inv, <1>pc, Apart, NoRecords, <2>closing
    DEF CloseDelDoes, Moves, OwnInv, ClosingHas, ClosePoints
  <2>6. ClosingOpen'
    BY <2>0, <1>inv, <1>pc, Apart, NoRecords, <2>closing
    DEF CloseDelDoes, Moves, OwnInv, ClosingOpen, ClosePoints
  <2>7. ClosedGone'
    BY <2>0, <1>inv, <1>pc, Apart, NoRecords, <2>closing
    DEF CloseDelDoes, Moves, OwnInv, ClosedGone
  <2>8. ClosingBare'
    BY <2>0, <1>inv, <1>pc, <1>ctx, Apart, NoRecords, <2>closing
    DEF CloseDelDoes, Moves, OwnInv, ClosingBare, HasCtx
  <2>9. QED  BY <2>1, <2>2, <2>3, <2>4, <2>5, <2>6, <2>7, <2>8 DEF OwnInv
<1>14. ASSUME NEW t \in Threads, CloseFd(t)
      PROVE  OwnInv'
  <2>0. CloseFdDoes(t)  BY <1>14, CloseFdEffect
  <2>closing. \A j \in Tasks : ClosingOf(j)' = ClosingOf(j)
    BY <2>0, <1>call, Apart, ClosingKind DEF CloseFdDoes
  <2>1. NothingOfNone'
    BY <2>0, <1>inv, <1>file, Apart, NoRecords DEF CloseFdDoes, Moves, OwnInv, NothingOfNone
  <2>2. FileHeld'
    BY <2>0, <1>inv, <1>pc, <1>file, Apart, NoRecords
    DEF CloseFdDoes, Moves, OwnInv, FileHeld, Making
  <2>3. SocketHolds'
    BY <2>0, <1>inv, <1>pc, <1>file, Apart, NoRecords, <2>closing
    DEF CloseFdDoes, Moves, OwnInv, SocketHolds
  <2>4. CtxOfFile'
    BY <2>0, <1>inv, <1>file, Apart, NoRecords
    DEF CloseFdDoes, Moves, OwnInv, CtxOfFile, HasCtx, Open
  <2>5. ClosingHas'
    BY <2>0, <1>inv, <1>pc, Apart, NoRecords, <2>closing
    DEF CloseFdDoes, Moves, OwnInv, ClosingHas, ClosePoints
  <2>6. ClosingOpen'
    BY <2>0, <1>inv, <1>pc, <1>file, Apart, NoRecords, <2>closing, Closers, ClosersAlone
    DEF CloseFdDoes, Moves, OwnInv, ClosingOpen, ClosePoints
  <2>7. ClosedGone'
    BY <2>0, <1>inv, <1>pc, <1>file, Apart, NoRecords, <2>closing, Closers
    DEF CloseFdDoes, Moves, OwnInv, ClosedGone, ClosePoints
  <2>8. ClosingBare'
    BY <2>0, <1>inv, <1>pc, Apart, NoRecords, <2>closing
    DEF CloseFdDoes, Moves, OwnInv, ClosingBare, HasCtx
  <2>9. QED  BY <2>1, <2>2, <2>3, <2>4, <2>5, <2>6, <2>7, <2>8 DEF OwnInv
<1>15. ASSUME NEW t \in Threads, CloseUnset(t)
      PROVE  OwnInv'
  <2>0. CloseUnsetDoes(t)  BY <1>15, CloseUnsetEffect
  <2>1. NothingOfNone'
    BY <2>0, <1>inv DEF CloseUnsetDoes, Moves, OwnInv, NothingOfNone
  <2>2. FileHeld'
    BY <2>0, <1>inv, <1>pc, <1>call, <1>sock, Apart, NoRecords, ClosingKind, Closers
    DEF CloseUnsetDoes, Moves, OwnInv, FileHeld, ClosedGone, Making
  <2>3. SocketHolds'
    BY <2>0, <1>inv, <1>pc, <1>call, <1>sock, Apart, NoRecords, ClosingKind, Closers,
       ClosersAlone
    DEF CloseUnsetDoes, Moves, OwnInv, SocketHolds, ClosePoints
  <2>4. CtxOfFile'
    BY <2>0, <1>inv DEF CloseUnsetDoes, Moves, OwnInv, CtxOfFile, HasCtx, Open
  <2>5. ClosingHas'
    BY <2>0, <1>inv, <1>pc, <1>call, <1>sock, Apart, NoRecords, ClosingKind, Closers,
       ClosersAlone
    DEF CloseUnsetDoes, Moves, OwnInv, ClosingHas, ClosePoints
  <2>6. ClosingOpen'
    BY <2>0, <1>inv, <1>pc, <1>call, <1>sock, Apart, NoRecords, ClosingKind, Closers,
       ClosersAlone
    DEF CloseUnsetDoes, Moves, OwnInv, ClosingOpen, ClosePoints
  <2>7. ClosedGone'
    BY <2>0, <1>inv, <1>pc, <1>call, <1>sock, Apart, NoRecords, ClosingKind, Closers,
       ClosersAlone
    DEF CloseUnsetDoes, Moves, OwnInv, ClosedGone, ClosePoints
  <2>8. ClosingBare'
    BY <2>0, <1>inv, <1>pc, <1>call, <1>sock, Apart, NoRecords, ClosingKind, Closers,
       ClosersAlone
    DEF CloseUnsetDoes, Moves, OwnInv, ClosingBare, HasCtx, ClosePoints
  <2>9. QED  BY <2>1, <2>2, <2>3, <2>4, <2>5, <2>6, <2>7, <2>8 DEF OwnInv
<1>16. ASSUME NEW t \in Threads, StopClear(t)
      PROVE  OwnInv'
  <2>0. StopClearDoes(t)  BY <1>16, StopClearEffect
  <2>1. NothingOfNone'
    BY <2>0, <1>inv DEF StopClearDoes, Moves, OwnInv, NothingOfNone
  <2>2. FileHeld'
    BY <2>0, <1>inv, <1>pc, <1>call, Apart, NoRecords, ClosingKind
    DEF StopClearDoes, Moves, OwnInv, FileHeld, Making
  <2>3. SocketHolds'
    BY <2>0, <1>inv, <1>pc, <1>call, Apart, NoRecords, ClosingKind
    DEF StopClearDoes, Moves, OwnInv, SocketHolds
  <2>4. CtxOfFile'
    BY <2>0, <1>inv DEF StopClearDoes, Moves, OwnInv, CtxOfFile, HasCtx, Open
  <2>5. ClosingHas'
    BY <2>0, <1>inv, <1>pc, <1>call, Apart, NoRecords, ClosingKind
    DEF StopClearDoes, Moves, OwnInv, ClosingHas, ClosePoints
  <2>6. ClosingOpen'
    BY <2>0, <1>inv, <1>pc, <1>call, Apart, NoRecords, ClosingKind
    DEF StopClearDoes, Moves, OwnInv, ClosingOpen, ClosePoints
  <2>7. ClosedGone'
    BY <2>0, <1>inv, <1>pc, <1>call, Apart, NoRecords, ClosingKind
    DEF StopClearDoes, Moves, OwnInv, ClosedGone
  <2>8. ClosingBare'
    BY <2>0, <1>inv, <1>pc, <1>call, Apart, NoRecords, ClosingKind
    DEF StopClearDoes, Moves, OwnInv, ClosingBare, HasCtx
  <2>9. QED  BY <2>1, <2>2, <2>3, <2>4, <2>5, <2>6, <2>7, <2>8 DEF OwnInv
<1>17. ASSUME NEW t \in Threads, NEW c \in Clients, Accept(t, c)
      PROVE  OwnInv'
  <2>0. AcceptDoes(t, c)  BY <1>17, AcceptEffect
  <2>closing. \A j \in Tasks : ClosingOf(j)' = ClosingOf(j)
    BY <2>0, <1>call, Apart, ClosingKind DEF AcceptDoes
  <2>1. NothingOfNone'
    BY <2>0, <1>inv, <1>file, Apart, NoRecords DEF AcceptDoes, Moves, OwnInv, NothingOfNone
  <2>2. FileHeld'
    BY <2>0, <1>inv, <1>pc, <1>call, <1>file, Apart, NoRecords
    DEF AcceptDoes, Moves, OwnInv, FileHeld, Making
  <2>3. SocketHolds'
    BY <2>0, <1>inv, <1>pc, <1>call, <1>file, Apart, NoRecords, <2>closing
    DEF AcceptDoes, Moves, OwnInv, SocketHolds, Open
  <2>4. CtxOfFile'
    BY <2>0, <1>inv, <1>file, Apart, NoRecords
    DEF AcceptDoes, Moves, OwnInv, CtxOfFile, HasCtx, Open
  <2>5. ClosingHas'
    BY <2>0, <1>inv, <1>pc, <1>call, Apart, NoRecords, <2>closing
    DEF AcceptDoes, Moves, OwnInv, ClosingHas, ClosePoints
  <2>6. ClosingOpen'
    BY <2>0, <1>inv, <1>pc, <1>call, <1>file, Apart, NoRecords, <2>closing, Closers
    DEF AcceptDoes, Moves, OwnInv, ClosingOpen, ClosePoints, Open
  <2>7. ClosedGone'
    BY <2>0, <1>inv, <1>pc, <1>call, <1>file, <1>client, Apart, NoRecords, <2>closing,
       Closers
    DEF AcceptDoes, Moves, ClientInv, OwnInv, ClosedGone, NotAccepted, Making, ClosePoints
  <2>8. ClosingBare'
    BY <2>0, <1>inv, <1>pc, <1>call, Apart, NoRecords, <2>closing
    DEF AcceptDoes, Moves, OwnInv, ClosingBare, HasCtx
  <2>9. QED  BY <2>1, <2>2, <2>3, <2>4, <2>5, <2>6, <2>7, <2>8 DEF OwnInv
<1>18. ASSUME NEW t \in Threads, NEW on \in BOOLEAN, Fcntl(t, on)
      PROVE  OwnInv'
  <2>0. FcntlDoes(t, on)  BY <1>18, FcntlEffect
  <2>closing. \A j \in Tasks : ClosingOf(j)' = ClosingOf(j)
    BY <2>0, <1>call, Apart, ClosingKind DEF FcntlDoes
  <2>1. NothingOfNone'
    BY <2>0, <1>inv, <1>ctx, Apart, NoRecords
    DEF FcntlDoes, Moves, OwnInv, NothingOfNone, CtxOfFile, HasCtx, Open
  <2>2. FileHeld'
    BY <2>0, <1>inv, <1>pc, Apart, NoRecords DEF FcntlDoes, Moves, OwnInv, FileHeld, Making
  <2>3. SocketHolds'
    BY <2>0, <1>inv, <1>pc, Apart, NoRecords, <2>closing
    DEF FcntlDoes, Moves, OwnInv, SocketHolds
  <2>4. CtxOfFile'
    BY <2>0, <1>inv, <1>ctx, Apart, NoRecords
    DEF FcntlDoes, Moves, OwnInv, CtxOfFile, NothingOfNone, HasCtx, Open
  <2>5. ClosingHas'
    BY <2>0, <1>inv, <1>pc, Apart, NoRecords, <2>closing
    DEF FcntlDoes, Moves, OwnInv, ClosingHas, ClosePoints
  <2>6. ClosingOpen'
    BY <2>0, <1>inv, <1>pc, Apart, NoRecords, <2>closing
    DEF FcntlDoes, Moves, OwnInv, ClosingOpen, ClosePoints
  <2>7. ClosedGone'
    BY <2>0, <1>inv, <1>pc, Apart, NoRecords, <2>closing
    DEF FcntlDoes, Moves, OwnInv, ClosedGone
  <2>8. ClosingBare'
    BY <2>0, <1>inv, <1>pc, <1>ctx, Apart, NoRecords, <2>closing
    DEF FcntlDoes, Moves, OwnInv, ClosingBare, HasCtx
  <2>9. QED  BY <2>1, <2>2, <2>3, <2>4, <2>5, <2>6, <2>7, <2>8 DEF OwnInv
<1>19. ASSUME NEW t \in Threads, NEW on \in BOOLEAN, Ioctl(t, on)
      PROVE  OwnInv'
  <2>0. IoctlDoes(t, on)  BY <1>19, IoctlEffect
  <2>closing. \A j \in Tasks : ClosingOf(j)' = ClosingOf(j)
    BY <2>0, <1>call, Apart, ClosingKind DEF IoctlDoes
  <2>1. NothingOfNone'
    BY <2>0, <1>inv, <1>file, <1>ctx, Apart, NoRecords
    DEF IoctlDoes, Moves, OwnInv, NothingOfNone, CtxOfFile, HasCtx, Open
  <2>2. FileHeld'
    BY <2>0, <1>inv, <1>pc, <1>file, Apart, NoRecords
    DEF IoctlDoes, Moves, OwnInv, FileHeld, Making
  <2>3. SocketHolds'
    BY <2>0, <1>inv, <1>pc, <1>file, Apart, NoRecords, <2>closing
    DEF IoctlDoes, Moves, OwnInv, SocketHolds
  <2>4. CtxOfFile'
    BY <2>0, <1>inv, <1>file, <1>ctx, Apart, NoRecords
    DEF IoctlDoes, Moves, OwnInv, CtxOfFile, NothingOfNone, HasCtx, Open
  <2>5. ClosingHas'
    BY <2>0, <1>inv, <1>pc, Apart, NoRecords, <2>closing
    DEF IoctlDoes, Moves, OwnInv, ClosingHas, ClosePoints
  <2>6. ClosingOpen'
    BY <2>0, <1>inv, <1>pc, <1>file, Apart, NoRecords, <2>closing
    DEF IoctlDoes, Moves, OwnInv, ClosingOpen, ClosePoints
  <2>7. ClosedGone'
    BY <2>0, <1>inv, <1>pc, <1>file, Apart, NoRecords, <2>closing
    DEF IoctlDoes, Moves, OwnInv, ClosedGone
  <2>8. ClosingBare'
    BY <2>0, <1>inv, <1>pc, <1>ctx, Apart, NoRecords, <2>closing
    DEF IoctlDoes, Moves, OwnInv, ClosingBare, HasCtx
  <2>9. QED  BY <2>1, <2>2, <2>3, <2>4, <2>5, <2>6, <2>7, <2>8 DEF OwnInv
<1>20. ASSUME NEW t \in Threads, NEW l \in Listeners, StopSocket(t, l)
      PROVE  OwnInv'
  <2>0. StopSocketDoes(t, l)  BY <1>20, StopSocketEffect
  <2>1. NothingOfNone'
    BY <2>0, <1>inv DEF StopSocketDoes, Moves, Cancels, OwnInv, NothingOfNone
  <2>2. FileHeld'
    BY <2>0, <1>inv, <1>pc, <1>call, Apart, NoRecords, ClosingKind
    DEF StopSocketDoes, Moves, Cancels, OwnInv, FileHeld, Making
  <2>3. SocketHolds'
    BY <2>0, <1>inv, <1>pc, <1>call, Apart, NoRecords, ClosingKind
    DEF StopSocketDoes, Moves, Cancels, OwnInv, SocketHolds
  <2>4. CtxOfFile'
    BY <2>0, <1>inv DEF StopSocketDoes, Moves, Cancels, OwnInv, CtxOfFile, HasCtx, Open
  <2>5. ClosingHas'
    BY <2>0, <1>inv, <1>pc, <1>call, Apart, NoRecords, ClosingKind
    DEF StopSocketDoes, Moves, Cancels, OwnInv, ClosingHas, ClosePoints
  <2>6. ClosingOpen'
    BY <2>0, <1>inv, <1>pc, <1>call, Apart, NoRecords, ClosingKind, Closers
    DEF StopSocketDoes, Moves, Cancels, StopInv, OwnInv, ClosingOpen, SocketHolds,
        OneStopper, LoopIsLast, ClosePoints, Running, Alive, Points
  <2>7. ClosedGone'
    BY <2>0, <1>inv, <1>pc, <1>call, Apart, NoRecords, ClosingKind
    DEF StopSocketDoes, Moves, Cancels, OwnInv, ClosedGone
  <2>8. ClosingBare'
    BY <2>0, <1>inv, <1>pc, <1>call, Apart, NoRecords, ClosingKind
    DEF StopSocketDoes, Moves, Cancels, OwnInv, ClosingBare, HasCtx
  <2>9. QED  BY <2>1, <2>2, <2>3, <2>4, <2>5, <2>6, <2>7, <2>8 DEF OwnInv
<1>21. ASSUME NEW fd \in Fds, Trigger(fd)
      PROVE  OwnInv'
  <2>0. TriggerDoes(fd)  BY <1>21, TriggerEffect
  <2>closing. \A j \in Tasks : ClosingOf(j)' = ClosingOf(j)
    BY <2>0, <1>call, Apart, ClosingKind DEF TriggerDoes
  <2>1. QED
    BY <2>0, <1>inv, <1>pc, <1>call, Apart, NoRecords, <2>closing
    DEF TriggerDoes, OwnInv, NothingOfNone, FileHeld, SocketHolds, CtxOfFile,
        ClosingHas, ClosingOpen, ClosedGone, ClosingBare, Making, ClosePoints, HasCtx,
        Open
<1>22. ASSUME NEW l \in Listeners, Bind(l)
      PROVE  OwnInv'
  <2>0. BindDoes(l)  BY <1>22, BindEffect
  <2>closing. \A j \in Tasks : ClosingOf(j)' = ClosingOf(j)
    BY <2>0, <1>call, Apart, ClosingKind DEF BindDoes
  <2>1. NothingOfNone'
    BY <2>0, <1>inv, <1>file, <1>ctx, Apart, NoRecords DEF BindDoes, OwnInv, NothingOfNone
  <2>2. FileHeld'
    BY <2>0, <1>inv, <1>file, <1>sock, Apart, NoRecords
    DEF BindDoes, OwnInv, FileHeld, Making
  <2>3. SocketHolds'
    BY <2>0, <1>inv, <1>file, <1>sock, Apart, NoRecords, <2>closing
    DEF BindDoes, OwnInv, SocketHolds, Open
  <2>4. CtxOfFile'
    BY <2>0, <1>inv, <1>file, <1>ctx, Apart, NoRecords
    DEF BindDoes, OwnInv, CtxOfFile, HasCtx, Open
  <2>5. ClosingHas'
    BY <2>0, <1>inv, <1>sock, Apart, NoRecords, <2>closing
    DEF BindDoes, OwnInv, ClosingHas, ClosePoints
  <2>6. ClosingOpen'
    BY <2>0, <1>inv, <1>file, <1>sock, Apart, NoRecords, <2>closing, Closers
    DEF BindDoes, OwnInv, ClosingOpen, ClosingHas, ClosePoints, Open
  <2>7. ClosedGone'
    BY <2>0, <1>inv, <1>file, <1>sock, Apart, NoRecords, <2>closing, Closers
    DEF BindDoes, OwnInv, ClosedGone, ClosingHas, ClosePoints, ClosePoints
  <2>8. ClosingBare'
    BY <2>0, <1>inv, <1>ctx, <1>sock, <1>file, Apart, NoRecords, <2>closing, Closers
    DEF BindDoes, OwnInv, ClosingBare, ClosingOpen, ClosingHas, HasCtx, ClosePoints, Open
  <2>9. QED  BY <2>1, <2>2, <2>3, <2>4, <2>5, <2>6, <2>7, <2>8 DEF OwnInv
<1>23. CASE BindFails
  <2>0. BindFailsDoes  BY <1>23, BindFailsEffect
  <2>closing. \A j \in Tasks : ClosingOf(j)' = ClosingOf(j)
    BY <2>0, <1>call, Apart, ClosingKind DEF BindFailsDoes
  <2>1. NothingOfNone'
    BY <2>0, <1>inv, <1>file, <1>ctx, Apart, NoRecords
    DEF BindFailsDoes, OwnInv, NothingOfNone
  <2>2. FileHeld'
    BY <2>0, <1>inv, <1>file, <1>sock, Apart, NoRecords, <2>closing, Fields
    DEF BindFailsDoes, OwnInv, FileHeld, Making
  <2>3. SocketHolds'
    BY <2>0, <1>inv, <1>file, <1>sock, Apart, NoRecords, <2>closing
    DEF BindFailsDoes, OwnInv, SocketHolds
  <2>4. CtxOfFile'
    BY <2>0, <1>inv, <1>file, <1>ctx, Apart, NoRecords
    DEF BindFailsDoes, OwnInv, CtxOfFile, HasCtx, Open
  <2>5. ClosingHas'
    BY <2>0, <1>inv, <1>sock, Apart, NoRecords, <2>closing, Closers
    DEF BindFailsDoes, OwnInv, ClosingHas, ClosePoints, Alive, Running, Points
  <2>6. ClosingOpen'
    BY <2>0, <1>inv, <1>file, <1>sock, Apart, NoRecords, <2>closing, Closers
    DEF BindFailsDoes, OwnInv, ClosingOpen, ClosePoints, Alive, Running, Points
  <2>7. ClosedGone'
    BY <2>0, <1>inv, <1>file, <1>sock, Apart, NoRecords, <2>closing, Closers
    DEF BindFailsDoes, OwnInv, ClosedGone, Alive, Running, Points, ClosePoints
  <2>8. ClosingBare'
    BY <2>0, <1>inv, <1>ctx, <1>sock, Apart, NoRecords, <2>closing, Closers
    DEF BindFailsDoes, OwnInv, ClosingBare, HasCtx, Alive, Running, Points, ClosePoints
  <2>9. QED  BY <2>1, <2>2, <2>3, <2>4, <2>5, <2>6, <2>7, <2>8 DEF OwnInv
<1>24. CASE Start
  <2>0. StartDoes  BY <1>24, StartEffect
  <2>closing. \A j \in Tasks : ClosingOf(j)' = ClosingOf(j)
    BY <2>0, <1>call, Apart, ClosingKind DEF StartDoes
  <2>1. QED
    BY <2>0, <1>inv, <1>pc, <1>call, Apart, NoRecords, <2>closing
    DEF StartDoes, OwnInv, NothingOfNone, FileHeld, SocketHolds, CtxOfFile, ClosingHas,
        ClosingOpen, ClosedGone, ClosingBare, Making, ClosePoints, HasCtx, Open
<1>25. CASE Stop
  <2>0. StopDoes  BY <1>25, StopEffect
  <2>closing. \A j \in Tasks : ClosingOf(j)' = ClosingOf(j)
    BY <2>0, <1>call, Apart, ClosingKind DEF StopDoes
  <2>1. QED
    BY <2>0, <1>inv, <1>pc, <1>call, Apart, NoRecords, <2>closing
    DEF StopDoes, OwnInv, NothingOfNone, FileHeld, SocketHolds, CtxOfFile, ClosingHas,
        ClosingOpen, ClosedGone, ClosingBare, Making, ClosePoints, HasCtx, Open
<1>26. CASE Destroy
  <2>0. DestroyDoes  BY <1>26, DestroyEffect
  <2>closing. \A j \in Tasks : ClosingOf(j)' = ClosingOf(j)
    BY <2>0, <1>call, Apart, ClosingKind DEF DestroyDoes
  <2>1. NothingOfNone'
    BY <2>0, <1>inv, <1>file, <1>ctx, Apart, NoRecords
    DEF DestroyDoes, OwnInv, NothingOfNone
  <2>2. FileHeld'
    BY <2>0, <1>inv, <1>file, <1>sock, Apart, NoRecords, <2>closing, Fields
    DEF DestroyDoes, OwnInv, FileHeld, Making
  <2>3. SocketHolds'
    BY <2>0, <1>inv, <1>file, <1>sock, Apart, NoRecords, <2>closing
    DEF DestroyDoes, OwnInv, SocketHolds
  <2>4. CtxOfFile'
    BY <2>0, <1>inv, <1>file, <1>ctx, Apart, NoRecords
    DEF DestroyDoes, OwnInv, CtxOfFile, HasCtx, Open
  <2>5. ClosingHas'
    BY <2>0, <1>inv, <1>sock, Apart, NoRecords, <2>closing, Closers
    DEF DestroyDoes, OwnInv, ClosingHas, ClosePoints, Alive, Running, Points
  <2>6. ClosingOpen'
    BY <2>0, <1>inv, <1>file, <1>sock, Apart, NoRecords, <2>closing, Closers
    DEF DestroyDoes, OwnInv, ClosingOpen, ClosePoints, Alive, Running, Points
  <2>7. ClosedGone'
    BY <2>0, <1>inv, <1>file, <1>sock, Apart, NoRecords, <2>closing, Closers
    DEF DestroyDoes, OwnInv, ClosedGone, Alive, Running, Points, ClosePoints
  <2>8. ClosingBare'
    BY <2>0, <1>inv, <1>ctx, <1>sock, Apart, NoRecords, <2>closing, Closers
    DEF DestroyDoes, OwnInv, ClosingBare, HasCtx, Alive, Running, Points, ClosePoints
  <2>9. QED  BY <2>1, <2>2, <2>3, <2>4, <2>5, <2>6, <2>7, <2>8 DEF OwnInv
<1>27. ASSUME NEW c \in Clients, Speak(c)
      PROVE  OwnInv'
  <2>0. SpeakDoes(c)  BY <1>27, SpeakEffect
  <2>closing. \A j \in Tasks : ClosingOf(j)' = ClosingOf(j)
    BY <2>0, <1>call, Apart, ClosingKind DEF SpeakDoes
  <2>1. QED
    BY <2>0, <1>inv, <1>pc, <1>call, Apart, NoRecords, <2>closing
    DEF SpeakDoes, OwnInv, NothingOfNone, FileHeld, SocketHolds, CtxOfFile, ClosingHas,
        ClosingOpen, ClosedGone, ClosingBare, Making, ClosePoints, HasCtx, Open
<1>28. ASSUME NEW c \in Clients, NEW l \in Listeners, Connect(c, l)
      PROVE  OwnInv'
  <2>0. ConnectDoes(c, l)  BY <1>28, ConnectEffect
  <2>closing. \A j \in Tasks : ClosingOf(j)' = ClosingOf(j)
    BY <2>0, <1>call, Apart, ClosingKind DEF ConnectDoes
  <2>1. QED
    BY <2>0, <1>inv, <1>pc, <1>call, Apart, NoRecords, <2>closing
    DEF ConnectDoes, OwnInv, NothingOfNone, FileHeld, SocketHolds, CtxOfFile,
        ClosingHas, ClosingOpen, ClosedGone, ClosingBare, Making, ClosePoints, HasCtx,
        Open
<1>29. QED
  BY <1>1, <1>2, <1>3, <1>4, <1>5, <1>6, <1>7, <1>8, <1>9, <1>10, <1>11, <1>12, <1>13,
     <1>14, <1>15, <1>16, <1>17, <1>18, <1>19, <1>20, <1>21, <1>22, <1>23, <1>24, <1>25,
     <1>26, <1>27, <1>28
  DEF Next, ThreadStep, OwnerStep, PeerStep

\* A step makes no open descriptor blocking without a reason.
LEMMA ModeStep ==
    ASSUME IInv, [Next]_vars
    PROVE  ModeInv'
<1>inv. TypeOK /\ PlaceInv /\ ClientInv /\ OwnInv /\ ModeInv  BY DEF IInv
<1>pc. pc \in [Tasks -> Points]  BY <1>inv DEF TypeOK
<1>call. call \in [Tasks -> Calls]  BY <1>inv DEF TypeOK
<1>file. file \in [Fds -> Files]  BY <1>inv DEF TypeOK
<1>1. CASE UNCHANGED vars
  BY <1>1, <1>inv DEF vars, poolVars, fdVars, serverVars, ModeInv, Open
<1>2. ASSUME NEW t \in Threads, Take(t)
      PROVE  ModeInv'
  <2>0. TakeDoes(t)  BY <1>2, TakeEffect
  <2>1. QED
    BY <2>0, <1>inv, <1>pc, Apart DEF TakeDoes, ModeInv, Open
<1>3. ASSUME NEW t \in Threads, CheckStop(t)
      PROVE  ModeInv'
  <2>0. CheckStopDoes(t)  BY <1>3, CheckStopEffect
  <2>1. QED
    BY <2>0, <1>inv, <1>pc, <1>call, Apart DEF CheckStopDoes, Moves, ModeInv, Open
<1>4. ASSUME NEW t \in Threads, Lookup(t)
      PROVE  ModeInv'
  <2>0. LookupDoes(t)  BY <1>4, LookupEffect
  <2>1. QED
    BY <2>0, <1>inv, <1>pc, <1>call, Apart DEF LookupDoes, Moves, ModeInv, Open
<1>5. ASSUME NEW t \in Threads, CallFails(t)
      PROVE  ModeInv'
  <2>0. CallFailsDoes(t)  BY <1>5, CallFailsEffect
  <2>1. QED
    BY <2>0, <1>inv, <1>pc, Apart DEF CallFailsDoes, Moves, ModeInv, Open
<1>6. ASSUME NEW t \in Threads, CallWaits(t)
      PROVE  ModeInv'
  <2>0. CallWaitsDoes(t)  BY <1>6, CallWaitsEffect
  <2>1. QED
    BY <2>0, <1>inv, <1>pc, Apart DEF CallWaitsDoes, Moves, ModeInv, Open
<1>7. ASSUME NEW t \in Threads, Unblock(t)
      PROVE  ModeInv'
  <2>0. UnblockDoes(t)  BY <1>7, UnblockEffect
  <2>1. QED
    BY <2>0, <1>inv, <1>pc, Apart DEF UnblockDoes, Moves, ModeInv, Open
<1>8. ASSUME NEW t \in Threads, AddEvent(t)
      PROVE  ModeInv'
  <2>0. AddEventDoes(t)  BY <1>8, AddEventEffect
  <2>1. QED
    BY <2>0, <1>inv, <1>pc, Apart DEF AddEventDoes, Moves, ModeInv, Open
<1>9. ASSUME NEW t \in Threads, CreateCtx(t)
      PROVE  ModeInv'
  <2>0. CreateCtxDoes(t)  BY <1>9, CreateCtxEffect
  <2>1. QED
    BY <2>0, <1>inv, <1>pc, <1>file, Apart DEF CreateCtxDoes, Moves, ModeInv, Open
<1>10. ASSUME NEW t \in Threads, InitSocket(t)
      PROVE  ModeInv'
  <2>0. InitSocketDoes(t)  BY <1>10, InitSocketEffect
  <2>1. QED
    BY <2>0, <1>inv, <1>pc, <1>call, Apart DEF InitSocketDoes, ModeInv, Open
<1>11. ASSUME NEW t \in Threads, Receive(t)
      PROVE  ModeInv'
  <2>0. ReceiveDoes(t)  BY <1>11, ReceiveEffect
  <2>1. QED
    BY <2>0, <1>inv, <1>pc, Apart DEF ReceiveDoes, Moves, ModeInv, Open
<1>12. ASSUME NEW t \in Threads, CloseCancel(t)
      PROVE  ModeInv'
  <2>0. CloseCancelDoes(t)  BY <1>12, CloseCancelEffect
  <2>1. QED
    BY <2>0, <1>inv, <1>pc, Apart DEF CloseCancelDoes, Moves, Cancels, ModeInv, Open
<1>13. ASSUME NEW t \in Threads, CloseDel(t)
      PROVE  ModeInv'
  <2>0. CloseDelDoes(t)  BY <1>13, CloseDelEffect
  <2>1. QED
    BY <2>0, <1>inv, <1>pc, Apart DEF CloseDelDoes, Moves, ModeInv, Open
<1>14. ASSUME NEW t \in Threads, CloseFd(t)
      PROVE  ModeInv'
  <2>0. CloseFdDoes(t)  BY <1>14, CloseFdEffect
  <2>1. QED
    BY <2>0, <1>inv, <1>pc, <1>file, Apart DEF CloseFdDoes, Moves, ModeInv, Open
<1>15. ASSUME NEW t \in Threads, CloseUnset(t)
      PROVE  ModeInv'
  <2>0. CloseUnsetDoes(t)  BY <1>15, CloseUnsetEffect
  <2>1. QED
    BY <2>0, <1>inv, <1>pc, <1>call, Apart DEF CloseUnsetDoes, Moves, ModeInv, Open
<1>16. ASSUME NEW t \in Threads, StopClear(t)
      PROVE  ModeInv'
  <2>0. StopClearDoes(t)  BY <1>16, StopClearEffect
  <2>1. QED
    BY <2>0, <1>inv, <1>pc, <1>call, Apart DEF StopClearDoes, Moves, ModeInv, Open
<1>17. ASSUME NEW t \in Threads, NEW c \in Clients, Accept(t, c)
      PROVE  ModeInv'
  <2>0. AcceptDoes(t, c)  BY <1>17, AcceptEffect
  <2>1. QED
    BY <2>0, <1>inv, <1>pc, <1>call, <1>file, Apart DEF AcceptDoes, Moves, ModeInv, Open
<1>18. ASSUME NEW t \in Threads, NEW on \in BOOLEAN, Fcntl(t, on)
      PROVE  ModeInv'
  <2>0. FcntlDoes(t, on)  BY <1>18, FcntlEffect
  <2>1. QED
    BY <2>0, <1>inv, <1>pc, Apart DEF FcntlDoes, Moves, ModeInv, Open
<1>19. ASSUME NEW t \in Threads, NEW on \in BOOLEAN, Ioctl(t, on)
      PROVE  ModeInv'
  <2>0. IoctlDoes(t, on)  BY <1>19, IoctlEffect
  <2>1. QED
    BY <2>0, <1>inv, <1>pc, <1>file, Apart DEF IoctlDoes, Moves, ModeInv, Open
<1>20. ASSUME NEW t \in Threads, NEW l \in Listeners, StopSocket(t, l)
      PROVE  ModeInv'
  <2>0. StopSocketDoes(t, l)  BY <1>20, StopSocketEffect
  <2>1. QED
    BY <2>0, <1>inv, <1>pc, <1>call, Apart DEF StopSocketDoes, Moves, Cancels, ModeInv, Open
<1>21. ASSUME NEW fd \in Fds, Trigger(fd)
      PROVE  ModeInv'
  <2>0. TriggerDoes(fd)  BY <1>21, TriggerEffect
  <2>1. QED
    BY <2>0, <1>inv DEF TriggerDoes, Cancels, ModeInv, Open
<1>22. ASSUME NEW l \in Listeners, Bind(l)
      PROVE  ModeInv'
  <2>0. BindDoes(l)  BY <1>22, BindEffect
  <2>1. QED
    BY <2>0, <1>inv, <1>file, Apart DEF BindDoes, ModeInv, Open
<1>23. CASE BindFails
  <2>0. BindFailsDoes  BY <1>23, BindFailsEffect
  <2>1. QED
    BY <2>0, <1>inv, <1>file, Apart DEF BindFailsDoes, ModeInv, Open
<1>24. CASE Start
  <2>0. StartDoes  BY <1>24, StartEffect
  <2>1. QED
    BY <2>0, <1>inv, <1>pc, Apart DEF StartDoes, ModeInv, Open
<1>25. CASE Stop
  <2>0. StopDoes  BY <1>25, StopEffect
  <2>1. QED
    BY <2>0, <1>inv, <1>pc, Apart DEF StopDoes, ModeInv, Open
<1>26. CASE Destroy
  <2>0. DestroyDoes  BY <1>26, DestroyEffect
  <2>1. QED
    BY <2>0, <1>inv, <1>file, Apart DEF DestroyDoes, ModeInv, Open
<1>27. ASSUME NEW c \in Clients, Speak(c)
      PROVE  ModeInv'
  <2>0. SpeakDoes(c)  BY <1>27, SpeakEffect
  <2>1. QED
    BY <2>0, <1>inv DEF SpeakDoes, ModeInv, Open
<1>28. ASSUME NEW c \in Clients, NEW l \in Listeners, Connect(c, l)
      PROVE  ModeInv'
  <2>0. ConnectDoes(c, l)  BY <1>28, ConnectEffect
  <2>1. QED
    BY <2>0, <1>inv DEF ConnectDoes, ModeInv, Open
<1>29. QED
  BY <1>1, <1>2, <1>3, <1>4, <1>5, <1>6, <1>7, <1>8, <1>9, <1>10, <1>11, <1>12, <1>13,
     <1>14, <1>15, <1>16, <1>17, <1>18, <1>19, <1>20, <1>21, <1>22, <1>23, <1>24, <1>25,
     <1>26, <1>27, <1>28
  DEF Next, ThreadStep, OwnerStep, PeerStep

\* A step leaves the loops of a running server with their sockets.
LEMMA RunStep ==
    ASSUME IInv, [Next]_vars
    PROVE  RunInv'
<1>inv. TypeOK /\ PlaceInv /\ StopInv /\ ClientInv /\ RunInv  BY DEF IInv
<1>pc. pc \in [Tasks -> Points]  BY <1>inv DEF TypeOK
<1>call. call \in [Tasks -> Calls]  BY <1>inv DEF TypeOK
<1>sock. sock \in [Sockets -> Fds \cup {-1}]  BY <1>inv DEF TypeOK
<1>1. CASE UNCHANGED vars
  BY <1>1, <1>inv DEF vars, poolVars, fdVars, serverVars, RunInv, Alive
<1>2. ASSUME NEW t \in Threads, Take(t)
      PROVE  RunInv'
  <2>0. TakeDoes(t)  BY <1>2, TakeEffect
  <2>1. QED
    BY <2>0, <1>inv, <1>pc, Kinds, NoRecords, Fields DEF TakeDoes, RunInv, Alive
<1>3. ASSUME NEW t \in Threads, CheckStop(t)
      PROVE  RunInv'
  <2>0. CheckStopDoes(t)  BY <1>3, CheckStopEffect
  <2>1. QED
    BY <2>0, <1>inv, <1>pc, <1>call, Kinds, NoRecords, Fields
    DEF CheckStopDoes, Moves, RunInv, Alive
<1>4. ASSUME NEW t \in Threads, Lookup(t)
      PROVE  RunInv'
  <2>0. LookupDoes(t)  BY <1>4, LookupEffect
  <2>1. QED
    BY <2>0, <1>inv, <1>pc, <1>call, Kinds, NoRecords, Fields
    DEF LookupDoes, Moves, RunInv, Alive
<1>5. ASSUME NEW t \in Threads, CallFails(t)
      PROVE  RunInv'
  <2>0. CallFailsDoes(t)  BY <1>5, CallFailsEffect
  <2>1. QED
    BY <2>0, <1>inv, <1>pc, Kinds, NoRecords, Fields DEF CallFailsDoes, Moves, RunInv, Alive
<1>6. ASSUME NEW t \in Threads, CallWaits(t)
      PROVE  RunInv'
  <2>0. CallWaitsDoes(t)  BY <1>6, CallWaitsEffect
  <2>1. QED
    BY <2>0, <1>inv, <1>pc, Kinds, NoRecords, Fields DEF CallWaitsDoes, Moves, RunInv, Alive
<1>7. ASSUME NEW t \in Threads, Unblock(t)
      PROVE  RunInv'
  <2>0. UnblockDoes(t)  BY <1>7, UnblockEffect
  <2>1. QED
    BY <2>0, <1>inv, <1>pc, Kinds, NoRecords, Fields DEF UnblockDoes, Moves, RunInv, Alive
<1>8. ASSUME NEW t \in Threads, AddEvent(t)
      PROVE  RunInv'
  <2>0. AddEventDoes(t)  BY <1>8, AddEventEffect
  <2>1. QED
    BY <2>0, <1>inv, <1>pc, Kinds, NoRecords, Fields DEF AddEventDoes, Moves, RunInv, Alive
<1>9. ASSUME NEW t \in Threads, CreateCtx(t)
      PROVE  RunInv'
  <2>0. CreateCtxDoes(t)  BY <1>9, CreateCtxEffect
  <2>1. QED
    BY <2>0, <1>inv, <1>pc, Kinds, NoRecords, Fields DEF CreateCtxDoes, Moves, RunInv, Alive
<1>10. ASSUME NEW t \in Threads, InitSocket(t)
      PROVE  RunInv'
  <2>0. InitSocketDoes(t)  BY <1>10, InitSocketEffect
  <2>1. QED
    BY <2>0, <1>inv, <1>pc, <1>call, <1>sock, Kinds, NoRecords, Fields
    DEF InitSocketDoes, RunInv, Alive
<1>11. ASSUME NEW t \in Threads, Receive(t)
      PROVE  RunInv'
  <2>0. ReceiveDoes(t)  BY <1>11, ReceiveEffect
  <2>1. QED
    BY <2>0, <1>inv, <1>pc, Kinds, NoRecords, Fields DEF ReceiveDoes, Moves, RunInv, Alive
<1>12. ASSUME NEW t \in Threads, CloseCancel(t)
      PROVE  RunInv'
  <2>0. CloseCancelDoes(t)  BY <1>12, CloseCancelEffect
  <2>1. QED
    BY <2>0, <1>inv, <1>pc, Kinds, NoRecords, Fields
    DEF CloseCancelDoes, Moves, Cancels, RunInv, Alive
<1>13. ASSUME NEW t \in Threads, CloseDel(t)
      PROVE  RunInv'
  <2>0. CloseDelDoes(t)  BY <1>13, CloseDelEffect
  <2>1. QED
    BY <2>0, <1>inv, <1>pc, Kinds, NoRecords, Fields DEF CloseDelDoes, Moves, RunInv, Alive
<1>14. ASSUME NEW t \in Threads, CloseFd(t)
      PROVE  RunInv'
  <2>0. CloseFdDoes(t)  BY <1>14, CloseFdEffect
  <2>1. QED
    BY <2>0, <1>inv, <1>pc, Kinds, NoRecords, Fields DEF CloseFdDoes, Moves, RunInv, Alive
<1>15. ASSUME NEW t \in Threads, CloseUnset(t)
      PROVE  RunInv'
  <2>0. CloseUnsetDoes(t)  BY <1>15, CloseUnsetEffect
  <2>1. \A k \in Loops : pc'[k] \in {"none", "queued", "done"} => call'[k].fd = -1
    BY <2>0, <1>inv, <1>pc, <1>call, Apart, NoRecords DEF CloseUnsetDoes, Moves, RunInv
  <2>2. ASSUME ~early, ~m_stop
        PROVE  /\ \A k \in Stoppers : ~Alive(k)'
               /\ \A k \in Loops : Alive(k)' =>
                     k.of \in m_socks /\ (call'[k].fd # -1 => call'[k].fd = sock'[k.of])
    <3>1. run[t] \in Tasks /\ pc[run[t]] \in ClosePoints /\ run[t] \notin Stoppers
      BY <2>0, <1>inv, <2>2 DEF CloseUnsetDoes, Moves, ClosePoints, RunInv, Alive
    <3>2. run[t] \notin Loops
      BY <1>inv, <2>2, <3>1 DEF RunInv, StopInv, LoopIsLast, Alive, ClosePoints
    <3>3. ClosingOf(run[t]) \notin Listeners  BY <3>1, <3>2, Closers, Apart
    <3>4. \A k \in Loops : pc'[k] = pc[k] /\ call'[k] = call[k] /\ sock'[k.of] = sock[k.of]
      BY <2>0, <1>pc, <1>call, <1>sock, <3>2, <3>3, Apart DEF CloseUnsetDoes, Moves
    <3>5. \A k \in Stoppers : pc'[k] = pc[k]
      BY <2>0, <1>pc, <3>1, Apart DEF CloseUnsetDoes, Moves
    <3>6. QED  BY <1>inv, <2>2, <3>4, <3>5 DEF RunInv, Alive
  <2>3. UNCHANGED <<early, m_stop, m_socks>>  BY <2>0 DEF CloseUnsetDoes
  <2>4. QED  BY <2>1, <2>2, <2>3 DEF RunInv
<1>16. ASSUME NEW t \in Threads, StopClear(t)
      PROVE  RunInv'
  <2>0. StopClearDoes(t)  BY <1>16, StopClearEffect
  <2>1. QED
    BY <2>0, <1>inv, <1>pc, <1>call, Kinds, NoRecords, Fields
    DEF StopClearDoes, Moves, RunInv, Alive
<1>17. ASSUME NEW t \in Threads, NEW c \in Clients, Accept(t, c)
      PROVE  RunInv'
  <2>0. AcceptDoes(t, c)  BY <1>17, AcceptEffect
  <2>1. QED
    BY <2>0, <1>inv, <1>pc, <1>call, Kinds, NoRecords, Fields
    DEF AcceptDoes, Moves, RunInv, Alive
<1>18. ASSUME NEW t \in Threads, NEW on \in BOOLEAN, Fcntl(t, on)
      PROVE  RunInv'
  <2>0. FcntlDoes(t, on)  BY <1>18, FcntlEffect
  <2>1. QED
    BY <2>0, <1>inv, <1>pc, Kinds, NoRecords, Fields DEF FcntlDoes, Moves, RunInv, Alive
<1>19. ASSUME NEW t \in Threads, NEW on \in BOOLEAN, Ioctl(t, on)
      PROVE  RunInv'
  <2>0. IoctlDoes(t, on)  BY <1>19, IoctlEffect
  <2>1. QED
    BY <2>0, <1>inv, <1>pc, Kinds, NoRecords, Fields DEF IoctlDoes, Moves, RunInv, Alive
<1>20. ASSUME NEW t \in Threads, NEW l \in Listeners, StopSocket(t, l)
      PROVE  RunInv'
  <2>0. StopSocketDoes(t, l)  BY <1>20, StopSocketEffect
  <2>1. QED
    BY <2>0, <1>inv, <1>pc, <1>call, Kinds, NoRecords, Fields
    DEF StopSocketDoes, Moves, Cancels, RunInv, Alive
<1>21. ASSUME NEW fd \in Fds, Trigger(fd)
      PROVE  RunInv'
  <2>0. TriggerDoes(fd)  BY <1>21, TriggerEffect
  <2>1. QED
    BY <2>0, <1>inv DEF TriggerDoes, Cancels, RunInv, Alive
<1>22. ASSUME NEW l \in Listeners, Bind(l)
      PROVE  RunInv'
  <2>0. BindDoes(l)  BY <1>22, BindEffect
  <2>1. QED
    BY <2>0, <1>inv, <1>sock, Kinds, NoRecords, Fields DEF BindDoes, RunInv, Alive
<1>23. CASE BindFails
  <2>0. BindFailsDoes  BY <1>23, BindFailsEffect
  <2>1. QED
    BY <2>0, <1>inv, <1>sock, Kinds, NoRecords, Fields DEF BindFailsDoes, RunInv, Alive
<1>24. CASE Start
  <2>0. StartDoes  BY <1>24, StartEffect
  <2>1. \A k \in Loops : pc'[k] \in {"none", "queued", "done"} => call'[k].fd = -1
    BY <2>0, <1>inv, Apart DEF StartDoes, RunInv
  <2>2. ASSUME ~early'
        PROVE  /\ \A k \in Stoppers : ~Alive(k)'
               /\ \A k \in Loops : Alive(k)' =>
                     k.of \in m_socks' /\ (call'[k].fd # -1 => call'[k].fd = sock'[k.of])
    BY <2>0, <1>inv, <2>2, Apart DEF StartDoes, RunInv, Alive
  <2>3. QED  BY <2>1, <2>2 DEF RunInv
<1>25. CASE Stop
  <2>0. StopDoes  BY <1>25, StopEffect
  <2>1. QED
    BY <2>0, <1>inv, <1>pc, Kinds, NoRecords, Fields DEF StopDoes, RunInv, Alive
<1>26. CASE Destroy
  <2>0. DestroyDoes  BY <1>26, DestroyEffect
  <2>1. QED
    BY <2>0, <1>inv, <1>sock, Kinds, NoRecords, Fields DEF DestroyDoes, RunInv, Alive
<1>27. ASSUME NEW c \in Clients, Speak(c)
      PROVE  RunInv'
  <2>0. SpeakDoes(c)  BY <1>27, SpeakEffect
  <2>1. QED
    BY <2>0, <1>inv DEF SpeakDoes, RunInv, Alive
<1>28. ASSUME NEW c \in Clients, NEW l \in Listeners, Connect(c, l)
      PROVE  RunInv'
  <2>0. ConnectDoes(c, l)  BY <1>28, ConnectEffect
  <2>1. QED
    BY <2>0, <1>inv DEF ConnectDoes, RunInv, Alive
<1>29. QED
  BY <1>1, <1>2, <1>3, <1>4, <1>5, <1>6, <1>7, <1>8, <1>9, <1>10, <1>11, <1>12, <1>13,
     <1>14, <1>15, <1>16, <1>17, <1>18, <1>19, <1>20, <1>21, <1>22, <1>23, <1>24, <1>25,
     <1>26, <1>27, <1>28
  DEF Next, ThreadStep, OwnerStep, PeerStep

\* The threads keep their tasks, each of which stays in its part of the code.
LEMMA RunSame ==
    ASSUME IInv, run' = run, setup' = setup,
           \A j \in Tasks : pc[j] \in Running <=> pc'[j] \in Running
    PROVE  RunsTask' /\ RunsAlone' /\ HasThread'
<1>1. RunsTask /\ RunsAlone /\ HasThread  BY DEF IInv, TaskInv
<1>2. RunsTask'  BY <1>1 DEF RunsTask
<1>3. RunsAlone'  BY <1>1 DEF RunsAlone
<1>4. HasThread'  BY <1>1 DEF HasThread
<1>5. QED  BY <1>2, <1>3, <1>4

\* Thread t is done with its task.
LEMMA RunLeaves ==
    ASSUME IInv, NEW t \in Threads, NEW k \in Tasks, run[t] = k,
           run' = [run EXCEPT ![t] = None], setup' = setup, pc'[k] \notin Running,
           \A j \in Tasks : j # k => pc'[j] = pc[j]
    PROVE  RunsTask' /\ RunsAlone' /\ HasThread'
<1>1. RunsTask /\ RunsAlone /\ HasThread  BY DEF IInv, TaskInv
<1>2. run \in [Threads -> Tasks \cup {None}] /\ None \notin Tasks  BY Kinds DEF IInv, TypeOK
<1>3. setup.threads \subseteq Threads  BY DEF IInv, TypeOK, Threads
<1>4. \A u \in Threads : run'[u] = IF u = t THEN None ELSE run[u]  BY <1>2
<1>5. \A u \in Threads : u # t => run[u] # k  BY <1>1, <1>2 DEF RunsAlone
<1>6. RunsTask'  BY <1>1, <1>4, <1>5 DEF RunsTask
<1>7. RunsAlone'  BY <1>1, <1>4 DEF RunsAlone
<1>8. HasThread'
  <2>1. SUFFICES ASSUME NEW j \in Tasks, pc'[j] \in Running
                 PROVE  \E u \in setup'.threads : run'[u] = j
    BY DEF HasThread
  <2>2. j # k /\ pc[j] \in Running  BY <2>1
  <2>3. PICK u \in setup.threads : run[u] = j  BY <1>1, <2>2 DEF HasThread
  <2>4. u \in Threads /\ u # t  BY <1>3, <2>2, <2>3
  <2>5. QED  BY <1>4, <2>3, <2>4
<1>9. QED  BY <1>6, <1>7, <1>8

\* Nobody enters or leaves the queue.
LEMMA QueueSame ==
    ASSUME IInv, queue' = queue, waiting' = waiting,
           \A j \in Tasks : pc[j] \in {"queued", "parked"} => pc'[j] = pc[j]
    PROVE  QueueHolds' /\ QueuedOnce' /\ WaitsOnce'
<1>1. QueueHolds /\ QueuedOnce /\ WaitsOnce  BY DEF IInv, TaskInv
<1>2. QueueHolds'  BY <1>1 DEF QueueHolds
<1>3. QueuedOnce'  BY <1>1 DEF QueuedOnce
<1>4. WaitsOnce'  BY <1>1 DEF WaitsOnce
<1>5. QED  BY <1>2, <1>3, <1>4

\* The waiter of a descriptor enters the queue.
LEMMA QueueCancels ==
    ASSUME IInv, NEW fd \in Fds, Cancels(fd),
           \A j \in Tasks : pc[j] \in {"queued", "parked"} => pc'[j] = pc[j]
    PROVE  QueueHolds' /\ QueuedOnce' /\ WaitsOnce'
<1>1. QueueHolds /\ QueuedOnce /\ WaitsOnce  BY DEF IInv, TaskInv
<1>2. queue \in Seq(Tasks) /\ waiting \in [Fds -> Waiters]  BY DEF IInv, TypeOK
<1>3. CASE UNCHANGED <<queue, waiting>>  BY <1>3, QueueSame
<1>4. CASE /\ waiting[fd].task \in Tasks
           /\ queue' = Append(queue, waiting[fd].task) /\ waiting' = [waiting EXCEPT ![fd] = NoWait]
  <2> DEFINE w == waiting[fd].task
  <2>1. /\ Len(queue') = Len(queue) + 1 /\ Len(queue) \in Nat
        /\ \A i \in 1..Len(queue') : queue'[i] = IF i = Len(queue) + 1 THEN w ELSE queue[i]
    BY <1>2, <1>4
  <2>2. w # None /\ pc[w] = "parked" /\ \A i \in 1..Len(queue) : queue[i] # w
    BY <1>1, <1>4, Kinds DEF WaitsOnce
  <2>3. \A gd \in Fds : waiting'[gd].task = IF gd = fd THEN None ELSE waiting[gd].task
    BY <1>2, <1>4, NoRecords
  <2>4. QueueHolds'  BY <1>1, <1>4, <2>1, <2>2 DEF QueueHolds
  <2>5. QueuedOnce'  BY <1>1, <2>1, <2>2 DEF QueuedOnce
  <2>6. WaitsOnce'  BY <1>1, <1>4, <2>1, <2>2, <2>3 DEF WaitsOnce
  <2>7. QED  BY <2>4, <2>5, <2>6
<1>5. QED  BY <1>3, <1>4 DEF Cancels

\* New tasks enter the queue.
LEMMA QueueJoins ==
    ASSUME IInv, NEW q \in Seq(Tasks), queue' = queue \o q, waiting' = waiting,
           \A i, j \in 1..Len(q) : q[i] = q[j] => i = j,
           \A i \in 1..Len(q) : pc[q[i]] = "none" /\ pc'[q[i]] = "queued",
           \A j \in Tasks : pc[j] \in {"queued", "parked"} => pc'[j] = pc[j]
    PROVE  QueueHolds' /\ QueuedOnce' /\ WaitsOnce'
<1>1. QueueHolds /\ QueuedOnce /\ WaitsOnce  BY DEF IInv, TaskInv
<1>2. queue \in Seq(Tasks)  BY DEF IInv, TypeOK
<1>3. /\ Len(queue) \in Nat /\ Len(q) \in Nat /\ Len(queue') = Len(queue) + Len(q)
      /\ \A i \in 1..Len(queue') :
            queue'[i] = IF i <= Len(queue) THEN queue[i] ELSE q[i - Len(queue)]
  BY <1>2
<1>4. \A i \in 1..Len(queue') :
        (i <= Len(queue) => i \in 1..Len(queue)) /\ (~(i <= Len(queue)) => i - Len(queue) \in 1..Len(q))
  BY <1>3
<1>5. \A i \in 1..Len(q) : q[i] \in Tasks  OBVIOUS
<1>6. QueueHolds'  BY <1>1, <1>3, <1>4, <1>5 DEF QueueHolds
<1>7. QueuedOnce'
  <2>1. SUFFICES ASSUME NEW i \in 1..Len(queue'), NEW j \in 1..Len(queue'), queue'[i] = queue'[j]
                 PROVE  i = j
    BY DEF QueuedOnce
  <2>2. CASE i <= Len(queue) /\ j <= Len(queue)
    BY <1>1, <1>3, <1>4, <2>1, <2>2 DEF QueuedOnce
  <2>3. CASE ~(i <= Len(queue)) /\ ~(j <= Len(queue))
    <3>1. i - Len(queue) = j - Len(queue)  BY <1>3, <1>4, <2>1, <2>3
    <3>2. QED  BY <1>3, <3>1
  <2>4. CASE i <= Len(queue) /\ ~(j <= Len(queue))
    BY <1>1, <1>3, <1>4, <2>1, <2>4 DEF QueueHolds
  <2>5. CASE ~(i <= Len(queue)) /\ j <= Len(queue)
    BY <1>1, <1>3, <1>4, <2>1, <2>5 DEF QueueHolds
  <2>6. QED  BY <2>2, <2>3, <2>4, <2>5
<1>8. WaitsOnce'
  <2>1. SUFFICES ASSUME NEW fd \in Fds, waiting[fd].task # None
                 PROVE  /\ waiting[fd].task \in Tasks /\ pc'[waiting[fd].task] = "parked"
                        /\ \A i \in 1..Len(queue') : queue'[i] # waiting[fd].task
                        /\ \A gd \in Fds : waiting[gd].task = waiting[fd].task => gd = fd
    BY DEF WaitsOnce
  <2>2. /\ waiting[fd].task \in Tasks /\ pc[waiting[fd].task] = "parked"
        /\ \A i \in 1..Len(queue) : queue[i] # waiting[fd].task
        /\ \A gd \in Fds : waiting[gd].task = waiting[fd].task => gd = fd
    BY <1>1, <2>1 DEF WaitsOnce
  <2>3. ASSUME NEW i \in 1..Len(queue') PROVE queue'[i] # waiting[fd].task
    <3>1. CASE i <= Len(queue)  BY <1>3, <1>4, <2>2, <3>1
    <3>2. CASE ~(i <= Len(queue))
      <4>1. queue'[i] = q[i - Len(queue)] /\ i - Len(queue) \in 1..Len(q)
        BY <1>3, <1>4, <3>2
      <4>2. pc[queue'[i]] = "none"  BY <4>1
      <4>3. QED  BY <2>2, <4>2
    <3>3. QED  BY <3>1, <3>2
  <2>4. QED  BY <2>2, <2>3
<1>9. QED  BY <1>6, <1>7, <1>8

\* A step leaves every task in one place.
LEMMA TaskStep ==
    ASSUME IInv, [Next]_vars
    PROVE  TaskInv'
<1>inv. TypeOK /\ PlaceInv /\ TaskInv  BY DEF IInv
<1>queue. queue \in Seq(Tasks)  BY <1>inv DEF TypeOK
<1>run. run \in [Threads -> Tasks \cup {None}]  BY <1>inv DEF TypeOK
<1>pc. pc \in [Tasks -> Points]  BY <1>inv DEF TypeOK
<1>waiting. waiting \in [Fds -> Waiters]  BY <1>inv DEF TypeOK
<1>1. CASE UNCHANGED vars
  BY <1>1, <1>inv
  DEF vars, poolVars, fdVars, serverVars, TaskInv, RunsTask, RunsAlone, HasThread,
      QueueHolds, QueuedOnce, WaitsOnce
<1>2. ASSUME NEW t \in Threads, Take(t)
      PROVE  TaskInv'
  <2>0. TakeDoes(t)  BY <1>2, TakeEffect
  <2> DEFINE k == queue[1]
  <2>1. /\ RunsTask /\ RunsAlone /\ HasThread /\ QueueHolds /\ QueuedOnce /\ WaitsOnce
    BY <1>inv DEF TaskInv
  <2>2. /\ k \in Tasks /\ t \in setup.threads /\ run[t] = None /\ run' = [run EXCEPT ![t] = k]
        /\ queue # <<>> /\ queue' = Tail(queue) /\ waiting' = waiting /\ setup' = setup
    BY <2>0 DEF TakeDoes
  <2>3. pc'[k] \in Running /\ pc[k] \in {"queued", "parked"} /\ \A j \in Tasks : j # k => pc'[j] = pc[j]
    BY <2>0, <1>pc DEF TakeDoes, Running, Points
  <2>4. \A u \in Threads : run'[u] = IF u = t THEN k ELSE run[u]  BY <2>2, <1>run
  <2>5. pc[k] \notin Running  BY <2>3 DEF Running
  <2>6. \A u \in Threads : run[u] # k  BY <2>1, <2>2, <2>5, Kinds DEF RunsTask
  <2>7. /\ Len(queue) \in Nat /\ Len(queue) >= 1 /\ Len(queue') = Len(queue) - 1
        /\ \A i \in 1..Len(queue') : queue'[i] = queue[i + 1] /\ i + 1 \in 1..Len(queue)
    BY <2>2, <1>queue
  <2>8. 1 \in 1..Len(queue)  BY <2>7
  <2>9. \A i \in 1..Len(queue') : queue'[i] # k
    BY <2>1, <2>7, <2>8 DEF QueuedOnce
  <2> HIDE DEF k
  <2>10. RunsTask'  BY <2>1, <2>2, <2>3, <2>4, <2>6 DEF RunsTask
  <2>11. RunsAlone'  BY <2>1, <2>4, <2>6 DEF RunsAlone
  <2>12. HasThread'
    <3>1. SUFFICES ASSUME NEW j \in Tasks, pc'[j] \in Running
                   PROVE  \E u \in setup'.threads : run'[u] = j
      BY DEF HasThread
    <3>2. CASE j = k  BY <2>2, <2>4, <3>2
    <3>3. CASE j # k
      <4>1. PICK u \in setup.threads : run[u] = j  BY <2>1, <2>3, <3>1, <3>3 DEF HasThread
      <4>2. u \in Threads /\ u # t  BY <4>1, <1>inv, <2>2, Kinds DEF TypeOK, Threads
      <4>3. QED  BY <2>2, <2>4, <4>1, <4>2
    <3>4. QED  BY <3>2, <3>3
  <2>13. QueueHolds'  BY <2>1, <2>3, <2>7, <2>9 DEF QueueHolds
  <2>14. QueuedOnce'
    <3>1. SUFFICES ASSUME NEW i \in 1..Len(queue'), NEW j \in 1..Len(queue'), queue'[i] = queue'[j]
                   PROVE  i = j
      BY DEF QueuedOnce
    <3>2. i + 1 = j + 1  BY <2>1, <2>7, <3>1 DEF QueuedOnce
    <3>3. QED  BY <2>7, <3>2
  <2>15. WaitsOnce'
    <3>1. SUFFICES ASSUME NEW fd \in Fds, waiting[fd].task # None
                   PROVE  /\ waiting[fd].task \in Tasks /\ pc'[waiting[fd].task] = "parked"
                          /\ \A i \in 1..Len(queue') : queue'[i] # waiting[fd].task
                          /\ \A gd \in Fds : waiting[gd].task = waiting[fd].task => gd = fd
      BY <2>2 DEF WaitsOnce
    <3>2. /\ waiting[fd].task \in Tasks /\ pc[waiting[fd].task] = "parked"
          /\ \A i \in 1..Len(queue) : queue[i] # waiting[fd].task
          /\ \A gd \in Fds : waiting[gd].task = waiting[fd].task => gd = fd
      BY <2>1, <3>1 DEF WaitsOnce
    <3>3. waiting[fd].task # k  BY <2>8, <3>2 DEF k
    <3>4. QED  BY <2>3, <2>7, <3>2, <3>3
  <2>16. QED  BY <2>10, <2>11, <2>12, <2>13, <2>14, <2>15 DEF TaskInv
<1>3. ASSUME NEW t \in Threads, CheckStop(t)
      PROVE  TaskInv'
  <2>0. CheckStopDoes(t)  BY <1>3, CheckStopEffect
  <2>1. RunsTask' /\ RunsAlone' /\ HasThread'
    <3>1. CASE run' = run
      <4>1. \A j \in Tasks : pc[j] \in Running <=> pc'[j] \in Running
        BY <2>0, <1>pc, <1>run, <3>1, Kinds DEF CheckStopDoes, Moves, Running, Points
      <4>2. QED  BY <2>0, <3>1, <4>1, RunSame DEF CheckStopDoes
    <3>2. CASE run' = [run EXCEPT ![t] = None] /\ pc'[run[t]] \notin Running
      <4>1. \A j \in Tasks : j # run[t] => pc'[j] = pc[j]
        BY <2>0, <1>pc DEF CheckStopDoes, Moves
      <4>2. run[t] \in Tasks  BY <2>0, Apart DEF CheckStopDoes, Moves
      <4>3. QED  BY <2>0, <3>2, <4>1, <4>2, RunLeaves DEF CheckStopDoes
    <3>3. QED  BY <2>0, <3>1, <3>2, <1>pc DEF CheckStopDoes, Moves, Running
  <2>2. QueueHolds' /\ QueuedOnce' /\ WaitsOnce'
    <3>1. \A j \in Tasks : pc[j] \in {"queued", "parked"} => pc'[j] = pc[j]
      BY <2>0, <1>pc DEF CheckStopDoes, Moves
    <3>2. QED  BY <2>0, <3>1, QueueSame DEF CheckStopDoes
  <2>3. QED  BY <2>1, <2>2 DEF TaskInv
<1>4. ASSUME NEW t \in Threads, Lookup(t)
      PROVE  TaskInv'
  <2>0. LookupDoes(t)  BY <1>4, LookupEffect
  <2>1. RunsTask' /\ RunsAlone' /\ HasThread'
    <3>1. \A j \in Tasks : pc[j] \in Running <=> pc'[j] \in Running
      BY <2>0, <1>pc DEF LookupDoes, Moves, Running, Points
    <3>2. QED  BY <2>0, <3>1, RunSame DEF LookupDoes
  <2>2. QueueHolds' /\ QueuedOnce' /\ WaitsOnce'
    <3>1. \A j \in Tasks : pc[j] \in {"queued", "parked"} => pc'[j] = pc[j]
      BY <2>0, <1>pc DEF LookupDoes, Moves
    <3>2. QED  BY <2>0, <3>1, QueueSame DEF LookupDoes
  <2>3. QED  BY <2>1, <2>2 DEF TaskInv
<1>5. ASSUME NEW t \in Threads, CallFails(t)
      PROVE  TaskInv'
  <2>0. CallFailsDoes(t)  BY <1>5, CallFailsEffect
  <2>1. RunsTask' /\ RunsAlone' /\ HasThread'
    <3>1. \A j \in Tasks : pc[j] \in Running <=> pc'[j] \in Running
      BY <2>0, <1>pc DEF CallFailsDoes, Moves, Running, Points
    <3>2. QED  BY <2>0, <3>1, RunSame DEF CallFailsDoes
  <2>2. QueueHolds' /\ QueuedOnce' /\ WaitsOnce'
    <3>1. \A j \in Tasks : pc[j] \in {"queued", "parked"} => pc'[j] = pc[j]
      BY <2>0, <1>pc DEF CallFailsDoes, Moves
    <3>2. QED  BY <2>0, <3>1, QueueSame DEF CallFailsDoes
  <2>3. QED  BY <2>1, <2>2 DEF TaskInv
<1>6. ASSUME NEW t \in Threads, CallWaits(t)
      PROVE  TaskInv'
  <2>0. CallWaitsDoes(t)  BY <1>6, CallWaitsEffect
  <2>1. RunsTask' /\ RunsAlone' /\ HasThread'
    <3>1. \A j \in Tasks : pc[j] \in Running <=> pc'[j] \in Running
      BY <2>0, <1>pc DEF CallWaitsDoes, Moves, Running, Points
    <3>2. QED  BY <2>0, <3>1, RunSame DEF CallWaitsDoes
  <2>2. QueueHolds' /\ QueuedOnce' /\ WaitsOnce'
    <3>1. \A j \in Tasks : pc[j] \in {"queued", "parked"} => pc'[j] = pc[j]
      BY <2>0, <1>pc DEF CallWaitsDoes, Moves
    <3>2. QED  BY <2>0, <3>1, QueueSame DEF CallWaitsDoes
  <2>3. QED  BY <2>1, <2>2 DEF TaskInv
<1>7. ASSUME NEW t \in Threads, Unblock(t)
      PROVE  TaskInv'
  <2>0. UnblockDoes(t)  BY <1>7, UnblockEffect
  <2>1. RunsTask' /\ RunsAlone' /\ HasThread'
    <3>1. \A j \in Tasks : pc[j] \in Running <=> pc'[j] \in Running
      BY <2>0, <1>pc DEF UnblockDoes, Moves, Running, Points
    <3>2. QED  BY <2>0, <3>1, RunSame DEF UnblockDoes
  <2>2. QueueHolds' /\ QueuedOnce' /\ WaitsOnce'
    <3>1. \A j \in Tasks : pc[j] \in {"queued", "parked"} => pc'[j] = pc[j]
      BY <2>0, <1>pc DEF UnblockDoes, Moves
    <3>2. QED  BY <2>0, <3>1, QueueSame DEF UnblockDoes
  <2>3. QED  BY <2>1, <2>2 DEF TaskInv
<1>8. ASSUME NEW t \in Threads, AddEvent(t)
      PROVE  TaskInv'
  <2>0. AddEventDoes(t)  BY <1>8, AddEventEffect
  <2>1. RunsTask' /\ RunsAlone' /\ HasThread'
    <3>1. CASE run' = run
      <4>1. \A j \in Tasks : pc[j] \in Running <=> pc'[j] \in Running
        BY <2>0, <1>pc, <1>run, <3>1, Kinds DEF AddEventDoes, Moves, Running, Points
      <4>2. QED  BY <2>0, <3>1, <4>1, RunSame DEF AddEventDoes
    <3>2. CASE run' = [run EXCEPT ![t] = None] /\ pc'[run[t]] \notin Running
      <4>1. \A j \in Tasks : j # run[t] => pc'[j] = pc[j]
        BY <2>0, <1>pc DEF AddEventDoes, Moves
      <4>2. run[t] \in Tasks  BY <2>0, Apart DEF AddEventDoes, Moves
      <4>3. QED  BY <2>0, <3>2, <4>1, <4>2, RunLeaves DEF AddEventDoes
    <3>3. QED  BY <2>0, <3>1, <3>2, <1>pc DEF AddEventDoes, Moves, Running
  <2>2. QueueHolds' /\ QueuedOnce' /\ WaitsOnce'
    <3> DEFINE k == run[t]
               fd == call[k].fd
    <3>1. CASE waiting' = waiting /\ pc'[k] \notin {"queued", "parked"}
      <4>1. \A j \in Tasks : pc[j] \in {"queued", "parked"} => pc'[j] = pc[j]
        BY <2>0, <1>pc DEF AddEventDoes, Moves
      <4>2. QED  BY <2>0, <3>1, <4>1, QueueSame DEF AddEventDoes
    <3>2. CASE /\ fd \in Fds /\ k \in Tasks /\ Moves(t, k, "event", "parked")
               /\ \E w \in Waiters : w.task = k /\ waiting' = [waiting EXCEPT ![fd] = w]
      <4>1. QueueHolds /\ QueuedOnce /\ WaitsOnce  BY <1>inv DEF TaskInv
      <4>2. pc[k] = "event" /\ \A j \in Tasks : pc'[j] = IF j = k THEN "parked" ELSE pc[j]
        BY <3>2, <1>pc DEF Moves
      <4>3. \A gd \in Fds : waiting'[gd].task = IF gd = fd THEN k ELSE waiting[gd].task
        BY <3>2, <1>waiting
      <4>4. queue' = queue /\ \A i \in 1..Len(queue) : queue[i] # k
        BY <2>0, <4>1, <4>2 DEF AddEventDoes, QueueHolds
      <4>5. QueueHolds'  BY <4>1, <4>2, <4>4 DEF QueueHolds
      <4>6. QueuedOnce'  BY <4>1, <4>4 DEF QueuedOnce
      <4>7. WaitsOnce'  BY <3>2, <4>1, <4>2, <4>3, <4>4 DEF WaitsOnce
      <4>8. QED  BY <4>5, <4>6, <4>7
    <3>3. QED  BY <2>0, <3>1, <3>2, <1>pc, Apart DEF AddEventDoes, Moves
  <2>3. QED  BY <2>1, <2>2 DEF TaskInv
<1>9. ASSUME NEW t \in Threads, CreateCtx(t)
      PROVE  TaskInv'
  <2>0. CreateCtxDoes(t)  BY <1>9, CreateCtxEffect
  <2>1. RunsTask' /\ RunsAlone' /\ HasThread'
    <3>1. \A j \in Tasks : pc[j] \in Running <=> pc'[j] \in Running
      BY <2>0, <1>pc DEF CreateCtxDoes, Moves, Running, Points
    <3>2. QED  BY <2>0, <3>1, RunSame DEF CreateCtxDoes
  <2>2. QueueHolds' /\ QueuedOnce' /\ WaitsOnce'
    <3>1. \A j \in Tasks : pc[j] \in {"queued", "parked"} => pc'[j] = pc[j]
      BY <2>0, <1>pc DEF CreateCtxDoes, Moves
    <3>2. QED  BY <2>0, <3>1, QueueSame DEF CreateCtxDoes
  <2>3. QED  BY <2>1, <2>2 DEF TaskInv
<1>10. ASSUME NEW t \in Threads, InitSocket(t)
      PROVE  TaskInv'
  <2>0. InitSocketDoes(t)  BY <1>10, InitSocketEffect
  <2>1. RunsTask' /\ RunsAlone' /\ HasThread'
    <3>1. \A j \in Tasks : pc[j] \in Running <=> pc'[j] \in Running
      BY <2>0, <1>pc DEF InitSocketDoes, Running, Points
    <3>2. QED  BY <2>0, <3>1, RunSame DEF InitSocketDoes
  <2>2. QueueHolds' /\ QueuedOnce' /\ WaitsOnce'
    <3> DEFINE h == HandlerOf(call[run[t]].sock)
    <3>1. \A j \in Tasks : pc[j] \in {"queued", "parked"} => pc'[j] = pc[j]
      BY <2>0, <1>pc DEF InitSocketDoes
    <3>2. h \in Tasks /\ pc[h] = "none" /\ pc'[h] = "queued"
      BY <2>0, <1>pc, Apart DEF InitSocketDoes
    <3>3. queue' = queue \o <<h>> /\ waiting' = waiting
      BY <2>0, <1>queue, <3>2 DEF InitSocketDoes
    <3>4. <<h>> \in Seq(Tasks) /\ Len(<<h>>) = 1 /\ <<h>>[1] = h  BY <3>2
    <3>5. \A i, j \in 1..Len(<<h>>) : <<h>>[i] = <<h>>[j] => i = j  BY <3>4
    <3>6. \A i \in 1..Len(<<h>>) : pc[<<h>>[i]] = "none" /\ pc'[<<h>>[i]] = "queued"
      BY <3>2, <3>4
    <3>7. QED  BY <3>1, <3>3, <3>4, <3>5, <3>6, QueueJoins
  <2>3. QED  BY <2>1, <2>2 DEF TaskInv
<1>11. ASSUME NEW t \in Threads, Receive(t)
      PROVE  TaskInv'
  <2>0. ReceiveDoes(t)  BY <1>11, ReceiveEffect
  <2>1. RunsTask' /\ RunsAlone' /\ HasThread'
    <3>1. \A j \in Tasks : pc[j] \in Running <=> pc'[j] \in Running
      BY <2>0, <1>pc DEF ReceiveDoes, Moves, Running, Points
    <3>2. QED  BY <2>0, <3>1, RunSame DEF ReceiveDoes
  <2>2. QueueHolds' /\ QueuedOnce' /\ WaitsOnce'
    <3>1. \A j \in Tasks : pc[j] \in {"queued", "parked"} => pc'[j] = pc[j]
      BY <2>0, <1>pc DEF ReceiveDoes, Moves
    <3>2. QED  BY <2>0, <3>1, QueueSame DEF ReceiveDoes
  <2>3. QED  BY <2>1, <2>2 DEF TaskInv
<1>12. ASSUME NEW t \in Threads, CloseCancel(t)
      PROVE  TaskInv'
  <2>0. CloseCancelDoes(t)  BY <1>12, CloseCancelEffect
  <2>1. RunsTask' /\ RunsAlone' /\ HasThread'
    <3>1. \A j \in Tasks : pc[j] \in Running <=> pc'[j] \in Running
      BY <2>0, <1>pc DEF CloseCancelDoes, Moves, Cancels, Running, Points
    <3>2. QED  BY <2>0, <3>1, RunSame DEF CloseCancelDoes
  <2>2. QueueHolds' /\ QueuedOnce' /\ WaitsOnce'
    <3>1. \A j \in Tasks : pc[j] \in {"queued", "parked"} => pc'[j] = pc[j]
      BY <2>0, <1>pc DEF CloseCancelDoes, Moves, Cancels
    <3>2. QED  BY <2>0, <3>1, QueueSame, QueueCancels DEF CloseCancelDoes
  <2>3. QED  BY <2>1, <2>2 DEF TaskInv
<1>13. ASSUME NEW t \in Threads, CloseDel(t)
      PROVE  TaskInv'
  <2>0. CloseDelDoes(t)  BY <1>13, CloseDelEffect
  <2>1. RunsTask' /\ RunsAlone' /\ HasThread'
    <3>1. \A j \in Tasks : pc[j] \in Running <=> pc'[j] \in Running
      BY <2>0, <1>pc DEF CloseDelDoes, Moves, Running, Points
    <3>2. QED  BY <2>0, <3>1, RunSame DEF CloseDelDoes
  <2>2. QueueHolds' /\ QueuedOnce' /\ WaitsOnce'
    <3>1. \A j \in Tasks : pc[j] \in {"queued", "parked"} => pc'[j] = pc[j]
      BY <2>0, <1>pc DEF CloseDelDoes, Moves
    <3>2. QED  BY <2>0, <3>1, QueueSame DEF CloseDelDoes
  <2>3. QED  BY <2>1, <2>2 DEF TaskInv
<1>14. ASSUME NEW t \in Threads, CloseFd(t)
      PROVE  TaskInv'
  <2>0. CloseFdDoes(t)  BY <1>14, CloseFdEffect
  <2>1. RunsTask' /\ RunsAlone' /\ HasThread'
    <3>1. \A j \in Tasks : pc[j] \in Running <=> pc'[j] \in Running
      BY <2>0, <1>pc DEF CloseFdDoes, Moves, Running, Points
    <3>2. QED  BY <2>0, <3>1, RunSame DEF CloseFdDoes
  <2>2. QueueHolds' /\ QueuedOnce' /\ WaitsOnce'
    <3>1. \A j \in Tasks : pc[j] \in {"queued", "parked"} => pc'[j] = pc[j]
      BY <2>0, <1>pc DEF CloseFdDoes, Moves
    <3>2. QED  BY <2>0, <3>1, QueueSame DEF CloseFdDoes
  <2>3. QED  BY <2>1, <2>2 DEF TaskInv
<1>15. ASSUME NEW t \in Threads, CloseUnset(t)
      PROVE  TaskInv'
  <2>0. CloseUnsetDoes(t)  BY <1>15, CloseUnsetEffect
  <2>1. RunsTask' /\ RunsAlone' /\ HasThread'
    <3>1. CASE run' = run
      <4>1. \A j \in Tasks : pc[j] \in Running <=> pc'[j] \in Running
        BY <2>0, <1>pc, <1>run, <3>1, Kinds DEF CloseUnsetDoes, Moves, Running, Points
      <4>2. QED  BY <2>0, <3>1, <4>1, RunSame DEF CloseUnsetDoes
    <3>2. CASE run' = [run EXCEPT ![t] = None] /\ pc'[run[t]] \notin Running
      <4>1. \A j \in Tasks : j # run[t] => pc'[j] = pc[j]
        BY <2>0, <1>pc DEF CloseUnsetDoes, Moves
      <4>2. run[t] \in Tasks  BY <2>0, Apart DEF CloseUnsetDoes, Moves
      <4>3. QED  BY <2>0, <3>2, <4>1, <4>2, RunLeaves DEF CloseUnsetDoes
    <3>3. QED  BY <2>0, <3>1, <3>2, <1>pc DEF CloseUnsetDoes, Moves, Running
  <2>2. QueueHolds' /\ QueuedOnce' /\ WaitsOnce'
    <3>1. \A j \in Tasks : pc[j] \in {"queued", "parked"} => pc'[j] = pc[j]
      BY <2>0, <1>pc DEF CloseUnsetDoes, Moves
    <3>2. QED  BY <2>0, <3>1, QueueSame DEF CloseUnsetDoes
  <2>3. QED  BY <2>1, <2>2 DEF TaskInv
<1>16. ASSUME NEW t \in Threads, StopClear(t)
      PROVE  TaskInv'
  <2>0. StopClearDoes(t)  BY <1>16, StopClearEffect
  <2>1. RunsTask' /\ RunsAlone' /\ HasThread'
    <3>1. run[t] \in Tasks /\ pc'[run[t]] \notin Running
      BY <2>0, <1>pc DEF StopClearDoes, Moves, Running
    <3>2. \A j \in Tasks : j # run[t] => pc'[j] = pc[j]
      BY <2>0, <1>pc DEF StopClearDoes, Moves
    <3>3. QED  BY <2>0, <3>1, <3>2, RunLeaves DEF StopClearDoes
  <2>2. QueueHolds' /\ QueuedOnce' /\ WaitsOnce'
    <3>1. \A j \in Tasks : pc[j] \in {"queued", "parked"} => pc'[j] = pc[j]
      BY <2>0, <1>pc DEF StopClearDoes, Moves
    <3>2. QED  BY <2>0, <3>1, QueueSame DEF StopClearDoes
  <2>3. QED  BY <2>1, <2>2 DEF TaskInv
<1>17. ASSUME NEW t \in Threads, NEW c \in Clients, Accept(t, c)
      PROVE  TaskInv'
  <2>0. AcceptDoes(t, c)  BY <1>17, AcceptEffect
  <2>1. RunsTask' /\ RunsAlone' /\ HasThread'
    <3>1. \A j \in Tasks : pc[j] \in Running <=> pc'[j] \in Running
      BY <2>0, <1>pc DEF AcceptDoes, Moves, Running, Points
    <3>2. QED  BY <2>0, <3>1, RunSame DEF AcceptDoes
  <2>2. QueueHolds' /\ QueuedOnce' /\ WaitsOnce'
    <3>1. \A j \in Tasks : pc[j] \in {"queued", "parked"} => pc'[j] = pc[j]
      BY <2>0, <1>pc DEF AcceptDoes, Moves
    <3>2. QED  BY <2>0, <3>1, QueueSame DEF AcceptDoes
  <2>3. QED  BY <2>1, <2>2 DEF TaskInv
<1>18. ASSUME NEW t \in Threads, NEW on \in BOOLEAN, Fcntl(t, on)
      PROVE  TaskInv'
  <2>0. FcntlDoes(t, on)  BY <1>18, FcntlEffect
  <2>1. RunsTask' /\ RunsAlone' /\ HasThread'
    <3>1. \A j \in Tasks : pc[j] \in Running <=> pc'[j] \in Running
      BY <2>0, <1>pc DEF FcntlDoes, Moves, Running, Points
    <3>2. QED  BY <2>0, <3>1, RunSame DEF FcntlDoes
  <2>2. QueueHolds' /\ QueuedOnce' /\ WaitsOnce'
    <3>1. \A j \in Tasks : pc[j] \in {"queued", "parked"} => pc'[j] = pc[j]
      BY <2>0, <1>pc DEF FcntlDoes, Moves
    <3>2. QED  BY <2>0, <3>1, QueueSame DEF FcntlDoes
  <2>3. QED  BY <2>1, <2>2 DEF TaskInv
<1>19. ASSUME NEW t \in Threads, NEW on \in BOOLEAN, Ioctl(t, on)
      PROVE  TaskInv'
  <2>0. IoctlDoes(t, on)  BY <1>19, IoctlEffect
  <2>1. RunsTask' /\ RunsAlone' /\ HasThread'
    <3>1. \A j \in Tasks : pc[j] \in Running <=> pc'[j] \in Running
      BY <2>0, <1>pc DEF IoctlDoes, Moves, Running, Points
    <3>2. QED  BY <2>0, <3>1, RunSame DEF IoctlDoes
  <2>2. QueueHolds' /\ QueuedOnce' /\ WaitsOnce'
    <3>1. \A j \in Tasks : pc[j] \in {"queued", "parked"} => pc'[j] = pc[j]
      BY <2>0, <1>pc DEF IoctlDoes, Moves
    <3>2. QED  BY <2>0, <3>1, QueueSame DEF IoctlDoes
  <2>3. QED  BY <2>1, <2>2 DEF TaskInv
<1>20. ASSUME NEW t \in Threads, NEW l \in Listeners, StopSocket(t, l)
      PROVE  TaskInv'
  <2>0. StopSocketDoes(t, l)  BY <1>20, StopSocketEffect
  <2>1. RunsTask' /\ RunsAlone' /\ HasThread'
    <3>1. \A j \in Tasks : pc[j] \in Running <=> pc'[j] \in Running
      BY <2>0, <1>pc DEF StopSocketDoes, Moves, Cancels, Running, Points
    <3>2. QED  BY <2>0, <3>1, RunSame DEF StopSocketDoes
  <2>2. QueueHolds' /\ QueuedOnce' /\ WaitsOnce'
    <3>1. \A j \in Tasks : pc[j] \in {"queued", "parked"} => pc'[j] = pc[j]
      BY <2>0, <1>pc DEF StopSocketDoes, Moves, Cancels
    <3>2. QED  BY <2>0, <3>1, QueueCancels DEF StopSocketDoes
  <2>3. QED  BY <2>1, <2>2 DEF TaskInv
<1>21. ASSUME NEW fd \in Fds, Trigger(fd)
      PROVE  TaskInv'
  <2>0. TriggerDoes(fd)  BY <1>21, TriggerEffect
  <2>1. RunsTask' /\ RunsAlone' /\ HasThread'
    <3>1. \A j \in Tasks : pc[j] \in Running <=> pc'[j] \in Running
      BY <2>0, <1>pc DEF TriggerDoes, Cancels, Running, Points
    <3>2. QED  BY <2>0, <3>1, RunSame DEF TriggerDoes
  <2>2. QueueHolds' /\ QueuedOnce' /\ WaitsOnce'
    <3>1. \A j \in Tasks : pc[j] \in {"queued", "parked"} => pc'[j] = pc[j]
      BY <2>0, <1>pc DEF TriggerDoes, Cancels
    <3>2. QED  BY <2>0, <3>1, QueueCancels DEF TriggerDoes
  <2>3. QED  BY <2>1, <2>2 DEF TaskInv
<1>22. ASSUME NEW l \in Listeners, Bind(l)
      PROVE  TaskInv'
  <2>0. BindDoes(l)  BY <1>22, BindEffect
  <2>1. RunsTask' /\ RunsAlone' /\ HasThread'
    <3>1. \A j \in Tasks : pc[j] \in Running <=> pc'[j] \in Running
      BY <2>0, <1>pc DEF BindDoes, Running, Points
    <3>2. QED  BY <2>0, <3>1, RunSame DEF BindDoes
  <2>2. QueueHolds' /\ QueuedOnce' /\ WaitsOnce'
    <3>1. \A j \in Tasks : pc[j] \in {"queued", "parked"} => pc'[j] = pc[j]
      BY <2>0, <1>pc DEF BindDoes
    <3>2. QED  BY <2>0, <3>1, QueueSame DEF BindDoes
  <2>3. QED  BY <2>1, <2>2 DEF TaskInv
<1>23. CASE BindFails
  <2>0. BindFailsDoes  BY <1>23, BindFailsEffect
  <2>1. RunsTask' /\ RunsAlone' /\ HasThread'
    <3>1. \A j \in Tasks : pc[j] \in Running <=> pc'[j] \in Running
      BY <2>0, <1>pc DEF BindFailsDoes, Running, Points
    <3>2. QED  BY <2>0, <3>1, RunSame DEF BindFailsDoes
  <2>2. QueueHolds' /\ QueuedOnce' /\ WaitsOnce'
    <3>1. \A j \in Tasks : pc[j] \in {"queued", "parked"} => pc'[j] = pc[j]
      BY <2>0, <1>pc DEF BindFailsDoes
    <3>2. QED  BY <2>0, <3>1, QueueSame DEF BindFailsDoes
  <2>3. QED  BY <2>1, <2>2 DEF TaskInv
<1>24. CASE Start
  <2>0. StartDoes  BY <1>24, StartEffect
  <2>1. RunsTask' /\ RunsAlone' /\ HasThread'
    <3>1. \A j \in Tasks : pc[j] \in Running <=> pc'[j] \in Running
      BY <2>0, <1>pc, Apart DEF StartDoes, Running, Points
    <3>2. QED  BY <2>0, <3>1, RunSame DEF StartDoes
  <2>2. QueueHolds' /\ QueuedOnce' /\ WaitsOnce'
    <3>1. \A j \in Tasks : pc[j] \in {"queued", "parked"} => pc'[j] = pc[j]
      BY <2>0, <1>pc DEF StartDoes
    <3>2. QED  BY <2>0, <3>1, QueueJoins DEF StartDoes
  <2>3. QED  BY <2>1, <2>2 DEF TaskInv
<1>25. CASE Stop
  <2>0. StopDoes  BY <1>25, StopEffect
  <2>1. RunsTask' /\ RunsAlone' /\ HasThread'
    <3>1. \A j \in Tasks : pc[j] \in Running <=> pc'[j] \in Running
      BY <2>0, <1>pc DEF StopDoes, Running, Points
    <3>2. QED  BY <2>0, <3>1, RunSame DEF StopDoes
  <2>2. QueueHolds' /\ QueuedOnce' /\ WaitsOnce'
    <3> DEFINE h == [kind |-> "stop", of |-> None, n |-> stops + 1]
    <3>1. \A j \in Tasks : pc[j] \in {"queued", "parked"} => pc'[j] = pc[j]
      BY <2>0, <1>pc DEF StopDoes
    <3>2. h \in Tasks /\ pc[h] = "none" /\ pc'[h] = "queued"
      BY <2>0, <1>pc, Apart DEF StopDoes
    <3>3. queue' = Append(queue, h) /\ waiting' = waiting  BY <2>0 DEF StopDoes
    <3> HIDE DEF h
    <3>4. queue' = queue \o <<h>>  BY <3>2, <3>3, <1>queue
    <3>5. <<h>> \in Seq(Tasks) /\ Len(<<h>>) = 1 /\ <<h>>[1] = h  BY <3>2
    <3>6. \A i, j \in 1..Len(<<h>>) : <<h>>[i] = <<h>>[j] => i = j  BY <3>5
    <3>7. \A i \in 1..Len(<<h>>) : pc[<<h>>[i]] = "none" /\ pc'[<<h>>[i]] = "queued"
      BY <3>2, <3>5
    <3>8. QED  BY <3>1, <3>3, <3>4, <3>5, <3>6, <3>7, QueueJoins
  <2>3. QED  BY <2>1, <2>2 DEF TaskInv
<1>26. CASE Destroy
  <2>0. DestroyDoes  BY <1>26, DestroyEffect
  <2>1. RunsTask' /\ RunsAlone' /\ HasThread'
    <3>1. \A j \in Tasks : pc[j] \in Running <=> pc'[j] \in Running
      BY <2>0, <1>pc DEF DestroyDoes, Running, Points
    <3>2. QED  BY <2>0, <3>1, RunSame DEF DestroyDoes
  <2>2. QueueHolds' /\ QueuedOnce' /\ WaitsOnce'
    <3>1. \A j \in Tasks : pc[j] \in {"queued", "parked"} => pc'[j] = pc[j]
      BY <2>0, <1>pc DEF DestroyDoes
    <3>2. QED  BY <2>0, <3>1, QueueSame DEF DestroyDoes
  <2>3. QED  BY <2>1, <2>2 DEF TaskInv
<1>27. ASSUME NEW c \in Clients, Speak(c)
      PROVE  TaskInv'
  <2>0. SpeakDoes(c)  BY <1>27, SpeakEffect
  <2>1. RunsTask' /\ RunsAlone' /\ HasThread'
    <3>1. \A j \in Tasks : pc[j] \in Running <=> pc'[j] \in Running
      BY <2>0, <1>pc DEF SpeakDoes, Running, Points
    <3>2. QED  BY <2>0, <3>1, RunSame DEF SpeakDoes
  <2>2. QueueHolds' /\ QueuedOnce' /\ WaitsOnce'
    <3>1. \A j \in Tasks : pc[j] \in {"queued", "parked"} => pc'[j] = pc[j]
      BY <2>0, <1>pc DEF SpeakDoes
    <3>2. QED  BY <2>0, <3>1, QueueSame DEF SpeakDoes
  <2>3. QED  BY <2>1, <2>2 DEF TaskInv
<1>28. ASSUME NEW c \in Clients, NEW l \in Listeners, Connect(c, l)
      PROVE  TaskInv'
  <2>0. ConnectDoes(c, l)  BY <1>28, ConnectEffect
  <2>1. RunsTask' /\ RunsAlone' /\ HasThread'
    <3>1. \A j \in Tasks : pc[j] \in Running <=> pc'[j] \in Running
      BY <2>0, <1>pc DEF ConnectDoes, Running, Points
    <3>2. QED  BY <2>0, <3>1, RunSame DEF ConnectDoes
  <2>2. QueueHolds' /\ QueuedOnce' /\ WaitsOnce'
    <3>1. \A j \in Tasks : pc[j] \in {"queued", "parked"} => pc'[j] = pc[j]
      BY <2>0, <1>pc DEF ConnectDoes
    <3>2. QED  BY <2>0, <3>1, QueueSame DEF ConnectDoes
  <2>3. QED  BY <2>1, <2>2 DEF TaskInv
<1>29. QED
  BY <1>1, <1>2, <1>3, <1>4, <1>5, <1>6, <1>7, <1>8, <1>9, <1>10, <1>11, <1>12, <1>13,
     <1>14, <1>15, <1>16, <1>17, <1>18, <1>19, <1>20, <1>21, <1>22, <1>23, <1>24, <1>25,
     <1>26, <1>27, <1>28
  DEF Next, ThreadStep, OwnerStep, PeerStep

\* A task that comes to a standstill does so on a descriptor that is blocking
\* for a reason.
BlocksOnly == \A k \in Tasks : pc[k] # "blocked" /\ pc'[k] = "blocked" =>
    LET f == file[call[k].fd]
    IN f.nonblock = "cleared" \/ (f.of \in Listeners /\ ~setup.hooked)

\* A step that brings a thread to a standstill.
LEMMA BlockStep ==
    ASSUME IInv, [Next]_vars
    PROVE  BlocksOnly
<1>inv. TypeOK /\ ClientInv /\ ModeInv  BY DEF IInv
<1>pc. pc \in [Tasks -> Points]  BY <1>inv DEF TypeOK
<1>1. CASE UNCHANGED vars
  BY <1>1 DEF vars, BlocksOnly
<1>2. ASSUME NEW t \in Threads, Take(t)
      PROVE  BlocksOnly
  <2>0. TakeDoes(t)  BY <1>2, TakeEffect
  <2>1. QED
    BY <2>0, <1>inv, <1>pc DEF TakeDoes, BlocksOnly
<1>3. ASSUME NEW t \in Threads, CheckStop(t)
      PROVE  BlocksOnly
  <2>0. CheckStopDoes(t)  BY <1>3, CheckStopEffect
  <2>1. QED
    BY <2>0, <1>inv, <1>pc DEF CheckStopDoes, Moves, BlocksOnly
<1>4. ASSUME NEW t \in Threads, Lookup(t)
      PROVE  BlocksOnly
  <2>0. LookupDoes(t)  BY <1>4, LookupEffect
  <2>1. QED
    BY <2>0, <1>inv, <1>pc DEF LookupDoes, Moves, BlocksOnly
<1>5. ASSUME NEW t \in Threads, CallFails(t)
      PROVE  BlocksOnly
  <2>0. CallFailsDoes(t)  BY <1>5, CallFailsEffect
  <2>1. QED
    BY <2>0, <1>inv, <1>pc DEF CallFailsDoes, Moves, BlocksOnly
<1>6. ASSUME NEW t \in Threads, CallWaits(t)
      PROVE  BlocksOnly
  <2>0. CallWaitsDoes(t)  BY <1>6, CallWaitsEffect
  <2>1. SUFFICES ASSUME NEW k \in Tasks, pc[k] # "blocked", pc'[k] = "blocked"
                 PROVE  \/ file[call[k].fd].nonblock = "cleared"
                        \/ file[call[k].fd].of \in Listeners /\ ~setup.hooked
    BY DEF BlocksOnly
  <2> DEFINE fd == call[k].fd
  <2>2. /\ k \in Loops \cup Handlers /\ pc[k] = "call" /\ Open(fd) /\ file[fd].nonblock # "on"
        /\ k \in Loops => file[fd].of \in Listeners
    BY <2>0, <2>1, <1>pc DEF CallWaitsDoes, Moves
  <2>3. ASSUME NEW j \in Loops, pc[j] = "create", call[j].new = fd PROVE FALSE
    <3>1. file[fd].of \in Clients /\ pc[HandlerOf(file[fd].of)] = "none"
      BY <1>inv, <2>3 DEF ClientInv, MakingHolds, Making
    <3>2. k \in Handlers  BY <2>2, <3>1, Apart
    <3>3. k = HandlerOf(k.of) /\ k.of \in Clients /\ fd = sock[k.of]
      BY <1>inv, <2>2, <3>2, Apart DEF ClientInv, HandlerFd
    <3>4. file[fd].of = k.of  BY <2>2, <3>2, <3>3, HandlerOpen
    <3>5. QED  BY <2>2, <3>1, <3>3, <3>4
  <2>4. fd \in Fds  BY <2>2 DEF Open
  <2>5. QED  BY <1>inv, <2>2, <2>3, <2>4 DEF ModeInv
<1>7. ASSUME NEW t \in Threads, Unblock(t)
      PROVE  BlocksOnly
  <2>0. UnblockDoes(t)  BY <1>7, UnblockEffect
  <2>1. QED
    BY <2>0, <1>inv, <1>pc DEF UnblockDoes, Moves, BlocksOnly
<1>8. ASSUME NEW t \in Threads, AddEvent(t)
      PROVE  BlocksOnly
  <2>0. AddEventDoes(t)  BY <1>8, AddEventEffect
  <2>1. QED
    BY <2>0, <1>inv, <1>pc DEF AddEventDoes, Moves, BlocksOnly
<1>9. ASSUME NEW t \in Threads, CreateCtx(t)
      PROVE  BlocksOnly
  <2>0. CreateCtxDoes(t)  BY <1>9, CreateCtxEffect
  <2>1. QED
    BY <2>0, <1>inv, <1>pc DEF CreateCtxDoes, Moves, BlocksOnly
<1>10. ASSUME NEW t \in Threads, InitSocket(t)
      PROVE  BlocksOnly
  <2>0. InitSocketDoes(t)  BY <1>10, InitSocketEffect
  <2>1. QED
    BY <2>0, <1>inv, <1>pc DEF InitSocketDoes, BlocksOnly
<1>11. ASSUME NEW t \in Threads, Receive(t)
      PROVE  BlocksOnly
  <2>0. ReceiveDoes(t)  BY <1>11, ReceiveEffect
  <2>1. QED
    BY <2>0, <1>inv, <1>pc DEF ReceiveDoes, Moves, BlocksOnly
<1>12. ASSUME NEW t \in Threads, CloseCancel(t)
      PROVE  BlocksOnly
  <2>0. CloseCancelDoes(t)  BY <1>12, CloseCancelEffect
  <2>1. QED
    BY <2>0, <1>inv, <1>pc DEF CloseCancelDoes, Moves, Cancels, BlocksOnly
<1>13. ASSUME NEW t \in Threads, CloseDel(t)
      PROVE  BlocksOnly
  <2>0. CloseDelDoes(t)  BY <1>13, CloseDelEffect
  <2>1. QED
    BY <2>0, <1>inv, <1>pc DEF CloseDelDoes, Moves, BlocksOnly
<1>14. ASSUME NEW t \in Threads, CloseFd(t)
      PROVE  BlocksOnly
  <2>0. CloseFdDoes(t)  BY <1>14, CloseFdEffect
  <2>1. QED
    BY <2>0, <1>inv, <1>pc DEF CloseFdDoes, Moves, BlocksOnly
<1>15. ASSUME NEW t \in Threads, CloseUnset(t)
      PROVE  BlocksOnly
  <2>0. CloseUnsetDoes(t)  BY <1>15, CloseUnsetEffect
  <2>1. QED
    BY <2>0, <1>inv, <1>pc DEF CloseUnsetDoes, Moves, BlocksOnly
<1>16. ASSUME NEW t \in Threads, StopClear(t)
      PROVE  BlocksOnly
  <2>0. StopClearDoes(t)  BY <1>16, StopClearEffect
  <2>1. QED
    BY <2>0, <1>inv, <1>pc DEF StopClearDoes, Moves, BlocksOnly
<1>17. ASSUME NEW t \in Threads, NEW c \in Clients, Accept(t, c)
      PROVE  BlocksOnly
  <2>0. AcceptDoes(t, c)  BY <1>17, AcceptEffect
  <2>1. QED
    BY <2>0, <1>inv, <1>pc DEF AcceptDoes, Moves, BlocksOnly
<1>18. ASSUME NEW t \in Threads, NEW on \in BOOLEAN, Fcntl(t, on)
      PROVE  BlocksOnly
  <2>0. FcntlDoes(t, on)  BY <1>18, FcntlEffect
  <2>1. QED
    BY <2>0, <1>inv, <1>pc DEF FcntlDoes, Moves, BlocksOnly
<1>19. ASSUME NEW t \in Threads, NEW on \in BOOLEAN, Ioctl(t, on)
      PROVE  BlocksOnly
  <2>0. IoctlDoes(t, on)  BY <1>19, IoctlEffect
  <2>1. QED
    BY <2>0, <1>inv, <1>pc DEF IoctlDoes, Moves, BlocksOnly
<1>20. ASSUME NEW t \in Threads, NEW l \in Listeners, StopSocket(t, l)
      PROVE  BlocksOnly
  <2>0. StopSocketDoes(t, l)  BY <1>20, StopSocketEffect
  <2>1. QED
    BY <2>0, <1>inv, <1>pc DEF StopSocketDoes, Moves, Cancels, BlocksOnly
<1>21. ASSUME NEW fd \in Fds, Trigger(fd)
      PROVE  BlocksOnly
  <2>0. TriggerDoes(fd)  BY <1>21, TriggerEffect
  <2>1. QED
    BY <2>0, <1>inv DEF TriggerDoes, Cancels, BlocksOnly
<1>22. ASSUME NEW l \in Listeners, Bind(l)
      PROVE  BlocksOnly
  <2>0. BindDoes(l)  BY <1>22, BindEffect
  <2>1. QED
    BY <2>0, <1>inv DEF BindDoes, BlocksOnly
<1>23. CASE BindFails
  <2>0. BindFailsDoes  BY <1>23, BindFailsEffect
  <2>1. QED
    BY <2>0, <1>inv DEF BindFailsDoes, BlocksOnly
<1>24. CASE Start
  <2>0. StartDoes  BY <1>24, StartEffect
  <2>1. QED
    BY <2>0, <1>inv, <1>pc DEF StartDoes, BlocksOnly
<1>25. CASE Stop
  <2>0. StopDoes  BY <1>25, StopEffect
  <2>1. QED
    BY <2>0, <1>inv, <1>pc DEF StopDoes, BlocksOnly
<1>26. CASE Destroy
  <2>0. DestroyDoes  BY <1>26, DestroyEffect
  <2>1. QED
    BY <2>0, <1>inv DEF DestroyDoes, BlocksOnly
<1>27. ASSUME NEW c \in Clients, Speak(c)
      PROVE  BlocksOnly
  <2>0. SpeakDoes(c)  BY <1>27, SpeakEffect
  <2>1. QED
    BY <2>0, <1>inv DEF SpeakDoes, BlocksOnly
<1>28. ASSUME NEW c \in Clients, NEW l \in Listeners, Connect(c, l)
      PROVE  BlocksOnly
  <2>0. ConnectDoes(c, l)  BY <1>28, ConnectEffect
  <2>1. QED
    BY <2>0, <1>inv DEF ConnectDoes, BlocksOnly
<1>29. QED
  BY <1>1, <1>2, <1>3, <1>4, <1>5, <1>6, <1>7, <1>8, <1>9, <1>10, <1>11, <1>12, <1>13,
     <1>14, <1>15, <1>16, <1>17, <1>18, <1>19, <1>20, <1>21, <1>22, <1>23, <1>24, <1>25,
     <1>26, <1>27, <1>28
  DEF Next, ThreadStep, OwnerStep, PeerStep

----------------------------------------------------------------------------
(***************************************************************************)
(* The readers of a descriptor, on a pool of one thread and on a server of *)
(* one address.                                                            *)
(***************************************************************************)
OneThread == \A t, u \in setup.threads : t = u
OneBind   == \A l, m \in setup.binds : l = m
Calm      == ~early /\ (OneThread \/ OneBind)

\* The sockets served are those of the instance; a waiter is registered for the
\* descriptor of its call, which had a context.
BindsOnly   == m_socks \subseteq setup.binds /\ \A k \in Loops : pc[k] # "none" => k.of \in setup.binds
WaitsFor    == \A fd \in Fds : waiting[fd].task # None => call[waiting[fd].task].fd = fd
EventHooked == \A k \in Tasks : pc[k] = "event" => call[k].hooked /\ call[k].fd \in Fds

\* An address has one loop, whose context is there until a closing task takes it.
LoopAlone == \A j, k \in Loops : Alive(j) /\ Alive(k) /\ j.of = k.of => j = k
HookedCtx == \A k \in Loops :
    Alive(k) /\ call[k].fd \in Fds /\ call[k].hooked /\ file[call[k].fd].of = k.of =>
        HasCtx(call[k].fd) \/ \E m \in Tasks : pc[m] = "close" /\ ClosingOf(m) = k.of

\* The number of a listening socket that has been closed is free until m_sock
\* is reset; only on a server of several addresses may a loop find it taken
\* by a connection.
UnsetGone == \A m \in Loops \cup Stoppers : pc[m] = "unset" => file[sock[ClosingOf(m)]].of = None
LoopFile  == \A k \in Loops : Alive(k) /\ call[k].fd \in Fds =>
    \/ file[call[k].fd].of \in {None, k.of}
    \/ OneThread /\ file[call[k].fd].of \in Clients

\* On one thread a registered loop still has its socket.
EventOwn == \A k \in Loops : pc[k] = "event" => HasCtx(call[k].fd) /\ file[call[k].fd].of = k.of
WaitOwn  == \A fd \in Fds : waiting[fd].task \in Loops =>
    HasCtx(fd) /\ file[fd].of = waiting[fd].task.of /\ file[fd].of = waiting[fd].of
DelAlone == \A m \in Tasks : pc[m] = "del" => waiting[sock[ClosingOf(m)]].task \notin Loops

ReadInv ==
    /\ BindsOnly /\ WaitsFor /\ EventHooked
    /\ ~early => LoopAlone /\ HookedCtx
    /\ Calm => UnsetGone /\ LoopFile /\ fault = "none"
    /\ ~early /\ OneThread => EventOwn /\ WaitOwn /\ DelAlone

\* The only thread executes one task.
LEMMA OneRuns ==
    ASSUME IInv, OneThread, NEW j \in Tasks, NEW k \in Tasks, pc[j] \in Running, pc[k] \in Running
    PROVE  j = k
BY DEF IInv, TaskInv, HasThread, OneThread

\* addEvent finds no other reader.
LEMMA NoSecondReader ==
    ASSUME IInv, ReadInv, Calm, NEW k \in Loops \cup Handlers, pc[k] = "event"
    PROVE  waiting[call[k].fd].task = None
<1> DEFINE fd == call[k].fd  j == waiting[fd].task
<1>1. fd \in Fds  BY Apart DEF ReadInv, EventHooked
<1>2. SUFFICES ASSUME j # None PROVE FALSE  OBVIOUS
<1>3. j \in Tasks /\ pc[j] = "parked"  BY <1>1, <1>2 DEF IInv, TaskInv, WaitsOnce
<1>4. call[j].fd = fd  BY <1>1, <1>2 DEF ReadInv, WaitsFor
<1>5. j \in Loops \cup Handlers  BY <1>3, Apart DEF IInv, PlaceInv, ClosePoints
<1>6. ~early /\ LoopAlone /\ LoopFile /\ BindsOnly  BY DEF ReadInv, Calm
<1>7. ASSUME NEW h \in Handlers, pc[h] \in {"event", "parked"}, call[h].fd = fd
      PROVE  file[fd].of = h.of /\ h.of \in Clients
  <2>1. h.of \in Clients /\ sock[h.of] \in Fds /\ file[sock[h.of]].of = h.of  BY <1>7, HandlerOpen
  <2>2. call[h].fd = sock[h.of]  BY <1>7, Apart DEF IInv, ClientInv, HandlerFd
  <2>3. QED  BY <1>7, <2>1, <2>2
<1>8. ASSUME NEW h \in Loops, h = j \/ h = k
      PROVE  file[fd].of \notin Clients /\ (OneThread => file[fd].of = h.of)
  <2>1. h.of \in Listeners /\ Alive(h) /\ call[h].fd = fd  BY <1>3, <1>4, <1>8, Apart DEF Alive
  <2>2. CASE OneThread
    <3>1. EventOwn /\ WaitOwn  BY <1>6, <2>2 DEF ReadInv
    <3>2. file[fd].of = h.of  BY <1>1, <1>8, <3>1 DEF EventOwn, WaitOwn
    <3>3. QED  BY <2>1, <3>2, Apart
  <2>3. CASE ~OneThread
    <3>1. file[fd].of \in {None, h.of}  BY <1>1, <1>6, <2>1, <2>3 DEF LoopFile
    <3>2. QED  BY <2>1, <2>3, <3>1, Kinds, Apart
  <2>4. QED  BY <2>2, <2>3
<1>9. CASE j \in Loops /\ k \in Loops
  <2>1. Alive(j) /\ Alive(k)  BY <1>3 DEF Alive
  <2>2. j.of = k.of
    <3>1. CASE OneThread  BY <1>8, <1>9, <3>1
    <3>2. CASE OneBind  BY <1>3, <1>6, <1>9, <3>2 DEF BindsOnly, OneBind
    <3>3. QED  BY <3>1, <3>2 DEF Calm
  <2>3. QED  BY <1>3, <1>6, <1>9, <2>1, <2>2 DEF LoopAlone
<1>10. CASE j \in Loops /\ k \in Handlers  BY <1>7, <1>8, <1>10
<1>11. CASE j \in Handlers /\ k \in Loops  BY <1>3, <1>4, <1>7, <1>8, <1>11
<1>12. CASE j \in Handlers /\ k \in Handlers
  <2>1. j.of = k.of  BY <1>3, <1>4, <1>7, <1>12
  <2>2. QED  BY <1>3, <1>12, <2>1, Apart
<1>13. QED  BY <1>5, <1>9, <1>10, <1>11, <1>12

\* A step that closes and opens nothing, registers nobody and looks nothing up.
Quiet ==
    /\ setup' = setup /\ early' = early /\ fault' = fault /\ m_socks' \subseteq m_socks
    /\ \A fd \in Fds : /\ file'[fd].of = file[fd].of /\ (HasCtx(fd) => HasCtx(fd)')
                       /\ waiting'[fd] = waiting[fd] \/ waiting'[fd].task = None
    /\ \A k \in Tasks :
          /\ \/ call'[k] = call[k]
             \/ pc[k] \in Running \ {"close"} /\ call'[k].fd = -1 /\ pc'[k] \notin {"event", "unset", "del"}
          /\ pc'[k] = "event" => pc[k] = "event"
          /\ pc[k] = "close" => pc'[k] = "close"
          /\ pc'[k] = "unset" => pc[k] = "unset" /\ sock'[ClosingOf(k)] = sock[ClosingOf(k)]
          /\ pc'[k] = "del" => \/ pc[k] = "del" /\ sock'[ClosingOf(k)] = sock[ClosingOf(k)]
                               \/ \E fd \in Fds : fd = sock'[ClosingOf(k)] /\ ~Registered(fd)'
          /\ k \in Loops => (pc'[k] # "none" => pc[k] # "none") /\ (Alive(k)' => Alive(k))

LEMMA QuietStep ==
    ASSUME IInv, ReadInv, Quiet
    PROVE  ReadInv'
<1>1. /\ setup' = setup /\ early' = early /\ fault' = fault
      /\ OneThread' = OneThread /\ Calm' = Calm
  BY DEF Quiet, OneThread, OneBind, Calm
<1>2. BindsOnly'  BY <1>1, Apart DEF ReadInv, BindsOnly, Quiet
<1>3. WaitsFor'
  <2>1. SUFFICES ASSUME NEW fd \in Fds, waiting'[fd].task # None
                 PROVE  call'[waiting'[fd].task].fd = fd
    BY DEF WaitsFor
  <2>2. waiting'[fd] = waiting[fd]  BY <2>1 DEF Quiet
  <2>3. waiting[fd].task \in Tasks /\ pc[waiting[fd].task] = "parked"
    BY <2>1, <2>2 DEF IInv, TaskInv, WaitsOnce
  <2>4. call'[waiting[fd].task] = call[waiting[fd].task]  BY <2>3 DEF Quiet, Running
  <2>5. QED  BY <2>1, <2>2, <2>4 DEF ReadInv, WaitsFor
<1>4. EventHooked'  BY DEF ReadInv, EventHooked, Quiet
<1>5. \A k \in Tasks : pc'[k] \in {"close", "unset", "del"} /\ call'[k] = call[k] =>
        ClosingOf(k)' = ClosingOf(k)
  BY DEF ClosingOf
<1>6. ASSUME ~early PROVE LoopAlone'
  <2>1. \A k \in Loops : Alive(k)' => Alive(k)  BY Apart DEF Quiet
  <2>2. QED  BY <1>6, <2>1 DEF ReadInv, LoopAlone
<1>7. ASSUME ~early PROVE HookedCtx'
  <2>1. SUFFICES ASSUME NEW k \in Loops, Alive(k)', call'[k].fd \in Fds, call'[k].hooked,
                        file'[call'[k].fd].of = k.of
                 PROVE  HasCtx(call[k].fd)' \/ \E m \in Tasks : pc'[m] = "close" /\ ClosingOf(m)' = k.of
    BY DEF HookedCtx
  <2>2. call'[k] = call[k] /\ Alive(k)  BY <2>1, Apart DEF Quiet
  <2>3. file[call[k].fd].of = k.of  BY <2>1, <2>2 DEF Quiet
  <2>4. HasCtx(call[k].fd) \/ \E m \in Tasks : pc[m] = "close" /\ ClosingOf(m) = k.of
    BY <1>7, <2>1, <2>2, <2>3 DEF ReadInv, HookedCtx
  <2>5. \A m \in Tasks : pc[m] = "close" => pc'[m] = "close" /\ call'[m] = call[m]  BY DEF Quiet
  <2>6. QED  BY <1>5, <2>1, <2>2, <2>4, <2>5 DEF Quiet
<1>8. ASSUME Calm PROVE UnsetGone' /\ LoopFile'
  <2>1. UnsetGone /\ LoopFile  BY <1>8 DEF ReadInv
  <2>2. UnsetGone'
    <3>1. SUFFICES ASSUME NEW m \in Loops \cup Stoppers, pc'[m] = "unset"
                   PROVE  file'[sock'[ClosingOf(m)']].of = None
      BY DEF UnsetGone
    <3>2. m \in Tasks /\ call'[m] = call[m] /\ pc[m] = "unset" /\ sock'[ClosingOf(m)] = sock[ClosingOf(m)]
      BY <3>1, Apart DEF Quiet
    <3>3. ClosingOf(m)' = ClosingOf(m)  BY <1>5, <3>1, <3>2
    <3>4. sock[ClosingOf(m)] \in Fds  BY <3>2, Closers DEF ClosePoints
    <3>5. QED  BY <2>1, <3>1, <3>2, <3>3, <3>4 DEF UnsetGone, Quiet
  <2>3. LoopFile'
    <3>1. SUFFICES ASSUME NEW k \in Loops, Alive(k)', call'[k].fd \in Fds
                   PROVE  \/ file'[call'[k].fd].of \in {None, k.of}
                          \/ OneThread /\ file'[call'[k].fd].of \in Clients
      BY <1>1 DEF LoopFile
    <3>2. call'[k] = call[k] /\ Alive(k)  BY <3>1, Apart DEF Quiet
    <3>3. QED  BY <2>1, <3>1, <3>2 DEF LoopFile, Quiet
  <2>4. QED  BY <2>2, <2>3
<1>9. ASSUME ~early, OneThread PROVE EventOwn' /\ WaitOwn' /\ DelAlone'
  <2>1. EventOwn /\ WaitOwn /\ DelAlone  BY <1>9 DEF ReadInv
  <2>2. EventOwn'
    <3>1. SUFFICES ASSUME NEW k \in Loops, pc'[k] = "event"
                   PROVE  HasCtx(call[k].fd)' /\ file'[call'[k].fd].of = k.of
      BY DEF EventOwn
    <3>2. pc[k] = "event" /\ call'[k] = call[k]  BY <3>1, Apart DEF Quiet
    <3>3. call[k].fd \in Fds  BY <3>2, Apart DEF ReadInv, EventHooked
    <3>4. QED  BY <2>1, <3>1, <3>2, <3>3 DEF EventOwn, Quiet
  <2>3. WaitOwn'
    <3>1. SUFFICES ASSUME NEW fd \in Fds, waiting'[fd].task \in Loops
                   PROVE  HasCtx(fd)' /\ file'[fd].of = waiting'[fd].task.of /\ file'[fd].of = waiting'[fd].of
      BY DEF WaitOwn
    <3>2. waiting'[fd] = waiting[fd]  BY <3>1, Kinds DEF Quiet
    <3>3. QED  BY <2>1, <3>1, <3>2 DEF WaitOwn, Quiet
  <2>4. DelAlone'
    <3>1. SUFFICES ASSUME NEW m \in Tasks, pc'[m] = "del"
                   PROVE  waiting'[sock'[ClosingOf(m)']].task \notin Loops
      BY DEF DelAlone
    <3>2. ClosingOf(m)' = ClosingOf(m)  BY <1>5, <3>1 DEF Quiet
    <3>3. ASSUME NEW fd \in Fds, fd = sock'[ClosingOf(m)], ~Registered(fd)'
          PROVE  waiting'[sock'[ClosingOf(m)']].task \notin Loops
      <4>1. SUFFICES ASSUME waiting'[fd].task \in Loops PROVE FALSE  BY <3>2, <3>3
      <4>2. HasCtx(fd)' /\ file'[fd].of = waiting'[fd].task.of /\ file'[fd].of = waiting'[fd].of
        BY <2>3, <4>1 DEF WaitOwn
      <4>3. waiting'[fd].task # None /\ Open(fd)'  BY <4>1, <4>2, Apart, Kinds, NoRecords DEF Open
      <4>4. QED  BY <3>3, <4>2, <4>3 DEF Registered
    <3>4. CASE pc[m] = "del" /\ sock'[ClosingOf(m)] = sock[ClosingOf(m)]
      <4>1. sock[ClosingOf(m)] \in Fds  BY <3>4, Closers DEF ClosePoints
      <4>2. waiting[sock[ClosingOf(m)]].task \notin Loops  BY <2>1, <3>4 DEF DelAlone
      <4>3. LET fd == sock[ClosingOf(m)] IN waiting'[fd] = waiting[fd] \/ waiting'[fd].task = None
        BY <4>1 DEF Quiet
      <4>4. None \notin Loops  BY Kinds
      <4>5. QED  BY <3>2, <3>4, <4>2, <4>3, <4>4
    <3>5. QED  BY <3>1, <3>3, <3>4 DEF Quiet
  <2>5. QED  BY <2>2, <2>3, <2>4
<1>10. Calm => fault' = "none"  BY <1>1 DEF ReadInv
<1>11. QED  BY <1>1, <1>2, <1>3, <1>4, <1>6, <1>7, <1>8, <1>9, <1>10 DEF ReadInv

\* The owner goes on while nothing runs, or too early.
OwnerGoes ==
    /\ setup' = setup /\ fault' = fault /\ call' = call /\ waiting' = waiting
    /\ m_socks' \subseteq setup.binds /\ \A c \in Clients : sock'[c] = sock[c]
    /\ early' \/ (~early /\ \A k \in Loops \cup Stoppers : ~Alive(k))
    /\ \A k \in Tasks : \/ pc'[k] = pc[k]
                        \/ /\ k \in Loops /\ k.of \in setup.binds /\ k.n = starts + 1
                           /\ pc[k] = "none" /\ pc'[k] = "queued"

LEMMA OwnerGoesStep ==
    ASSUME IInv, ReadInv, OwnerGoes
    PROVE  ReadInv'
<1>1. OneThread' = OneThread /\ (Calm' => Calm)
  BY DEF OwnerGoes, OneThread, OneBind, Calm
<1>2. BindsOnly'  BY Apart DEF ReadInv, BindsOnly, OwnerGoes
<1>3. WaitsFor'  BY DEF ReadInv, WaitsFor, OwnerGoes
<1>4. EventHooked'  BY DEF ReadInv, EventHooked, OwnerGoes
<1>5. ASSUME ~early'
      PROVE  /\ ~early /\ \A k \in Stoppers : pc'[k] \in {"none", "done"}
             /\ \A k \in Loops : \/ pc'[k] \in {"none", "done"}
                                 \/ pc'[k] = "queued" /\ k.n = starts + 1
             /\ \A k \in Loops : call'[k].fd = -1
             /\ \A fd \in Fds : waiting'[fd].task \notin Loops
  <2>1. ~early /\ \A k \in Loops \cup Stoppers : pc[k] \in {"none", "done"}
    BY <1>5 DEF OwnerGoes, Alive
  <2>2. \A k \in Loops : call[k].fd = -1  BY <2>1 DEF IInv, RunInv
  <2>3. \A fd \in Fds : waiting[fd].task \notin Loops
    BY <2>1, Kinds DEF IInv, TaskInv, WaitsOnce
  <2>4. QED  BY <2>1, <2>2, <2>3, Apart DEF OwnerGoes
<1>6. ASSUME ~early' PROVE LoopAlone' /\ HookedCtx'
  <2>1. ASSUME NEW j \in Loops, NEW k \in Loops, j.of = k.of, j.n = k.n PROVE j = k
    BY <2>1 DEF Loops
  <2>2. LoopAlone'  BY <1>5, <1>6, <2>1 DEF LoopAlone, Alive
  <2>3. HookedCtx'  BY <1>5, <1>6, Apart DEF HookedCtx
  <2>4. QED  BY <2>2, <2>3
<1>7. ASSUME ~early' PROVE UnsetGone' /\ LoopFile'
  BY <1>5, <1>7, Apart DEF UnsetGone, LoopFile
<1>8. ASSUME ~early' PROVE EventOwn' /\ WaitOwn'
  BY <1>5, <1>8 DEF EventOwn, WaitOwn
<1>9. ASSUME ~early' PROVE DelAlone'
  <2>1. SUFFICES ASSUME NEW m \in Tasks, pc'[m] = "del"
                 PROVE  waiting'[sock'[ClosingOf(m)']].task \notin Loops
    BY DEF DelAlone
  <2>2. m \in Handlers /\ pc[m] = "del"  BY <1>5, <1>9, <2>1, Apart DEF OwnerGoes
  <2>3. ClosingOf(m)' = ClosingOf(m) /\ ClosingOf(m) \in Clients /\ sock[ClosingOf(m)] \in Fds
    BY <2>2, Closers, Apart DEF OwnerGoes, ClosingOf, ClosePoints
  <2>4. QED  BY <1>5, <1>9, <2>3 DEF OwnerGoes
<1>10. Calm' => fault' = "none"  BY <1>1 DEF ReadInv, OwnerGoes
<1>11. QED
  BY <1>1, <1>2, <1>3, <1>4, <1>5, <1>6, <1>7, <1>8, <1>9, <1>10 DEF ReadInv, Calm

\* What a closing task closes stays the same while it closes it.
LEMMA ClosingSame ==
    ASSUME NEW m \in Tasks, call'[m] = call[m]
    PROVE  ClosingOf(m)' = ClosingOf(m)
BY DEF ClosingOf

\* A call on a socket that has been closed finds its number free.
LEMMA LookupReads ==
    ASSUME IInv, ReadInv, NEW t \in Threads, Lookup(t)
    PROVE  ReadInv'
<1> DEFINE k == run[t]
<1>0. LookupDoes(t)  BY LookupEffect
<1>type. pc \in [Tasks -> Points] /\ call \in [Tasks -> Calls] /\ sock \in [Sockets -> Fds \cup {-1}]
  BY DEF IInv, TypeOK
<1>1. /\ k \in Loops \cup Handlers /\ k \in Tasks /\ k.of \in Sockets
      /\ pc[k] = "lookup" /\ pc'[k] = "call"
      /\ \A j \in Tasks : j # k => pc'[j] = pc[j] /\ call'[j] = call[j]
      /\ UNCHANGED <<setup, file, ctx, waiting, sock, m_socks, early, fault>>
  BY <1>0, <1>type DEF LookupDoes, Moves
<1>2. call'[k].fd = sock[k.of] /\ (call'[k].hooked => HasCtx(sock[k.of]))
  <2>1. call' = [call EXCEPT ![k] = [NoCall EXCEPT !.fd = sock[k.of],
                                       !.hooked = HasCtx(sock[k.of]) /\ ~ctx[sock[k.of]].user]]
    BY DEF Lookup, Set
  <2>2. QED  BY <1>type, <1>1, <2>1 DEF NoCall
<1>3. OneThread' = OneThread /\ Calm' = Calm  BY <1>1 DEF OneThread, OneBind, Calm
<1>4. \A m \in Tasks : pc'[m] \in ClosePoints \cup {"event"} => m # k /\ pc[m] = pc'[m] /\ call'[m] = call[m]
  BY <1>1 DEF ClosePoints
<1>5. \A m \in Tasks : pc[m] = "close" => m # k /\ pc'[m] = "close" /\ call'[m] = call[m]  BY <1>1
<1>6. BindsOnly'  BY <1>1, Apart DEF ReadInv, BindsOnly
<1>7. WaitsFor'
  <2>1. \A fd \in Fds : waiting[fd].task # None =>
          waiting[fd].task \in Tasks /\ pc[waiting[fd].task] = "parked"
    BY DEF IInv, TaskInv, WaitsOnce
  <2>2. QED  BY <1>1, <2>1 DEF ReadInv, WaitsFor
<1>8. EventHooked'  BY <1>4 DEF ReadInv, EventHooked
<1>9. \A j \in Loops : Alive(j)' => Alive(j)  BY <1>1, Apart DEF Alive
<1>10. ASSUME ~early PROVE LoopAlone'  BY <1>9, <1>10 DEF ReadInv, LoopAlone
<1>11. ASSUME ~early PROVE HookedCtx'
  <2>1. SUFFICES ASSUME NEW j \in Loops, Alive(j)', call'[j].fd \in Fds, call'[j].hooked,
                        file'[call'[j].fd].of = j.of
                 PROVE  HasCtx(call[j].fd)' \/ \E m \in Tasks : pc'[m] = "close" /\ ClosingOf(m)' = j.of
    BY DEF HookedCtx
  <2>2. CASE j = k  BY <1>1, <1>2, <2>1, <2>2 DEF HasCtx
  <2>3. CASE j # k
    <3>1. call'[j] = call[j] /\ Alive(j)  BY <1>1, <1>9, <2>1, <2>3, Apart
    <3>2. HasCtx(call[j].fd) \/ \E m \in Tasks : pc[m] = "close" /\ ClosingOf(m) = j.of
      BY <1>1, <1>11, <2>1, <3>1 DEF ReadInv, HookedCtx
    <3>3. QED  BY <1>1, <1>5, <3>1, <3>2, ClosingSame DEF HasCtx
  <2>4. QED  BY <2>2, <2>3
<1>12. ASSUME Calm PROVE UnsetGone' /\ LoopFile' /\ fault' = "none"
  <2>1. UnsetGone /\ LoopFile  BY <1>12 DEF ReadInv
  <2>2. UnsetGone'  BY <1>1, <1>4, <2>1, ClosingSame, Apart DEF UnsetGone, ClosePoints
  <2>3. LoopFile'
    <3>1. SUFFICES ASSUME NEW j \in Loops, Alive(j)', call'[j].fd \in Fds
                   PROVE  \/ file[call'[j].fd].of \in {None, j.of}
                          \/ OneThread /\ file[call'[j].fd].of \in Clients
      BY <1>1, <1>3 DEF LoopFile
    <3>2. CASE j # k  BY <1>1, <1>9, <2>1, <3>1, <3>2, Apart DEF LoopFile
    <3>3. CASE j = k
      <4>1. sock[j.of] # -1 /\ j.of \in Listeners  BY <1>2, <3>1, <3>3, Apart
      <4>2. SUFFICES ASSUME file[sock[j.of]].of # j.of PROVE file[sock[j.of]].of = None
        BY <1>2, <3>3
      <4>3. PICK m \in Tasks : pc[m] = "unset" /\ ClosingOf(m) = j.of
        BY <4>1, <4>2, Apart DEF IInv, OwnInv, SocketHolds
      <4>4. m \in Loops \cup Stoppers  BY <4>1, <4>3, Closers, Apart DEF ClosePoints
      <4>5. QED  BY <2>1, <4>3, <4>4 DEF UnsetGone
    <3>4. QED  BY <3>2, <3>3
  <2>4. QED  BY <1>1, <1>12, <2>2, <2>3 DEF ReadInv
<1>13. ASSUME ~early, OneThread PROVE EventOwn' /\ WaitOwn' /\ DelAlone'
  <2>1. EventOwn /\ WaitOwn /\ DelAlone  BY <1>13 DEF ReadInv
  <2>2. EventOwn'  BY <1>1, <1>4, <2>1, Apart DEF EventOwn, HasCtx
  <2>3. WaitOwn'  BY <1>1, <2>1 DEF WaitOwn, HasCtx
  <2>4. DelAlone'  BY <1>1, <1>4, <2>1, ClosingSame DEF DelAlone, ClosePoints
  <2>5. QED  BY <2>2, <2>3, <2>4
<1>14. QED  BY <1>1, <1>3, <1>6, <1>7, <1>8, <1>10, <1>11, <1>12, <1>13 DEF ReadInv

\* A call that finds nothing waits for its own socket.
LEMMA CallWaitsReads ==
    ASSUME IInv, ReadInv, NEW t \in Threads, CallWaits(t)
    PROVE  ReadInv'
<1> DEFINE k == run[t]
<1>0. CallWaitsDoes(t)  BY CallWaitsEffect
<1>type. pc \in [Tasks -> Points] /\ call \in [Tasks -> Calls]  BY DEF IInv, TypeOK
<1>1. /\ k \in Loops \cup Handlers /\ k \in Tasks /\ pc[k] = "call"
      /\ Open(call[k].fd) /\ (k \in Loops => file[call[k].fd].of \in Listeners)
      /\ pc'[k] \in {"blocked", "event", "check", "cancel"}
      /\ \A j \in Tasks : j # k => pc'[j] = pc[j]
      /\ UNCHANGED <<setup, call, file, ctx, waiting, sock, m_socks, early, fault>>
  BY <1>0, <1>type DEF CallWaitsDoes, Moves
<1>2. CASE pc'[k] # "event"
  <2>1. Quiet
    BY <1>1, <1>2, ClosingSame, Apart DEF Quiet, HasCtx, Alive
  <2>2. QED  BY <2>1, QuietStep
<1>3. CASE pc'[k] = "event"
  <2>1. call[k].hooked /\ call[k].fd \in Fds
    <3>1. call[k].fd \in Fds  BY <1>1 DEF Open
    <3>2. pc' = [pc EXCEPT ![k] = "event"] => call[k].hooked \/ pc'[k] # "event"
      BY <1>type, <1>1, <1>3 DEF CallWaits, Goto, Failed
    <3>3. QED  BY <1>0, <1>type, <1>1, <1>3, <3>1, <3>2 DEF CallWaitsDoes, Moves
  <2>2. OneThread' = OneThread /\ Calm' = Calm  BY <1>1 DEF OneThread, OneBind, Calm
  <2>3. \A m \in Tasks : pc'[m] \in ClosePoints <=> pc[m] \in ClosePoints  BY <1>1, <1>3 DEF ClosePoints
  <2>4. \A m \in Tasks : pc'[m] \in ClosePoints => pc'[m] = pc[m] /\ ClosingOf(m)' = ClosingOf(m)
    BY <1>1, <2>3, ClosingSame DEF ClosePoints
  <2>5. \A m \in Tasks : pc[m] \in ClosePoints => pc'[m] = pc[m] /\ ClosingOf(m)' = ClosingOf(m)
    BY <2>3, <2>4
  <2>6. \A j \in Loops : Alive(j)' <=> Alive(j)  BY <1>1, Apart DEF Alive
  <2>7. BindsOnly' /\ WaitsFor' /\ EventHooked'
    BY <1>1, <2>1, Apart DEF ReadInv, BindsOnly, WaitsFor, EventHooked
  <2>8. ASSUME ~early PROVE LoopAlone' /\ HookedCtx'
    BY <1>1, <2>5, <2>6, <2>8 DEF ReadInv, LoopAlone, HookedCtx, HasCtx, ClosePoints
  <2>9. ASSUME Calm PROVE UnsetGone' /\ LoopFile' /\ fault' = "none"
    BY <1>1, <2>2, <2>4, <2>6, <2>9, Apart DEF ReadInv, UnsetGone, LoopFile, ClosePoints
  <2>10. ASSUME ~early, OneThread PROVE EventOwn' /\ WaitOwn' /\ DelAlone'
    <3>1. EventOwn /\ WaitOwn /\ DelAlone /\ LoopFile /\ HookedCtx  BY <2>10 DEF ReadInv, Calm
    <3>2. ASSUME k \in Loops PROVE HasCtx(call[k].fd) /\ file[call[k].fd].of = k.of
      <4>1. file[call[k].fd].of = k.of
        BY <1>1, <2>1, <3>1, <3>2, Kinds, Apart DEF LoopFile, Alive
      <4>2. \A m \in Tasks : pc[m] # "close"
        BY <1>1, <2>10, OneRuns DEF Running, Points
      <4>3. QED  BY <1>1, <2>1, <3>1, <3>2, <4>1, <4>2 DEF HookedCtx, Alive
    <3>3. EventOwn'  BY <1>1, <3>1, <3>2, Apart DEF EventOwn, HasCtx
    <3>4. WaitOwn'  BY <1>1, <3>1 DEF WaitOwn, HasCtx
    <3>5. DelAlone'  BY <1>1, <2>4, <3>1 DEF DelAlone, ClosePoints
    <3>6. QED  BY <3>3, <3>4, <3>5
  <2>11. QED  BY <1>1, <2>2, <2>7, <2>8, <2>9, <2>10 DEF ReadInv
<1>4. QED  BY <1>2, <1>3

\* A reader that is registered is the only one.
LEMMA AddEventReads ==
    ASSUME IInv, ReadInv, NEW t \in Threads, AddEvent(t)
    PROVE  ReadInv'
<1> DEFINE k == run[t]  fd == call[k].fd
<1>0. AddEventDoes(t)  BY AddEventEffect
<1>type. pc \in [Tasks -> Points] /\ waiting \in [Fds -> Waiters]  BY DEF IInv, TypeOK
<1>1. /\ k \in Loops \cup Handlers /\ k \in Tasks /\ pc[k] = "event"
      /\ UNCHANGED <<setup, call, file, ctx, sock, m_socks, early>>
  BY <1>0, Apart DEF AddEventDoes
<1>2. fd \in Fds  BY <1>1 DEF ReadInv, EventHooked
<1>3. OneThread' = OneThread /\ Calm' = Calm  BY <1>1 DEF OneThread, OneBind, Calm
<1>4. CASE fault' = "assert" /\ UNCHANGED <<pc, waiting>> /\ waiting[fd].task # None
  <2>1. ~Calm  BY <1>1, <1>4, NoSecondReader
  <2>2. BindsOnly' /\ WaitsFor' /\ EventHooked'
    BY <1>1, <1>4 DEF ReadInv, BindsOnly, WaitsFor, EventHooked
  <2>3. ASSUME ~early PROVE LoopAlone' /\ HookedCtx'
    BY <1>1, <1>4, <2>3 DEF ReadInv, LoopAlone, HookedCtx, Alive, HasCtx, ClosingOf
  <2>4. early \/ ~OneThread  BY <2>1 DEF Calm
  <2>5. QED  BY <1>1, <1>3, <2>1, <2>2, <2>3, <2>4 DEF ReadInv
<1>5. CASE /\ UNCHANGED <<waiting, fault>> /\ pc'[k] \in {"check", "cancel"}
           /\ \A j \in Tasks : j # k => pc'[j] = pc[j]
  <2>1. Quiet  BY <1>1, <1>5, Apart DEF Quiet, HasCtx, Alive
  <2>2. QED  BY <2>1, QuietStep
<1>6. CASE /\ waiting[fd].task = None /\ waiting'[fd].task = k /\ waiting'[fd].of = file[fd].of
           /\ fault' = fault
           /\ \A gd \in Fds : gd # fd => waiting'[gd] = waiting[gd]
           /\ pc'[k] = "parked" /\ \A j \in Tasks : j # k => pc'[j] = pc[j]
  <2>1. \A m \in Tasks : pc'[m] \in ClosePoints <=> pc[m] \in ClosePoints  BY <1>1, <1>6 DEF ClosePoints
  <2>2. \A m \in Tasks : pc'[m] \in ClosePoints => pc'[m] = pc[m] /\ ClosingOf(m)' = ClosingOf(m)
    BY <1>1, <1>6, <2>1, ClosingSame DEF ClosePoints
  <2>3. \A m \in Tasks : pc[m] \in ClosePoints => pc'[m] = pc[m] /\ ClosingOf(m)' = ClosingOf(m)
    BY <2>1, <2>2
  <2>4. \A j \in Loops : Alive(j)' <=> Alive(j)  BY <1>1, <1>6, Apart DEF Alive
  <2>5. BindsOnly' /\ WaitsFor' /\ EventHooked'
    BY <1>1, <1>6, Apart DEF ReadInv, BindsOnly, WaitsFor, EventHooked
  <2>6. ASSUME ~early PROVE LoopAlone' /\ HookedCtx'
    BY <1>1, <2>3, <2>4, <2>6 DEF ReadInv, LoopAlone, HookedCtx, HasCtx, ClosePoints
  <2>7. ASSUME Calm PROVE UnsetGone' /\ LoopFile' /\ fault' = "none"
    BY <1>1, <1>3, <1>6, <2>2, <2>4, <2>7, Apart DEF ReadInv, UnsetGone, LoopFile, ClosePoints
  <2>8. ASSUME ~early, OneThread PROVE EventOwn' /\ WaitOwn' /\ DelAlone'
    <3>1. EventOwn /\ WaitOwn /\ DelAlone  BY <2>8 DEF ReadInv
    <3>2. EventOwn'  BY <1>1, <1>6, <3>1, Apart DEF EventOwn, HasCtx
    <3>3. WaitOwn'  BY <1>1, <1>2, <1>6, <3>1 DEF EventOwn, WaitOwn, HasCtx
    <3>4. \A m \in Tasks : pc[m] # "del"  BY <1>1, <2>8, OneRuns DEF Running, Points
    <3>5. DelAlone'  BY <2>2, <3>4 DEF DelAlone, ClosePoints
    <3>6. QED  BY <3>2, <3>3, <3>5
  <2>9. QED  BY <1>1, <1>3, <2>5, <2>6, <2>7, <2>8 DEF ReadInv
<1>7. QED
  <2>1. CASE waiting[fd].task # None /\ fault' = "assert" /\ UNCHANGED <<pc, run, waiting>>
    BY <1>4, <2>1
  <2>2. CASE Failed(t) /\ UNCHANGED <<run, waiting, fault>>
    BY <1>type, <1>1, <1>5, <2>2 DEF Failed, Goto
  <2>3. CASE /\ waiting[fd].task = None
             /\ waiting' = [waiting EXCEPT ![fd] = [task |-> k, of |-> file[fd].of]]
             /\ Goto(t, "parked") /\ Leave(t) /\ UNCHANGED fault
    BY <1>type, <1>1, <1>2, <1>6, <2>3 DEF Goto
  <2>4. QED  BY <2>1, <2>2, <2>3 DEF AddEvent

\* A connection does not get the number of a socket that its loop still uses.
LEMMA AcceptReads ==
    ASSUME IInv, ReadInv, NEW t \in Threads, NEW c \in Clients, Accept(t, c)
    PROVE  ReadInv'
<1> DEFINE k == run[t]
<1>type. /\ pc \in [Tasks -> Points] /\ call \in [Tasks -> Calls] /\ file \in [Fds -> Files]
  BY DEF IInv, TypeOK
<1>0. k \in Loops /\ k \in Tasks /\ pc[k] = "call"
  <2>1. AcceptDoes(t, c)  BY AcceptEffect
  <2>2. QED  BY <2>1 DEF AcceptDoes, Moves
<1>1. PICK fd \in Fds :
        /\ ~Open(fd) /\ file' = [file EXCEPT ![fd] = [of |-> c, nonblock |-> "off"]]
        /\ call' = [call EXCEPT ![k] = [call[k] EXCEPT !.new = fd, !.sock = c]]
  BY DEF Accept, NewFd, FreeFds, Set
<1>2. Open(call[k].fd) /\ pc'[k] = "create" /\ \A j \in Tasks : j # k => pc'[j] = pc[j]
  BY <1>type, <1>0 DEF Accept, Goto
<1>3. UNCHANGED <<setup, ctx, waiting, sock, m_socks, early, fault>>
  BY DEF Accept, poolVars, serverVars
<1>4. file'[fd].of = c /\ file[fd].of = None /\ \A gd \in Fds : gd # fd => file'[gd] = file[gd]
  BY <1>type, <1>1, NoRecords DEF Open
<1>5. /\ \A j \in Tasks : j # k => call'[j] = call[j]
      /\ call'[k].fd = call[k].fd /\ call'[k].hooked = call[k].hooked
  BY <1>type, <1>0, <1>1 DEF Calls
<1>6. OneThread' = OneThread /\ Calm' = Calm  BY <1>3 DEF OneThread, OneBind, Calm
<1>7. \A gd \in Fds : HasCtx(gd)' = HasCtx(gd) /\ (HasCtx(gd) => gd # fd)
  BY <1>1, <1>3 DEF HasCtx, IInv, OwnInv, CtxOfFile
<1>8. \A m \in Tasks : pc'[m] \in ClosePoints \cup {"event"} <=> pc[m] \in ClosePoints \cup {"event"}
  BY <1>0, <1>2 DEF ClosePoints
<1>9. \A m \in Tasks : pc[m] \in ClosePoints \cup {"event"} => m # k /\ pc'[m] = pc[m] /\ call'[m] = call[m]
  BY <1>0, <1>2, <1>5 DEF ClosePoints
<1>10. \A j \in Loops : Alive(j)' <=> Alive(j)  BY <1>0, <1>2, Apart DEF Alive
<1>11. BindsOnly'  BY <1>0, <1>2, <1>3, Apart DEF ReadInv, BindsOnly
<1>12. WaitsFor'
  <2>1. \A gd \in Fds : waiting[gd].task # None => waiting[gd].task \in Tasks
    BY DEF IInv, TaskInv, WaitsOnce
  <2>2. QED  BY <1>3, <1>5, <2>1 DEF ReadInv, WaitsFor
<1>13. EventHooked'  BY <1>8, <1>9 DEF ReadInv, EventHooked
<1>14. ASSUME ~early PROVE LoopAlone'  BY <1>10, <1>14 DEF ReadInv, LoopAlone
<1>15. ASSUME ~early PROVE HookedCtx'
  <2>1. SUFFICES ASSUME NEW j \in Loops, Alive(j)', call'[j].fd \in Fds, call'[j].hooked,
                        file'[call'[j].fd].of = j.of
                 PROVE  HasCtx(call[j].fd)' \/ \E m \in Tasks : pc'[m] = "close" /\ ClosingOf(m)' = j.of
    BY DEF HookedCtx
  <2>2. call'[j].fd = call[j].fd /\ call[j].hooked /\ Alive(j)  BY <1>5, <1>10, <2>1, Apart
  <2>3. call[j].fd # fd  BY <1>4, <2>1, <2>2, Apart
  <2>4. file[call[j].fd].of = j.of  BY <1>4, <2>1, <2>2, <2>3
  <2>5. HasCtx(call[j].fd) \/ \E m \in Tasks : pc[m] = "close" /\ ClosingOf(m) = j.of
    BY <1>15, <2>1, <2>2, <2>4 DEF ReadInv, HookedCtx
  <2>6. CASE HasCtx(call[j].fd)  BY <1>3, <2>2, <2>6 DEF HasCtx
  <2>7. ASSUME NEW m \in Tasks, pc[m] = "close", ClosingOf(m) = j.of
        PROVE  pc'[m] = "close" /\ ClosingOf(m)' = j.of
    BY <1>9, <2>7, ClosingSame DEF ClosePoints
  <2>8. QED  BY <2>5, <2>6, <2>7
<1>16. ASSUME ~early, OneThread, NEW m \in Tasks, pc[m] \in ClosePoints PROVE FALSE
  BY <1>0, <1>16, OneRuns DEF ClosePoints, Running, Points
<1>17. ASSUME ~early, ~OneThread, Calm PROVE file[call[k].fd].of = k.of
  <2>1. file[call[k].fd].of \in {None, k.of}
    BY <1>0, <1>2, <1>17 DEF ReadInv, LoopFile, Alive, Open
  <2>2. QED  BY <1>2, <2>1 DEF Open, IInv, OwnInv, NothingOfNone
<1>18. ASSUME Calm PROVE UnsetGone'
  <2>1. SUFFICES ASSUME NEW m \in Loops \cup Stoppers, pc'[m] = "unset"
                 PROVE  file'[sock'[ClosingOf(m)']].of = None
    BY DEF UnsetGone
  <2>2. m \in Tasks /\ pc[m] = "unset" /\ m # k /\ ClosingOf(m)' = ClosingOf(m)
    BY <1>0, <1>2, <1>5, <2>1, Apart, ClosingSame
  <2>3. ClosingOf(m) \in Sockets /\ sock[ClosingOf(m)] \in Fds /\ file[sock[ClosingOf(m)]].of = None
    BY <1>18, <2>1, <2>2, Closers DEF ReadInv, UnsetGone, ClosePoints
  <2>4. sock[ClosingOf(m)] # fd
    <3>1. SUFFICES ASSUME sock[ClosingOf(m)] = fd PROVE FALSE  OBVIOUS
    <3>2. ~OneThread /\ ~early /\ OneBind  BY <1>16, <1>18, <2>2 DEF Calm, ClosePoints
    <3>3. ClosingOf(m) \in setup.binds /\ k.of \in setup.binds
      BY <1>0, <2>1, <2>2, Closers DEF ReadInv, BindsOnly, ClosePoints
    <3>4. ClosingOf(m) = k.of  BY <3>2, <3>3 DEF OneBind
    <3>5. file[call[k].fd].of = k.of /\ call[k].fd \in Fds  BY <1>2, <1>17, <1>18, <3>2 DEF Open
    <3>6. sock[k.of] = call[k].fd
      <4>1. k.of \in Listeners /\ k.of # None  BY <1>0, Apart
      <4>2. \A j \in Loops : Making(j) => file[call[j].new].of \in Clients
        BY DEF IInv, ClientInv, MakingHolds
      <4>3. QED  BY <3>5, <4>1, <4>2, Apart DEF IInv, OwnInv, FileHeld
    <3>7. QED  BY <1>1, <1>2, <3>1, <3>4, <3>6
  <2>5. QED  BY <1>3, <1>4, <2>2, <2>3, <2>4
<1>19. ASSUME Calm PROVE LoopFile'
  <2>1. SUFFICES ASSUME NEW j \in Loops, Alive(j)', call'[j].fd \in Fds
                 PROVE  \/ file'[call'[j].fd].of \in {None, j.of}
                        \/ OneThread /\ file'[call'[j].fd].of \in Clients
    BY <1>6 DEF LoopFile
  <2>2. call'[j].fd = call[j].fd /\ Alive(j)  BY <1>5, <1>10, <2>1, Apart
  <2>3. CASE call[j].fd # fd  BY <1>4, <1>19, <2>1, <2>2, <2>3 DEF ReadInv, LoopFile
  <2>4. CASE call[j].fd = fd /\ OneThread  BY <1>4, <2>2, <2>4
  <2>5. CASE call[j].fd = fd /\ ~OneThread
    <3>1. OneBind /\ ~early  BY <1>19, <2>5 DEF Calm
    <3>2. j.of \in setup.binds /\ k.of \in setup.binds
      BY <1>0, <2>2 DEF ReadInv, BindsOnly, Alive
    <3>3. Alive(k)  BY <1>0 DEF Alive
    <3>4. j = k  BY <1>0, <2>2, <3>1, <3>2, <3>3 DEF OneBind, ReadInv, LoopAlone
    <3>5. QED  BY <1>1, <1>2, <2>5, <3>4
  <2>6. QED  BY <2>3, <2>4, <2>5
<1>20. ASSUME ~early, OneThread PROVE EventOwn' /\ WaitOwn' /\ DelAlone'
  <2>1. EventOwn /\ WaitOwn /\ DelAlone  BY <1>20 DEF ReadInv
  <2>2. EventOwn'
    <3>1. \A j \in Tasks : pc[j] # "event"  BY <1>0, <1>20, OneRuns DEF Running, Points
    <3>2. QED  BY <1>2, <3>1, Apart DEF EventOwn
  <2>3. WaitOwn'  BY <1>3, <1>4, <1>7, <2>1 DEF WaitOwn
  <2>4. DelAlone'
    <3>1. \A m \in Tasks : pc'[m] # "del"  BY <1>2, <1>16, <1>20 DEF ClosePoints
    <3>2. QED  BY <3>1 DEF DelAlone
  <2>5. QED  BY <2>2, <2>3, <2>4
<1>21. QED
  BY <1>3, <1>6, <1>11, <1>12, <1>13, <1>14, <1>15, <1>18, <1>19, <1>20 DEF ReadInv

\* The context of a socket is deleted when no loop waits on it.
LEMMA CloseDelReads ==
    ASSUME IInv, ReadInv, NEW t \in Threads, CloseDel(t)
    PROVE  ReadInv'
<1> DEFINE n == run[t]  s == ClosingOf(n)  fd == sock[s]
<1>type. pc \in [Tasks -> Points] /\ ctx \in [Fds -> Contexts]  BY DEF IInv, TypeOK
<1>0. CloseDelDoes(t)  BY CloseDelEffect
<1>1. /\ n \in Tasks /\ pc[n] = "del" /\ pc'[n] = "close" /\ fd \in Fds /\ file[fd].of = s
      /\ \A j \in Tasks : j # n => pc'[j] = pc[j]
      /\ \A gd \in Fds : gd # fd => ctx'[gd] = ctx[gd]
      /\ UNCHANGED <<setup, call, file, waiting, sock, m_socks, early, fault>>
  BY <1>0, <1>type DEF CloseDelDoes, Moves
<1>2. \A m \in Tasks : ClosingOf(m)' = ClosingOf(m)  BY <1>1, ClosingSame
<1>3. OneThread' = OneThread /\ Calm' = Calm  BY <1>1 DEF OneThread, OneBind, Calm
<1>4. \A j \in Loops : Alive(j)' <=> Alive(j)  BY <1>1, Apart DEF Alive
<1>5. BindsOnly' /\ WaitsFor' /\ EventHooked'
  BY <1>1, Apart DEF ReadInv, BindsOnly, WaitsFor, EventHooked
<1>6. ASSUME ~early PROVE LoopAlone' /\ HookedCtx'
  <2>1. LoopAlone'  BY <1>4, <1>6 DEF ReadInv, LoopAlone
  <2>2. SUFFICES ASSUME NEW j \in Loops, Alive(j), call[j].fd \in Fds, call[j].hooked,
                        file[call[j].fd].of = j.of
                 PROVE  HasCtx(call[j].fd)' \/ \E m \in Tasks : pc'[m] = "close" /\ ClosingOf(m) = j.of
    BY <1>1, <1>2, <1>4, <2>1 DEF HookedCtx
  <2>3. HasCtx(call[j].fd) \/ \E m \in Tasks : pc[m] = "close" /\ ClosingOf(m) = j.of
    BY <1>6, <2>2 DEF ReadInv, HookedCtx
  <2>4. CASE call[j].fd = fd  BY <1>1, <2>2, <2>4
  <2>5. CASE call[j].fd # fd  BY <1>1, <2>2, <2>3, <2>5 DEF HasCtx
  <2>6. QED  BY <2>4, <2>5
<1>7. ASSUME Calm PROVE UnsetGone' /\ LoopFile' /\ fault' = "none"
  BY <1>1, <1>2, <1>3, <1>4, <1>7, Apart DEF ReadInv, UnsetGone, LoopFile
<1>8. ASSUME ~early, OneThread PROVE EventOwn' /\ WaitOwn' /\ DelAlone'
  <2>1. EventOwn /\ WaitOwn /\ DelAlone  BY <1>8 DEF ReadInv
  <2>2. \A j \in Tasks : pc[j] \in {"event", "del"} => j = n  BY <1>1, <1>8, OneRuns DEF Running, Points
  <2>3. EventOwn'  BY <1>1, <2>2, Apart DEF EventOwn
  <2>4. waiting[fd].task \notin Loops  BY <1>1, <2>1 DEF DelAlone
  <2>5. WaitOwn'  BY <1>1, <2>1, <2>4 DEF WaitOwn, HasCtx
  <2>6. DelAlone'  BY <1>1, <2>2 DEF DelAlone
  <2>7. QED  BY <2>3, <2>5, <2>6
<1>9. QED  BY <1>1, <1>3, <1>5, <1>6, <1>7, <1>8 DEF ReadInv

\* The file of a socket is closed when its context is gone.
LEMMA CloseFdReads ==
    ASSUME IInv, ReadInv, NEW t \in Threads, CloseFd(t)
    PROVE  ReadInv'
<1> DEFINE n == run[t]  s == ClosingOf(n)  fd == sock[s]
<1>type. pc \in [Tasks -> Points] /\ file \in [Fds -> Files]  BY DEF IInv, TypeOK
<1>0. CloseFdDoes(t)  BY CloseFdEffect
<1>1. /\ n \in Tasks /\ pc[n] = "close" /\ pc'[n] = "unset" /\ fd \in Fds /\ file[fd].of = s /\ ~HasCtx(fd)
      /\ \A j \in Tasks : j # n => pc'[j] = pc[j]
      /\ file'[fd].of = None /\ \A gd \in Fds : gd # fd => file'[gd] = file[gd]
      /\ UNCHANGED <<setup, call, ctx, waiting, sock, m_socks, early, fault>>
  BY <1>0, <1>type, NoRecords DEF CloseFdDoes, Moves
<1>2. \A m \in Tasks : ClosingOf(m)' = ClosingOf(m)  BY <1>1, ClosingSame
<1>3. OneThread' = OneThread /\ Calm' = Calm  BY <1>1 DEF OneThread, OneBind, Calm
<1>4. \A j \in Loops : Alive(j)' <=> Alive(j)  BY <1>1, Apart DEF Alive
<1>5. BindsOnly' /\ WaitsFor' /\ EventHooked'
  BY <1>1, Apart DEF ReadInv, BindsOnly, WaitsFor, EventHooked
<1>6. ASSUME ~early PROVE LoopAlone' /\ HookedCtx'
  <2>1. LoopAlone'  BY <1>4, <1>6 DEF ReadInv, LoopAlone
  <2>2. SUFFICES ASSUME NEW j \in Loops, Alive(j), call[j].fd \in Fds, call[j].hooked,
                        file'[call[j].fd].of = j.of
                 PROVE  HasCtx(call[j].fd) \/ \E m \in Tasks : pc'[m] = "close" /\ ClosingOf(m) = j.of
    BY <1>1, <1>2, <1>4, <2>1 DEF HookedCtx, HasCtx
  <2>3. j.of \in Listeners /\ j.of # None  BY Apart
  <2>4. call[j].fd # fd /\ file[call[j].fd].of = j.of  BY <1>1, <2>2, <2>3
  <2>5. HasCtx(call[j].fd) \/ \E m \in Tasks : pc[m] = "close" /\ ClosingOf(m) = j.of
    BY <1>6, <2>2, <2>4 DEF ReadInv, HookedCtx
  <2>6. sock[j.of] = call[j].fd
    <3>1. \A i \in Loops : Making(i) => file[call[i].new].of \in Clients
      BY DEF IInv, ClientInv, MakingHolds
    <3>2. QED  BY <2>2, <2>3, <2>4, <3>1, Apart DEF IInv, OwnInv, FileHeld
  <2>7. \A m \in Tasks : ClosingOf(m) = j.of => m # n  BY <2>4, <2>6
  <2>8. QED  BY <1>1, <2>5, <2>7
<1>7. ASSUME Calm PROVE UnsetGone' /\ LoopFile' /\ fault' = "none"
  <2>1. UnsetGone /\ LoopFile  BY <1>7 DEF ReadInv
  <2>2. UnsetGone'
    <3>1. SUFFICES ASSUME NEW m \in Loops \cup Stoppers, pc'[m] = "unset"
                   PROVE  file'[sock[ClosingOf(m)]].of = None
      BY <1>1, <1>2, Apart DEF UnsetGone
    <3>2. CASE m = n  BY <1>1, <3>2
    <3>3. CASE m # n
      <4>1. m \in Tasks /\ pc[m] = "unset"  BY <1>1, <3>1, <3>3, Apart
      <4>2. sock[ClosingOf(m)] \in Fds  BY <4>1, Closers DEF ClosePoints
      <4>3. QED  BY <1>1, <2>1, <3>1, <4>1, <4>2 DEF UnsetGone
    <3>4. QED  BY <3>2, <3>3
  <2>3. LoopFile'  BY <1>1, <1>3, <1>4, <2>1 DEF LoopFile
  <2>4. QED  BY <1>1, <1>7, <2>2, <2>3 DEF ReadInv
<1>8. ASSUME ~early, OneThread PROVE EventOwn' /\ WaitOwn' /\ DelAlone'
  <2>1. EventOwn /\ WaitOwn /\ DelAlone  BY <1>8 DEF ReadInv
  <2>2. \A j \in Tasks : pc[j] \in {"event", "del"} => j = n  BY <1>1, <1>8, OneRuns DEF Running, Points
  <2>3. EventOwn' /\ DelAlone'  BY <1>1, <2>2, Apart DEF EventOwn, DelAlone
  <2>4. WaitOwn'  BY <1>1, <2>1 DEF WaitOwn, HasCtx
  <2>5. QED  BY <2>3, <2>4
<1>9. QED  BY <1>1, <1>3, <1>5, <1>6, <1>7, <1>8 DEF ReadInv

\* The owner binds, starts and destroys when nothing runs, or goes on too early.
LEMMA OwnerReads ==
    ASSUME IInv, ReadInv, (\E l \in Listeners : Bind(l)) \/ BindFails \/ Start \/ Destroy
    PROVE  ReadInv'
<1>type. sock \in [Sockets -> Fds \cup {-1}] /\ early \in BOOLEAN  BY DEF IInv, TypeOK
<1>binds. m_socks \subseteq setup.binds  BY DEF ReadInv, BindsOnly
<1>1. ASSUME NEW l \in Listeners, Bind(l) PROVE ReadInv'
  <2>0. BindDoes(l)  BY <1>1, BindEffect
  <2>1. l \in setup.binds /\ early' = (early \/ Unfinished)  BY <1>1 DEF Bind
  <2>2. \A c \in Clients : sock'[c] = sock[c]  BY <2>0, <1>type, Apart DEF BindDoes
  <2>3. UNCHANGED <<setup, fault, call, waiting, pc>> /\ m_socks' = m_socks \cup {l}
    BY <2>0 DEF BindDoes
  <2>4. OwnerGoes  BY <1>type, <1>binds, <2>1, <2>2, <2>3 DEF OwnerGoes, Unfinished
  <2>5. QED  BY <2>4, OwnerGoesStep
<1>2. CASE BindFails
  <2>0. BindFailsDoes  BY <1>2, BindFailsEffect
  <2>1. early' = (early \/ Unfinished)  BY <1>2 DEF BindFails
  <2>2. \A c \in Clients : sock'[c] = sock[c]  BY <2>0, <1>type, Apart DEF BindFailsDoes
  <2>3. UNCHANGED <<setup, fault, call, waiting, pc>> /\ m_socks' = {}  BY <2>0 DEF BindFailsDoes
  <2>4. OwnerGoes  BY <1>type, <2>1, <2>2, <2>3 DEF OwnerGoes, Unfinished
  <2>5. QED  BY <2>4, OwnerGoesStep
<1>3. CASE Start
  <2>0. StartDoes  BY <1>3, StartEffect
  <2>1. OwnerGoes  BY <2>0, <1>binds DEF StartDoes, OwnerGoes
  <2>2. QED  BY <2>1, OwnerGoesStep
<1>4. CASE Destroy
  <2>0. DestroyDoes  BY <1>4, DestroyEffect
  <2>1. \A c \in Clients : sock'[c] = sock[c]  BY <2>0, <1>type, Apart DEF DestroyDoes
  <2>2. UNCHANGED <<setup, fault, call, waiting, pc, early>> /\ m_socks' = {}  BY <2>0 DEF DestroyDoes
  <2>3. \A k \in Loops \cup Stoppers : ~Alive(k)  BY <2>0, Apart DEF DestroyDoes
  <2>4. OwnerGoes  BY <1>type, <2>1, <2>2, <2>3 DEF OwnerGoes
  <2>5. QED  BY <2>4, OwnerGoesStep
<1>5. QED  BY <1>1, <1>2, <1>3, <1>4

\* A step leaves every descriptor with one reader; most steps are quiet.
LEMMA ReadStep ==
    ASSUME IInv, ReadInv, [Next]_vars
    PROVE  ReadInv'
<1>type. /\ pc \in [Tasks -> Points] /\ call \in [Tasks -> Calls] /\ sock \in [Sockets -> Fds \cup {-1}]
         /\ file \in [Fds -> Files] /\ ctx \in [Fds -> Contexts] /\ waiting \in [Fds -> Waiters]
  BY DEF IInv, TypeOK
<1>1. CASE UNCHANGED vars
  <2>1. Quiet  BY <1>1 DEF vars, poolVars, fdVars, serverVars, Quiet, Alive, HasCtx
  <2>2. QED  BY <2>1, QuietStep
<1>2. ASSUME NEW t \in Threads, Take(t) PROVE ReadInv'
  <2>0. TakeDoes(t)  BY <1>2, TakeEffect
  <2>1. Quiet
    BY <2>0, <1>type, Apart DEF TakeDoes, Quiet, Alive, HasCtx
  <2>2. QED  BY <2>1, QuietStep
<1>3. ASSUME NEW t \in Threads, CheckStop(t) PROVE ReadInv'
  <2>0. CheckStopDoes(t)  BY <1>3, CheckStopEffect
  <2>1. Quiet
    BY <2>0, <1>type, NoRecords, Apart DEF CheckStopDoes, Quiet, Moves, Running, Points, Alive, HasCtx
  <2>2. QED  BY <2>1, QuietStep
<1>4. ASSUME NEW t \in Threads, CallFails(t) PROVE ReadInv'
  <2>0. CallFailsDoes(t)  BY <1>4, CallFailsEffect
  <2>1. Quiet
    BY <2>0, <1>type, Apart DEF CallFailsDoes, Quiet, Moves, Alive, HasCtx
  <2>2. QED  BY <2>1, QuietStep
<1>5. ASSUME NEW t \in Threads, Unblock(t) PROVE ReadInv'
  <2>0. UnblockDoes(t)  BY <1>5, UnblockEffect
  <2>1. Quiet
    BY <2>0, <1>type, Apart DEF UnblockDoes, Quiet, Moves, Alive, HasCtx
  <2>2. QED  BY <2>1, QuietStep
<1>6. ASSUME NEW t \in Threads, CreateCtx(t) PROVE ReadInv'
  <2>0. CreateCtxDoes(t)  BY <1>6, CreateCtxEffect
  <2>1. Quiet
    BY <2>0, <1>type, Apart, NoRecords DEF CreateCtxDoes, Quiet, Moves, Alive, HasCtx
  <2>2. QED  BY <2>1, QuietStep
<1>7. ASSUME NEW t \in Threads, InitSocket(t) PROVE ReadInv'
  <2>0. InitSocketDoes(t)  BY <1>7, InitSocketEffect
  <2>1. \A m \in Tasks : pc[m] \in ClosePoints => ClosingOf(m) # call[run[t]].sock
    BY <2>0, Closers DEF InitSocketDoes, ClosePoints
  <2>2. Quiet
    BY <2>0, <2>1, <1>type, NoRecords, Closers, Apart
    DEF InitSocketDoes, Quiet, Running, Points, ClosePoints, Alive, HasCtx
  <2>3. QED  BY <2>2, QuietStep
<1>8. ASSUME NEW t \in Threads, Receive(t) PROVE ReadInv'
  <2>0. ReceiveDoes(t)  BY <1>8, ReceiveEffect
  <2>1. Quiet
    BY <2>0, <1>type, Apart DEF ReceiveDoes, Quiet, Moves, Alive, HasCtx
  <2>2. QED  BY <2>1, QuietStep
<1>9. ASSUME NEW t \in Threads, CloseCancel(t) PROVE ReadInv'
  <2>0. CloseCancelDoes(t)  BY <1>9, CloseCancelEffect
  <2>1. Quiet
    BY <2>0, <1>type, NoRecords, Apart DEF CloseCancelDoes, Quiet, Moves, Cancels, Registered, Open, Alive, HasCtx
  <2>2. QED  BY <2>1, QuietStep
<1>10. ASSUME NEW t \in Threads, CloseUnset(t) PROVE ReadInv'
  <2>0. CloseUnsetDoes(t)  BY <1>10, CloseUnsetEffect
  <2>1. \A m \in Tasks : pc[m] \in ClosePoints /\ m # run[t] => ClosingOf(m) # ClosingOf(run[t])
    BY <2>0, ClosersAlone DEF CloseUnsetDoes, Moves, ClosePoints
  <2>2. Quiet
    BY <2>0, <2>1, <1>type, NoRecords, Closers, Apart
    DEF CloseUnsetDoes, Moves, Quiet, Running, Points, ClosePoints, Alive, HasCtx
  <2>3. QED  BY <2>2, QuietStep
<1>11. ASSUME NEW t \in Threads, StopClear(t) PROVE ReadInv'
  <2>0. StopClearDoes(t)  BY <1>11, StopClearEffect
  <2>1. Quiet
    BY <2>0, <1>type, NoRecords, Apart DEF StopClearDoes, Quiet, Moves, Running, Points, Alive, HasCtx
  <2>2. QED  BY <2>1, QuietStep
<1>12. ASSUME NEW t \in Threads, NEW on \in BOOLEAN, Fcntl(t, on) PROVE ReadInv'
  <2>0. FcntlDoes(t, on)  BY <1>12, FcntlEffect
  <2>1. \A fd \in Fds : HasCtx(fd) => ctx[fd].of # None
    BY DEF HasCtx, IInv, OwnInv, NothingOfNone
  <2>2. \A fd \in Fds : HasCtx(fd) => HasCtx(fd)'
    BY <2>0, <2>1, <1>type, NoRecords DEF FcntlDoes, HasCtx
  <2>3. Quiet  BY <2>0, <2>2, <1>type, Apart DEF FcntlDoes, Quiet, Moves, Alive
  <2>4. QED  BY <2>3, QuietStep
<1>13. ASSUME NEW t \in Threads, NEW on \in BOOLEAN, Ioctl(t, on) PROVE ReadInv'
  <2>0. IoctlDoes(t, on)  BY <1>13, IoctlEffect
  <2>1. \A fd \in Fds : HasCtx(fd) => ctx[fd].of # None
    BY DEF HasCtx, IInv, OwnInv, NothingOfNone
  <2>2. \A fd \in Fds : HasCtx(fd) => HasCtx(fd)'
    BY <2>0, <2>1, <1>type, NoRecords DEF IoctlDoes, HasCtx
  <2>3. Quiet  BY <2>0, <2>2, <1>type, Apart DEF IoctlDoes, Quiet, Moves, Alive
  <2>4. QED  BY <2>3, QuietStep
<1>14. ASSUME NEW t \in Threads, NEW l \in Listeners, StopSocket(t, l) PROVE ReadInv'
  <2>0. StopSocketDoes(t, l)  BY <1>14, StopSocketEffect
  <2>1. Quiet
    BY <2>0, <1>type, NoRecords, Apart DEF StopSocketDoes, Quiet, Moves, Cancels, Running, Points, Alive, HasCtx
  <2>2. QED  BY <2>1, QuietStep
<1>15. ASSUME NEW fd \in Fds, Trigger(fd) PROVE ReadInv'
  <2>0. TriggerDoes(fd)  BY <1>15, TriggerEffect
  <2>1. Quiet
    BY <2>0, <1>type, NoRecords DEF TriggerDoes, Quiet, Cancels, Alive, HasCtx
  <2>2. QED  BY <2>1, QuietStep
<1>16. CASE Stop
  <2>0. StopDoes  BY <1>16, StopEffect
  <2>1. Quiet
    BY <2>0, <1>type, Apart DEF StopDoes, Quiet, Alive, HasCtx
  <2>2. QED  BY <2>1, QuietStep
<1>17. ASSUME NEW c \in Clients, Speak(c) PROVE ReadInv'
  <2>0. SpeakDoes(c)  BY <1>17, SpeakEffect
  <2>1. Quiet
    BY <2>0, <1>type DEF SpeakDoes, Quiet, Alive, HasCtx
  <2>2. QED  BY <2>1, QuietStep
<1>18. ASSUME NEW c \in Clients, NEW l \in Listeners, Connect(c, l) PROVE ReadInv'
  <2>0. ConnectDoes(c, l)  BY <1>18, ConnectEffect
  <2>1. Quiet
    BY <2>0, <1>type DEF ConnectDoes, Quiet, Alive, HasCtx
  <2>2. QED  BY <2>1, QuietStep
<1>19. QED
  BY <1>1, <1>2, <1>3, <1>4, <1>5, <1>6, <1>7, <1>8, <1>9, <1>10, <1>11, <1>12, <1>13,
     <1>14, <1>15, <1>16, <1>17, <1>18, LookupReads, CallWaitsReads, AddEventReads,
     AcceptReads, CloseDelReads, CloseFdReads, OwnerReads
  DEF Next, ThreadStep, OwnerStep, PeerStep

----------------------------------------------------------------------------
(***************************************************************************)
(* The theorems.                                                           *)
(***************************************************************************)
\* Nothing has been bound or queued.
LEMMA InitIInv ==
    ASSUME Init
    PROVE  IInv
<1>1. /\ setup \in Setups /\ queue = <<>> /\ m_socks = {}
      /\ run = [t \in Threads |-> None] /\ pc = [k \in Tasks |-> "none"]
      /\ call = [k \in Tasks |-> NoCall] /\ file = [fd \in Fds |-> NoFile] /\ ctx = [fd \in Fds |-> NoCtx]
      /\ waiting = [fd \in Fds |-> NoWait] /\ sock = [s \in Sockets |-> -1]
      /\ m_stop = TRUE /\ early = FALSE /\ starts = 0 /\ stops = 0 /\ fault = "none"
  BY DEF Init
<1>2. client \in [Clients -> Peers] /\ \A c \in Clients : client[c].st = "new"
  BY DEF Init, Peers
<1>3. \A k \in Tasks : pc[k] = "none" /\ call[k] = NoCall  BY <1>1
<1>4. \A fd \in Fds : file[fd] = NoFile /\ ctx[fd] = NoCtx /\ waiting[fd] = NoWait  BY <1>1
<1>5. \A s \in Sockets : sock[s] = -1  BY <1>1
<1>6. TypeOK
  <2>1. starts \in 0..setup.starts /\ stops \in 0..setup.stops  BY <1>1, ServerAssumption
  <2>2. queue \in Seq(Tasks) /\ run \in [Threads -> Tasks \cup {None}]  BY <1>1
  <2>3. pc \in [Tasks -> Points]  BY <1>1 DEF Points
  <2>4. /\ call \in [Tasks -> Calls] /\ file \in [Fds -> Files] /\ ctx \in [Fds -> Contexts]
        /\ waiting \in [Fds -> Waiters] /\ sock \in [Sockets -> Fds \cup {-1}]
    BY <1>1, NoRecords
  <2>5. QED  BY <1>1, <1>2, <2>1, <2>2, <2>3, <2>4 DEF TypeOK
<1>7. TaskInv
  <2>1. \A t \in Threads : run[t] = None  BY <1>1
  <2>2. Len(queue) = 0  BY <1>1
  <2>3. QED
    BY <1>3, <1>4, <2>1, <2>2, NoRecords
    DEF TaskInv, RunsTask, RunsAlone, HasThread, QueueHolds, QueuedOnce, WaitsOnce, Running
<1>8. PlaceInv  BY <1>1, <1>3, Apart DEF PlaceInv
<1>9. StopInv
  BY <1>1, <1>3, Apart
  DEF StopInv, OneStopper, StopperHolds, LoopIsLast, ClosedInStop, Running, ClosePoints
<1>10. ClientInv
  BY <1>2, <1>3, <1>5, Apart
  DEF ClientInv, HandlerHolds, NotAccepted, MakingHolds, MakingOnce, CreateBare, InitHasCtx,
      HandlerCtx, HandlerFd, Making, Alive
<1>11. OwnInv
  BY <1>3, <1>4, <1>5, NoRecords
  DEF OwnInv, NothingOfNone, FileHeld, SocketHolds, CtxOfFile, ClosingHas, ClosingOpen,
      ClosedGone,
      ClosingBare, ClosePoints, HasCtx
<1>12. ModeInv  BY <1>4 DEF ModeInv, Open
<1>13. RunInv  BY <1>1, <1>3, Apart, NoRecords DEF RunInv
<1>14. QED  BY <1>6, <1>7, <1>8, <1>9, <1>10, <1>11, <1>12, <1>13 DEF IInv

\* The inductive invariant holds in every state of the server, however many
\* threads, addresses and connections there are: every task of tcp_server.cpp
\* is at one place, and the kernel's table, the FdManager and the Sockets
\* agree on who has which descriptor.
THEOREM Invariance ==
    ASSUME OneCloser
    PROVE  Spec => []IInv
<1>1. ASSUME Init PROVE IInv  BY <1>1, InitIInv
<1>2. ASSUME IInv, [Next]_vars PROVE IInv'
  <2>1. TypeOK' /\ TaskInv' /\ PlaceInv'  BY <1>2, TypeStep, TaskStep, PlaceStep
  <2>2. StopInv' /\ ClientInv' /\ OwnInv'  BY <1>2, StopStep, ClientStep, OwnStep
  <2>3. ModeInv' /\ RunInv'  BY <1>2, ModeStep, RunStep
  <2>4. QED  BY <2>1, <2>2, <2>3 DEF IInv
<1>3. QED  BY <1>1, <1>2, PTL DEF Spec

\* No descriptor is lost or shared (hook.cpp:311, socket.cpp:212): an open file
\* belongs to the Socket that has its number or to an accept() that has not
\* returned, two Sockets have one number only while the first is being closed,
\* and the FdContext of a descriptor is that of its file.
THEOREM DescriptorsStayOwned ==
    ASSUME OneCloser
    PROVE  Spec => []DescriptorsOwned
<1>1. ASSUME IInv PROVE DescriptorsOwned
  <2>1. NothingOfNone /\ FileHeld /\ SocketHolds /\ CtxOfFile  BY <1>1 DEF IInv, OwnInv
  <2>2. \A fd \in Fds : Open(fd) =>
          \/ sock[file[fd].of] = fd
          \/ \E k \in Loops : pc[k] \in {"create", "init"} /\ call[k].new = fd
    BY <2>1 DEF NothingOfNone, FileHeld, Open, Making
  <2>3. \A r, s \in Sockets : r # s /\ sock[r] = sock[s] /\ sock[r] # -1 =>
          \E k \in Tasks : pc[k] = "unset" /\ ClosingOf(k) \in {r, s}
    BY <2>1 DEF SocketHolds
  <2>4. \A fd \in Fds : HasCtx(fd) => Open(fd) /\ ctx[fd].of = file[fd].of
    BY <2>1 DEF CtxOfFile
  <2>5. QED  BY <2>2, <2>3, <2>4 DEF DescriptorsOwned
<1>2. QED  BY <1>1, Invariance, PTL

\* A thread of the IOManager comes to stand still only on a socket that was
\* bound outside a scheduler or that ioctl(FIONBIO) has made blocking
\* (hook.cpp:460).
THEOREM ThreadsStandStillOnlyThere ==
    ASSUME OneCloser
    PROVE  Spec => ThreadsStayFree
<1>1. ASSUME IInv, [Next]_vars
      PROVE  [\A k \in Tasks : pc[k] # "blocked" /\ pc'[k] = "blocked" =>
                LET f == file[call[k].fd]
                IN f.nonblock = "cleared" \/ (f.of \in Listeners /\ ~setup.hooked)]_vars
  BY <1>1, BlockStep DEF BlocksOnly
<1>2. QED  BY <1>1, Invariance, PTL DEF Spec, ThreadsStayFree

\* A loop of a running server waits on the open socket it was started for,
\* unless the owner has started or bound again before the run before had ended
\* (tcp_server.cpp:77-87).
THEOREM LoopsKeepTheirSockets ==
    ASSUME OneCloser
    PROVE  Spec => []LoopsServeTheirs
<1>1. ASSUME IInv PROVE LoopsServeTheirs
  <2>1. SUFFICES ASSUME ~early, ~m_stop, NEW k \in Loops, Alive(k), call[k].fd # -1
                 PROVE  OwnSocket(k)
    BY <1>1 DEF LoopsServeTheirs, IInv, TypeOK
  <2>2. k.of \in m_socks /\ call[k].fd = sock[k.of] /\ \A j \in Stoppers : ~Alive(j)
    BY <1>1, <2>1 DEF IInv, RunInv
  <2>3. k.of \in Listeners /\ k.of \in Sockets /\ k.of # None  BY Apart
  <2>4. \A j \in Tasks : pc[j] = "unset" => ClosingOf(j) # k.of
    <3>1. SUFFICES ASSUME NEW j \in Tasks, pc[j] = "unset", ClosingOf(j) = k.of PROVE FALSE  OBVIOUS
    <3>2. j \notin Stoppers  BY <2>2, <3>1 DEF Alive
    <3>3. j \notin Handlers  BY <1>1, <2>3, <3>1, Closers, Apart DEF ClosePoints
    <3>4. j \notin Loops
      BY <1>1, <2>2, <3>1, Closers DEF ClosePoints, IInv, StopInv, LoopIsLast
    <3>5. QED  BY <3>2, <3>3, <3>4, Apart
  <2>5. file[sock[k.of]].of = k.of
    BY <1>1, <2>1, <2>2, <2>3, <2>4 DEF IInv, OwnInv, SocketHolds
  <2>6. sock[k.of] \in Fds  BY <1>1, <2>1, <2>2, <2>3 DEF IInv, TypeOK
  <2>7. QED  BY <2>2, <2>3, <2>5, <2>6, NoRecords DEF OwnSocket, Open
<1>2. QED  BY <1>1, Invariance, PTL

\* A loop serves its own socket and, on a pool of one thread and on a server of
\* one address, the assertion of addEvent against a second reader never fails,
\* unless the owner has gone on too early (tcp_server.cpp:77-87,
\* iomanager.cpp:114).
THEOREM LoopsStayOrderly ==
    ASSUME OneCloser
    PROVE  Spec => []OrderlyLoops
<1>1. ASSUME Init PROVE ReadInv
  <2>1. /\ m_socks = {} /\ fault = "none"
        /\ \A k \in Tasks : pc[k] = "none" /\ call[k] = NoCall
        /\ \A fd \in Fds : waiting[fd] = NoWait
    BY <1>1 DEF Init
  <2>2. BindsOnly /\ WaitsFor /\ EventHooked
    BY <2>1, Apart, NoRecords DEF BindsOnly, WaitsFor, EventHooked
  <2>3. LoopAlone /\ HookedCtx /\ UnsetGone /\ LoopFile /\ EventOwn /\ DelAlone
    BY <2>1, Apart DEF LoopAlone, HookedCtx, UnsetGone, LoopFile, EventOwn, DelAlone, Alive
  <2>4. WaitOwn  BY <2>1, Kinds, NoRecords DEF WaitOwn
  <2>5. QED  BY <2>1, <2>2, <2>3, <2>4 DEF ReadInv
<1>2. ASSUME IInv, ReadInv, [Next]_vars PROVE ReadInv'  BY <1>2, ReadStep
<1>3. ASSUME IInv, ReadInv, LoopsServeTheirs PROVE OrderlyLoops
  <2>1. setup \in Setups /\ IsFiniteSet(setup.threads) /\ setup.binds \subseteq Listeners
    BY <1>3, ServerAssumption DEF IInv, TypeOK
  <2>2. IsFiniteSet(setup.binds)  BY <2>1, ServerAssumption, FS_Subset
  <2>3. Cardinality(setup.threads) = 1 => OneThread  BY <2>1, FS_Singleton DEF OneThread
  <2>4. Cardinality(setup.binds) = 1 => OneBind  BY <2>2, FS_Singleton DEF OneBind
  <2>5. QED  BY <1>3, <2>3, <2>4 DEF IInv, ReadInv, Calm, OrderlyLoops
<1>4. QED  BY <1>1, <1>2, <1>3, Invariance, LoopsKeepTheirSockets, PTL DEF Spec
=============================================================================
