# luwu: a TLA+ verification project

luwu is a C++ server framework: N:M fibers on a thread pool, an epoll reactor
with timers, hooked blocking calls, a byte buffer, and on top of these a
configuration system, loggers, TCP, HTTP and WebSocket servers and a daemon that
restarts its child. This project models the concurrent core, the servers' control
flow, the HTTP state machine, WebSocket framing, and the configuration of a
supervised process. TLC checks the models on small instances; TLAPS proves the
safety of the scheduler, the timers, the events, the hooked calls, the idle loop, the
byte buffer, the TCP server's descriptors and the configuration's listeners for
instances of any size, and that the scheduler implements its abstract specification. Paths are relative to `src/luwu/` unless they start with `tests/`.

## 1. Inventory

### The core

| component | state it keeps | operations | what is hard | what makes it correct |
|---|---|---|---|---|
| fiber (`fiber.cpp`) | `m_state` READY / RUNNING / TERM, saved context, stack | resume, yield, reset, MainFunc | a context is entered by one thread while another has not finished saving it | a fiber is resumed only when READY; one thread per stack |
| scheduler (`scheduler.cpp`) | `m_fibers`, `m_activeThreadCount`, `m_idleThreadCount`, `m_stopping`, threads | scheduler (submit), start, run, idle, stopping, stop | counters outside the lock, tasks pinned to threads, stop against tasks that submit tasks | nothing is lost, nobody leaves early, stop returns and then everything has run |
| timer (`timer.cpp`) | `m_timers` ordered by `m_next`, `m_tickled`; per timer `m_ms`, `m_next`, `m_cb` | addTimer, cancel, refresh, reset, getNextTimer, listExpiredCb | changes race with expiry; the ordering key changes; suppressed notifications | a callback is collected exactly once per period, never empty; the waiter hears of a new front |
| iomanager (`iomanager.cpp`) | FdContexts, `m_pendingEventCount`, epoll, tickle pipe | addEvent, delEvent, cancelEvent, cancelAll, idle, tickle, stopping | edge-triggered reports handled later, by any thread; sleeping threads; a stop condition read in three parts | no lost wake-up, the count exact, the kernel's interest equal to the context's |
| hook (`hook.cpp`) | `timer_info` of a call | do_io, connect_with_timeout, sleep, socket, accept, close, fcntl, ioctl, setsockopt | event, timeout and close race to wake one fiber; a number that is closed and given out again during a call | every call ends, and is woken once; no thread stands still in the kernel |
| fd_manager (`fd_manager.cpp`) | table of descriptor contexts | get, del, flags and timeouts | check, unlock, create; contexts of numbers that are used again | the context of a descriptor is that of its file |
| bytearray (`bytearray.cpp`) | block list, `m_position`, `m_size`, `m_capacity`, `m_cur` | write, read, setPosition, buffers, files, encodings | `m_cur` is a cache of the position; block boundaries | bytes stay where they were written; what is read is what was written |

### Built on the core

| component | state it keeps | operations | what is hard | what makes it correct |
|---|---|---|---|---|
| socket (`socket.cpp`) | `m_sock`, connected | bind, listen, accept, connect, recv, send, close, cancelAll | closing takes four steps, and the number may have a new owner in between | every open descriptor has one Socket |
| tcp_server (`tcp_server.cpp`) | `m_socks`, `m_stop`, the pools | bind, start, startAccept, handleClient, stop | stop leaves the closing to a task; loops retry after errors | after stop every loop ends and every socket is closed |
| streams (`streams/`) | the socket it owns | read, write, readFixSize, writeFixSize, close | short and failing transfers | the caller gets what was sent or learns of the failure |
| http parser library and wrapper (`http/http-parser`, `http/http_parser.cpp`) | state, flags, marks; the request or response under construction | execute and the callbacks | a message that arrives in pieces; where a message ends | the same message is found however it is cut |
| http server (`http/http_server.cpp`, `http_session.cpp`) | a session per connection | recvRequest, handleClient, sendResponse | pipelines, keep-alive, errors that close | the servlet is given what was sent |
| http client (`http/http_connection.cpp`) | `m_coons`, `m_total` | DoRequest, getConnection, ReleasePtr, recvResponse | a pooled connection the server has closed meanwhile | a caller has the answer to its own request; every call returns |
| websocket (`http/ws_*.cpp`) | opcode and data of a message | handshake, WSSendMessage, WSRecvMessage, ping, pong | three forms of a length, fragments, masking, control frames in between | messages arrive as sent |
| config (`config.cpp`, `config.h`) | registry, values, listeners, times of modification | lookup, setValue, add/delListener, LoadFromYaml, LoadFromConfDir | the listeners run before the assignment and under another lock; files and keys that fail | listeners and values agree; a finished load is current |
| log (`log.cpp`, `ready.h`) | loggers with level and appenders | getLogger, log, setLevel, add/clearAppenders, the listener of "logs" | reconfiguration while other threads log | the loggers are those the configuration describes |
| daemon, application (`daemon.cpp`, `application.cpp`) | parent and child processes | init, main, run_fiber, real_daemon | a crash at any point; a child starts from its parent's memory | after a crash the application serves again |
| servlet, address, uri, module and library, utilities | tables and conversions | dispatch, resolution, parsing | little | see *Not modelled* |

### How they interact

* `IOManager` is a `Scheduler` and a `TimerManager`. `Scheduler::run` calls the
  virtual `idle()` and `tickle()`; `TimerManager` calls the virtual
  `onTimerInsertAtFront()`, which is `tickle()`.
* `idle()` sleeps in `epoll_wait` until the next timer, an event or a byte in the
  tickle pipe, then schedules expired callbacks and the waiters of events.
* A hooked call adds a condition timer, registers an event for its own fiber and
  yields; the event, the timer's callback (`cancelEvent`) or `close`
  (`cancelAll`) puts the fiber back in the queue.
* Sockets, streams and the servers use the hooked calls; a server's accept loops
  and clients are tasks of two pools. `handleClient` of the HTTP server runs one
  session per connection, which feeds what it reads to the parser.
* `LoadFromConfDir` sets variables; their listeners copy the value (hook, http
  parser) or rebuild the loggers (`ready.h`) while other threads log.
* `real_daemon` forks the process that loads the configuration and binds the
  servers, and forks it again when it crashes.

### Hazards

`PROJECT.json` lists them at their lines with the properties that cover them. The
ones that shaped the models: a fiber is taken by another thread between
re-submitting itself and yielding; the counters that `stopping()` and `tickle()`
read are changed outside the lock; `m_tickled` suppresses notifications; a report
of `epoll_wait` is stale when it is handled; a timeout races the event, `addEvent`
and `yield`; `m_cur` at block boundaries; a descriptor number that is closed and
used again while a fiber is inside a call on it; a message cut anywhere by the
reads; a pooled connection closed by the other side; a listener that is told of a
change before it is made; a file that changes or fails while it is loaded; a
crash between any two of these steps.

## 2. Plan

| step | modules | state |
|---|---|---|
| 1 | `Scheduler` (with `TaskPool`, `SchedulerProofs`) | done, proved |
| 2 | `IOManagerIdle`, `TimerManager`, `FdEvents`, `HookIO`, each with its `Proofs` module | done, safety proved |
| 3 | `ByteArray` (with `ByteArrayProofs`), `Codec` | done, `ByteArray` proved |
| 4 | `TcpServer` (with socket, fd_manager and the descriptor calls of hook; `TcpServerProofs`) | done, safety proved |
| 5 | `HttpParser`, `HttpExchange`, `WebSocket` | done, model-checked |
| 6 | `Config`, `Daemon` (with `DaemonProofs`) | done, `ListenersAgree` proved |
| 7 | growth of the FdContext tables and the timeouts of descriptors; the servlet table; log files | to do |

Composition. `Scheduler` is shown to implement `TaskPool`. `IOManagerIdle` contains
the part of scheduler and timers that sleeping and waking depend on; `HookIO`
contains scheduler, timers and events reduced to what one call sees of them;
`FdEvents` contains the hooked `close`; `TcpServer` puts server, sockets, contexts,
kernel files and waiters together over a reduced scheduler. `HttpExchange` extends
`HttpParser` with both sides of a connection, and `WebSocket` uses the same parser
for its handshake. `Daemon` extends `Config` with the processes. Abstract
specifications worth stating next: a mailbox for `FdEvents` (each wait is answered
once), a plain byte sequence for `ByteArray` (today the history variable `text`).

`HttpParser`, `WebSocket` and the MC modules have RECURSIVE operators (the loops over
bytes, frames and trees); no module with a theorem reaches them.

## 3. Modules and code

Each action is one lock region, or one unlocked access that another thread can come
between. A definition whose comment starts with *Mutant* is a plausible mistake
in the definition below it and is used by no specification: with it in place of
that definition TLC must find the property named in `PROJECT.json` violated.

### Scheduler

`queue`, `active`, `idle`, `stopping` are the members of the same meaning; `mpc` is
where the owner is in construction, `start()` and `stop()`; `pc`, `cur`, `idleTerm`
are each thread's place in `run()`, its `SchedulerTask` and whether its idle fiber
is TERM; `fstate`, `stack` are the fibers' `m_state` and who is on their stack.

* `TakeTask`/`FindNoTask` are the scan of `m_fibers` under the lock with
  `++m_activeThreadCount`; `Release` is the decrement after the fiber came back;
  `EnterIdle`, `IdleCheck`, `LeaveIdle`, `LeaveRun` the idle branch.
* `Resume`, `FiberYield`, `FiberReturn`, `Switch` are `Fiber::resume`, `yield` and
  `MainFunc`. `yield` assigns READY first and saves the registers in `swapcontext`
  afterwards, two steps. `ResumeAbort` is the failing assertion. If a second
  thread resumes a fiber whose context is not saved yet, two threads run on one stack:
  the model records `fault = "stack"` and stops there, since nothing after it is
  defined.
* A callback task is the fiber `run()` makes for it. A fiber's own code is free: it
  submits tasks to any thread, re-submits itself to its own thread or without naming
  one and yields, or returns. A fiber in `PinnedFibers` always names its own thread when
  it re-submits itself.

`TaskPool` is what a user of the scheduler may rely on: tasks run in slices until
done, only running tasks submit while the pool is closing, and it is closed only
when all are done.

### IOManagerIdle

`idle()` step by step: the reads of `stopping()` (`NextTimer`, `CheckPending`,
`CheckSched`) are separate, then come `epoll_wait`, the expired callbacks, the events and the yield;
`tickle()` is a step of its own at every call, because `hasIdleThreads()` is read
outside any lock. Tasks are counted, events are (descriptor, event) pairs.
Time is relative (time left per timer, time left per sleep), so behaviours of any
length are covered without a clock bound. The tickle pipe is edge-triggered: the
state is whether an edge is still unreported. `Clip` casts the time to the next timer to
an int before it takes the minimum with `MAX_TIMEOUT`, as the code does (`ToInt`, with the
largest int as the constant `IntMax`), and a negative result makes `epoll_wait` wait without a
timeout; the properties about sleeping are stated for delays that fit (`InRange`).

### TimerManager

All operations of `Timer` and `TimerManager` with the unlocked accesses between
their lock regions: the clock read of the constructor and of `listExpiredCb`, the
test of `m_ms` in `reset`, the call of `onTimerInsertAtFront`. `start` and `fires`
are history. `cancel` on an expired timer is modelled in `HookIO`, where it
happens.

### FdEvents

`event`, `waiter`, `pending` are `FdContext::event`, its `EventContext`s and
`m_pendingEventCount`. epoll is external and modelled by what the code relies on:
a ready list, re-armed by ADD and MOD, from which `epoll_wait` takes a
descriptor and reports its readiness of that moment to one thread. `Handle` is the
loop body of `idle()` for one report, `CloseCancel` and `CloseFd` the hooked
`close` in its two halves.

### HookIO

The program points of `do_io`, `connect_with_timeout` and `sleep`/`usleep`: the call,
the timer, `addEvent`, `yield`, and after the wake-up `timer->cancel()` and the
test of `cancelled`. Each fiber makes one call on a descriptor of its own. A timer may
expire any time after it was added. The data a wake-up announced may be gone when the
fiber calls again (`Drained`: another reader took it), so that it sees EAGAIN a second time
and waits once more. `timer->cancel()` on a timer that has expired
erases `end()` of `std::set`; undefined, so the model stops with
`fault = "erase"`.

### ByteArray and Codec

`ByteArray` has the blocks as memory cells, the cached pointer `m_cur`
(0 for null), and as history the bytes by position. `readFromFile` is a sequence
of writes. `Codec` has the integer encodings and length-prefixed strings as
operators with the widths as parameters; `RoundTrip` quantifies over all values. The
host is little-endian. The build is `-O0` (`CMakeLists.txt:9`), so signed overflow
in the zigzag functions wraps.

### TcpServer

`file` is the kernel's table of descriptors with `O_NONBLOCK` (on, off, or cleared
by a hooked call), `ctx` the FdContexts of `FdManager`, `waiting` the readers the
IOManager has registered, `sock` each Socket's `m_sock`. `queue`, `run`, `pc`,
`call` are the pool: the tasks are accept loops, handlers and the closing tasks of
`stop()`, and `call` holds the number a call was entered with and whether it is
hooked. `CancelAll` is `IOManager::cancelAll`: `epoll_ctl` fails when the number has been
closed, or closed and given out again, since the registration was made (`Registered`); then
the waiter stays. A number is given out again as soon as it is closed. `accept` is
four steps (the call, waiting, `FdMgr::get` for the new number, `Socket::init`),
`close` is four (cancel the waiters, delete the context, close the file, set
`m_sock` to -1). A loop that ends as the last holder of its Socket goes through the
same four, which are then those of the destructor. `early` notes that the owner went on (a bind, a start) before
the previous run had ended.

### HttpParser, HttpExchange, WebSocket

A byte string is a sequence of pieces: what the machine of `http_parser.c` treats
alike is one piece; a target, a name and a value come in two, so that a read can
cut them. A parser is a record with the machine's fields and the wrapper's members,
`Execute` is `http_parser_execute` on one buffer with the callbacks of
`http_parser.cpp`, `Flush` what it does at the end of a buffer. The states have
the names they have in `http_parser.c`.

`HttpExchange` has callers (pooled and direct), connections as two byte streams
and sessions. A read returns any part of what has arrived (`RecvRequest`,
`RecvResponse`); the rest of a buffer is moved to the front, as in the code. A request is
written in parts, by the loop of `writeFixSize` (`SendRequest`); a response in one step,
since a client can do nothing with a part of it but wait for the rest. `sendResponse` and
`session->close()` are two steps (`Handle`, `CloseSession`): the pool keeps a connection
whose response says "connection: close" (`Release`), and another caller may write on it in
between. A side that closes with bytes it has not read, or is sent bytes after it has closed,
answers with a reset; `Reset` is the network's. `torn` and `raced` note that the network reset a
connection, and that a request was begun on it while the server was closing it, or went on in
parts after it had. After a failed read or write the code goes on with -1 in a `size_t`, and the
model stops with the connection in `fault`. `BrokenOnlyByReset` says that it is one that is
torn, raced, or whose request a read has cut.

`WebSocket` is the framing as operators on streams of pieces (heads, lengths,
keys, bytes), and the two handshakes, with the tests of the version and of the key;
`FramesArrive` in `MCHttp` sends scripts of up to three frames both ways: messages and
fragments with data in them, pings and pongs without payload, and no message of exactly the
limit. `WSRecvMessage` follows the code in the other cases too, where it
does not do what it says (see *Disagreements*).

### Config and Daemon

`Config` has the registry (`reg`, `val`), the listeners and what each was told last
(`callbacks`, `copy`), the loggers, the directory (`file`, with times in seconds)
and `seen`, the table of `LoadFromConfDir`. A thread in `setValue` is at "calling"
while it runs the listeners under the read lock, and at "assign" until it has the write
lock. `left` are the listeners it has still to call (of a plain variable), or the
loggers the listener of `ready.h` has still to rebuild; `loop` is the logger it is at,
with the appenders to add: `SetLevel`, `ClearAppenders` and `AddAppender` are a step each,
since other threads log meanwhile. A value of "logs" is a function on the loggers, with
None for those it does not define; a "logs" node that is a map cannot be converted and
leaves the value as it is. `loadFromYaml` lists all nodes of a document before it
loads the first; the document belongs to the thread, so `FromString` lists a node when its
turn comes (`Below`). The properties about documents use `ListAllMember` of `MCDaemon`,
which is the recursion of the code. `walk` is the list a thread inside
`Logger::log` goes over. `Daemon` adds the parent, `image`, the memory a child
inherits, and the ends of a process: finished (status 0) or crashed. The editor
may replace files; without `calm` it may leave one half written or change it twice
in a second.

## 4. Runs

| run | instance | states | what it shows |
|---|---|---|---|
| `sched` | 2 workers and the caller, 2 fibers (one pinned), 2 yields each | 71 thousand | counters exact, no lost task, stop complete; a pinned fiber is always READY when resumed; implements `TaskPool`; under fairness stop returns and a queued task runs |
| `idle` | 2 threads; two timers, or a timer and an event, or an outside submission and an EINTR, or a timer and an EINTR | 1.1 million | the pending count covers the events; no task is left by a stop; no timer is overslept unless a wait was interrupted, and no task waits while all sleep; after stop() all threads leave |
| `idle_stop_race` | 2 threads, 2 events | violation | `StopLeavesNothing`: see below |
| `timer` | 2 threads, 2 timers, periods 1 and 2, clock to 2 | 1.8 million | exactly-once and never empty, periods intact, the front announced, expiry drains |
| `events` | 1 thread with 2 descriptors, 2 threads with 1; 2 fibers; with close | 69 thousand | count and contexts agree, no edge is lost although reports are stale; on one thread the assertion of `triggerEvent` holds, close leaves no waiter, and a ready waiter is scheduled |
| `hook` | pools of 1 and 2 threads; a read, a connect, a sleep; 2 failures or wake-ups for nothing | 540 thousand | nobody is stranded; on one thread each wait is woken once, and calls with a timeout end |
| `hook_timeout` | 1 thread, 1 connect | violation | `TimeoutReturns`: see below |
| `bytes` | 3 blocks of 2 bytes, transfers up to 3; 6-bit integers in groups of 2 bits, strings of 0, 1 and 7 | 106 thousand | `m_cur` agrees with the position, reads are exact, within the limits the properties name; every encoding is read back |
| `server` | 1 thread with 2 sockets, started and stopped twice; 1 bound without hook; 2 threads with 2 peers; 3 descriptors | 356 thousand | no descriptor is lost or shared, no thread stands still, loops wait on their own socket, and end after stop |
| `http` | 2 callers with a request each, or 1 with 3; 3 connections, 1 short read or write, 1 failure; 6 messages cut in 3; scripts of 3 frames | 87 thousand | the servlet is given what was sent, callers their own answers; a transfer fails only on a connection that was reset, cut, or written to while the server closed it; calls end; the parser does not depend on the cuts; messages arrive |
| `http_split` | 1 caller, 1 request, 1 short read | violation | `ServedWhole`: see below |
| `config` | six processes: one that loads and one that logs; documents with refused keys, with values that cannot be converted, broken and nameless; a setter; two loaders with a hurried editor; poison | 701 thousand | listeners and loggers agree with the values, a finished load is current, a crash heals |

Bounds. Two threads are enough for every race of the core, which is always between
one thread inside an operation and one other; the scheduler has a third so that
one can be idle, one busy and one leaving. Two timers give a front and another
one, two descriptors a report that holds an unrelated one. Blocks of two bytes and
transfers of three cover reads and writes that begin, end and cross at a block
boundary. The codec's width is not a multiple of the group, as in the code
(32 and 64 by 7). Three descriptors hold two listening sockets and a connection, so
that each number is used again by another kind of owner. `IntMax` is 2, the longest
delay of the run, so that the cast is used up to its limit. Three connections and a limit of two requests make the pool reuse, exceed
and miss, while a closed connection is still there. One short read cuts a
message once, at any place, and one short write a request inside its first line
(`ShortWrites`; what a reader sees of the two parts is what a short read gives it, so
one place is enough for the race with the close); `SplitSafe` cuts a message twice. The frame sizes are on both
sides of each limit, and three frames give a first, a middle and a last fragment.
Two files and two values give a change, a repetition and an undo. The budgets of
`IOManagerIdle`, `MaxYields`, `MaxFailures`, `MaxCuts`, `MaxTime`, `MaxLoads`,
`MaxCalls`, `MaxFaults` and the `edits` and `seconds` of a setup bound how often the
environment acts, not what the code does.

Fairness. Each thread takes the steps it can take (the kernel schedules it) and time
passes. `IOManagerIdle` also assumes that a registered descriptor becomes ready
in the end: a peer that never answers keeps `stop()` waiting, by design.
`FdEvents` assumes strong fairness of a thread's idle loop: tasks do not keep it
from `epoll_wait` for ever, as `run()` enters `idle()` whenever its queue is empty.
`TcpServer`: the threads run and epoll reports what is ready; owner and peers owe
nothing. `HttpExchange`: both sides run; only finitely many reads are short, as
`MaxCuts` says. `Daemon`: main thread, parent and loading threads run, and a process
that has called through a null pointer dies; nothing is assumed of the editor, the
threads that log, and the faults. Nothing is assumed of users anywhere: they need
not submit, stop, or finish waiting calls.

Four runs do not check deadlock (`server`, `http`, `http_split`, `config`): a server
nobody stops waits for ever, callers run out of requests, and a program ends.

### Disagreements between the code and what is said of it

* `idle_stop_race`: `scheduler.h:54` says `stop()` waits for all tasks. `stopping()`
  reads timers, events and tasks one after the other (`iomanager.cpp:275`), so a
  thread can leave while a task registers an event; with all threads gone the
  waiter is never served. Queued tasks are never left (`idle`).
* `hook_timeout`: `hook.cpp:260` says a timed-out call sets the error and returns.
  Before that it cancels a timer that `listExpiredCb` has already removed, and
  `timer.cpp:39-40` erases `end()`.
* `http_split`: the comments at `http/http_parser.cpp:129, 160, 171` say that the
  callbacks run when a target, a name or a value is complete. They run at the end of
  every buffer with the part seen so far, and the last call overwrites the others,
  so a read that ends inside a value leaves only its last part.

Met while modelling, excluded from the passing properties by their stated
preconditions, and without a run of their own:

* `tests/test_scheduler.cpp:17-20` has a fiber re-submit itself before it yields.
  With several threads another one takes it while it is still RUNNING and the
  assertion in `fiber.cpp:116` aborts (`ResumeFindsReady` fails). The check that
  would skip such tasks is commented out (`scheduler.cpp:171-175`). A fiber that
  names its own thread is safe, which is proved;
* a submission from outside the pool between a thread's look at the queue and
  its `++m_idleThreadCount` is not announced (`iomanager.cpp:262`); the task waits up to
  `MAX_TIMEOUT`;
* the time to the next timer is cast to int before it is limited (`iomanager.cpp:301`):
  when the earliest timer is 2^31 ms or more away the result can be negative, and
  `epoll_wait` waits until something else wakes it, past that timer;
* an `epoll_wait` that a signal interrupts starts again with the whole timeout
  (`iomanager.cpp:301-312`), so a timer can be overslept by the time already slept;
* with two threads a timer can fire before `addEvent` was called (`hook.cpp:242`,
  and `hook.cpp:127` for do_io), so its cancellation finds no event and the call waits for its
  peer without a timeout;
* with two threads a stale report can hold an event that is no longer
  registered, and `real_events` is not masked by the context's events
  (`iomanager.cpp:361`), so `triggerEvent` asserts;
* a waiter woken by `cancelAll` on another thread can register again before
  `close_f` (`hook.cpp:309`) and then waits on a closed descriptor;
* `read` with a position in another block starts in the current block
  (`bytearray.cpp:397`); reading nothing at the end of the last block follows a null
  pointer (`bytearray.cpp:364`); the chunk of `writeToFile` can come out too short
  (`bytearray.cpp:435`); a string longer than its length field is cut (`bytearray.cpp:148`);
* the closing task of `stop()` can run after a new `start()` and close the sockets of
  the new run (`tcp_server.cpp:80`); a socket bound outside a scheduler blocks the
  thread that accepts on it (`hook.cpp:200`); `ioctl(FIONBIO)` makes a hooked
  descriptor blocking in the kernel (`hook.cpp:460`);
* a response without a body has no length (`http/http.cpp:262`): on a kept connection
  caller and server wait for each other. The age of a pooled connection is never
  tested against a real time of creation (`http/http_connection.cpp:203`). The pool keeps
  a connection although the response said "connection: close" (`http/http_connection.cpp:244-255`):
  a request written on it between `sendResponse` and `close()` of the server
  (`http/http_server.cpp:33`, `:39`) meets a reset, and its caller goes on with -1 as a
  length. A request written at once after the close finds the end of the stream;
* an upgrade is an error of the request parser (`http/http_parser.cpp:222`), so the
  handshake of a WebSocket is refused; `recvResponse` drops what came with a 101
  (`http/http_connection.cpp:154`); the payload of a control frame is not consumed
  (`http/ws_session.cpp:112`); a CLOSE frame is ignored, where `http/ws_session.h:22` calls it
  disconnecting; a message of exactly the maximum is refused (`http/ws_session.cpp:142`
  has `>=`, the log at `:143` says "length >"); a frame without data closes the connection (`:156`);
* with two setters of one variable the listeners run at the same time, a logger is
  given the appenders of both, and a listener is left with another value than the
  variable (`config.h:240`); a file that was half written, or that changes twice in a
  second, is not loaded again (`config.cpp:96`); a key with a capital letter is
  refused before it would be made lower case (`config.cpp:27` against `:63`);
* an appender of an unknown type is kept and kills every process that loads it
  (`ready.h:92`); `Logger::log` walks a list that `clearAppenders` frees (`log.cpp:413`);
* a bind that fails ends the child with status 0, so it is not started again
  (`application.cpp:181`); a `waitpid` that fails reads as a child that finished
  (`daemon.cpp:48`); the pid file is checked and written in two steps
  (`application.cpp:79`);
* not modelled, seen in passing: `contextResize` can shrink a table another thread
  has grown (`iomanager.cpp:104`); a log file is truncated whenever it is opened
  again (`log.cpp:362`).

## 5. Proofs

Each proved component has a module of proofs. The method is the same everywhere: an
inductive invariant `IInv` is the conjunction of the properties with what they need,
`Init => IInv` and `IInv /\ [Next]_vars => IInv'` are proved, the second one lemma per
conjunct and one step per action, and the properties follow. The named assumption of
the module is the only thing assumed of the constants; every other fact is derived.

| module | theorem | statement |
|---|---|---|
| `SchedulerProofs` | `TypeCorrect` | `[]TypeOK`; the unsigned counters do not wrap below zero |
| | `CountersCorrect` | `[]CountersExact` |
| | `NoThreadExitsEarly` | `[]NoEarlyExit` |
| | `NoTaskIsLost` | `[]NoLostTask` |
| | `StopIsComplete` | `[]StopComplete` |
| | `PinnedExclusive` | `[](PinnedFindsReady /\ PinnedOwnsStack)` |
| | `ResumeNeverAsserts` | `[]ResumeFindsReady`, if the pool has one thread or all fibers are pinned |
| | `PoolIsImplemented` | `Spec => ImplementsPool`: the scheduler implements `TaskPool` |
| `TimerManagerProofs` | `TimersExactlyOnce` | `[]ExactlyOnce` |
| | `PeriodsIntact` | `[]PeriodIntact` |
| | `FrontIsAnnounced` | `[]FrontAnnounced` |
| | `ExpiredAreDrained` | `Drains`, an action property: one `listExpiredCb` takes all that is due |
| `FdEventsProofs` | `BooksBalance` | `[]Bookkeeping` |
| | `NoEdgeIsLost` | `[]NoLostEdge` |
| | `TriggerNeverAsserts` | `[]TriggerAssertion`, for pools of one thread |
| | `CloseLeavesNobody` | `[]CloseCancelsAll`, for pools of one thread |
| `HookIOProofs` | `NobodyIsStranded` | `[]NobodyStranded` |
| | `WokenOnceOnly` | `[]WokenOnce`, for pools of one thread |
| `IOManagerIdleProofs` | `PendingCounts` | `[]PendingCoversEvents` |
| | `StopIsClean` | `[]StopLeavesNoTask` |
| | `NobodyOversleeps` | `[]NoOversleep`, which is about delays that fit in an int (`InRange`) |
| `TcpServerProofs` | `DescriptorsStayOwned` | `[]DescriptorsOwned`, if one closing task runs at a time |
| | `ThreadsStandStillOnlyThere` | `ThreadsStayFree`, an action property, under the same hypothesis |
| | `LoopsStayOrderly` | `[]OrderlyLoops`, under the same hypothesis; `LoopsKeepTheirSockets` is its part about running servers |
| `ByteArrayProofs` | `CursorStaysRight` | `[]CursorAgrees` |
| | `BytesReadBack` | `[](MemInv /\ (asked # "file" => ReadsBack))` |
| `DaemonProofs` | `ListenersStayAgreed` | `[]ListenersAgree` |
| | `TypeCorrect` | `[]TypeOK` |

The restriction to pools of one thread is part of the property, as in the runs; with two
threads these three fail (see above).

**Scheduler**: any finite set of workers with or without the caller, any set of fibers
and any number of yields, from `SchedulerAssumption`. None of the invariants is
inductive alone. That `active - 1` is a natural number
needs the exact count; that a busy thread has a fiber in hand needs `HandInv`; that
`NoEarlyExit` survives a submission needs `PhaseInv` (only the owner before
`stop()` and busy threads submit) and the count (no busy thread when `active = 0`);
`NoLostTask` through a yield needs `StackInv` (a running fiber belongs to one
thread). `StopComplete` follows from their conjunction. For the pinned fibers `PinInv(K)`
adds that a fiber of `K` has one owner: at most one entry in the queue, pinned to
the thread that still has its stack, or one hand. It is stated for a set `K` of
fibers so that one proof serves `PinnedExclusive` (`K = PinnedFibers`) and
`ResumeNeverAsserts` (`K = Fibers`). `NoEarlyExit` and `PinnedOwnsStack` are proved
and not checked in a run.

The refinement maps `fstate`, the queue and the threads' hands to the status of a task
(`PoolStatus`) and `mpc` to the phase of the pool (`PoolPhase`). A step of the
scheduler changes the status of at most one task (`OneTask`); most steps are not seen
at all (`Unseen`); and the pool cannot look closed while a task is alive
(`NotClosed`, from `StopComplete`). `PoolStep` puts the actions together.

**TimerManager**: any set of threads, finite set of timers, periods and length of time, from
`TimerAssumption`. That an insertion does not revive a timer that has fired needs
`InsertInv`: between construction and insertion a timer is fresh and known to one
thread. `FrontAnnounced` needs `TickledInv` (`m_tickled` stands for a
notification made or on its way), and `PeriodIntact`, because `refresh` and a
recurrence may only move a timer back. `ExpiredAreDrained` uses `HandInv`: the time
`listExpiredCb` has read is not in the future.

**FdEvents**: any finite pools, tables of descriptors and sets of fibers, from
`FdAssumption`. `BookInv` counts the registered (descriptor, event) pairs; `KernelInv`
says that a registration in epoll, while it exists, watches exactly what
`fd_ctx->event` holds; `BatchInv` that only threads in the loop of `idle()` hold
reports. With these an edge is on the ready list, in a thread's report or
was consumed (`NoLostEdge`). For one thread `OneInv` adds that a report is never stale
and that `close` has cancelled everything before the descriptor goes.

**HookIO**: any pools, fibers, kinds of call, timeouts and number of failures, from
`HookAssumption`. `WaitInv` knows the waker before the fiber yields: the event for a
call on a descriptor, the timer for a sleep. A call's timeout is not a waker, since its
callback does nothing when the flag is set. For one thread `OneInv` says that the
thread executes one thing at a time, and that a fiber is queued, registered or asleep,
and only one of them.

**IOManagerIdle**: any finite set of threads, timers and events, any load, any
`IntMax` and any `MaxTimeout` up to it, from `IdleAssumption`. `CountInv` writes the three counters as sums over
the threads. `QueueInv` names, for a queue that is not empty, a thread that looks at
it before it sleeps; `ExitInv` that threads leave only after `stop()` and the last one
leaves an empty queue. `TimerInv` is the argument about sleeping: when nothing
announces itself to the threads in `idle()` (no edge in the pipe, no ready event, no
thread about to tickle or to read the next timer), then `m_tickled` is not set and every
timer has a thread that wakes in time. It also needs that a thread whose idle fiber has
ended never comes back to `epoll_wait`, since such a thread looks at no timer, and that the
time left of a timer fits in an int when the delays do (`Within`), so that `Clip` is never negative.

**TcpServer**: any number of threads, addresses, connections and descriptors, any number
of starts, from `ServerAssumption` and `TaskAssumption`. The theorems have the hypothesis
`OneCloser`: `stop()` is called once, or the pool has one thread. Without it two closing
tasks on two threads walk `m_socks` at once and close a number twice, the second
time when another socket may have it. `TaskInv` says that a task is on one thread, in
the queue once or registered for one descriptor, and nowhere else; `StopInv` that a
listening socket is closed by one closing task while it is in `m_socks`, and
otherwise by the last loop that holds it; `ClientInv` follows a connection from
`accept()` to its handler and the end of its context. `OwnInv` is the argument about
descriptors: file, context and Socket agree except between `close_f` and
`m_sock = -1`, and in that gap the file is no longer the closer's own. `ModeInv` names
the descriptors that are blocking in the kernel, `RunInv` what holds while the
server runs: no closing task is left and each loop holds its Socket's number. The
effect of every action is stated once, as a formula without the pool's bookkeeping
(`TakeDoes`, `AcceptDoes`, ... with the lemmas `TakeEffect`, `AcceptEffect`, ...), and the
lemmas on the invariants use only that.

That `addEvent` finds no second reader (`LoopsStayOrderly`) needs a second invariant,
`ReadInv`, on top of `IInv`. Two readers of one number are two tasks whose calls mean the
same descriptor. Two handlers cannot be (`HandlerFd`); two loops could only be those of
one address, and there is one (`LoopAlone`), because a `start()` before the loops have
ended is too early. There remain a loop and a handler, when the number of a closed socket
has been given to a connection. On a server of one address the only loop that accepts is
the one whose number it would be, and `accept()` needs that number open (`LoopFile`,
`UnsetGone`). On one thread a loop can come back to such a number, but there `accept()` fails;
a loop that registers still has its context (`HookedCtx`, `EventOwn`), and `cancelAll` takes it
out before the context goes (`DelAlone`): `epoll_ctl` succeeds, because the registration
is for the file that the number still has (`WaitOwn`). With two threads and two addresses this
fails: a loop that registers while `stop()` closes its socket stays registered for the
number, which the other loop may be given for a connection. Most steps neither open, close,
register nor look up anything (`Quiet`), and one lemma serves them all.

**ByteArray**: any block size, number of blocks and length of a transfer, from
`ByteArrayAssumption`. The lemmas on quotient and remainder give the cells a copy
visits when it starts at the block of its position (`WalkCells`), that different
positions have different cells (`CellInjective`) and where it ends (`WalkEnds`). So
`CursorAgrees` makes every write change the cells of its positions and no others
(`StoreWrites`), and every read return them (`WalkMatches`).

**Config and Daemon**: any files, documents, variables, listeners and loggers, any number
of threads, edits, loads, calls and crashes, from `ConfigAssumption`, `NodeAssumption` and
`DaemonAssumption`. `NodeAssumption` describes a YAML node by what the code asks of it; it
also says that `Appenders` of a definition, a selection from a sequence, is a sequence of
appenders, because the provers know nothing of `SelectSeq`. That one thread at a time
sets variables (`OneSetter`) is part of the property; with two it fails (see above).

`ListenersAgree` speaks of the moments between two calls of `setValue`, so the invariant
says what holds inside one. `CopiesInv`: a listener of the variable being set that is not in
`left` has the new value, any other the old one. `LoggersInv`: a logger that is not in
`left` is as the new value has it (those that `LogListener` passes over because they do not
differ are so from the start), and one that is being rebuilt has the new level, and its
appenders with those still to be added are the new ones (`MoveHead`). `JobInv` says that a
thread between two calls has nobody left to tell, and that it tells only listeners of
its variable: nobody can be added or removed while the read lock is held. `MemoryInv` says
that a listener that is not registered has no copy (so one that is added later cannot
have a stale one) and that nobody listens to a variable that is not there, which
`lookup` therefore may set without telling anyone. `PhaseInv` gives the main thread the
phases of loading and the others the serving phase, so that with `OneSetter` at most one
thread is in `setValue` (`Alone`), and that a parent forks only when nobody is. The
memory it forks from agrees (`MemoryAgrees(image)`), and so does that of each child.
`KindOfStep` sorts the actions into eleven kinds by their effect on threads and memory, and
each kind has its lemma (`SetsStep`, `LoggingStep`, `AssignsStep`, ...).

Only model-checked:

* liveness (`StopReturns`, `QueuedTaskRuns`, `StopEnds`, `ReadyIsDelivered`, `CallsEnd`, `LoopsEnd`, `RequestsEnd`, `CrashHeals`):
  fairness and ENABLED are beyond the prover;
* `ReadsBack` after `writeToFile`, whose chunks are a recursion over the blocks, and
  what the recursive definitions of `Codec`, `HttpParser` and `WebSocket` compute: the
  provers have no induction over data. `HttpExchange` rests on these modules;
* `LoadIsCurrent`, which compares the variables with `ListAllMember` of every document, a
  recursion over the tree.

## 6. Not modelled

Context switching and stack allocation; thread names and thread-local state; the
locks themselves (a lock region is one step, except the read lock of a ConfigVar);
the growth of the FdContext tables and the timeouts a descriptor keeps; options and
addresses of sockets. Of the HTTP parser: the limit of the header's size, folded
lines, lists of tokens, absolute targets and hosts. Cookies and parameters of a
request. The servlet tables: each operation is a single lock region. Of
WebSocket, the loop of `WSServer`, which repeats `WSRecvMessage`. The contents and
the files of logs. The registry of modules and dlopen, which nothing calls. Addresses,
URIs, hashes, JSON and the other utilities are conversions without state.
