------------------------------- MODULE Config -------------------------------
(***************************************************************************)
(* luwu/config.h and luwu/config.cpp with the listeners the repository     *)
(* registers: the copies of a value kept by hook.cpp and http_parser.cpp,  *)
(* and the listener of ready.h, which rebuilds the loggers of log.cpp.     *)
(*                                                                         *)
(* Threads of one process load the configuration files, set variables and  *)
(* log.  A region under the lock of a variable is one step, except         *)
(* setValue: it compares and calls the listeners under the read lock, one  *)
(* step for each change a listener makes, and assigns under a write lock   *)
(* taken afterwards.  Logger::log walks over the list of appenders without *)
(* a lock; when the list is cleared under it, the walk goes on in freed    *)
(* memory, and the process may or may not die of it.                       *)
(***************************************************************************)
EXTENDS Integers, Sequences

CONSTANTS
    Setups,      \* records loaders, setters, workers, docs, calm, supervised, edits, seconds
    Nodes,       \* the YAML nodes of the documents, with all that are below one of them
    Files,       \* the .yml files of the configuration directory
    Letters,     \* the names made of the characters a key may have
    Early, Late, \* plain variables registered before main(), and at run time
    Listeners,   \* functions listening to plain variables: each keeps a copy of the value
    Static,      \* the one registered before main()
    Names,       \* loggers; "root" is one of them
    Numbers,     \* the values of plain variables,
    Default,     \* what they begin with,
    Values,      \* and what the program calls setValue with
    MaxLoads, MaxCalls,
    None

\* An appender of a definition: its type is absent, unknown, or it is a file
\* appender without a file, or all is well.
Kinds   == {"untyped", "other", "unfiled", "stdout", "file"}
Loggers == [level : Nat, appenders : Seq(Kinds)]
Defines == [name : Names \cup {None}, level : Nat, appenders : Seq(Kinds)]

\* What the appenders of a LoggerDefine become: one without a type is passed
\* over, one of an unknown type is kept as type 0.
Appenders(def) == SelectSeq(def.appenders, LAMBDA a : a # "untyped")

ASSUME ConfigAssumption ==
    /\ \A s \in Setups : /\ \A f \in Files : s.docs[f] \subseteq [ok : BOOLEAN, root : Nodes]
                         /\ {s.calm, s.supervised} \subseteq BOOLEAN
                         /\ s.edits \in Nat /\ s.seconds \in Nat \ {0}
                         /\ "main" \notin s.loaders \cup s.setters
    /\ Static \in Listeners
    /\ Default \in Numbers /\ Values \subseteq Numbers /\ None \notin Numbers \cup Names \cup Loggers
    /\ Early \cap Late = {} /\ "logs" \notin Early \cup Late /\ "root" \in Names
    /\ Early \cup Late \cup {"logs"} \subseteq Letters
    /\ {MaxLoads, MaxCalls} \subseteq Nat

\* A node has a kind, the text a conversion would be given, and kids, which
\* are named in a map.  The text of a scalar is a number, or None for what
\* is none; that of a sequence is what it says of loggers.
ASSUME NodeAssumption ==
    \A n \in Nodes :
        /\ n.kind \in {"map", "seq", "scalar"}
        /\ n.kind = "scalar" => n.text \in Numbers \cup {None}
        /\ n.kind = "seq" => /\ n.text \in Seq(Defines) /\ n.kids \in Seq(Nodes)
                             /\ \A i \in DOMAIN n.text : Appenders(n.text[i]) \in Seq(Kinds)
        /\ n.kind = "map" => n.kids \in Seq([name : STRING, node : Nodes])

VARIABLES
    setup,
    file, clock, edits,  \* the directory: contents and times of modification, in seconds
    proc,                \* what the process is doing: see Daemon
    reg, val,            \* Config::getData() and ConfigVar::m_val
    callbacks, copy,     \* ConfigVar::m_callbacks, and what each listener was told last
    seen,                \* s_file2modifyTime
    loggers,             \* level and appenders of each Logger
    th,                  \* the threads that load and set
    walk,                \* the threads that log: the list each is walking over
    loads, calls,        \* how often LoadFromConfDir and the other operations were called
    fresh                \* a load has ended, and nothing has changed since it began

memory == <<reg, val, callbacks, copy, seen, loggers>>
dirVars == <<file, clock, edits>>
configVars == <<setup, dirVars, proc, memory, th, walk, loads, calls, fresh>>

Plain   == Early \cup Late
Vars    == Plain \cup {"logs"}
Loaders == UNION {s.loaders : s \in Setups}
Setters == UNION {s.setters : s \in Setups}
Workers == UNION {s.workers : s \in Setups}
Threads == {"main"} \cup Loaders \cup Setters

UNKNOWN == 100    \* LogLevel: no event is that high
DEBUG == 1
FATAL == 5

Silenced == [level |-> UNKNOWN, appenders |-> <<>>]
Initial(n) == [level |-> DEBUG, appenders |-> IF n = "root" THEN <<"stdout">> ELSE <<>>]

\* A thread: where it is in LoadFromConfDir (force, the files left, the file
\* and its time, the nodes left), and in setValue (the variable, the new
\* value, whom the listeners have still to tell, the logger being rebuilt).
NoLoop  == [at |-> "next", of |-> None, rest |-> <<>>]
Resting == [at |-> "rest", back |-> "rest", force |-> FALSE, todo |-> {}, of |-> None, mtime |-> 0,
            nodes |-> <<>>, var |-> None, new |-> None, left |-> {}, loop |-> NoLoop, dirty |-> FALSE]

\* Static initialisation has registered the variables and the listeners.  A
\* logger nobody has asked for is like one that getLogger() has just made.
Init ==
    /\ setup \in Setups
    /\ \E doc \in [Files -> UNION {setup.docs[f] : f \in Files}] :
        /\ \A f \in Files : doc[f] \in setup.docs[f]
        /\ file = [f \in Files |-> [doc |-> doc[f], mtime |-> 1, torn |-> FALSE]]
    /\ clock = 1 /\ edits = 0 /\ proc = "init"
    /\ reg = Early \cup {"logs"}
    /\ val = [v \in Vars |-> IF v = "logs" THEN [n \in Names |-> None] ELSE Default]
    /\ callbacks = [v \in Plain |-> IF v \in Early THEN {Static} ELSE {}]
    /\ copy = [v \in Plain |-> [l \in Listeners |-> IF v \in Early /\ l = Static THEN Default ELSE None]]
    /\ seen = [f \in Files |-> 0]
    /\ loggers = [n \in Names |-> Initial(n)]
    /\ th = [t \in Threads |-> Resting] /\ walk = [w \in Workers |-> None]
    /\ loads = 0 /\ calls = 0 /\ fresh = FALSE

----------------------------------------------------------------------------
(***************************************************************************)
(* Documents.                                                              *)
(***************************************************************************)

\* listAllMember: a node is listed with its key, the names on the way to it;
\* the entries of a map are below it, and those of the maps in a sequence.  A
\* name with a character that is not allowed hides the node and what is below.
Root(doc) == [key |-> <<>>, node |-> doc.root, element |-> FALSE]

Listed(e) == ~e.element /\ \A i \in DOMAIN e.key : e.key[i] \in Letters

IsOf(e, v) == Listed(e) /\ e.key = <<v>>

Below(e) ==
    LET kids == e.node.kids
    IN  CASE e.node.kind = "map" /\ (Listed(e) \/ e.element) ->
               [i \in 1..Len(kids) |-> [key |-> Append(e.key, kids[i].name), node |-> kids[i].node, element |-> FALSE]]
          [] e.node.kind = "seq" /\ Listed(e) ->
               [i \in 1..Len(kids) |-> [key |-> e.key, node |-> kids[i], element |-> TRUE]]
          [] OTHER -> <<>>

\* LexicalCast of the text of "logs": it throws when a logger has no name or
\* a file appender no file; of two loggers of a name the first stays.  A value
\* of "logs" has None for the loggers it does not define.
LoggerDefines(text) ==
    LET First(n, i) == text[i].name = n /\ \A j \in 1..(i - 1) : text[j].name # n
        Define(n)   == LET def == text[CHOOSE i \in DOMAIN text : First(n, i)]
                       IN  [level |-> def.level, appenders |-> Appenders(def)]
    IN  IF \E i \in DOMAIN text : \/ text[i].name = None
                                 \/ \E j \in DOMAIN text[i].appenders : text[i].appenders[j] = "unfiled"
          THEN {}
          ELSE {[n \in Names |-> IF \E i \in DOMAIN text : First(n, i) THEN Define(n) ELSE None]}

\* FromStr()(text): the value, or nothing when the conversion throws.  Of "logs"
\* it goes through the elements of a sequence; an entry of a map is no
\* LoggerDefine, and a scalar or an empty map has none.
FromStr(v, node) ==
    CASE v = "logs" /\ node.kind = "map" /\ node.kids # <<>> -> {}
      [] v = "logs" /\ ~(node.kind = "map" /\ node.kids # <<>>) ->
           LoggerDefines(IF node.kind = "seq" THEN node.text ELSE <<>>)
      [] v # "logs" -> IF node.kind = "scalar" THEN {node.text} \ {None} ELSE {}

----------------------------------------------------------------------------
(***************************************************************************)
(* Listeners: whom they have to tell of a new value.                       *)
(***************************************************************************)

\* Mutant of LogListener: loggers that the new value does not have are forgotten.
LogListenerForgets(old, new) == {n \in Names : new[n] # None /\ new[n] # old[n]}

\* The listener of ready.h: loggers that are new or different are rebuilt,
\* then those the new value does not have are silenced.
LogListener(old, new) == {n \in Names : new[n] # old[n]}

Wanted(new, n) == IF new[n] # None THEN new[n] ELSE Silenced

Calls(v, new) == IF v = "logs" THEN LogListener(val[v], new) ELSE callbacks[v]

----------------------------------------------------------------------------
(***************************************************************************)
(* ConfigVar.                                                              *)
(***************************************************************************)
Up == proc = "serving"
Reading(v) == {t \in Threads : th[t].at = "calling" /\ th[t].var = v}

\* setValue, up to the first listener.  An equal value ends it.
Compare(t, v, new, back) ==
    IF val[v] = new
      THEN th' = [th EXCEPT ![t] = [back EXCEPT !.at = back.back]]
      ELSE LET left == Calls(v, new) IN
           th' = [th EXCEPT ![t] = [back EXCEPT !.at = IF left = {} THEN "assign" ELSE "calling",
                                                !.var = v, !.new = new, !.left = left]]

\* One change of a listener is one step, under the read lock; the last gives
\* it back.
Told(job, x) ==
    [job EXCEPT !.left = job.left \ {x}, !.loop = NoLoop,
                !.at = IF job.left = {x} THEN "assign" ELSE "calling"]

\* The listeners of plain variables: s_connect_timeout = newVal, and the like.
Tell(t, l) ==
    /\ th[t].at = "calling" /\ th[t].var # "logs" /\ l \in th[t].left
    /\ copy' = [copy EXCEPT ![th[t].var][l] = th[t].new]
    /\ th' = [th EXCEPT ![t] = Told(th[t], l)]
    /\ UNCHANGED <<setup, dirVars, proc, reg, val, callbacks, seen, loggers, walk, loads, calls, fresh>>

\* The listener of "logs", for the next logger: setLevel, clearAppenders, and
\* addAppender for each.
SetLevel(t, n) ==
    /\ th[t].at = "calling" /\ th[t].var = "logs" /\ th[t].loop.at = "next" /\ n \in th[t].left
    /\ th[t].new[n] # None \/ \A m \in th[t].left : th[t].new[m] = None
    /\ loggers' = [loggers EXCEPT ![n].level = Wanted(th[t].new, n).level]
    /\ th' = [th EXCEPT ![t].loop = [at |-> "clear", of |-> n, rest |-> Wanted(th[t].new, n).appenders]]
    /\ UNCHANGED <<setup, dirVars, proc, reg, val, callbacks, copy, seen, walk, loads, calls, fresh>>

ClearAppenders(t) ==
    LET n == th[t].loop.of IN
    /\ th[t].at = "calling" /\ th[t].loop.at = "clear"
    /\ loggers' = [loggers EXCEPT ![n].appenders = <<>>]
    /\ walk' = [w \in Workers |->
                  IF walk[w] = [of |-> n, freed |-> FALSE] THEN [of |-> n, freed |-> TRUE] ELSE walk[w]]
    /\ th' = [th EXCEPT ![t] = IF th[t].loop.rest = <<>> THEN Told(th[t], n)
                                                        ELSE [th[t] EXCEPT !.loop.at = "add"]]
    /\ UNCHANGED <<setup, dirVars, proc, reg, val, callbacks, copy, seen, loads, calls, fresh>>

\* An appender of type 0 is a null pointer: see Poisoned.
AddAppender(t) ==
    LET n == th[t].loop.of
        a == Head(th[t].loop.rest)
    IN
    /\ th[t].at = "calling" /\ th[t].loop.at = "add" /\ a # "other"
    /\ loggers' = [loggers EXCEPT ![n].appenders = Append(loggers[n].appenders, a)]
    /\ th' = [th EXCEPT ![t] = IF Tail(th[t].loop.rest) = <<>>
                                 THEN Told(th[t], n)
                                 ELSE [th[t] EXCEPT !.loop.rest = Tail(th[t].loop.rest)]]
    /\ UNCHANGED <<setup, dirVars, proc, reg, val, callbacks, copy, seen, walk, loads, calls, fresh>>

Call(t) ==
    \/ \E l \in Listeners : Tell(t, l)
    \/ \E n \in Names : SetLevel(t, n)
    \/ ClearAppenders(t) \/ AddAppender(t)

\* logAppender->setFormatter on the appender of type 0 that no branch has made.
Poisoned(t) == th[t].at = "calling" /\ th[t].loop.at = "add" /\ Head(th[t].loop.rest) = "other"

\* The write lock: nobody is under the read lock.
Assign(t) ==
    /\ th[t].at = "assign" /\ Reading(th[t].var) = {}
    /\ val' = [val EXCEPT ![th[t].var] = th[t].new]
    /\ th' = [th EXCEPT ![t] = [th[t] EXCEPT !.at = th[t].back, !.var = None, !.new = None]]
    /\ UNCHANGED <<setup, dirVars, proc, reg, callbacks, copy, seen, loggers, walk, loads, calls, fresh>>

\* A call of setValue by the program.
SetValue(t, v, new) ==
    /\ Up /\ t \in setup.setters /\ th[t].at = "rest" /\ v \in reg \cap Plain /\ calls < MaxCalls
    /\ Compare(t, v, new, th[t])
    /\ calls' = calls + 1 /\ fresh' = FALSE
    /\ UNCHANGED <<setup, dirVars, proc, memory, walk, loads>>

\* addListener, delListener, clearListener: under the write lock.
Listen(t, v, new) ==
    /\ Up /\ t \in setup.setters /\ th[t].at = "rest" /\ v \in reg \cap Plain /\ calls < MaxCalls
    /\ Reading(v) = {}
    /\ callbacks' = [callbacks EXCEPT ![v] = new]
    /\ copy' = [copy EXCEPT ![v] = [l \in Listeners |-> IF l \in new THEN copy[v][l] ELSE None]]
    /\ calls' = calls + 1
    /\ UNCHANGED <<setup, dirVars, proc, reg, val, seen, loggers, th, walk, loads, fresh>>

AddListener(t, v, l)   == l \notin callbacks[v] /\ Listen(t, v, callbacks[v] \cup {l})
DelListener(t, v, l)   == l \in callbacks[v] /\ Listen(t, v, callbacks[v] \ {l})
ClearListener(t, v)    == callbacks[v] # {} /\ Listen(t, v, {})

\* Config::lookup with a default: the variable is there from now on.
Lookup(t, v) ==
    /\ Up /\ t \in setup.setters /\ th[t].at = "rest" /\ v \in Late \ reg /\ calls < MaxCalls
    /\ reg' = reg \cup {v} /\ val' = [val EXCEPT ![v] = Default]
    /\ calls' = calls + 1 /\ fresh' = FALSE
    /\ UNCHANGED <<setup, dirVars, proc, callbacks, copy, seen, loggers, th, walk, loads>>

----------------------------------------------------------------------------
(***************************************************************************)
(* LoadFromConfDir.                                                        *)
(***************************************************************************)
LoadBegin(t, force) ==
    /\ th[t].at = "rest" /\ loads < MaxLoads
    /\ th' = [th EXCEPT ![t] = [Resting EXCEPT !.at = "file", !.force = force, !.todo = Files]]
    /\ loads' = loads + 1
    /\ UNCHANGED <<setup, dirVars, proc, memory, walk, calls, fresh>>

\* The files come in the order of readdir(); lstat of the next one.
Stat(t, f) ==
    /\ th[t].at = "file" /\ f \in th[t].todo
    /\ th' = [th EXCEPT ![t] = [th[t] EXCEPT !.at = "record", !.of = f, !.mtime = file[f].mtime,
                                             !.todo = th[t].todo \ {f}]]
    /\ UNCHANGED <<setup, dirVars, proc, memory, walk, loads, calls, fresh>>

\* Under s_mutex: a file whose time is the recorded one is passed over, the
\* time of any other is recorded before the file is read.
Record(t) ==
    LET f == th[t].of IN
    /\ th[t].at = "record"
    /\ \/ /\ ~th[t].force /\ seen[f] = th[t].mtime
          /\ th' = [th EXCEPT ![t].at = "file"] /\ UNCHANGED seen
       \/ /\ th[t].force \/ seen[f] # th[t].mtime
          /\ seen' = [seen EXCEPT ![f] = th[t].mtime]
          /\ th' = [th EXCEPT ![t].at = "open"]
    /\ UNCHANGED <<setup, dirVars, proc, reg, val, callbacks, copy, loggers, walk, loads, calls, fresh>>

\* Mutant of LoadFile: what it throws is caught outside of the loop over the files.
LoadFileGivesUp(t) ==
    LET f == file[th[t].of] IN
    /\ th[t].at = "open"
    /\ th' = [th EXCEPT ![t] = IF f.torn \/ ~f.doc.ok
                                 THEN [th[t] EXCEPT !.at = "file", !.todo = {}]
                                 ELSE [th[t] EXCEPT !.at = "node", !.nodes = <<Root(f.doc)>>]]
    /\ UNCHANGED <<setup, dirVars, proc, memory, walk, loads, calls, fresh>>

\* YAML::LoadFile; whatever it throws is caught and forgotten.
LoadFile(t) ==
    LET f == file[th[t].of] IN
    /\ th[t].at = "open"
    /\ th' = [th EXCEPT ![t] = IF f.torn \/ ~f.doc.ok
                                 THEN [th[t] EXCEPT !.at = "file"]
                                 ELSE [th[t] EXCEPT !.at = "node", !.nodes = <<Root(f.doc)>>]]
    /\ UNCHANGED <<setup, dirVars, proc, memory, walk, loads, calls, fresh>>

\* loadFromYaml, for the next node: lookupBase, fromString, which catches what
\* the conversion throws, and setValue.  The program lists all nodes before it
\* loads the first; the document is its own, so a node is listed here when its
\* turn comes.
FromString(t) ==
    LET e    == Head(th[t].nodes)
        rest == [th[t] EXCEPT !.nodes = Below(e) \o Tail(th[t].nodes), !.back = "node"]
    IN
    /\ th[t].at = "node" /\ th[t].nodes # <<>>
    /\ \/ \E v \in reg : IsOf(e, v) /\ \E x \in FromStr(v, e.node) : Compare(t, v, x, rest)
       \/ /\ \A v \in reg : IsOf(e, v) => FromStr(v, e.node) = {}
          /\ th' = [th EXCEPT ![t] = rest]
    /\ UNCHANGED <<setup, dirVars, proc, memory, walk, loads, calls, fresh>>

EndOfFile(t) ==
    /\ th[t].at = "node" /\ th[t].nodes = <<>>
    /\ th' = [th EXCEPT ![t].at = "file"]
    /\ UNCHANGED <<setup, dirVars, proc, memory, walk, loads, calls, fresh>>

LoadEnd(t) ==
    /\ th[t].at = "file" /\ th[t].todo = {}
    /\ th' = [th EXCEPT ![t] = Resting]
    /\ fresh' = (fresh \/ ~th[t].dirty)

\* A load the program asks for, or Library::GetModule, which forces one.
Reload(t, force) == Up /\ t \in setup.loaders /\ LoadBegin(t, force)

ReloadEnd(t) ==
    /\ t \in Loaders /\ LoadEnd(t)
    /\ UNCHANGED <<setup, dirVars, proc, memory, walk, loads, calls>>

LoadStep(t) ==
    \/ \E f \in Files : Stat(t, f)
    \/ Record(t) \/ LoadFile(t) \/ FromString(t) \/ EndOfFile(t)
    \/ Call(t) \/ Assign(t)
    \/ ReloadEnd(t)

----------------------------------------------------------------------------
(***************************************************************************)
(* Logger::log: the level is read, and the list walked over, unlocked.     *)
(***************************************************************************)
LogBegin(w, n) ==
    /\ Up /\ w \in setup.workers /\ walk[w] = None
    /\ loggers[n].level <= FATAL /\ loggers[n].appenders # <<>>
    /\ walk' = [walk EXCEPT ![w] = [of |-> n, freed |-> FALSE]]
    /\ UNCHANGED <<setup, dirVars, proc, memory, th, loads, calls, fresh>>

\* The walk ends, also one whose nodes were freed and not yet used again.
LogEnd(w) ==
    /\ walk[w] # None
    /\ walk' = [walk EXCEPT ![w] = None]
    /\ UNCHANGED <<setup, dirVars, proc, memory, th, loads, calls, fresh>>

\* One whose nodes were freed may follow a pointer that is none.
WalksFreed(w) == walk[w] # None /\ walk[w].freed

----------------------------------------------------------------------------
(***************************************************************************)
(* The directory.  A calm editor replaces a file by another at once        *)
(* (rename), and not twice in a second; another one truncates the file and *)
(* fills it again, at any time.                                            *)
(***************************************************************************)
Write(f, doc, torn) ==
    /\ file' = [file EXCEPT ![f] = [doc |-> doc, mtime |-> clock, torn |-> torn]]
    /\ th' = [t \in Threads |-> IF th[t].at = "rest" THEN Resting ELSE [th[t] EXCEPT !.dirty = TRUE]]
    /\ fresh' = FALSE
    /\ UNCHANGED <<setup, clock, proc, memory, walk, loads, calls>>

Edit(f, doc) ==
    /\ edits < setup.edits /\ ~file[f].torn
    /\ setup.calm => file[f].mtime < clock /\ file[f].doc # doc
    /\ Write(f, doc, ~setup.calm)
    /\ edits' = edits + 1

EditEnds(f) == file[f].torn /\ Write(f, file[f].doc, FALSE) /\ UNCHANGED edits

Tick ==
    /\ clock < setup.seconds /\ clock' = clock + 1
    /\ UNCHANGED <<setup, file, edits, proc, memory, th, walk, loads, calls, fresh>>

----------------------------------------------------------------------------
SetStep(t) ==
    \E v \in Plain :
        \/ \E x \in Values : SetValue(t, v, x)
        \/ \E l \in Listeners : AddListener(t, v, l) \/ DelListener(t, v, l)
        \/ ClearListener(t, v)
        \/ Lookup(t, v)

ConfigStep ==
    \/ \E t \in Threads : LoadStep(t) \/ SetStep(t) \/ \E force \in BOOLEAN : Reload(t, force)
    \/ \E w \in Workers : LogEnd(w) \/ \E n \in Names : LogBegin(w, n)
    \/ \E f \in Files : EditEnds(f) \/ \E doc \in setup.docs[f] : Edit(f, doc)
    \/ Tick
=============================================================================
