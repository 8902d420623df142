---------------------------- MODULE DaemonProofs ----------------------------
(***************************************************************************)
(* Proofs about Config and Daemon, for any files, documents, variables,    *)
(* listeners and loggers, and any number of edits, loads, calls and        *)
(* crashes.                                                                *)
(***************************************************************************)
EXTENDS Daemon, SequenceTheorems, TLAPS

(***************************************************************************)
(* The inductive invariant.                                                *)
(***************************************************************************)
\* The values of each variable.
ValueOf(v) == IF v = "logs" THEN LogValues ELSE Numbers

\* Thread t is inside setValue.
Setting(t) == th[t].at \in {"calling", "assign"}

\* Which threads work in which phase of the process.  A child is forked when
\* the one before is dead.
PhaseInv ==
    /\ \A t \in Threads : th[t].at # "rest" =>
          IF t = "main" THEN proc \in {"init", "main"}
                        ELSE proc = "serving" /\ t \in setup.loaders \cup setup.setters
    /\ parent \in {"fork", "sleep"} => proc \in {"ready", "crashed"}

\* What a thread knows of its own work.
JobInv ==
    \A t \in Threads :
        /\ th[t].at \in {"record", "open"} => th[t].of \in Files
        /\ Setting(t) => th[t].var \in reg /\ th[t].new \in ValueOf(th[t].var)
        /\ Setting(t) /\ th[t].var # "logs" => th[t].left \subseteq callbacks[th[t].var]
        /\ th[t].at # "calling" => th[t].left = {} /\ th[t].loop = NoLoop
        /\ th[t].loop.at # "next" => th[t].var = "logs" /\ th[t].loop.of \in th[t].left \cap Names
        /\ th[t].loop.at = "add" => th[t].loop.rest # <<>>

\* A variable has a value of its type; nobody listens to one that is not
\* there; who does not listen has no copy.
MemoryInv(m) ==
    /\ \A v \in Vars : m.val[v] \in ValueOf(v)
    /\ \A v \in Plain \ m.reg : m.callbacks[v] = {}
    /\ \A v \in Plain : \A l \in Listeners \ m.callbacks[v] : m.copy[v][l] = None

\* Logger n is as the value x of "logs" has it.
LoggerIs(g, n, x) == g \in IF x[n] # None THEN {x[n]} ELSE {Silenced, Initial(n)}

MemoryAgrees(m) ==
    /\ \A v \in Plain : \A l \in m.callbacks[v] : m.copy[v][l] \in {None, m.val[v]}
    /\ \A n \in Names : LoggerIs(m.loggers[n], n, m.val["logs"])

\* A listener has the old value, or the new one when setValue has told it.
CopiesInv ==
    \A v \in Plain : \A l \in callbacks[v] :
        /\ \A t \in Threads : Setting(t) /\ th[t].var = v /\ l \notin th[t].left => copy[v][l] = th[t].new
        /\ \/ copy[v][l] \in {None, val[v]}
           \/ \E t \in Threads : Setting(t) /\ th[t].var = v /\ l \notin th[t].left

\* A logger is as the old value has it, or, when setValue is through with it,
\* as the new one; in between it has the level and some of the appenders.
LoggersInv ==
    /\ (\A t \in Threads : Setting(t) => th[t].var # "logs") =>
          \A n \in Names : LoggerIs(loggers[n], n, val["logs"])
    /\ \A t \in Threads : Setting(t) /\ th[t].var = "logs" =>
          \A n \in Names \ th[t].left : LoggerIs(loggers[n], n, th[t].new)
    /\ \A t \in Threads : th[t].loop.at # "next" =>
          LET n == th[t].loop.of
              w == Wanted(th[t].new, n)
          IN  /\ loggers[n].level = w.level
              /\ th[t].loop.at = "clear" => th[t].loop.rest = w.appenders
              /\ th[t].loop.at = "add" => loggers[n].appenders \o th[t].loop.rest = w.appenders

AgreeInv ==
    OneSetter => /\ MemoryAgrees(image)
                 /\ proc \notin {"crashed", "finished"} => CopiesInv /\ LoggersInv

IInv == TypeOK /\ PhaseInv /\ JobInv /\ MemoryInv(Memory) /\ MemoryInv(image) /\ AgreeInv

----------------------------------------------------------------------------
(***************************************************************************)
(* Types.                                                                  *)
(***************************************************************************)
\* The memory of the process has its type when its parts have theirs.
LEMMA MemoryTypes ==
    Memory \in Memories <=>
        /\ reg \subseteq Vars /\ val \in [Vars -> AnyValue] /\ callbacks \in [Plain -> SUBSET Listeners]
        /\ copy \in [Plain -> [Listeners -> AnyValue]] /\ seen \in [Files -> Nat]
        /\ loggers \in [Names -> Loggers]
BY DEF Memory, Memories

\* A thread that rests is a job like any other.
LEMMA RestingJob == Resting \in Jobs /\ NoLoop.at = "next"
BY DEF Resting, Jobs, NoLoop, AnyValue

\* What the listener of ready.h wants of a logger is a level and appenders.
LEMMA LoggerTypes ==
    /\ Silenced \in Loggers
    /\ \A n \in Names : Initial(n) \in Loggers
    /\ \A x \in LogValues : \A n \in Names : Wanted(x, n) \in Loggers
<1>1. <<>> \in Seq(Kinds) /\ <<"stdout">> \in Seq(Kinds)  BY DEF Kinds
<1>2. Silenced \in Loggers /\ \A n \in Names : Initial(n) \in Loggers
  BY <1>1 DEF Silenced, Initial, Loggers, UNKNOWN, DEBUG
<1>3. QED  BY <1>2 DEF LogValues, Wanted

\* "logs" is the one variable that is not plain.
LEMMA KindsOfVars == "logs" \in Vars /\ "logs" \notin Plain /\ \A v \in Vars : v # "logs" => v \in Plain
BY ConfigAssumption DEF Vars, Plain

\* The values a conversion gives are of the type of the variable.
LEMMA FromStrType ==
    ASSUME NEW v \in Vars, NEW node \in Nodes, NEW x \in FromStr(v, node)
    PROVE  x \in ValueOf(v)
<1>1. CASE v = "logs"
  <2> DEFINE text == IF node.kind = "seq" THEN node.text ELSE <<>>
  <2>1. text \in Seq(Defines) /\ \A i \in DOMAIN text : Appenders(text[i]) \in Seq(Kinds)
    BY NodeAssumption
  <2>2. x \in LoggerDefines(text)  BY <1>1 DEF FromStr
  <2> HIDE DEF text
  <2> DEFINE First(n, i) == text[i].name = n /\ \A j \in 1..(i - 1) : text[j].name # n
             Index(n) == CHOOSE i \in DOMAIN text : First(n, i)
             Define(n) == [level |-> text[Index(n)].level, appenders |-> Appenders(text[Index(n)])]
  <2>3. ASSUME NEW n \in Names, \E i \in DOMAIN text : First(n, i)
        PROVE  Define(n) \in Loggers
    <3>1. Index(n) \in DOMAIN text  BY <2>3
    <3>2. text[Index(n)] \in Defines  BY <2>1, <3>1
    <3>3. text[Index(n)].level \in Nat  BY <3>2 DEF Defines
    <3>4. QED  BY <2>1, <3>1, <3>3 DEF Loggers
  <2>4. x = [n \in Names |-> IF \E i \in DOMAIN text : First(n, i) THEN Define(n) ELSE None]
    BY <2>2 DEF LoggerDefines
  <2> HIDE DEF First, Define
  <2>5. QED  BY <1>1, <2>3, <2>4 DEF ValueOf, LogValues
<1>2. CASE v # "logs"
  BY <1>2, NodeAssumption DEF FromStr, ValueOf
<1>3. QED  BY <1>1, <1>2

\* What is below a node are nodes.
LEMMA BelowType ==
    ASSUME NEW e \in Entries
    PROVE  Below(e) \in Seq(Entries)
<1> DEFINE kids == e.node.kids
<1>1. e.node \in Nodes /\ e.key \in Seq(STRING) /\ e.node.kind \in {"map", "seq", "scalar"}
  BY NodeAssumption DEF Entries
<1>2. CASE e.node.kind = "map"
  <2>1. kids \in Seq([name : STRING, node : Nodes])  BY <1>1, <1>2, NodeAssumption
  <2>2. \A i \in 1..Len(kids) : [key |-> Append(e.key, kids[i].name), node |-> kids[i].node, element |-> FALSE] \in Entries
    <3> SUFFICES ASSUME NEW i \in 1..Len(kids)
                 PROVE  [key |-> Append(e.key, kids[i].name), node |-> kids[i].node, element |-> FALSE] \in Entries
      OBVIOUS
    <3>1. kids[i] \in [name : STRING, node : Nodes]  BY <2>1, ElementOfSeq
    <3>2. Append(e.key, kids[i].name) \in Seq(STRING)  BY <1>1, <3>1
    <3>3. QED  BY <3>1, <3>2 DEF Entries
  <2>3. QED  BY <1>2, <2>1, <2>2 DEF Below
<1>3. CASE e.node.kind = "seq"
  <2>1. kids \in Seq(Nodes)  BY <1>1, <1>3, NodeAssumption
  <2>2. \A i \in 1..Len(kids) : [key |-> e.key, node |-> kids[i], element |-> TRUE] \in Entries
    BY <1>1, <2>1 DEF Entries
  <2>3. QED  BY <1>3, <2>1, <2>2 DEF Below
<1>4. CASE e.node.kind = "scalar"  BY <1>4 DEF Below
<1>5. QED  BY <1>1, <1>2, <1>3, <1>4

----------------------------------------------------------------------------
(***************************************************************************)
(* What the steps of a thread do to its record.                            *)
(***************************************************************************)
Others(t) == th' \in [Threads -> Jobs] /\ \A u \in Threads \ {t} : th'[u] = th[u]

\* Thread t moves, and is not in setValue before or after.
Quiet(t) ==
    /\ Others(t) /\ ~Setting(t) /\ th'[t].at \notin {"calling", "assign"}
    /\ th'[t].left = {} /\ th'[t].loop = NoLoop
    /\ th'[t].at \in {"record", "open"} => th'[t].of \in Files

\* Thread t begins to set v to x.
Begins(t, v, x) ==
    /\ Others(t) /\ ~Setting(t) /\ v \in reg /\ x \in ValueOf(v)
    /\ th'[t].var = v /\ th'[t].new = x /\ th'[t].left = Calls(v, x) /\ th'[t].loop = NoLoop
    /\ th'[t].at = IF Calls(v, x) = {} THEN "assign" ELSE "calling"

\* Thread t, inside setValue, has told x, or is still at it.
Tells(t, x) ==
    /\ Others(t) /\ th'[t].var = th[t].var /\ th'[t].new = th[t].new
    /\ th'[t].left = th[t].left \ {x} /\ th'[t].loop = NoLoop
    /\ th'[t].at = IF th[t].left = {x} THEN "assign" ELSE "calling"
Tries(t) ==
    /\ Others(t) /\ th'[t].at = "calling"
    /\ th'[t].var = th[t].var /\ th'[t].new = th[t].new /\ th'[t].left = th[t].left

\* setValue calls listeners, or rebuilds loggers.
LEMMA CallsType ==
    ASSUME TypeOK, NEW v \in Vars, NEW x
    PROVE  Calls(v, x) \subseteq Listeners \cup Names
BY MemoryTypes, KindsOfVars DEF Calls, LogListener, TypeOK

\* The beginning of setValue: it ends at once, or its listeners are to be called.
LEMMA CompareEffect ==
    ASSUME TypeOK, NEW t \in Threads, NEW v \in reg, NEW x \in ValueOf(v), NEW back \in Jobs,
           back.left = {}, back.loop = NoLoop, ~Setting(t), Compare(t, v, x, back)
    PROVE  Quiet(t) \/ Begins(t, v, x)
<1>1. th \in [Threads -> Jobs] /\ v \in Vars  BY MemoryTypes DEF TypeOK
<1>2. x \in AnyValue  BY DEF ValueOf, AnyValue
<1>3. CASE val[v] = x
  <2>1. th' = [th EXCEPT ![t] = [back EXCEPT !.at = back.back]]  BY <1>3 DEF Compare
  <2>2. [back EXCEPT !.at = back.back] \in Jobs /\ back.back \in {"rest", "node"}  BY DEF Jobs
  <2>3. th'[t].at = back.back /\ th'[t].left = {} /\ th'[t].loop = NoLoop  BY <1>1, <2>1 DEF Jobs
  <2>4. QED  BY <1>1, <2>1, <2>2, <2>3 DEF Quiet, Others
<1>4. CASE val[v] # x
  <2> DEFINE left == Calls(v, x)
             job == [back EXCEPT !.at = IF left = {} THEN "assign" ELSE "calling",
                                 !.var = v, !.new = x, !.left = left]
  <2>1. th' = [th EXCEPT ![t] = job]  BY <1>4 DEF Compare
  <2>2. left \subseteq Listeners \cup Names  BY <1>1, CallsType
  <2> HIDE DEF left
  <2>3. job \in Jobs /\ job.var = v /\ job.new = x /\ job.left = left /\ job.loop = NoLoop
        /\ job.at = IF left = {} THEN "assign" ELSE "calling"
    BY <1>1, <1>2, <2>2 DEF Jobs
  <2> HIDE DEF job
  <2>4. th'[t] = job /\ Others(t)  BY <1>1, <2>1, <2>3 DEF Others
  <2>5. QED  BY <2>3, <2>4 DEF Begins, left
<1>5. QED  BY <1>3, <1>4

\* A listener returns.
LEMMA ToldEffect ==
    ASSUME TypeOK, NEW t \in Threads, NEW x, th' = [th EXCEPT ![t] = Told(th[t], x)]
    PROVE  Tells(t, x)
<1>1. th \in [Threads -> Jobs] /\ th[t] \in Jobs  BY DEF TypeOK
<1>2. NoLoop \in [at : {"next", "clear", "add"}, of : Names \cup {None}, rest : Seq(Kinds)]  BY DEF NoLoop
<1>3. Told(th[t], x) \in Jobs  BY <1>1, <1>2 DEF Told, Jobs
<1>4. /\ Told(th[t], x).var = th[t].var /\ Told(th[t], x).new = th[t].new
      /\ Told(th[t], x).left = th[t].left \ {x} /\ Told(th[t], x).loop = NoLoop
      /\ Told(th[t], x).at = IF th[t].left = {x} THEN "assign" ELSE "calling"
  BY <1>1 DEF Told, Jobs
<1>5. th'[t] = Told(th[t], x)  BY <1>1
<1>6. QED  BY <1>1, <1>3, <1>4, <1>5 DEF Tells, Others

\* lstat of a file.
LEMMA StatEffect ==
    ASSUME TypeOK, JobInv, NEW t \in Threads, NEW f \in Files, Stat(t, f)
    PROVE  Quiet(t)
<1> DEFINE job == [th[t] EXCEPT !.at = "record", !.of = f, !.mtime = file[f].mtime, !.todo = th[t].todo \ {f}]
<1>1. th \in [Threads -> Jobs] /\ th[t] \in Jobs /\ file[f].mtime \in Nat  BY DEF TypeOK
<1>2. job \in Jobs /\ job.at = "record" /\ job.of = f /\ job.left = th[t].left /\ job.loop = th[t].loop
  BY <1>1 DEF Jobs
<1>3. th' = [th EXCEPT ![t] = job] /\ th[t].at = "file"  BY DEF Stat
<1> HIDE DEF job
<1>4. QED  BY <1>1, <1>2, <1>3 DEF Quiet, Others, Setting, JobInv

\* The time of a file is looked up under s_mutex, and recorded.
LEMMA RecordEffect ==
    ASSUME TypeOK, JobInv, NEW t \in Threads, Record(t)
    PROVE  Quiet(t)
<1>1. th \in [Threads -> Jobs] /\ th[t] \in Jobs  BY DEF TypeOK
<1>2. PICK p \in {"file", "open"} : th' = [th EXCEPT ![t] = [th[t] EXCEPT !.at = p]]
  BY DEF Record
<1> DEFINE job == [th[t] EXCEPT !.at = p]
<1>3. job \in Jobs /\ job.at = p /\ job.of = th[t].of /\ job.left = th[t].left /\ job.loop = th[t].loop
  BY <1>1 DEF Jobs
<1>4. th[t].at = "record" /\ th' = [th EXCEPT ![t] = job]  BY <1>2 DEF Record
<1> HIDE DEF job
<1>5. QED  BY <1>1, <1>3, <1>4 DEF Quiet, Others, Setting, JobInv

\* YAML::LoadFile, whether it throws or not.
LEMMA LoadFileEffect ==
    ASSUME TypeOK, JobInv, NEW t \in Threads, LoadFile(t)
    PROVE  Quiet(t)
<1> DEFINE f == file[th[t].of]
<1>1. th \in [Threads -> Jobs] /\ th[t] \in Jobs /\ th[t].at = "open"  BY DEF TypeOK, LoadFile
<1>2. th[t].of \in Files /\ th[t].left = {} /\ th[t].loop = NoLoop  BY <1>1 DEF JobInv
<1>3. f.doc.root \in Nodes  BY <1>2 DEF TypeOK
<1>4. Root(f.doc) \in Entries  BY <1>3 DEF Root, Entries
<1>5. PICK p \in {"file", "node"}, q \in Seq(Entries) : th' = [th EXCEPT ![t] = [th[t] EXCEPT !.at = p, !.nodes = q]]
  <2>1. CASE f.torn \/ ~f.doc.ok
    <3>1. th' = [th EXCEPT ![t] = [th[t] EXCEPT !.at = "file"]]  BY <2>1 DEF LoadFile
    <3>2. [th[t] EXCEPT !.at = "file"] = [th[t] EXCEPT !.at = "file", !.nodes = th[t].nodes] /\ th[t].nodes \in Seq(Entries)
      BY <1>1 DEF Jobs
    <3>3. QED  BY <3>1, <3>2
  <2>2. CASE ~(f.torn \/ ~f.doc.ok)
    <3>1. th' = [th EXCEPT ![t] = [th[t] EXCEPT !.at = "node", !.nodes = <<Root(f.doc)>>]]
      BY <2>2 DEF LoadFile
    <3>2. <<Root(f.doc)>> \in Seq(Entries)  BY <1>4
    <3>3. QED  BY <3>1, <3>2
  <2>3. QED  BY <2>1, <2>2
<1> DEFINE job == [th[t] EXCEPT !.at = p, !.nodes = q]
<1>6. job \in Jobs /\ job.at = p /\ job.left = th[t].left /\ job.loop = th[t].loop  BY <1>1 DEF Jobs
<1>7. th' = [th EXCEPT ![t] = job]  BY <1>5
<1> HIDE DEF job
<1>8. QED  BY <1>1, <1>2, <1>6, <1>7 DEF Quiet, Others, Setting

\* The last node of a document is loaded.
LEMMA EndOfFileEffect ==
    ASSUME TypeOK, JobInv, NEW t \in Threads, EndOfFile(t)
    PROVE  Quiet(t)
<1>1. th \in [Threads -> Jobs] /\ th[t] \in Jobs /\ th[t].at = "node"  BY DEF TypeOK, EndOfFile
<1> DEFINE job == [th[t] EXCEPT !.at = "file"]
<1>2. job \in Jobs /\ job.at = "file" /\ job.left = th[t].left /\ job.loop = th[t].loop  BY <1>1 DEF Jobs
<1>3. th' = [th EXCEPT ![t] = job]  BY DEF EndOfFile
<1> HIDE DEF job
<1>4. QED  BY <1>1, <1>2, <1>3 DEF Quiet, Others, Setting, JobInv

\* The beginning and the end of LoadFromConfDir.
LEMMA LoadEffect ==
    ASSUME TypeOK, NEW t \in Threads, NEW job \in {Resting} \cup
               {[Resting EXCEPT !.at = "file", !.force = force, !.todo = Files] : force \in BOOLEAN},
           ~Setting(t), th' = [th EXCEPT ![t] = job]
    PROVE  Quiet(t) /\ th'[t] = job
<1>1. th \in [Threads -> Jobs]  BY DEF TypeOK
<1>2. job \in Jobs /\ job.at \in {"rest", "file"} /\ job.left = {} /\ job.loop = NoLoop
  <2>1. Resting.at = "rest" /\ Resting.left = {} /\ Resting.loop = NoLoop  BY DEF Resting
  <2>2. ASSUME NEW force \in BOOLEAN, job = [Resting EXCEPT !.at = "file", !.force = force, !.todo = Files]
        PROVE  job \in Jobs /\ job.at = "file" /\ job.left = {} /\ job.loop = NoLoop
    BY <2>1, <2>2, RestingJob DEF Jobs
  <2>3. QED  BY <2>1, <2>2, RestingJob
<1>3. QED  BY <1>1, <1>2 DEF Quiet, Others

\* The next node of a document: fromString and setValue, or nothing.
LEMMA FromStringEffect ==
    ASSUME TypeOK, JobInv, NEW t \in Threads, FromString(t)
    PROVE  Quiet(t) \/ \E v \in reg : \E x \in ValueOf(v) : Begins(t, v, x)
<1> DEFINE e == Head(th[t].nodes)
           rest == [th[t] EXCEPT !.nodes = Below(e) \o Tail(th[t].nodes), !.back = "node"]
<1>1. th \in [Threads -> Jobs] /\ th[t] \in Jobs /\ th[t].at = "node" /\ th[t].nodes # <<>>
  BY DEF TypeOK, FromString
<1>2. th[t].nodes \in Seq(Entries)  BY <1>1 DEF Jobs
<1>3. e \in Entries /\ Tail(th[t].nodes) \in Seq(Entries)  BY <1>1, <1>2
<1>4. Below(e) \o Tail(th[t].nodes) \in Seq(Entries)  BY <1>3, BelowType
<1>5. rest \in Jobs /\ rest.at = "node" /\ rest.left = {} /\ rest.loop = NoLoop
  <2>1. rest \in Jobs /\ rest.at = th[t].at /\ rest.left = th[t].left /\ rest.loop = th[t].loop
    BY <1>1, <1>4 DEF Jobs
  <2>2. QED  BY <1>1, <2>1 DEF JobInv
<1>6. ~Setting(t) /\ e.node \in Nodes /\ reg \subseteq Vars
  BY <1>1, <1>3, MemoryTypes DEF Setting, Entries, TypeOK
<1>7. CASE \E v \in reg : IsOf(e, v) /\ \E x \in FromStr(v, e.node) : Compare(t, v, x, rest)
  <2>1. PICK v \in reg : \E x \in FromStr(v, e.node) : Compare(t, v, x, rest)  BY <1>7
  <2>2. PICK x \in FromStr(v, e.node) : Compare(t, v, x, rest)  BY <2>1
  <2>3. x \in ValueOf(v)  BY <1>6, FromStrType
  <2> HIDE DEF rest, e
  <2>4. Quiet(t) \/ Begins(t, v, x)  BY <1>5, <1>6, <2>2, <2>3, CompareEffect
  <2>5. QED  BY <2>3, <2>4
<1>8. CASE th' = [th EXCEPT ![t] = rest]
  <2> HIDE DEF rest
  <2>1. QED  BY <1>1, <1>5, <1>6, <1>8 DEF Quiet, Others
<1>9. QED  BY <1>7, <1>8 DEF FromString

\* A call of setValue by the program.
LEMMA SetValueEffect ==
    ASSUME TypeOK, JobInv, NEW t \in Threads, NEW v, NEW x \in Values, SetValue(t, v, x)
    PROVE  v \in reg /\ x \in ValueOf(v) /\ (Quiet(t) \/ Begins(t, v, x))
<1>1. th[t] \in Jobs /\ th[t].at = "rest"  BY DEF TypeOK, SetValue
<1>2. v \in reg /\ x \in ValueOf(v)  BY ConfigAssumption, KindsOfVars DEF SetValue, ValueOf
<1>3. th[t].left = {} /\ th[t].loop = NoLoop /\ ~Setting(t)  BY <1>1 DEF JobInv, Setting
<1>4. Compare(t, v, x, th[t])  BY DEF SetValue
<1>5. QED  BY <1>1, <1>2, <1>3, <1>4, CompareEffect

\* The end of setValue.
Ended(t) == Others(t) /\ th'[t].at \in {"rest", "node"} /\ th'[t].left = {} /\ th'[t].loop = NoLoop

\* setValue takes the write lock, and assigns.
LEMMA AssignEffect ==
    ASSUME TypeOK, JobInv, NEW t \in Threads, Assign(t)
    PROVE  Ended(t)
<1> DEFINE job == [th[t] EXCEPT !.at = th[t].back, !.var = None, !.new = None]
<1>1. th \in [Threads -> Jobs] /\ th[t] \in Jobs /\ th[t].at = "assign"  BY DEF TypeOK, Assign
<1>2. job \in Jobs /\ job.at \in {"rest", "node"} /\ job.left = th[t].left /\ job.loop = th[t].loop
  BY <1>1 DEF Jobs, AnyValue
<1>3. th' = [th EXCEPT ![t] = job]  BY DEF Assign
<1> HIDE DEF job
<1>4. QED  BY <1>1, <1>2, <1>3 DEF Ended, Others, JobInv

\* An element moves from one list to the end of another.
LEMMA MoveHead ==
    ASSUME NEW S, NEW p \in Seq(S), NEW q \in Seq(S), q # <<>>
    PROVE  Append(p, Head(q)) \o Tail(q) = p \o q
<1>1. Head(q) \in S /\ Tail(q) \in Seq(S) /\ Len(q) > 0 /\ Len(Tail(q)) = Len(q) - 1  OBVIOUS
<1>2. Append(p, Head(q)) \in Seq(S) /\ Len(Append(p, Head(q))) = Len(p) + 1  BY <1>1
<1> DEFINE l == Append(p, Head(q)) \o Tail(q)
           r == p \o q
<1>3. l \in Seq(S) /\ r \in Seq(S) /\ Len(l) = Len(p) + Len(q) /\ Len(r) = Len(p) + Len(q)  BY <1>1, <1>2
<1>4. ASSUME NEW i \in 1..Len(l) PROVE l[i] = r[i]
  <2>1. CASE i <= Len(p)  BY <1>1, <1>2, <1>3, <2>1
  <2>2. CASE i = Len(p) + 1  BY <1>1, <1>2, <1>3, <2>2
  <2>3. CASE i > Len(p) + 1
    <3>1. l[i] = Tail(q)[i - (Len(p) + 1)]  BY <1>1, <1>2, <1>3, <2>3
    <3>2. r[i] = q[i - Len(p)]  BY <1>1, <1>3, <2>3
    <3>3. QED  BY <1>1, <1>3, <2>3, <3>1, <3>2
  <2>4. QED  BY <2>1, <2>2, <2>3, <1>3
<1>5. QED  BY <1>3, <1>4, SeqEqual

\* The listener of ready.h begins with a logger.
LEMMA SetLevelEffect ==
    ASSUME TypeOK, JobInv, NEW t \in Threads, NEW n \in Names, SetLevel(t, n)
    PROVE  /\ Tries(t) /\ th[t].at = "calling" /\ th[t].var = "logs" /\ th[t].new \in LogValues
           /\ n \in th[t].left /\ th[t].loop.at = "next"
           /\ th'[t].loop = [at |-> "clear", of |-> n, rest |-> Wanted(th[t].new, n).appenders]
           /\ loggers' \in [Names -> Loggers] /\ \A m \in Names \ {n} : loggers'[m] = loggers[m]
           /\ loggers'[n].level = Wanted(th[t].new, n).level
<1>1. /\ th \in [Threads -> Jobs] /\ th[t] \in Jobs /\ th[t].at = "calling" /\ th[t].var = "logs"
      /\ n \in th[t].left /\ th[t].loop.at = "next" /\ loggers \in [Names -> Loggers]
  BY MemoryTypes DEF TypeOK, SetLevel
<1>2. th[t].new \in LogValues  BY <1>1 DEF JobInv, Setting, ValueOf
<1>3. Wanted(th[t].new, n) \in Loggers  BY <1>2, LoggerTypes
<1>4. Wanted(th[t].new, n).level \in Nat /\ Wanted(th[t].new, n).appenders \in Seq(Kinds)  BY <1>3 DEF Loggers
<1> DEFINE loop == [at |-> "clear", of |-> n, rest |-> Wanted(th[t].new, n).appenders]
           job == [th[t] EXCEPT !.loop = loop]
<1>5. loop \in [at : {"next", "clear", "add"}, of : Names \cup {None}, rest : Seq(Kinds)]  BY <1>4
<1>6. th' = [th EXCEPT ![t] = job]  BY DEF SetLevel
<1> HIDE DEF loop
<1>7. /\ job \in Jobs /\ job.at = th[t].at /\ job.var = th[t].var /\ job.new = th[t].new
      /\ job.left = th[t].left /\ job.loop = loop
  BY <1>1, <1>5 DEF Jobs
<1> HIDE DEF job
<1>8. th'[t] = job /\ Others(t)  BY <1>1, <1>6, <1>7 DEF Others
<1>9. loggers' = [loggers EXCEPT ![n].level = Wanted(th[t].new, n).level]  BY DEF SetLevel
<1>10. loggers' \in [Names -> Loggers] /\ \A m \in Names \ {n} : loggers'[m] = loggers[m]
  BY <1>1, <1>4, <1>9 DEF Loggers
<1>11. loggers'[n].level = Wanted(th[t].new, n).level  BY <1>1, <1>9 DEF Loggers
<1>12. QED  BY <1>1, <1>2, <1>7, <1>8, <1>10, <1>11 DEF Tries, loop

\* Its appenders go; when there are none to add the logger is done.
LEMMA ClearAppendersEffect ==
    ASSUME TypeOK, JobInv, NEW t \in Threads, ClearAppenders(t)
    PROVE  LET n == th[t].loop.of IN
           /\ th[t].at = "calling" /\ th[t].var = "logs" /\ th[t].new \in LogValues
           /\ th[t].loop.at = "clear" /\ n \in Names /\ n \in th[t].left
           /\ loggers' \in [Names -> Loggers] /\ \A m \in Names \ {n} : loggers'[m] = loggers[m]
           /\ loggers'[n].level = loggers[n].level /\ loggers'[n].appenders = <<>>
           /\ \/ th[t].loop.rest = <<>> /\ Tells(t, n)
              \/ /\ th[t].loop.rest # <<>> /\ Tries(t)
                 /\ th'[t].loop = [at |-> "add", of |-> n, rest |-> th[t].loop.rest]
<1> DEFINE n == th[t].loop.of
<1>1. /\ th \in [Threads -> Jobs] /\ th[t] \in Jobs /\ th[t].at = "calling" /\ th[t].loop.at = "clear"
      /\ loggers \in [Names -> Loggers]
  BY MemoryTypes DEF TypeOK, ClearAppenders
<1>2. th[t].var = "logs" /\ n \in Names /\ n \in th[t].left /\ th[t].new \in LogValues
  BY <1>1 DEF JobInv, Setting, ValueOf
<1>3. loggers' = [loggers EXCEPT ![n].appenders = <<>>]  BY DEF ClearAppenders
<1>4. <<>> \in Seq(Kinds)  OBVIOUS
<1>5. loggers' \in [Names -> Loggers] /\ \A m \in Names \ {n} : loggers'[m] = loggers[m]
  BY <1>1, <1>3, <1>4 DEF Loggers
<1>6. loggers'[n].level = loggers[n].level /\ loggers'[n].appenders = <<>>
  BY <1>1, <1>2, <1>3 DEF Loggers
<1>7. CASE th[t].loop.rest = <<>>
  <2>1. th' = [th EXCEPT ![t] = Told(th[t], n)]  BY <1>7 DEF ClearAppenders
  <2>2. QED  BY <1>1, <1>2, <1>5, <1>6, <1>7, <2>1, ToldEffect
<1>8. CASE th[t].loop.rest # <<>>
  <2> DEFINE job == [th[t] EXCEPT !.loop.at = "add"]
  <2>1. th' = [th EXCEPT ![t] = job]  BY <1>8 DEF ClearAppenders
  <2>2. /\ job \in Jobs /\ job.at = th[t].at /\ job.var = th[t].var /\ job.new = th[t].new
        /\ job.left = th[t].left /\ job.loop = [at |-> "add", of |-> n, rest |-> th[t].loop.rest]
    BY <1>1 DEF Jobs
  <2> HIDE DEF job
  <2>3. th'[t] = job /\ Others(t)  BY <1>1, <2>1, <2>2 DEF Others
  <2>4. QED  BY <1>1, <1>2, <1>5, <1>6, <1>8, <2>2, <2>3 DEF Tries
<1>9. QED  BY <1>7, <1>8

\* An appender is added; with the last one the logger is done.
LEMMA AddAppenderEffect ==
    ASSUME TypeOK, JobInv, NEW t \in Threads, AddAppender(t)
    PROVE  LET n == th[t].loop.of IN
           /\ th[t].at = "calling" /\ th[t].var = "logs" /\ th[t].new \in LogValues
           /\ th[t].loop.at = "add" /\ n \in Names /\ n \in th[t].left
           /\ loggers' \in [Names -> Loggers] /\ \A m \in Names \ {n} : loggers'[m] = loggers[m]
           /\ loggers'[n].level = loggers[n].level
           /\ loggers'[n].appenders \o Tail(th[t].loop.rest) = loggers[n].appenders \o th[t].loop.rest
           /\ \/ Tail(th[t].loop.rest) = <<>> /\ Tells(t, n)
              \/ /\ Tail(th[t].loop.rest) # <<>> /\ Tries(t)
                 /\ th'[t].loop = [at |-> "add", of |-> n, rest |-> Tail(th[t].loop.rest)]
<1> DEFINE n == th[t].loop.of
           rest == th[t].loop.rest
           old == loggers[n].appenders
<1>1. /\ th \in [Threads -> Jobs] /\ th[t] \in Jobs /\ th[t].at = "calling" /\ th[t].loop.at = "add"
      /\ loggers \in [Names -> Loggers]
  BY MemoryTypes DEF TypeOK, AddAppender
<1>2. /\ th[t].var = "logs" /\ n \in Names /\ n \in th[t].left /\ th[t].new \in LogValues /\ rest # <<>>
  BY <1>1 DEF JobInv, Setting, ValueOf
<1>3. rest \in Seq(Kinds) /\ old \in Seq(Kinds)  BY <1>1, <1>2 DEF Jobs, Loggers
<1>4. Head(rest) \in Kinds /\ Tail(rest) \in Seq(Kinds)  BY <1>2, <1>3
<1>5. loggers' = [loggers EXCEPT ![n].appenders = Append(old, Head(rest))]  BY DEF AddAppender
<1>6. Append(old, Head(rest)) \in Seq(Kinds)  BY <1>3, <1>4
<1>7. loggers' \in [Names -> Loggers] /\ \A m \in Names \ {n} : loggers'[m] = loggers[m]
  BY <1>1, <1>5, <1>6 DEF Loggers
<1>8. loggers'[n].level = loggers[n].level /\ loggers'[n].appenders = Append(old, Head(rest))
  BY <1>1, <1>2, <1>5 DEF Loggers
<1>9. Append(old, Head(rest)) \o Tail(rest) = old \o rest
  BY <1>2, <1>3, MoveHead
<1>10. CASE Tail(rest) = <<>>
  <2>1. th' = [th EXCEPT ![t] = Told(th[t], n)]  BY <1>10 DEF AddAppender
  <2>2. QED  BY <1>1, <1>2, <1>7, <1>8, <1>9, <1>10, <2>1, ToldEffect
<1>11. CASE Tail(rest) # <<>>
  <2> DEFINE job == [th[t] EXCEPT !.loop.rest = Tail(rest)]
  <2>1. th' = [th EXCEPT ![t] = job]  BY <1>11 DEF AddAppender
  <2>2. /\ job \in Jobs /\ job.at = th[t].at /\ job.var = th[t].var /\ job.new = th[t].new
        /\ job.left = th[t].left /\ job.loop = [at |-> "add", of |-> n, rest |-> Tail(rest)]
    BY <1>1, <1>4 DEF Jobs
  <2> HIDE DEF job
  <2>3. th'[t] = job /\ Others(t)  BY <1>1, <2>1, <2>2 DEF Others
  <2>4. QED  BY <1>1, <1>2, <1>7, <1>8, <1>9, <1>11, <2>2, <2>3 DEF Tries
<1>12. QED  BY <1>10, <1>11

----------------------------------------------------------------------------
(***************************************************************************)
(* Every step keeps the types.                                             *)
(***************************************************************************)
\* The same of the next state.
LEMMA MemoryTypesNext ==
    Memory' \in Memories <=>
        /\ reg' \subseteq Vars /\ val' \in [Vars -> AnyValue] /\ callbacks' \in [Plain -> SUBSET Listeners]
        /\ copy' \in [Plain -> [Listeners -> AnyValue]] /\ seen' \in [Files -> Nat]
        /\ loggers' \in [Names -> Loggers]
BY DEF Memory, Memories

\* The threads die with their process.
LEMMA RestingAll ==
    ASSUME th' = [t \in Threads |-> Resting]
    PROVE  th' \in [Threads -> Jobs] /\ \A t \in Threads : th'[t] = Resting
BY RestingJob

\* An edit of a file is noticed by the loads that are under way.
LEMMA WriteEffect ==
    ASSUME TypeOK, JobInv, NEW f, NEW doc, NEW torn, Write(f, doc, torn)
    PROVE  /\ th' \in [Threads -> Jobs]
           /\ \A t \in Threads : /\ th'[t].at = th[t].at /\ th'[t].left = th[t].left /\ th'[t].loop = th[t].loop
                                 /\ th[t].at # "rest" => /\ th'[t].of = th[t].of /\ th'[t].var = th[t].var
                                                         /\ th'[t].new = th[t].new
<1> DEFINE job(t) == IF th[t].at = "rest" THEN Resting ELSE [th[t] EXCEPT !.dirty = TRUE]
<1>1. th \in [Threads -> Jobs] /\ th' = [t \in Threads |-> job(t)]  BY DEF TypeOK, Write
<1>2. Resting.at = "rest" /\ Resting.left = {} /\ Resting.loop = NoLoop  BY DEF Resting
<1>3. ASSUME NEW t \in Threads
      PROVE  /\ job(t) \in Jobs /\ job(t).at = th[t].at /\ job(t).left = th[t].left /\ job(t).loop = th[t].loop
             /\ th[t].at # "rest" => /\ job(t).of = th[t].of /\ job(t).var = th[t].var
                                     /\ job(t).new = th[t].new
  <2>1. CASE th[t].at = "rest"  BY <1>2, <2>1, RestingJob DEF JobInv
  <2>2. CASE th[t].at # "rest"
    <3>1. job(t) = [th[t] EXCEPT !.dirty = TRUE] /\ th[t] \in Jobs  BY <1>1, <2>2
    <3>2. QED  BY <3>1 DEF Jobs
  <2>3. QED  BY <2>1, <2>2
<1> HIDE DEF job
<1>4. QED  BY <1>1, <1>3

\* Every step keeps the types.
LEMMA TypeStep ==
    ASSUME TypeOK, PhaseInv, JobInv, MemoryInv(image), [Next]_vars
    PROVE  TypeOK'
<1>type. TypeOK /\ PhaseInv /\ JobInv /\ th \in [Threads -> Jobs]  BY DEF TypeOK
<1>mem. /\ reg \subseteq Vars /\ val \in [Vars -> AnyValue] /\ callbacks \in [Plain -> SUBSET Listeners]
        /\ copy \in [Plain -> [Listeners -> AnyValue]] /\ seen \in [Files -> Nat]
        /\ loggers \in [Names -> Loggers] /\ image \in Memories
  BY MemoryTypes DEF TypeOK
<1>consts. /\ \A s \in Setups : \A f \in Files : s.docs[f] \subseteq [ok : BOOLEAN, root : Nodes]
           /\ \A s \in Setups : s.edits \in Nat /\ s.seconds \in Nat
           /\ MaxFaults \in Nat /\ Default \in AnyValue /\ None \in AnyValue /\ Numbers \subseteq AnyValue
  BY ConfigAssumption, DaemonAssumption DEF AnyValue
<1>main. "main" \in Threads /\ Resting \in {Resting}  BY DEF Threads
<1>1. ASSUME NEW t \in Threads, NEW f \in Files, Stat(t, f), UNCHANGED daemonVars
      PROVE  TypeOK'
  <2>1. th' \in [Threads -> Jobs]
    BY <1>1, StatEffect DEF Quiet, Others
  <2> QED
    BY <1>1, <2>1, <1>type, <1>mem, <1>consts, MemoryTypesNext DEF Stat, daemonVars, dirVars,
        memory, TypeOK
<1>2. ASSUME NEW t \in Threads, Record(t), UNCHANGED daemonVars
      PROVE  TypeOK'
  <2>1. th' \in [Threads -> Jobs]
    BY <1>2, RecordEffect DEF Quiet, Others
  <2>2. th[t].mtime \in Nat  BY <1>type DEF Jobs
  <2> QED
    BY <1>2, <2>1, <1>type, <1>mem, <1>consts, MemoryTypesNext, <2>2 DEF Record, daemonVars,
        dirVars, memory, TypeOK
<1>3. ASSUME NEW t \in Threads, LoadFile(t), UNCHANGED daemonVars
      PROVE  TypeOK'
  <2>1. th' \in [Threads -> Jobs]
    BY <1>3, LoadFileEffect DEF Quiet, Others
  <2> QED
    BY <1>3, <2>1, <1>type, <1>mem, <1>consts, MemoryTypesNext DEF LoadFile, daemonVars,
        dirVars, memory, TypeOK
<1>4. ASSUME NEW t \in Threads, FromString(t), UNCHANGED daemonVars
      PROVE  TypeOK'
  <2>1. th' \in [Threads -> Jobs]
    BY <1>4, FromStringEffect DEF Quiet, Begins, Others
  <2> QED
    BY <1>4, <2>1, <1>type, <1>mem, <1>consts, MemoryTypesNext DEF FromString, daemonVars,
        dirVars, memory, TypeOK
<1>5. ASSUME NEW t \in Threads, EndOfFile(t), UNCHANGED daemonVars
      PROVE  TypeOK'
  <2>1. th' \in [Threads -> Jobs]
    BY <1>5, EndOfFileEffect DEF Quiet, Others
  <2> QED
    BY <1>5, <2>1, <1>type, <1>mem, <1>consts, MemoryTypesNext DEF EndOfFile, daemonVars,
        dirVars, memory, TypeOK
<1>6. ASSUME NEW t \in Threads, NEW l \in Listeners, Tell(t, l), UNCHANGED daemonVars
      PROVE  TypeOK'
  <2>1. th' \in [Threads -> Jobs]
    BY <1>6, ToldEffect DEF Tells, Others, Tell
  <2>2. th[t].new \in AnyValue  BY <1>type DEF Jobs
  <2> QED
    BY <1>6, <2>1, <1>type, <1>mem, <1>consts, MemoryTypesNext, <2>2 DEF Tell, daemonVars,
        dirVars, memory, TypeOK
<1>7. ASSUME NEW t \in Threads, NEW n \in Names, SetLevel(t, n), UNCHANGED daemonVars
      PROVE  TypeOK'
  <2>1. th' \in [Threads -> Jobs]
    BY <1>7, SetLevelEffect DEF Tries, Others
  <2> QED
    BY <1>7, <2>1, <1>type, <1>mem, <1>consts, MemoryTypesNext, SetLevelEffect DEF SetLevel,
        daemonVars, dirVars, memory, TypeOK
<1>8. ASSUME NEW t \in Threads, ClearAppenders(t), UNCHANGED daemonVars
      PROVE  TypeOK'
  <2>1. th' \in [Threads -> Jobs]
    BY <1>8, ClearAppendersEffect DEF Tries, Tells, Others
  <2> QED
    BY <1>8, <2>1, <1>type, <1>mem, <1>consts, MemoryTypesNext, ClearAppendersEffect DEF
        ClearAppenders, daemonVars, dirVars, memory, TypeOK
<1>9. ASSUME NEW t \in Threads, AddAppender(t), UNCHANGED daemonVars
      PROVE  TypeOK'
  <2>1. th' \in [Threads -> Jobs]
    BY <1>9, AddAppenderEffect DEF Tries, Tells, Others
  <2> QED
    BY <1>9, <2>1, <1>type, <1>mem, <1>consts, MemoryTypesNext, AddAppenderEffect DEF
        AddAppender, daemonVars, dirVars, memory, TypeOK
<1>10. ASSUME NEW t \in Threads, Assign(t), UNCHANGED daemonVars
      PROVE  TypeOK'
  <2>1. th' \in [Threads -> Jobs]
    BY <1>10, AssignEffect DEF Ended, Others
  <2>2. th[t].new \in AnyValue  BY <1>type DEF Jobs
  <2> QED
    BY <1>10, <2>1, <1>type, <1>mem, <1>consts, MemoryTypesNext, <2>2 DEF Assign, daemonVars,
        dirVars, memory, TypeOK
<1>11. ASSUME NEW t \in Threads, ReloadEnd(t), UNCHANGED daemonVars
      PROVE  TypeOK'
  <2>1. Quiet(t)  BY <1>11, <1>main, LoadEffect DEF ReloadEnd, LoadEnd, Setting
  <2> QED
    BY <1>11, <2>1, <1>type, <1>mem, <1>consts, MemoryTypesNext DEF ReloadEnd, LoadEnd, Quiet,
        Others, daemonVars, dirVars, memory, TypeOK
<1>12. ASSUME NEW t \in Threads, NEW v \in Plain, NEW x \in Values, SetValue(t, v, x), UNCHANGED daemonVars
      PROVE  TypeOK'
  <2>1. th' \in [Threads -> Jobs]
    BY <1>12, SetValueEffect DEF Quiet, Begins, Others
  <2> QED
    BY <1>12, <2>1, <1>type, <1>mem, <1>consts, MemoryTypesNext DEF SetValue, daemonVars,
        dirVars, memory, TypeOK
<1>13. ASSUME NEW t \in Threads, NEW v \in Plain, NEW l \in Listeners, AddListener(t, v, l), UNCHANGED daemonVars
      PROVE  TypeOK'
  <2> QED
    BY <1>13, <1>type, <1>mem, <1>consts, MemoryTypesNext DEF AddListener, Listen, daemonVars,
        dirVars, memory, TypeOK
<1>14. ASSUME NEW t \in Threads, NEW v \in Plain, NEW l \in Listeners, DelListener(t, v, l), UNCHANGED daemonVars
      PROVE  TypeOK'
  <2> QED
    BY <1>14, <1>type, <1>mem, <1>consts, MemoryTypesNext DEF DelListener, Listen, daemonVars,
        dirVars, memory, TypeOK
<1>15. ASSUME NEW t \in Threads, NEW v \in Plain, ClearListener(t, v), UNCHANGED daemonVars
      PROVE  TypeOK'
  <2> QED
    BY <1>15, <1>type, <1>mem, <1>consts, MemoryTypesNext DEF ClearListener, Listen, daemonVars,
        dirVars, memory, TypeOK
<1>16. ASSUME NEW t \in Threads, NEW v \in Plain, Lookup(t, v), UNCHANGED daemonVars
      PROVE  TypeOK'
  <2>2. v \in Vars  BY DEF Vars
  <2> QED
    BY <1>16, <1>type, <1>mem, <1>consts, MemoryTypesNext, <2>2 DEF Lookup, daemonVars, dirVars,
        memory, TypeOK
<1>17. ASSUME NEW t \in Threads, NEW force \in BOOLEAN, Reload(t, force), UNCHANGED daemonVars
      PROVE  TypeOK'
  <2>1. Quiet(t)  BY <1>17, <1>main, LoadEffect DEF Reload, LoadBegin, Setting
  <2> QED
    BY <1>17, <2>1, <1>type, <1>mem, <1>consts, MemoryTypesNext DEF Reload, LoadBegin, Quiet,
        Others, daemonVars, dirVars, memory, TypeOK
<1>18. ASSUME NEW w \in Workers, LogEnd(w), UNCHANGED daemonVars
      PROVE  TypeOK'
  <2> QED
    BY <1>18, <1>type, <1>mem, <1>consts, MemoryTypesNext DEF LogEnd, daemonVars, dirVars,
        memory, TypeOK
<1>19. ASSUME NEW w \in Workers, NEW n \in Names, LogBegin(w, n), UNCHANGED daemonVars
      PROVE  TypeOK'
  <2> QED
    BY <1>19, <1>type, <1>mem, <1>consts, MemoryTypesNext DEF LogBegin, daemonVars, dirVars,
        memory, TypeOK
<1>20. ASSUME NEW f \in Files, EditEnds(f), UNCHANGED daemonVars
      PROVE  TypeOK'
  <2>1. th' \in [Threads -> Jobs]
    BY <1>20, WriteEffect DEF EditEnds, Write
  <2>2. file[f].doc \in [ok : BOOLEAN, root : Nodes] /\ clock \in Nat  BY <1>type, <1>consts DEF TypeOK
  <2>3. file' \in [Files -> [doc : [ok : BOOLEAN, root : Nodes], mtime : Nat, torn : BOOLEAN]]
    BY <1>20, <2>2, <1>type DEF EditEnds, Write, TypeOK
  <2> QED
    BY <1>20, <2>1, <1>type, <1>mem, <1>consts, MemoryTypesNext, <2>2, <2>3 DEF EditEnds, Write,
        daemonVars, dirVars, memory, TypeOK
<1>21. ASSUME NEW f \in Files, NEW doc \in setup.docs[f], Edit(f, doc), UNCHANGED daemonVars
      PROVE  TypeOK'
  <2>1. th' \in [Threads -> Jobs]
    BY <1>21, WriteEffect DEF Edit, Write
  <2>2. doc \in [ok : BOOLEAN, root : Nodes] /\ clock \in Nat /\ setup.calm \in BOOLEAN
    BY <1>type, <1>consts, ConfigAssumption DEF TypeOK
  <2>3. file' \in [Files -> [doc : [ok : BOOLEAN, root : Nodes], mtime : Nat, torn : BOOLEAN]]
    BY <1>21, <2>2, <1>type DEF Edit, Write, TypeOK
  <2>4. /\ setup.edits \in Nat /\ edits \in 0..setup.edits /\ edits < setup.edits /\ edits' = edits + 1
        /\ setup' = setup /\ fresh' = FALSE
    BY <1>21, <1>type, <1>consts DEF Edit, Write, TypeOK
  <2>5. edits' \in 0..setup'.edits  BY <2>4
  <2> QED
    BY <1>21, <2>1, <1>type, <1>mem, <1>consts, MemoryTypesNext, <2>2, <2>3, <2>4, <2>5 DEF
        Edit, Write, daemonVars, dirVars, memory, TypeOK
<1>22. ASSUME Tick, UNCHANGED daemonVars
      PROVE  TypeOK'
  <2> QED
    BY <1>22, <1>type, <1>mem, <1>consts, MemoryTypesNext DEF Tick, daemonVars, dirVars, memory,
        TypeOK
<1>23. CASE InitLoad
  <2>1. Quiet("main")  BY <1>23, <1>main, LoadEffect DEF InitLoad, LoadBegin, Setting
  <2> QED
    BY <1>23, <2>1, <1>type, <1>mem, <1>consts, MemoryTypesNext DEF InitLoad, LoadBegin, Quiet,
        Others, daemonVars, dirVars, memory, TypeOK
<1>24. CASE InitLoaded
  <2>1. Quiet("main")  BY <1>24, <1>main, LoadEffect DEF InitLoaded, LoadEnd, Setting
  <2> QED
    BY <1>24, <2>1, <1>type, <1>mem, <1>consts, MemoryTypesNext DEF InitLoaded, LoadEnd, Quiet,
        Others, daemonVars, dirVars, memory, TypeOK
<1>25. CASE StartDaemon
  <2> QED
    BY <1>25, <1>type, <1>mem, <1>consts, MemoryTypesNext, MemoryTypes DEF StartDaemon,
        daemonVars, dirVars, memory, TypeOK, Memory, Memories
<1>26. CASE MainLoad
  <2>1. Quiet("main")  BY <1>26, <1>main, LoadEffect DEF MainLoad, PhaseInv, Setting
  <2> QED
    BY <1>26, <2>1, <1>type, <1>mem, <1>consts, MemoryTypesNext DEF MainLoad, Quiet, Others,
        daemonVars, dirVars, memory, TypeOK
<1>27. CASE MainLoaded
  <2>1. Quiet("main")  BY <1>27, <1>main, LoadEffect DEF MainLoaded, LoadEnd, Setting
  <2> QED
    BY <1>27, <2>1, <1>type, <1>mem, <1>consts, MemoryTypesNext DEF MainLoaded, LoadEnd, Quiet,
        Others, daemonVars, dirVars, memory, TypeOK
<1>28. CASE WritePid
  <2>1. th' \in [Threads -> Jobs]
    BY <1>28, <1>type, RestingAll DEF WritePid, Ends, Fault
  <2> QED
    BY <1>28, <2>1, <1>type, <1>mem, <1>consts, MemoryTypesNext DEF WritePid, Ends, Fault,
        daemonVars, dirVars, memory, TypeOK
<1>29. CASE RunFiber
  <2>1. th' \in [Threads -> Jobs]
    BY <1>29, <1>type, RestingAll DEF RunFiber, Ends, Fault
  <2> QED
    BY <1>29, <2>1, <1>type, <1>mem, <1>consts, MemoryTypesNext DEF RunFiber, Ends, Fault,
        daemonVars, dirVars, memory, TypeOK
<1>30. CASE Fork
  <2> QED
    BY <1>30, <1>type, <1>mem, <1>consts, MemoryTypesNext, MemoryTypes DEF Fork, daemonVars,
        dirVars, memory, TypeOK, Memory, Memories
<1>31. CASE Wait
  <2> QED
    BY <1>31, <1>type, <1>mem, <1>consts, MemoryTypesNext DEF Wait, configVars, daemonVars,
        dirVars, memory, TypeOK
<1>32. CASE Slept
  <2> QED
    BY <1>32, <1>type, <1>mem, <1>consts, MemoryTypesNext DEF Slept, configVars, daemonVars,
        dirVars, memory, TypeOK
<1>33. CASE InitRefuses
  <2>1. th' \in [Threads -> Jobs]
    BY <1>33, <1>type, RestingAll DEF InitRefuses, Ends, Fault
  <2> QED
    BY <1>33, <2>1, <1>type, <1>mem, <1>consts, MemoryTypesNext DEF InitRefuses, Ends, Fault,
        daemonVars, dirVars, memory, TypeOK
<1>34. CASE ForkFails
  <2> QED
    BY <1>34, <1>type, <1>mem, <1>consts, MemoryTypesNext DEF ForkFails, Fault, configVars,
        daemonVars, dirVars, memory, TypeOK
<1>35. CASE WaitFails
  <2> QED
    BY <1>35, <1>type, <1>mem, <1>consts, MemoryTypesNext DEF WaitFails, Fault, configVars,
        daemonVars, dirVars, memory, TypeOK
<1>36. CASE NullCrash
  <2>1. th' \in [Threads -> Jobs]
    BY <1>36, <1>type, RestingAll DEF NullCrash, Dies, Ends
  <2> QED
    BY <1>36, <2>1, <1>type, <1>mem, <1>consts, MemoryTypesNext DEF NullCrash, Dies, Ends,
        daemonVars, dirVars, memory, TypeOK
<1>37. CASE WalkCrash
  <2>1. th' \in [Threads -> Jobs]
    BY <1>37, <1>type, RestingAll DEF WalkCrash, Dies, Ends
  <2> QED
    BY <1>37, <2>1, <1>type, <1>mem, <1>consts, MemoryTypesNext DEF WalkCrash, Dies, Ends,
        daemonVars, dirVars, memory, TypeOK
<1>38. CASE Killed
  <2>1. th' \in [Threads -> Jobs]
    BY <1>38, <1>type, RestingAll DEF Killed, Dies, Ends, Fault
  <2> QED
    BY <1>38, <2>1, <1>type, <1>mem, <1>consts, MemoryTypesNext DEF Killed, Dies, Ends, Fault,
        daemonVars, dirVars, memory, TypeOK
<1>39. CASE UNCHANGED vars
  <2> QED
    BY <1>39, <1>type, <1>mem, <1>consts, MemoryTypesNext DEF vars, configVars, daemonVars,
        dirVars, memory, TypeOK
<1>40. QED
  BY <1>type, <1>1, <1>2, <1>3, <1>4, <1>5, <1>6, <1>7, <1>8, <1>9, <1>10, <1>11, <1>12, <1>13,
      <1>14, <1>15, <1>16, <1>17, <1>18, <1>19, <1>20, <1>21, <1>22, <1>23, <1>24, <1>25, <1>26,
      <1>27, <1>28, <1>29, <1>30, <1>31, <1>32, <1>33, <1>34, <1>35, <1>36, <1>37, <1>38, <1>39
      DEF Next, ConfigStep, LoadStep, Call, SetStep, MainStep, ParentStep

\* The main thread loads in init() and main(), the others once the process
\* serves; a child is forked when there is none.
LEMMA PhaseStep ==
    ASSUME TypeOK, PhaseInv, JobInv, [Next]_vars
    PROVE  PhaseInv'
<1>type. TypeOK /\ PhaseInv /\ JobInv /\ th \in [Threads -> Jobs] /\ "main" \in Threads
        /\ "main" \notin setup.loaders \cup setup.setters
  BY ConfigAssumption DEF TypeOK, Threads
<1>rest. Resting.at = "rest" /\ \A b \in BOOLEAN : [Resting EXCEPT !.at = "file", !.force = b, !.todo = Files].at = "file"
  BY DEF Resting
<1>1. ASSUME NEW t \in Threads, NEW f \in Files, Stat(t, f), UNCHANGED daemonVars
      PROVE  PhaseInv'
  <2>1. Others(t)
    BY <1>1, <1>type, StatEffect DEF Quiet, Others
  <2> QED
    BY <1>1, <1>type, <2>1 DEF Stat, daemonVars, dirVars, memory, PhaseInv, Others, Up, Reading,
        Setting
<1>2. ASSUME NEW t \in Threads, Record(t), UNCHANGED daemonVars
      PROVE  PhaseInv'
  <2>1. Others(t)
    BY <1>2, <1>type, RecordEffect DEF Quiet, Others
  <2> QED
    BY <1>2, <1>type, <2>1 DEF Record, daemonVars, dirVars, memory, PhaseInv, Others, Up,
        Reading, Setting
<1>3. ASSUME NEW t \in Threads, LoadFile(t), UNCHANGED daemonVars
      PROVE  PhaseInv'
  <2>1. Others(t)
    BY <1>3, <1>type, LoadFileEffect DEF Quiet, Others
  <2> QED
    BY <1>3, <1>type, <2>1 DEF LoadFile, daemonVars, dirVars, memory, PhaseInv, Others, Up,
        Reading, Setting
<1>4. ASSUME NEW t \in Threads, FromString(t), UNCHANGED daemonVars
      PROVE  PhaseInv'
  <2>1. Others(t)
    BY <1>4, <1>type, FromStringEffect DEF Quiet, Begins, Others
  <2> QED
    BY <1>4, <1>type, <2>1 DEF FromString, daemonVars, dirVars, memory, PhaseInv, Others, Up,
        Reading, Setting
<1>5. ASSUME NEW t \in Threads, EndOfFile(t), UNCHANGED daemonVars
      PROVE  PhaseInv'
  <2>1. Others(t)
    BY <1>5, <1>type, EndOfFileEffect DEF Quiet, Others
  <2> QED
    BY <1>5, <1>type, <2>1 DEF EndOfFile, daemonVars, dirVars, memory, PhaseInv, Others, Up,
        Reading, Setting
<1>6. ASSUME NEW t \in Threads, NEW l \in Listeners, Tell(t, l), UNCHANGED daemonVars
      PROVE  PhaseInv'
  <2>1. Others(t)
    BY <1>6, <1>type, ToldEffect DEF Tells, Others, Tell
  <2> QED
    BY <1>6, <1>type, <2>1 DEF Tell, daemonVars, dirVars, memory, PhaseInv, Others, Up, Reading,
        Setting
<1>7. ASSUME NEW t \in Threads, NEW n \in Names, SetLevel(t, n), UNCHANGED daemonVars
      PROVE  PhaseInv'
  <2>1. Others(t)
    BY <1>7, <1>type, SetLevelEffect DEF Tries, Others
  <2> QED
    BY <1>7, <1>type, <2>1 DEF SetLevel, daemonVars, dirVars, memory, PhaseInv, Others, Up,
        Reading, Setting
<1>8. ASSUME NEW t \in Threads, ClearAppenders(t), UNCHANGED daemonVars
      PROVE  PhaseInv'
  <2>1. Others(t)
    BY <1>8, <1>type, ClearAppendersEffect DEF Tries, Tells, Others
  <2> QED
    BY <1>8, <1>type, <2>1 DEF ClearAppenders, daemonVars, dirVars, memory, PhaseInv, Others,
        Up, Reading, Setting
<1>9. ASSUME NEW t \in Threads, AddAppender(t), UNCHANGED daemonVars
      PROVE  PhaseInv'
  <2>1. Others(t)
    BY <1>9, <1>type, AddAppenderEffect DEF Tries, Tells, Others
  <2> QED
    BY <1>9, <1>type, <2>1 DEF AddAppender, daemonVars, dirVars, memory, PhaseInv, Others, Up,
        Reading, Setting
<1>10. ASSUME NEW t \in Threads, Assign(t), UNCHANGED daemonVars
      PROVE  PhaseInv'
  <2>1. Others(t)
    BY <1>10, <1>type, AssignEffect DEF Ended, Others
  <2> QED
    BY <1>10, <1>type, <2>1 DEF Assign, daemonVars, dirVars, memory, PhaseInv, Others, Up,
        Reading, Setting
<1>11. ASSUME NEW t \in Threads, ReloadEnd(t), UNCHANGED daemonVars
      PROVE  PhaseInv'
  <2>1. Quiet(t) /\ th'[t] = Resting
    BY <1>11, <1>type, LoadEffect DEF ReloadEnd, LoadEnd, Setting
  <2> QED
    BY <1>11, <1>type, <2>1, <1>rest DEF ReloadEnd, LoadEnd, daemonVars, dirVars, memory,
        PhaseInv, Quiet, Others, Up
<1>12. ASSUME NEW t \in Threads, NEW v \in Plain, NEW x \in Values, SetValue(t, v, x), UNCHANGED daemonVars
      PROVE  PhaseInv'
  <2>1. Others(t)
    BY <1>12, <1>type, SetValueEffect DEF Quiet, Begins, Others
  <2> QED
    BY <1>12, <1>type, <2>1 DEF SetValue, daemonVars, dirVars, memory, PhaseInv, Others, Up,
        Reading, Setting
<1>13. ASSUME NEW t \in Threads, NEW v \in Plain, NEW l \in Listeners, AddListener(t, v, l), UNCHANGED daemonVars
      PROVE  PhaseInv'
  <2> QED
    BY <1>13, <1>type DEF AddListener, Listen, daemonVars, dirVars, memory, PhaseInv
<1>14. ASSUME NEW t \in Threads, NEW v \in Plain, NEW l \in Listeners, DelListener(t, v, l), UNCHANGED daemonVars
      PROVE  PhaseInv'
  <2> QED
    BY <1>14, <1>type DEF DelListener, Listen, daemonVars, dirVars, memory, PhaseInv
<1>15. ASSUME NEW t \in Threads, NEW v \in Plain, ClearListener(t, v), UNCHANGED daemonVars
      PROVE  PhaseInv'
  <2> QED
    BY <1>15, <1>type DEF ClearListener, Listen, daemonVars, dirVars, memory, PhaseInv
<1>16. ASSUME NEW t \in Threads, NEW v \in Plain, Lookup(t, v), UNCHANGED daemonVars
      PROVE  PhaseInv'
  <2> QED
    BY <1>16, <1>type DEF Lookup, daemonVars, dirVars, memory, PhaseInv
<1>17. ASSUME NEW t \in Threads, NEW force \in BOOLEAN, Reload(t, force), UNCHANGED daemonVars
      PROVE  PhaseInv'
  <2>1. Quiet(t) /\ th'[t] = [Resting EXCEPT !.at = "file", !.force = force, !.todo = Files]
    BY <1>17, <1>type, LoadEffect DEF Reload, LoadBegin, Setting
  <2> QED
    BY <1>17, <1>type, <2>1, <1>rest DEF Reload, LoadBegin, daemonVars, dirVars, memory,
        PhaseInv, Quiet, Others, Up
<1>18. ASSUME NEW w \in Workers, LogEnd(w), UNCHANGED daemonVars
      PROVE  PhaseInv'
  <2> QED
    BY <1>18, <1>type DEF LogEnd, daemonVars, dirVars, memory, PhaseInv
<1>19. ASSUME NEW w \in Workers, NEW n \in Names, LogBegin(w, n), UNCHANGED daemonVars
      PROVE  PhaseInv'
  <2> QED
    BY <1>19, <1>type DEF LogBegin, daemonVars, dirVars, memory, PhaseInv
<1>20. ASSUME NEW f \in Files, EditEnds(f), UNCHANGED daemonVars
      PROVE  PhaseInv'
  <2>1. \A t \in Threads : th'[t].at = th[t].at
    BY <1>20, <1>type, WriteEffect DEF EditEnds
  <2> QED
    BY <1>20, <1>type, <2>1 DEF EditEnds, Write, daemonVars, dirVars, memory, PhaseInv
<1>21. ASSUME NEW f \in Files, NEW doc \in setup.docs[f], Edit(f, doc), UNCHANGED daemonVars
      PROVE  PhaseInv'
  <2>1. \A t \in Threads : th'[t].at = th[t].at
    BY <1>21, <1>type, WriteEffect DEF Edit
  <2> QED
    BY <1>21, <1>type, <2>1 DEF Edit, Write, daemonVars, dirVars, memory, PhaseInv
<1>22. ASSUME Tick, UNCHANGED daemonVars
      PROVE  PhaseInv'
  <2> QED
    BY <1>22, <1>type DEF Tick, daemonVars, dirVars, memory, PhaseInv
<1>23. CASE InitLoad
  <2>1. Quiet("main") /\ th'["main"] = [Resting EXCEPT !.at = "file", !.force = FALSE, !.todo = Files]
    BY <1>23, <1>type, LoadEffect DEF InitLoad, LoadBegin, Setting
  <2> QED
    BY <1>23, <1>type, <2>1, <1>rest DEF InitLoad, LoadBegin, daemonVars, dirVars, memory,
        PhaseInv, Quiet, Others, Up
<1>24. CASE InitLoaded
  <2>1. Quiet("main") /\ th'["main"] = Resting
    BY <1>24, <1>type, LoadEffect DEF InitLoaded, LoadEnd, Setting
  <2> QED
    BY <1>24, <1>type, <2>1, <1>rest DEF InitLoaded, LoadEnd, daemonVars, dirVars, memory,
        PhaseInv, Quiet, Others, Up
<1>25. CASE StartDaemon
  <2> QED
    BY <1>25, <1>type DEF StartDaemon, daemonVars, dirVars, memory, PhaseInv
<1>26. CASE MainLoad
  <2>1. Quiet("main") /\ th'["main"] = [Resting EXCEPT !.at = "file", !.force = TRUE, !.todo = Files]
    BY <1>26, <1>type, LoadEffect DEF MainLoad, Setting, PhaseInv
  <2> QED
    BY <1>26, <1>type, <2>1, <1>rest DEF MainLoad, daemonVars, dirVars, memory, PhaseInv, Quiet,
        Others, Up
<1>27. CASE MainLoaded
  <2>1. Quiet("main") /\ th'["main"] = Resting
    BY <1>27, <1>type, LoadEffect DEF MainLoaded, LoadEnd, Setting
  <2> QED
    BY <1>27, <1>type, <2>1, <1>rest DEF MainLoaded, LoadEnd, daemonVars, dirVars, memory,
        PhaseInv, Quiet, Others, Up
<1>28. CASE WritePid
  <2> QED
    BY <1>28, <1>type, <1>rest, RestingAll DEF WritePid, Ends, Fault, daemonVars, dirVars,
        memory, PhaseInv
<1>29. CASE RunFiber
  <2> QED
    BY <1>29, <1>type, <1>rest, RestingAll DEF RunFiber, Ends, Fault, daemonVars, dirVars,
        memory, PhaseInv
<1>30. CASE Fork
  <2> QED
    BY <1>30, <1>type DEF Fork, daemonVars, dirVars, memory, PhaseInv
<1>31. CASE Wait
  <2> QED
    BY <1>31, <1>type DEF Wait, configVars, daemonVars, dirVars, memory, PhaseInv
<1>32. CASE Slept
  <2> QED
    BY <1>32, <1>type DEF Slept, configVars, daemonVars, dirVars, memory, PhaseInv
<1>33. CASE InitRefuses
  <2> QED
    BY <1>33, <1>type, <1>rest, RestingAll DEF InitRefuses, Ends, Fault, daemonVars, dirVars,
        memory, PhaseInv
<1>34. CASE ForkFails
  <2> QED
    BY <1>34, <1>type DEF ForkFails, Fault, configVars, daemonVars, dirVars, memory, PhaseInv
<1>35. CASE WaitFails
  <2> QED
    BY <1>35, <1>type DEF WaitFails, Fault, configVars, daemonVars, dirVars, memory, PhaseInv
<1>36. CASE NullCrash
  <2> QED
    BY <1>36, <1>type, <1>rest, RestingAll DEF NullCrash, Dies, Ends, daemonVars, dirVars,
        memory, PhaseInv
<1>37. CASE WalkCrash
  <2> QED
    BY <1>37, <1>type, <1>rest, RestingAll DEF WalkCrash, Dies, Ends, daemonVars, dirVars,
        memory, PhaseInv
<1>38. CASE Killed
  <2> QED
    BY <1>38, <1>type, <1>rest, RestingAll DEF Killed, Dies, Ends, Fault, daemonVars, dirVars,
        memory, PhaseInv
<1>39. CASE UNCHANGED vars
  <2> QED
    BY <1>39, <1>type DEF vars, configVars, daemonVars, dirVars, memory, PhaseInv
<1>40. QED
  BY <1>type, <1>1, <1>2, <1>3, <1>4, <1>5, <1>6, <1>7, <1>8, <1>9, <1>10, <1>11, <1>12, <1>13,
      <1>14, <1>15, <1>16, <1>17, <1>18, <1>19, <1>20, <1>21, <1>22, <1>23, <1>24, <1>25, <1>26,
      <1>27, <1>28, <1>29, <1>30, <1>31, <1>32, <1>33, <1>34, <1>35, <1>36, <1>37, <1>38, <1>39
      DEF Next, ConfigStep, LoadStep, Call, SetStep, MainStep, ParentStep

----------------------------------------------------------------------------
(***************************************************************************)
(* The kinds of steps, by what they do to the memory and to the threads.   *)
(***************************************************************************)
Live == proc \notin {"crashed", "finished"}
Goes == setup' = setup /\ (Live' => Live)
Kept == Goes /\ UNCHANGED <<reg, val, callbacks, copy, loggers, image>>

\* Nobody sets anything but, perhaps, t.
Sole(t) == th[t].at # "rest" \/ (Up /\ t \in setup.setters)

\* No thread goes on, as far as setValue is concerned.
Idles ==
    /\ Kept
    /\ \A t \in Threads : /\ th'[t].at = th[t].at /\ th'[t].left = th[t].left /\ th'[t].loop = th[t].loop
                          /\ th[t].at # "rest" => /\ th'[t].of = th[t].of /\ th'[t].var = th[t].var
                                                  /\ th'[t].new = th[t].new
Loads   == Kept /\ \E t \in Threads : Quiet(t)
Sets    == Kept /\ \E t \in Threads : Sole(t) /\ \E v \in reg : \E x \in ValueOf(v) : Begins(t, v, x)
Telling == Goes /\ image' = image /\ \E t \in Threads : \E l \in Listeners : Tell(t, l)
Logging ==
    /\ Goes /\ image' = image
    /\ \E t \in Threads : (\E n \in Names : SetLevel(t, n)) \/ ClearAppenders(t) \/ AddAppender(t)
Assigns == Goes /\ image' = image /\ \E t \in Threads : Assign(t)
Listens == Goes /\ image' = image /\ \E t \in Threads, v \in Plain, new \in SUBSET Listeners : Listen(t, v, new)
Looks   == Goes /\ image' = image /\ \E t \in Threads, v \in Plain : Lookup(t, v)
Stops   == Kept /\ ~Live' /\ \A t \in Threads : th'[t] = Resting

Kind == Idles \/ Loads \/ Sets \/ Telling \/ Logging \/ Assigns \/ Listens \/ Looks \/ Stops \/ StartDaemon \/ Fork


\* Every step is of one of these kinds.
LEMMA KindOfStep ==
    ASSUME TypeOK, PhaseInv, JobInv, [Next]_vars
    PROVE  Kind
<1>type. /\ TypeOK /\ PhaseInv /\ JobInv /\ "main" \in Threads
         /\ callbacks \in [Plain -> SUBSET Listeners]
  BY MemoryTypes DEF TypeOK, Threads
<1>1. ASSUME NEW t \in Threads, NEW f \in Files, Stat(t, f), UNCHANGED daemonVars
      PROVE  Kind
  <2>1. Kept
    BY <1>1 DEF Stat, daemonVars, dirVars, memory, Kept, Goes, Live
  <2>2. Quiet(t)  BY <1>1, <1>type, StatEffect
  <2> QED  BY <2>1, <2>2, <1>type DEF Kind, Loads
<1>2. ASSUME NEW t \in Threads, Record(t), UNCHANGED daemonVars
      PROVE  Kind
  <2>1. Kept
    BY <1>2 DEF Record, daemonVars, dirVars, memory, Kept, Goes, Live
  <2>2. Quiet(t)  BY <1>2, <1>type, RecordEffect
  <2> QED  BY <2>1, <2>2, <1>type DEF Kind, Loads
<1>3. ASSUME NEW t \in Threads, LoadFile(t), UNCHANGED daemonVars
      PROVE  Kind
  <2>1. Kept
    BY <1>3 DEF LoadFile, daemonVars, dirVars, memory, Kept, Goes, Live
  <2>2. Quiet(t)  BY <1>3, <1>type, LoadFileEffect
  <2> QED  BY <2>1, <2>2, <1>type DEF Kind, Loads
<1>4. ASSUME NEW t \in Threads, FromString(t), UNCHANGED daemonVars
      PROVE  Kind
  <2>1. Kept
    BY <1>4 DEF FromString, daemonVars, dirVars, memory, Kept, Goes, Live
  <2>2. Sole(t)
    BY <1>4 DEF FromString, Sole
  <2>3. Quiet(t) \/ \E y \in reg : \E z \in ValueOf(y) : Begins(t, y, z)
    BY <1>4, <1>type, FromStringEffect
  <2> QED  BY <2>1, <2>2, <2>3 DEF Kind, Loads, Sets
<1>5. ASSUME NEW t \in Threads, EndOfFile(t), UNCHANGED daemonVars
      PROVE  Kind
  <2>1. Kept
    BY <1>5 DEF EndOfFile, daemonVars, dirVars, memory, Kept, Goes, Live
  <2>2. Quiet(t)  BY <1>5, <1>type, EndOfFileEffect
  <2> QED  BY <2>1, <2>2, <1>type DEF Kind, Loads
<1>6. ASSUME NEW t \in Threads, NEW l \in Listeners, Tell(t, l), UNCHANGED daemonVars
      PROVE  Kind
  <2>1. Goes /\ image' = image
    BY <1>6 DEF Tell, daemonVars, dirVars, memory, Goes, Live
  <2> QED  BY <1>6, <2>1 DEF Kind, Telling
<1>7. ASSUME NEW t \in Threads, NEW n \in Names, SetLevel(t, n), UNCHANGED daemonVars
      PROVE  Kind
  <2>1. Goes /\ image' = image
    BY <1>7 DEF SetLevel, daemonVars, dirVars, memory, Goes, Live
  <2> QED  BY <1>7, <2>1 DEF Kind, Logging
<1>8. ASSUME NEW t \in Threads, ClearAppenders(t), UNCHANGED daemonVars
      PROVE  Kind
  <2>1. Goes /\ image' = image
    BY <1>8 DEF ClearAppenders, daemonVars, dirVars, memory, Goes, Live
  <2> QED  BY <1>8, <2>1 DEF Kind, Logging
<1>9. ASSUME NEW t \in Threads, AddAppender(t), UNCHANGED daemonVars
      PROVE  Kind
  <2>1. Goes /\ image' = image
    BY <1>9 DEF AddAppender, daemonVars, dirVars, memory, Goes, Live
  <2> QED  BY <1>9, <2>1 DEF Kind, Logging
<1>10. ASSUME NEW t \in Threads, Assign(t), UNCHANGED daemonVars
      PROVE  Kind
  <2>1. Goes /\ image' = image
    BY <1>10 DEF Assign, daemonVars, dirVars, memory, Goes, Live
  <2> QED  BY <1>10, <2>1 DEF Kind, Assigns
<1>11. ASSUME NEW t \in Threads, ReloadEnd(t), UNCHANGED daemonVars
      PROVE  Kind
  <2>1. Kept
    BY <1>11 DEF ReloadEnd, LoadEnd, daemonVars, dirVars, memory, Kept, Goes, Live
  <2>2. Quiet(t)
    BY <1>11, <1>type, LoadEffect DEF ReloadEnd, LoadEnd, Setting
  <2> QED  BY <2>1, <2>2, <1>type DEF Kind, Loads
<1>12. ASSUME NEW t \in Threads, NEW v \in Plain, NEW x \in Values, SetValue(t, v, x), UNCHANGED daemonVars
      PROVE  Kind
  <2>1. Kept
    BY <1>12 DEF SetValue, daemonVars, dirVars, memory, Kept, Goes, Live
  <2>2. Sole(t)
    BY <1>12 DEF SetValue, Sole
  <2>3. Quiet(t) \/ \E y \in reg : \E z \in ValueOf(y) : Begins(t, y, z)
    BY <1>12, <1>type, SetValueEffect
  <2> QED  BY <2>1, <2>2, <2>3 DEF Kind, Loads, Sets
<1>13. ASSUME NEW t \in Threads, NEW v \in Plain, NEW l \in Listeners, AddListener(t, v, l), UNCHANGED daemonVars
      PROVE  Kind
  <2>1. Listen(t, v, callbacks[v] \cup {l}) /\ (callbacks[v] \cup {l}) \in SUBSET Listeners
    BY <1>13, <1>type DEF AddListener
  <2>2. Goes /\ image' = image
    BY <1>13 DEF AddListener, Listen, daemonVars, dirVars, memory, Goes, Live
  <2> QED  BY <2>1, <2>2 DEF Kind, Listens
<1>14. ASSUME NEW t \in Threads, NEW v \in Plain, NEW l \in Listeners, DelListener(t, v, l), UNCHANGED daemonVars
      PROVE  Kind
  <2>1. Listen(t, v, callbacks[v] \ {l}) /\ callbacks[v] \ {l} \in SUBSET Listeners
    BY <1>14, <1>type DEF DelListener
  <2>2. Goes /\ image' = image
    BY <1>14 DEF DelListener, Listen, daemonVars, dirVars, memory, Goes, Live
  <2> QED  BY <2>1, <2>2 DEF Kind, Listens
<1>15. ASSUME NEW t \in Threads, NEW v \in Plain, ClearListener(t, v), UNCHANGED daemonVars
      PROVE  Kind
  <2>1. Listen(t, v, {}) /\ {} \in SUBSET Listeners
    BY <1>15, <1>type DEF ClearListener
  <2>2. Goes /\ image' = image
    BY <1>15 DEF ClearListener, Listen, daemonVars, dirVars, memory, Goes, Live
  <2> QED  BY <2>1, <2>2 DEF Kind, Listens
<1>16. ASSUME NEW t \in Threads, NEW v \in Plain, Lookup(t, v), UNCHANGED daemonVars
      PROVE  Kind
  <2>1. Goes /\ image' = image
    BY <1>16 DEF Lookup, daemonVars, dirVars, memory, Goes, Live
  <2> QED  BY <1>16, <2>1 DEF Kind, Looks
<1>17. ASSUME NEW t \in Threads, NEW force \in BOOLEAN, Reload(t, force), UNCHANGED daemonVars
      PROVE  Kind
  <2>1. Kept
    BY <1>17 DEF Reload, LoadBegin, daemonVars, dirVars, memory, Kept, Goes, Live
  <2>2. Quiet(t)
    BY <1>17, <1>type, LoadEffect DEF Reload, LoadBegin, Setting
  <2> QED  BY <2>1, <2>2, <1>type DEF Kind, Loads
<1>18. ASSUME NEW w \in Workers, LogEnd(w), UNCHANGED daemonVars
      PROVE  Kind
  <2>1. Kept
    BY <1>18 DEF LogEnd, daemonVars, dirVars, memory, Kept, Goes, Live
  <2> QED
    BY <1>18, <2>1 DEF LogEnd, daemonVars, dirVars, memory, Kind, Idles
<1>19. ASSUME NEW w \in Workers, NEW n \in Names, LogBegin(w, n), UNCHANGED daemonVars
      PROVE  Kind
  <2>1. Kept
    BY <1>19 DEF LogBegin, daemonVars, dirVars, memory, Kept, Goes, Live
  <2> QED
    BY <1>19, <2>1 DEF LogBegin, daemonVars, dirVars, memory, Kind, Idles
<1>20. ASSUME NEW f \in Files, EditEnds(f), UNCHANGED daemonVars
      PROVE  Kind
  <2>1. Kept
    BY <1>20 DEF EditEnds, Write, daemonVars, dirVars, memory, Kept, Goes, Live
  <2> QED
    BY <1>20, <2>1, <1>type, WriteEffect DEF EditEnds, Kind, Idles
<1>21. ASSUME NEW f \in Files, NEW doc \in setup.docs[f], Edit(f, doc), UNCHANGED daemonVars
      PROVE  Kind
  <2>1. Kept
    BY <1>21 DEF Edit, Write, daemonVars, dirVars, memory, Kept, Goes, Live
  <2> QED
    BY <1>21, <2>1, <1>type, WriteEffect DEF Edit, Kind, Idles
<1>22. ASSUME Tick, UNCHANGED daemonVars
      PROVE  Kind
  <2>1. Kept
    BY <1>22 DEF Tick, daemonVars, dirVars, memory, Kept, Goes, Live
  <2> QED
    BY <1>22, <2>1 DEF Tick, daemonVars, dirVars, memory, Kind, Idles
<1>23. CASE InitLoad
  <2>1. Kept
    BY <1>23 DEF InitLoad, LoadBegin, daemonVars, dirVars, memory, Kept, Goes, Live
  <2>2. Quiet("main")
    BY <1>23, <1>type, LoadEffect DEF InitLoad, LoadBegin, Setting
  <2> QED  BY <2>1, <2>2, <1>type DEF Kind, Loads
<1>24. CASE InitLoaded
  <2>1. Kept
    BY <1>24 DEF InitLoaded, LoadEnd, daemonVars, dirVars, memory, Kept, Goes, Live
  <2>2. Quiet("main")
    BY <1>24, <1>type, LoadEffect DEF InitLoaded, LoadEnd, Setting
  <2> QED  BY <2>1, <2>2, <1>type DEF Kind, Loads
<1>25. CASE StartDaemon
  BY <1>25 DEF Kind
<1>26. CASE MainLoad
  <2>1. Kept
    BY <1>26 DEF MainLoad, daemonVars, dirVars, memory, Kept, Goes, Live
  <2>2. Quiet("main")
    BY <1>26, <1>type, LoadEffect DEF MainLoad, Setting, PhaseInv
  <2> QED  BY <2>1, <2>2, <1>type DEF Kind, Loads
<1>27. CASE MainLoaded
  <2>1. Kept
    BY <1>27 DEF MainLoaded, LoadEnd, daemonVars, dirVars, memory, Kept, Goes, Live
  <2>2. Quiet("main")
    BY <1>27, <1>type, LoadEffect DEF MainLoaded, LoadEnd, Setting
  <2> QED  BY <2>1, <2>2, <1>type DEF Kind, Loads
<1>28. CASE WritePid
  <2>1. CASE proc' = "bind"
    <3>1. Kept /\ th' = th
      BY <1>28, <2>1 DEF WritePid, Ends, Fault, daemonVars, dirVars, memory, Kept, Goes, Live
    <3> QED  BY <3>1 DEF Kind, Idles
  <2>2. CASE Ends("finished")
    <3>1. Kept /\ ~Live'
      BY <1>28, <2>2 DEF WritePid, Ends, Fault, daemonVars, dirVars, memory, Kept, Goes, Live
    <3> QED
      BY <2>2, <3>1, RestingAll DEF Ends, Kind, Stops
  <2> QED  BY <1>28, <2>1, <2>2 DEF WritePid
<1>29. CASE RunFiber
  <2>1. CASE proc' = "serving"
    <3>1. Kept /\ th' = th
      BY <1>29, <2>1 DEF RunFiber, Ends, Fault, daemonVars, dirVars, memory, Kept, Goes, Live
    <3> QED  BY <3>1 DEF Kind, Idles
  <2>2. CASE Ends("finished")
    <3>1. Kept /\ ~Live'
      BY <1>29, <2>2 DEF RunFiber, Ends, Fault, daemonVars, dirVars, memory, Kept, Goes, Live
    <3> QED
      BY <2>2, <3>1, RestingAll DEF Ends, Kind, Stops
  <2> QED  BY <1>29, <2>1, <2>2 DEF RunFiber
<1>30. CASE Fork
  BY <1>30 DEF Kind
<1>31. CASE Wait
  <2>1. Kept
    BY <1>31 DEF Wait, configVars, daemonVars, dirVars, memory, Kept, Goes, Live
  <2> QED
    BY <1>31, <2>1 DEF Wait, configVars, daemonVars, dirVars, memory, Kind, Idles
<1>32. CASE Slept
  <2>1. Kept
    BY <1>32 DEF Slept, configVars, daemonVars, dirVars, memory, Kept, Goes, Live
  <2> QED
    BY <1>32, <2>1 DEF Slept, configVars, daemonVars, dirVars, memory, Kind, Idles
<1>33. CASE InitRefuses
  <2>1. Kept /\ ~Live'
    BY <1>33 DEF InitRefuses, Ends, Fault, daemonVars, dirVars, memory, Kept, Goes, Live
  <2> QED
    BY <1>33, <2>1, RestingAll DEF InitRefuses, Ends, Fault, daemonVars, dirVars, memory, Kind,
        Stops
<1>34. CASE ForkFails
  <2>1. Kept
    BY <1>34 DEF ForkFails, Fault, configVars, daemonVars, dirVars, memory, Kept, Goes, Live
  <2> QED
    BY <1>34, <2>1 DEF ForkFails, Fault, configVars, daemonVars, dirVars, memory, Kind, Idles
<1>35. CASE WaitFails
  <2>1. Kept
    BY <1>35 DEF WaitFails, Fault, configVars, daemonVars, dirVars, memory, Kept, Goes, Live
  <2> QED
    BY <1>35, <2>1 DEF WaitFails, Fault, configVars, daemonVars, dirVars, memory, Kind, Idles
<1>36. CASE NullCrash
  <2>1. Kept /\ ~Live'
    BY <1>36 DEF NullCrash, Dies, Ends, daemonVars, dirVars, memory, Kept, Goes, Live
  <2> QED
    BY <1>36, <2>1, RestingAll DEF NullCrash, Dies, Ends, daemonVars, dirVars, memory, Kind,
        Stops
<1>37. CASE WalkCrash
  <2>1. Kept /\ ~Live'
    BY <1>37 DEF WalkCrash, Dies, Ends, daemonVars, dirVars, memory, Kept, Goes, Live
  <2> QED
    BY <1>37, <2>1, RestingAll DEF WalkCrash, Dies, Ends, daemonVars, dirVars, memory, Kind,
        Stops
<1>38. CASE Killed
  <2>1. Kept /\ ~Live'
    BY <1>38 DEF Killed, Dies, Ends, Fault, daemonVars, dirVars, memory, Kept, Goes, Live
  <2> QED
    BY <1>38, <2>1, RestingAll DEF Killed, Dies, Ends, Fault, daemonVars, dirVars, memory, Kind,
        Stops
<1>39. CASE UNCHANGED vars
  <2>1. Kept
    BY <1>39 DEF vars, configVars, daemonVars, dirVars, memory, Kept, Goes, Live
  <2> QED
    BY <1>39, <2>1 DEF vars, configVars, daemonVars, dirVars, memory, Kind, Idles
<1>40. QED
  BY <1>type, <1>1, <1>2, <1>3, <1>4, <1>5, <1>6, <1>7, <1>8, <1>9, <1>10, <1>11, <1>12, <1>13,
      <1>14, <1>15, <1>16, <1>17, <1>18, <1>19, <1>20, <1>21, <1>22, <1>23, <1>24, <1>25, <1>26,
      <1>27, <1>28, <1>29, <1>30, <1>31, <1>32, <1>33, <1>34, <1>35, <1>36, <1>37, <1>38, <1>39
      DEF Next, ConfigStep, LoadStep, Call, SetStep, MainStep, ParentStep

----------------------------------------------------------------------------
(***************************************************************************)
(* Every kind of step keeps the invariant.                                 *)
(***************************************************************************)
WorkInv == JobInv /\ MemoryInv(Memory) /\ MemoryInv(image) /\ AgreeInv

\* What MemoryInv says of the process.
LEMMA MemoryIs ==
    MemoryInv(Memory) <=>
        /\ \A v \in Vars : val[v] \in ValueOf(v)
        /\ \A v \in Plain \ reg : callbacks[v] = {}
        /\ \A v \in Plain : \A l \in Listeners \ callbacks[v] : copy[v][l] = None
BY DEF MemoryInv, Memory

\* The same of the next state.
LEMMA MemoryIsNext ==
    MemoryInv(Memory)' <=>
        /\ \A v \in Vars : val'[v] \in ValueOf(v)
        /\ \A v \in Plain \ reg' : callbacks'[v] = {}
        /\ \A v \in Plain : \A l \in Listeners \ callbacks'[v] : copy'[v][l] = None
BY DEF MemoryInv, Memory

\* With one thread that sets variables, nobody is in setValue when it begins.
LEMMA Alone ==
    ASSUME TypeOK, PhaseInv, OneSetter, NEW t \in Threads, Sole(t), NEW u \in Threads, th[u].at # "rest"
    PROVE  u = t
BY ConfigAssumption DEF TypeOK, PhaseInv, OneSetter, Sole, Up

\* An image that is kept goes on agreeing.
LEMMA ImageStep ==
    ASSUME image' = image, MemoryInv(image)
    PROVE  MemoryInv(image)' /\ (MemoryAgrees(image) => MemoryAgrees(image)')
BY DEF MemoryInv, MemoryAgrees, LoggerIs

\* It is enough to look at a process that lives and has one thread that sets.
LEMMA AgreeGoes ==
    ASSUME AgreeInv, Goes, image' = image, MemoryInv(image),
           OneSetter /\ Live /\ Live' /\ CopiesInv /\ LoggersInv => CopiesInv' /\ LoggersInv'
    PROVE  AgreeInv'
<1>1. OneSetter' <=> OneSetter  BY DEF Goes, OneSetter
<1>2. Live' => Live  BY DEF Goes
<1>3. QED  BY <1>1, <1>2, ImageStep DEF AgreeInv, Live

\* The editor, the loggers and the parent do not touch the variables.
LEMMA IdlesStep ==
    ASSUME IInv, TypeOK', Idles
    PROVE  WorkInv'
<1>1. Kept /\ Goes /\ image' = image /\ UNCHANGED <<reg, val, callbacks, copy, loggers>>  BY DEF Idles, Kept
<1>2. JobInv'  BY <1>1 DEF IInv, JobInv, Idles, Setting
<1>3. MemoryInv(Memory)'  BY <1>1, MemoryIs, MemoryIsNext DEF IInv
<1>4. CopiesInv => CopiesInv'  BY <1>1 DEF Idles, CopiesInv, Setting
<1>5. ASSUME LoggersInv PROVE LoggersInv'
  <2>1. \A t \in Threads : /\ Setting(t)' <=> Setting(t)
                           /\ th'[t].left = th[t].left /\ th'[t].loop = th[t].loop
                           /\ Setting(t) => th'[t].var = th[t].var /\ th'[t].new = th[t].new
    BY DEF Idles, Setting
  <2>2. \A t \in Threads : th[t].loop.at # "next" => Setting(t)
    BY RestingJob DEF IInv, JobInv, Setting
  <2>3. ASSUME \A t \in Threads : Setting(t)' => th'[t].var # "logs"
        PROVE  \A n \in Names : LoggerIs(loggers[n], n, val["logs"])'
    BY <1>1, <1>5, <2>1, <2>3 DEF LoggersInv, LoggerIs, Setting
  <2>4. ASSUME NEW t \in Threads, Setting(t)', th'[t].var = "logs", NEW n \in Names \ th'[t].left
        PROVE  LoggerIs(loggers[n], n, th[t].new)'
    <3>1. Setting(t) /\ th[t].var = "logs" /\ n \notin th[t].left /\ th'[t].new = th[t].new
      BY <2>1, <2>4 DEF Setting
    <3>2. LoggerIs(loggers[n], n, th[t].new)  BY <1>5, <3>1 DEF LoggersInv
    <3>3. QED  BY <1>1, <3>1, <3>2 DEF LoggerIs
  <2>5. ASSUME NEW t \in Threads, th'[t].loop.at # "next"
        PROVE  LET n == th'[t].loop.of
                   w == Wanted(th'[t].new, n)
               IN  /\ loggers'[n].level = w.level
                   /\ th'[t].loop.at = "clear" => th'[t].loop.rest = w.appenders
                   /\ th'[t].loop.at = "add" => loggers'[n].appenders \o th'[t].loop.rest = w.appenders
    <3>1. th'[t].loop = th[t].loop /\ th'[t].new = th[t].new /\ loggers' = loggers
      BY <1>1, <2>1, <2>2, <2>5 DEF Setting
    <3>2. QED  BY <1>5, <2>5, <3>1 DEF LoggersInv, Wanted
  <2>6. QED  BY <2>3, <2>4, <2>5 DEF LoggersInv
<1>6. QED  BY <1>1, <1>2, <1>3, <1>4, <1>5, ImageStep, AgreeGoes DEF IInv, WorkInv

\* Nor does a load between two calls of setValue.
LEMMA LoadsStep ==
    ASSUME IInv, TypeOK', Loads
    PROVE  WorkInv'
<1>1. Kept /\ Goes /\ image' = image /\ UNCHANGED <<reg, val, callbacks, copy, loggers>>  BY DEF Loads, Kept
<1>2. PICK t \in Threads : Quiet(t)  BY DEF Loads
<1>3. /\ \A u \in Threads \ {t} : th'[u] = th[u]
      /\ ~Setting(t) /\ ~Setting(t)' /\ th'[t].left = {} /\ th'[t].loop = NoLoop /\ NoLoop.at = "next"
      /\ th'[t].at \in {"record", "open"} => th'[t].of \in Files
  BY <1>2, RestingJob DEF Quiet, Others, Setting
<1>4. JobInv'  BY <1>1, <1>3 DEF IInv, JobInv, Setting
<1>5. MemoryInv(Memory)'  BY <1>1, MemoryIs, MemoryIsNext DEF IInv
<1>6. CopiesInv => CopiesInv'  BY <1>1, <1>3 DEF CopiesInv, Setting
<1>7. LoggersInv => LoggersInv'  BY <1>1, <1>3 DEF LoggersInv, Setting, LoggerIs, Wanted
<1>8. QED  BY <1>1, <1>4, <1>5, <1>6, <1>7, ImageStep, AgreeGoes DEF IInv, WorkInv

\* setValue begins: the loggers it passes over have the new value already.
LEMMA SetsStep ==
    ASSUME IInv, TypeOK', Sets
    PROVE  WorkInv'
<1>1. Kept /\ Goes /\ image' = image /\ UNCHANGED <<reg, val, callbacks, copy, loggers>>  BY DEF Sets, Kept
<1>2. PICK t \in Threads, v \in reg : Sole(t) /\ \E x \in ValueOf(v) : Begins(t, v, x)  BY DEF Sets
<1>3. PICK x \in ValueOf(v) : Begins(t, v, x)  BY <1>2
<1>4. /\ \A u \in Threads \ {t} : th'[u] = th[u]
      /\ ~Setting(t) /\ Setting(t)' /\ th'[t].loop = NoLoop /\ NoLoop.at = "next"
      /\ th'[t].var = v /\ th'[t].new = x /\ th'[t].left = Calls(v, x)
      /\ th'[t].at = IF Calls(v, x) = {} THEN "assign" ELSE "calling"
  BY <1>3, RestingJob DEF Begins, Others, Setting
<1>5. JobInv'
  BY <1>1, <1>3, <1>4 DEF IInv, JobInv, Setting, Calls
<1>6. MemoryInv(Memory)'  BY <1>1, MemoryIs, MemoryIsNext DEF IInv
<1>7. ASSUME OneSetter PROVE \A u \in Threads : ~Setting(u)
  BY <1>2, <1>4, <1>7, Alone DEF IInv, Setting
<1>8. ASSUME OneSetter, CopiesInv PROVE CopiesInv'
  <2>1. \A w \in Plain : \A l \in callbacks[w] : copy[w][l] \in {None, val[w]}  BY <1>7, <1>8 DEF CopiesInv
  <2>2. v # "logs" => th'[t].left = callbacks[v]  BY <1>4 DEF Calls
  <2>3. "logs" \notin Plain  BY KindsOfVars
  <2>4. \A u \in Threads : Setting(u)' => u = t  BY <1>4, <1>7, <1>8 DEF Setting
  <2>5. QED  BY <1>1, <1>4, <2>1, <2>2, <2>3, <2>4 DEF CopiesInv, Setting
<1>9. ASSUME OneSetter, LoggersInv PROVE LoggersInv'
  <2>1. \A n \in Names : LoggerIs(loggers[n], n, val["logs"])  BY <1>7, <1>9 DEF LoggersInv
  <2>2. v = "logs" => \A n \in Names \ th'[t].left : x[n] = val["logs"][n]  BY <1>4 DEF Calls, LogListener
  <2>3. \A u \in Threads : Setting(u)' => u = t  BY <1>4, <1>7, <1>9 DEF Setting
  <2>4. \A u \in Threads : th'[u].loop.at = "next"
    BY <1>4, <1>7, <1>9, RestingJob DEF IInv, JobInv, Setting
  <2>5. QED  BY <1>1, <1>4, <2>1, <2>2, <2>3, <2>4 DEF LoggersInv, Setting, LoggerIs
<1>10. QED  BY <1>1, <1>5, <1>6, <1>8, <1>9, ImageStep, AgreeGoes DEF IInv, WorkInv


\* A listener of a plain variable takes the new value.
LEMMA TellingStep ==
    ASSUME IInv, TypeOK', Telling
    PROVE  WorkInv'
<1>1. Goes /\ image' = image  BY DEF Telling
<1>2. PICK t \in Threads, l \in Listeners : Tell(t, l)  BY DEF Telling
<1> DEFINE v == th[t].var
           x == th[t].new
<1>3. /\ th[t].at = "calling" /\ v # "logs" /\ l \in th[t].left
      /\ copy' = [copy EXCEPT ![v][l] = x] /\ UNCHANGED <<reg, val, callbacks, loggers>>
  BY <1>2 DEF Tell
<1>4. /\ \A u \in Threads \ {t} : th'[u] = th[u]
      /\ th'[t].var = v /\ th'[t].new = x /\ th'[t].left = th[t].left \ {l}
      /\ th'[t].loop = NoLoop /\ NoLoop.at = "next"
      /\ th'[t].at = IF th[t].left = {l} THEN "assign" ELSE "calling"
  BY <1>2, ToldEffect, RestingJob DEF IInv, Tell, Tells, Others
<1>5. /\ v \in reg /\ x \in ValueOf(v) /\ th[t].left \subseteq callbacks[v] /\ v \in Plain
      /\ copy \in [Plain -> [Listeners -> AnyValue]] /\ th[t].loop.at = "next"
  BY <1>3, MemoryTypes, KindsOfVars DEF IInv, TypeOK, JobInv, Setting
<1>6. copy'[v][l] = x /\ \A w \in Plain, m \in Listeners : <<w, m>> # <<v, l>> => copy'[w][m] = copy[w][m]
  BY <1>3, <1>5
<1> HIDE DEF v, x
<1>7. JobInv'
  <2>1. th'[t].at = "assign" => th'[t].left = {}  BY <1>4
  <2>2. QED  BY <1>3, <1>4, <1>5, <2>1 DEF IInv, JobInv, Setting
<1>8. MemoryInv(Memory)'  BY <1>3, <1>5, <1>6, MemoryIs, MemoryIsNext DEF IInv
<1>9. ASSUME OneSetter PROVE \A u \in Threads \ {t} : ~Setting(u) /\ ~Setting(u)'
  BY <1>3, <1>4, <1>9, Alone DEF IInv, Setting, Sole
<1>10. Setting(t) /\ Setting(t)'  BY <1>3, <1>4 DEF Setting
<1>11. ASSUME OneSetter, CopiesInv PROVE CopiesInv'
  <2> SUFFICES ASSUME NEW w \in Plain, NEW m \in callbacks[w]
               PROVE  /\ w = v /\ m \notin th'[t].left => copy'[w][m] = x
                      /\ copy'[w][m] \in {None, val[w]} \/ (w = v /\ m \notin th'[t].left)
    BY <1>3, <1>4, <1>9, <1>10, <1>11 DEF CopiesInv, Setting
  <2>1. m \in Listeners  BY MemoryTypes DEF IInv, TypeOK
  <2>2. /\ w = v /\ m \notin th[t].left => copy[w][m] = x
        /\ copy[w][m] \in {None, val[w]} \/ (w = v /\ m \notin th[t].left)
    BY <1>9, <1>10, <1>11 DEF CopiesInv, v, x
  <2>3. QED  BY <1>4, <1>6, <2>1, <2>2
<1>12. ASSUME OneSetter, LoggersInv PROVE LoggersInv'
  <2>1. \A u \in Threads : th[u].loop.at = "next" /\ th'[u].loop.at = "next"
    BY <1>4, <1>5, <1>9, <1>12, RestingJob DEF IInv, JobInv, Setting
  <2>2. \A u \in Threads : Setting(u)' => th'[u].var # "logs"  BY <1>3, <1>4, <1>9, <1>12
  <2>3. \A u \in Threads : Setting(u) => th[u].var # "logs"  BY <1>3, <1>9, <1>12 DEF v
  <2>4. QED  BY <1>3, <1>12, <2>1, <2>2, <2>3 DEF LoggersInv, LoggerIs, Setting
<1>13. QED  BY <1>1, <1>7, <1>8, <1>11, <1>12, ImageStep, AgreeGoes DEF IInv, WorkInv

\* The logger being rebuilt, and the others.
LEMMA RebuiltStep ==
    ASSUME IInv, TypeOK', Goes, image' = image, NEW t \in Threads, NEW n \in Names, NEW done \in BOOLEAN,
           UNCHANGED <<reg, val, callbacks, copy>>, \A u \in Threads \ {t} : th'[u] = th[u],
           th[t].at = "calling", th[t].var = "logs", th[t].new \in LogValues, n \in th[t].left,
           th'[t].var = "logs", th'[t].new = th[t].new,
           \A m \in Names \ {n} : loggers'[m] = loggers[m],
           th'[t].left = IF done THEN th[t].left \ {n} ELSE th[t].left,
           th'[t].at = IF th'[t].left = {} THEN "assign" ELSE "calling",
           done => th'[t].loop = NoLoop,
           ~done => /\ th'[t].loop.at \in {"clear", "add"} /\ th'[t].loop.of = n
                    /\ th'[t].loop.at = "add" => th'[t].loop.rest # <<>>,
           OneSetter /\ LoggersInv => 
               LET w == Wanted(th[t].new, n)
               IN  IF done THEN loggers'[n] = w
                           ELSE /\ loggers'[n].level = w.level
                                /\ th'[t].loop.at = "clear" => th'[t].loop.rest = w.appenders
                                /\ th'[t].loop.at = "add" => loggers'[n].appenders \o th'[t].loop.rest = w.appenders
    PROVE  WorkInv'
<1>1. NoLoop.at = "next" /\ Setting(t) /\ Setting(t)'  BY RestingJob DEF Setting
<1>2. JobInv'
  BY <1>1, KindsOfVars DEF IInv, JobInv, Setting
<1>3. MemoryInv(Memory)'  BY MemoryIs, MemoryIsNext DEF IInv
<1>4. ASSUME OneSetter PROVE \A u \in Threads \ {t} : ~Setting(u) /\ ~Setting(u)' /\ th'[u].loop.at = "next"
  BY <1>4, <1>1, Alone DEF IInv, JobInv, Setting, Sole
<1>5. ASSUME OneSetter, CopiesInv PROVE CopiesInv'
  BY <1>1, <1>4, <1>5, KindsOfVars DEF CopiesInv, Setting
<1>6. ASSUME OneSetter, LoggersInv PROVE LoggersInv'
  <2>1. \A m \in Names \ th[t].left : LoggerIs(loggers[m], m, th[t].new)  BY <1>1, <1>6 DEF LoggersInv
  <2>2. ASSUME NEW m \in Names \ th'[t].left PROVE LoggerIs(loggers'[m], m, th[t].new)
    BY <1>6, <2>1, <2>2 DEF LoggerIs, Wanted
  <2>3. th'[t].loop.at # "next" => ~done  BY <1>1
  <2>4. ASSUME NEW u \in Threads, Setting(u)' PROVE u = t
    BY <1>4, <1>6, <2>4
  <2>5. ASSUME NEW u \in Threads, Setting(u)', NEW m \in Names \ th'[u].left
        PROVE  LoggerIs(loggers[m], m, th[u].new)'
    BY <2>2, <2>4, <2>5 DEF LoggerIs
  <2>6. ASSUME NEW u \in Threads, th'[u].loop.at # "next"
        PROVE  LET k == th'[u].loop.of
                   w == Wanted(th'[u].new, k)
               IN  /\ loggers'[k].level = w.level
                   /\ th'[u].loop.at = "clear" => th'[u].loop.rest = w.appenders
                   /\ th'[u].loop.at = "add" => loggers'[k].appenders \o th'[u].loop.rest = w.appenders
    <3>1. u = t /\ ~done  BY <1>4, <1>6, <2>3, <2>6
    <3>2. QED  BY <1>6, <3>1
  <2>7. ~\A u \in Threads : Setting(u)' => th'[u].var # "logs"  BY <1>1
  <2>8. QED  BY <2>5, <2>6, <2>7 DEF LoggersInv
<1>7. QED  BY <1>2, <1>3, <1>5, <1>6, ImageStep, AgreeGoes DEF IInv, WorkInv

\* A logger is its level and its appenders.
LEMMA LoggerEquals ==
    ASSUME NEW g \in Loggers, NEW h \in Loggers, g.level = h.level, g.appenders = h.appenders
    PROVE  g = h
BY DEF Loggers

\* The listener of ready.h rebuilds the loggers, one call at a time.
LEMMA LoggingStep ==
    ASSUME IInv, TypeOK', Logging
    PROVE  WorkInv'
<1>1. Goes /\ image' = image  BY DEF Logging
<1>2. PICK t \in Threads : (\E n \in Names : SetLevel(t, n)) \/ ClearAppenders(t) \/ AddAppender(t)  BY DEF Logging
<1>3. TypeOK /\ JobInv /\ NoLoop.at = "next"  BY RestingJob DEF IInv
<1>4. ASSUME NEW n \in Names, SetLevel(t, n) PROVE WorkInv'
  <2>1. UNCHANGED <<reg, val, callbacks, copy>>  BY <1>4 DEF SetLevel
  <2>2. /\ Tries(t) /\ th[t].at = "calling" /\ th[t].var = "logs" /\ th[t].new \in LogValues
        /\ n \in th[t].left /\ th[t].loop.at = "next"
        /\ th'[t].loop = [at |-> "clear", of |-> n, rest |-> Wanted(th[t].new, n).appenders]
        /\ \A m \in Names \ {n} : loggers'[m] = loggers[m]
        /\ loggers'[n].level = Wanted(th[t].new, n).level
    BY <1>3, <1>4, SetLevelEffect
  <2>3. /\ th'[t].loop.at = "clear" /\ th'[t].loop.of = n /\ th'[t].loop.rest = Wanted(th[t].new, n).appenders
        /\ \A u \in Threads \ {t} : th'[u] = th[u]
        /\ th'[t].at = "calling" /\ th'[t].var = "logs" /\ th'[t].new = th[t].new /\ th'[t].left = th[t].left
    BY <2>2 DEF Tries, Others
  <2>4. \A done \in BOOLEAN : done = FALSE => WorkInv'  BY <1>1, <2>1, <2>2, <2>3, RebuiltStep
  <2>5. QED  BY <2>4
<1>5. CASE ClearAppenders(t)
  <2> DEFINE n == th[t].loop.of
             w == Wanted(th[t].new, n)
  <2>1. UNCHANGED <<reg, val, callbacks, copy>>  BY <1>5 DEF ClearAppenders
  <2>2. /\ th[t].at = "calling" /\ th[t].var = "logs" /\ th[t].new \in LogValues
        /\ th[t].loop.at = "clear" /\ n \in Names /\ n \in th[t].left
        /\ loggers' \in [Names -> Loggers] /\ \A m \in Names \ {n} : loggers'[m] = loggers[m]
        /\ loggers'[n].level = loggers[n].level /\ loggers'[n].appenders = <<>>
        /\ \/ th[t].loop.rest = <<>> /\ Tells(t, n)
           \/ /\ th[t].loop.rest # <<>> /\ Tries(t)
              /\ th'[t].loop = [at |-> "add", of |-> n, rest |-> th[t].loop.rest]
    BY <1>3, <1>5, ClearAppendersEffect
  <2>3. LoggersInv => loggers[n].level = w.level /\ th[t].loop.rest = w.appenders
    BY <2>2 DEF LoggersInv
  <2>4. w \in Loggers /\ loggers'[n] \in Loggers  BY <2>2, LoggerTypes
  <2>5. th[t].loop.rest \in Seq(Kinds)  BY <1>3 DEF TypeOK, Jobs
  <2>6. <<>> \o th[t].loop.rest = th[t].loop.rest  BY <2>5
  <2> HIDE DEF n, w
  <2>7. CASE th[t].loop.rest = <<>> /\ Tells(t, n)
    <3>1. LoggersInv => loggers'[n] = w  BY <2>2, <2>3, <2>4, <2>7, LoggerEquals
    <3>2. /\ \A u \in Threads \ {t} : th'[u] = th[u]
          /\ th'[t].var = "logs" /\ th'[t].new = th[t].new /\ th'[t].left = th[t].left \ {n} /\ th'[t].loop = NoLoop
          /\ th'[t].at = IF th'[t].left = {} THEN "assign" ELSE "calling"
      BY <2>2, <2>7 DEF Tells, Others
    <3>3. \A done \in BOOLEAN : done = TRUE => WorkInv'  BY <1>1, <2>1, <2>2, <3>1, <3>2, RebuiltStep DEF w
    <3>4. QED  BY <3>3
  <2>8. CASE /\ th[t].loop.rest # <<>> /\ Tries(t)
             /\ th'[t].loop = [at |-> "add", of |-> n, rest |-> th[t].loop.rest]
    <3>1. /\ th'[t].loop.at = "add" /\ th'[t].loop.of = n /\ th'[t].loop.rest = th[t].loop.rest
          /\ \A u \in Threads \ {t} : th'[u] = th[u]
          /\ th'[t].at = "calling" /\ th'[t].var = "logs" /\ th'[t].new = th[t].new /\ th'[t].left = th[t].left
      BY <2>2, <2>8 DEF Tries, Others
    <3>2. LoggersInv => loggers'[n].level = w.level /\ loggers'[n].appenders \o th'[t].loop.rest = w.appenders
      BY <2>2, <2>3, <2>6, <3>1
    <3>3. \A done \in BOOLEAN : done = FALSE => WorkInv'
      BY <1>1, <2>1, <2>2, <2>8, <3>1, <3>2, RebuiltStep DEF w
    <3>4. QED  BY <3>3
  <2>9. QED  BY <2>2, <2>7, <2>8
<1>6. CASE AddAppender(t)
  <2> DEFINE n == th[t].loop.of
             w == Wanted(th[t].new, n)
             rest == Tail(th[t].loop.rest)
  <2>1. UNCHANGED <<reg, val, callbacks, copy>>  BY <1>6 DEF AddAppender
  <2>2. /\ th[t].at = "calling" /\ th[t].var = "logs" /\ th[t].new \in LogValues
        /\ th[t].loop.at = "add" /\ n \in Names /\ n \in th[t].left
        /\ loggers' \in [Names -> Loggers] /\ \A m \in Names \ {n} : loggers'[m] = loggers[m]
        /\ loggers'[n].level = loggers[n].level
        /\ loggers'[n].appenders \o rest = loggers[n].appenders \o th[t].loop.rest
        /\ \/ rest = <<>> /\ Tells(t, n)
           \/ rest # <<>> /\ Tries(t) /\ th'[t].loop = [at |-> "add", of |-> n, rest |-> rest]
    BY <1>3, <1>6, AddAppenderEffect
  <2>3. LoggersInv => loggers'[n].level = w.level /\ loggers'[n].appenders \o rest = w.appenders
    BY <2>2 DEF LoggersInv
  <2>4. w \in Loggers /\ loggers'[n] \in Loggers  BY <2>2, LoggerTypes
  <2>5. loggers'[n].appenders \in Seq(Kinds)  BY <2>4 DEF Loggers
  <2>6. loggers'[n].appenders \o <<>> = loggers'[n].appenders  BY <2>5
  <2> HIDE DEF n, w, rest
  <2>7. CASE rest = <<>> /\ Tells(t, n)
    <3>1. LoggersInv => loggers'[n] = w  BY <2>3, <2>4, <2>6, <2>7, LoggerEquals
    <3>2. /\ \A u \in Threads \ {t} : th'[u] = th[u]
          /\ th'[t].var = "logs" /\ th'[t].new = th[t].new /\ th'[t].left = th[t].left \ {n} /\ th'[t].loop = NoLoop
          /\ th'[t].at = IF th'[t].left = {} THEN "assign" ELSE "calling"
      BY <2>2, <2>7 DEF Tells, Others
    <3>3. \A done \in BOOLEAN : done = TRUE => WorkInv'  BY <1>1, <2>1, <2>2, <3>1, <3>2, RebuiltStep DEF w
    <3>4. QED  BY <3>3
  <2>8. CASE rest # <<>> /\ Tries(t) /\ th'[t].loop = [at |-> "add", of |-> n, rest |-> rest]
    <3>1. /\ th'[t].loop.at = "add" /\ th'[t].loop.of = n /\ th'[t].loop.rest = rest
          /\ \A u \in Threads \ {t} : th'[u] = th[u]
          /\ th'[t].at = "calling" /\ th'[t].var = "logs" /\ th'[t].new = th[t].new /\ th'[t].left = th[t].left
      BY <2>2, <2>8 DEF Tries, Others
    <3>2. \A done \in BOOLEAN : done = FALSE => WorkInv'
      BY <1>1, <2>1, <2>2, <2>3, <2>8, <3>1, RebuiltStep DEF w
    <3>3. QED  BY <3>2
  <2>9. QED  BY <2>2, <2>7, <2>8
<1>7. QED  BY <1>2, <1>4, <1>5, <1>6

\* setValue assigns: everybody has been told.
LEMMA AssignsStep ==
    ASSUME IInv, TypeOK', Assigns
    PROVE  WorkInv'
<1>1. Goes /\ image' = image  BY DEF Assigns
<1>2. PICK t \in Threads : Assign(t)  BY DEF Assigns
<1> DEFINE v == th[t].var
           x == th[t].new
<1>3. /\ th[t].at = "assign" /\ val' = [val EXCEPT ![v] = x] /\ UNCHANGED <<reg, callbacks, copy, loggers>>
  BY <1>2 DEF Assign
<1>4. /\ \A u \in Threads \ {t} : th'[u] = th[u]
      /\ ~Setting(t)' /\ th'[t].at \in {"rest", "node"} /\ th'[t].left = {} /\ th'[t].loop = NoLoop /\ NoLoop.at = "next"
  BY <1>2, AssignEffect, RestingJob DEF IInv, Ended, Others, Setting
<1>5. /\ v \in reg /\ x \in ValueOf(v) /\ v \in Vars /\ Setting(t) /\ th[t].left = {} /\ val \in [Vars -> AnyValue]
  BY <1>3, MemoryTypes DEF IInv, TypeOK, JobInv, Setting
<1>6. val'[v] = x /\ \A w \in Vars \ {v} : val'[w] = val[w]  BY <1>3, <1>5
<1> HIDE DEF v, x
<1>7. JobInv'  BY <1>3, <1>4 DEF IInv, JobInv, Setting
<1>8. MemoryInv(Memory)'  BY <1>3, <1>5, <1>6, MemoryIs, MemoryIsNext DEF IInv
<1>9. ASSUME OneSetter PROVE \A u \in Threads : Setting(u) => u = t
  BY <1>3, <1>9, Alone DEF IInv, Setting, Sole
<1>10. ASSUME OneSetter PROVE \A u \in Threads : ~Setting(u)'
  BY <1>4, <1>9, <1>10 DEF Setting
<1>11. ASSUME OneSetter, CopiesInv PROVE CopiesInv'
  <2>1. ASSUME NEW w \in Plain, NEW l \in callbacks[w] PROVE copy[w][l] \in {None, val'[w]}
    <3>1. CASE w = v  BY <1>5, <1>6, <1>11, <3>1 DEF CopiesInv, v, x
    <3>2. CASE w # v
      <4>1. w \in Vars /\ val'[w] = val[w]  BY <1>6, <3>2 DEF Vars
      <4>2. copy[w][l] \in {None, val[w]}  BY <1>9, <1>11, <3>2 DEF CopiesInv, v
      <4>3. QED  BY <4>1, <4>2
    <3>3. QED  BY <3>1, <3>2
  <2>2. QED  BY <1>3, <1>10, <1>11, <2>1 DEF CopiesInv
<1>12. ASSUME OneSetter, LoggersInv PROVE LoggersInv'
  <2>1. ASSUME NEW n \in Names PROVE LoggerIs(loggers[n], n, val'["logs"])
    <3>1. CASE v = "logs"  BY <1>5, <1>6, <1>12, <3>1 DEF LoggersInv, v, x
    <3>2. CASE v # "logs"
      <4>1. val'["logs"] = val["logs"]  BY <1>6, <3>2, KindsOfVars
      <4>2. \A u \in Threads : Setting(u) => th[u].var # "logs"  BY <1>9, <1>12, <3>2 DEF v
      <4>3. QED  BY <1>12, <4>1, <4>2 DEF LoggersInv
    <3>3. QED  BY <3>1, <3>2
  <2>2. \A u \in Threads : th'[u].loop.at = "next"
    BY <1>4, <1>9, <1>12, RestingJob DEF IInv, JobInv, Setting
  <2>3. QED  BY <1>3, <1>10, <1>12, <2>1, <2>2 DEF LoggersInv, LoggerIs
<1>13. QED  BY <1>1, <1>7, <1>8, <1>11, <1>12, ImageStep, AgreeGoes DEF IInv, WorkInv

\* When nobody is in setValue, the invariant says that all agree.
LEMMA NobodySetting ==
    ASSUME \A u \in Threads : ~Setting(u) /\ th[u].loop.at = "next"
    PROVE  /\ CopiesInv <=> \A v \in Plain : \A l \in callbacks[v] : copy[v][l] \in {None, val[v]}
           /\ LoggersInv <=> \A n \in Names : LoggerIs(loggers[n], n, val["logs"])
BY DEF CopiesInv, LoggersInv

\* The same of the next state.
LEMMA NobodySettingNext ==
    ASSUME \A u \in Threads : ~Setting(u)' /\ th'[u].loop.at = "next"
    PROVE  /\ CopiesInv' <=> \A v \in Plain : \A l \in callbacks'[v] : copy'[v][l] \in {None, val'[v]}
           /\ LoggersInv' <=> \A n \in Names : LoggerIs(loggers'[n], n, val'["logs"])
BY DEF CopiesInv, LoggersInv, LoggerIs

\* addListener, delListener and clearListener: a new listener has been told nothing.
LEMMA ListensStep ==
    ASSUME IInv, TypeOK', Listens
    PROVE  WorkInv'
<1>1. Goes /\ image' = image  BY DEF Listens
<1>2. PICK t \in Threads, v \in Plain, new \in SUBSET Listeners : Listen(t, v, new)  BY DEF Listens
<1>3. /\ Sole(t) /\ th[t].at = "rest" /\ v \in reg /\ Reading(v) = {} /\ UNCHANGED <<reg, val, loggers, th>>
      /\ callbacks' = [callbacks EXCEPT ![v] = new]
      /\ copy' = [copy EXCEPT ![v] = [l \in Listeners |-> IF l \in new THEN copy[v][l] ELSE None]]
  BY <1>2 DEF Listen, Sole
<1>4. callbacks \in [Plain -> SUBSET Listeners] /\ copy \in [Plain -> [Listeners -> AnyValue]]
  BY MemoryTypes DEF IInv, TypeOK
<1>5. /\ callbacks'[v] = new /\ \A w \in Plain \ {v} : callbacks'[w] = callbacks[w] /\ copy'[w] = copy[w]
      /\ \A l \in Listeners : copy'[v][l] = IF l \in new THEN copy[v][l] ELSE None
  BY <1>3, <1>4
<1>6. JobInv'
  <2>1. ASSUME NEW u \in Threads, Setting(u), th[u].var = v PROVE th[u].left = {}
    BY <1>3, <2>1 DEF IInv, JobInv, Setting, Reading
  <2>2. ASSUME NEW u \in Threads, Setting(u), th[u].var # "logs" PROVE th[u].left \subseteq callbacks'[th[u].var]
    <3>1. th[u].left \subseteq callbacks[th[u].var] /\ th[u].var \in Plain
      BY <2>2, KindsOfVars, MemoryTypes DEF IInv, JobInv, TypeOK
    <3>2. QED  BY <1>5, <2>1, <2>2, <3>1
  <2>3. QED  BY <1>3, <2>2 DEF IInv, JobInv, Setting
<1>7. MemoryInv(Memory)'  BY <1>3, <1>5, MemoryIs, MemoryIsNext DEF IInv
<1>8. ASSUME OneSetter PROVE \A u \in Threads : ~Setting(u) /\ th[u].loop.at = "next" /\ ~Setting(u)' /\ th'[u].loop.at = "next"
  BY <1>3, <1>8, Alone, RestingJob DEF IInv, JobInv, Setting
<1>9. ASSUME OneSetter, CopiesInv PROVE CopiesInv'
  <2>1. \A w \in Plain : \A l \in callbacks[w] : copy[w][l] \in {None, val[w]}  BY <1>8, <1>9, NobodySetting
  <2>2. \A l \in Listeners \ callbacks[v] : copy[v][l] = None  BY MemoryIs DEF IInv
  <2>3. \A w \in Plain : \A l \in callbacks'[w] : copy'[w][l] \in {None, val'[w]}
    BY <1>3, <1>4, <1>5, <2>1, <2>2
  <2>4. QED  BY <1>8, <1>9, <2>3, NobodySettingNext
<1>10. ASSUME OneSetter, LoggersInv PROVE LoggersInv'
  BY <1>3, <1>8, <1>10, NobodySetting, NobodySettingNext
<1>11. QED  BY <1>1, <1>6, <1>7, <1>9, <1>10, ImageStep, AgreeGoes DEF IInv, WorkInv

\* lookup makes a variable nobody listens to.
LEMMA LooksStep ==
    ASSUME IInv, TypeOK', Looks
    PROVE  WorkInv'
<1>1. Goes /\ image' = image  BY DEF Looks
<1>2. PICK t \in Threads, v \in Plain : Lookup(t, v)  BY DEF Looks
<1>3. /\ Sole(t) /\ th[t].at = "rest" /\ v \notin reg /\ UNCHANGED <<callbacks, copy, loggers, th>>
      /\ reg' = reg \cup {v} /\ val' = [val EXCEPT ![v] = Default]
  BY <1>2 DEF Lookup, Sole
<1>4. v \in Vars /\ v # "logs" /\ "logs" \in Vars /\ val \in [Vars -> AnyValue] /\ callbacks[v] = {}
  BY <1>3, MemoryTypes, MemoryIs, KindsOfVars DEF IInv, TypeOK, Vars
<1>5. val'[v] = Default /\ \A w \in Vars \ {v} : val'[w] = val[w]  BY <1>3, <1>4
<1>6. JobInv'  BY <1>3 DEF IInv, JobInv, Setting
<1>7. MemoryInv(Memory)'
  <2>1. Default \in ValueOf(v)  BY <1>4, ConfigAssumption DEF ValueOf
  <2>2. QED  BY <1>3, <1>5, <2>1, MemoryIs, MemoryIsNext DEF IInv
<1>8. ASSUME OneSetter PROVE \A u \in Threads : ~Setting(u) /\ th[u].loop.at = "next" /\ ~Setting(u)' /\ th'[u].loop.at = "next"
  BY <1>3, <1>8, Alone, RestingJob DEF IInv, JobInv, Setting
<1>9. ASSUME OneSetter, CopiesInv PROVE CopiesInv'
  <2>1. \A w \in Plain : \A l \in callbacks[w] : copy[w][l] \in {None, val[w]}  BY <1>8, <1>9, NobodySetting
  <2>2. \A w \in Plain : \A l \in callbacks'[w] : copy'[w][l] \in {None, val'[w]}
    BY <1>3, <1>4, <1>5, <2>1 DEF Vars
  <2>3. QED  BY <1>8, <1>9, <2>2, NobodySettingNext
<1>10. ASSUME OneSetter, LoggersInv PROVE LoggersInv'
  <2>1. val'["logs"] = val["logs"]  BY <1>4, <1>5
  <2>2. QED  BY <1>3, <1>8, <1>10, <2>1, NobodySetting, NobodySettingNext
<1>11. QED  BY <1>1, <1>6, <1>7, <1>9, <1>10, ImageStep, AgreeGoes DEF IInv, WorkInv

\* A process that has ended has no more to say.
LEMMA StopsStep ==
    ASSUME IInv, TypeOK', Stops
    PROVE  WorkInv'
<1>1. Goes /\ image' = image /\ ~Live' /\ UNCHANGED <<reg, val, callbacks, copy, loggers>>  BY DEF Stops, Kept
<1>2. Resting.at = "rest" /\ Resting.left = {} /\ Resting.loop = NoLoop /\ NoLoop.at = "next"  BY DEF Resting, NoLoop
<1>3. JobInv'  BY <1>2 DEF Stops, JobInv, Setting
<1>4. MemoryInv(Memory)'  BY <1>1, MemoryIs, MemoryIsNext DEF IInv
<1>5. QED  BY <1>1, <1>3, <1>4, ImageStep, AgreeGoes DEF IInv, WorkInv

\* The parent forks when nobody is in setValue.
LEMMA StartStep ==
    ASSUME IInv, TypeOK', StartDaemon
    PROVE  WorkInv'
<1>1. /\ proc = "ready" /\ image' = Memory /\ setup' = setup /\ Live
      /\ UNCHANGED <<reg, val, callbacks, copy, seen, loggers, th>>
  BY DEF StartDaemon, memory, Live
<1>2. JobInv'  BY <1>1 DEF IInv, JobInv, Setting
<1>3. MemoryInv(Memory)'  BY <1>1, MemoryIs, MemoryIsNext DEF IInv
<1>4. MemoryInv(image)'  BY <1>1 DEF IInv, MemoryInv
<1>5. \A u \in Threads : ~Setting(u) /\ th[u].loop.at = "next" /\ ~Setting(u)' /\ th'[u].loop.at = "next"
  BY <1>1, RestingJob DEF IInv, PhaseInv, JobInv, Setting
<1>6. ASSUME OneSetter PROVE MemoryAgrees(image)' /\ CopiesInv' /\ LoggersInv'
  <2>1. /\ \A v \in Plain : \A l \in callbacks[v] : copy[v][l] \in {None, val[v]}
        /\ \A n \in Names : LoggerIs(loggers[n], n, val["logs"])
    BY <1>1, <1>5, <1>6, NobodySetting DEF IInv, AgreeInv, Live
  <2>2. CopiesInv' /\ LoggersInv'  BY <1>1, <1>5, <2>1, NobodySettingNext
  <2>3. /\ image'.callbacks = callbacks /\ image'.copy = copy /\ image'.val = val /\ image'.loggers = loggers
    BY <1>1 DEF Memory
  <2>4. MemoryAgrees(image)'  BY <2>1, <2>3 DEF MemoryAgrees, LoggerIs
  <2>5. QED  BY <2>2, <2>4
<1>7. OneSetter' <=> OneSetter  BY <1>1 DEF OneSetter
<1>8. QED  BY <1>2, <1>3, <1>4, <1>6, <1>7 DEF WorkInv, AgreeInv

\* A child begins with the memory of its parent.
LEMMA ForkStep ==
    ASSUME IInv, TypeOK', Fork
    PROVE  WorkInv'
<1>1. /\ parent = "fork" /\ setup' = setup /\ th' = th /\ image' = image /\ reg' = image.reg /\ val' = image.val
      /\ callbacks' = image.callbacks /\ copy' = image.copy /\ loggers' = image.loggers
  BY DEF Fork
<1>2. \A u \in Threads : th[u].at = "rest"  BY <1>1 DEF IInv, PhaseInv
<1>3. JobInv'  BY <1>1, <1>2, RestingJob DEF IInv, JobInv, Setting
<1>4. MemoryInv(Memory)' /\ MemoryInv(image)'  BY <1>1, MemoryIsNext DEF IInv, MemoryInv
<1>5. \A u \in Threads : ~Setting(u)' /\ th'[u].loop.at = "next"
  BY <1>1, <1>2, RestingJob DEF IInv, JobInv, Setting
<1>6. ASSUME OneSetter PROVE MemoryAgrees(image)' /\ CopiesInv' /\ LoggersInv'
  <2>1. MemoryAgrees(image)  BY <1>6 DEF IInv, AgreeInv
  <2>2. MemoryAgrees(image)'  BY <1>1, <2>1 DEF MemoryAgrees, LoggerIs
  <2>3. QED  BY <1>1, <1>5, <2>1, <2>2, NobodySettingNext DEF MemoryAgrees
<1>7. OneSetter' <=> OneSetter  BY <1>1 DEF OneSetter
<1>8. QED  BY <1>3, <1>4, <1>6, <1>7 DEF WorkInv, AgreeInv

----------------------------------------------------------------------------
(***************************************************************************)
(* The theorems.                                                           *)
(***************************************************************************)
\* Static initialisation: the listeners were told the defaults.
LEMMA InitInv == DaemonInit => IInv
<1> SUFFICES ASSUME DaemonInit PROVE IInv  OBVIOUS
<1> USE DEF DaemonInit, Init
<1>1. /\ Resting \in Jobs /\ Resting.at = "rest" /\ Resting.left = {} /\ Resting.loop = NoLoop /\ NoLoop.at = "next"
      /\ th = [t \in Threads |-> Resting]
  BY RestingJob DEF Resting
<1>2. /\ reg \subseteq Vars /\ val \in [Vars -> AnyValue] /\ callbacks \in [Plain -> SUBSET Listeners]
      /\ copy \in [Plain -> [Listeners -> AnyValue]] /\ seen \in [Files -> Nat] /\ loggers \in [Names -> Loggers]
  <2>1. Default \in AnyValue /\ None \in AnyValue /\ [n \in Names |-> None] \in AnyValue
    BY ConfigAssumption DEF AnyValue, LogValues
  <2>2. QED  BY <2>1, LoggerTypes, ConfigAssumption DEF Vars, Plain
<1>3. file \in [Files -> [doc : [ok : BOOLEAN, root : Nodes], mtime : Nat, torn : BOOLEAN]]
  BY ConfigAssumption
<1>4. TypeOK
  <2>1. Memory \in Memories /\ image \in Memories /\ th \in [Threads -> Jobs]  BY <1>1, <1>2, MemoryTypes
  <2>2. clock \in 1..setup.seconds /\ edits \in 0..setup.edits /\ faults \in 0..MaxFaults
    BY ConfigAssumption, DaemonAssumption
  <2>3. QED  BY <1>3, <2>1, <2>2 DEF TypeOK
<1>5. PhaseInv  BY <1>1 DEF PhaseInv
<1>6. JobInv  BY <1>1 DEF JobInv, Setting
<1>7. MemoryInv(Memory)
  <2>1. [n \in Names |-> None] \in ValueOf("logs") /\ \A v \in Vars : v # "logs" => Default \in ValueOf(v)
    BY ConfigAssumption DEF ValueOf, LogValues
  <2>2. \A v \in Plain : callbacks[v] = IF v \in Early THEN {Static} ELSE {}  OBVIOUS
  <2>3. QED  BY <2>1, <2>2, MemoryIs
<1>8. MemoryInv(image)  BY <1>7
<1>9. /\ \A v \in Plain : \A l \in callbacks[v] : copy[v][l] \in {None, val[v]}
      /\ \A n \in Names : LoggerIs(loggers[n], n, val["logs"])
  BY <1>2, KindsOfVars DEF LoggerIs, Vars
<1>10. CopiesInv /\ LoggersInv  BY <1>1, <1>9, NobodySetting DEF Setting
<1>11. MemoryAgrees(image)  BY <1>9 DEF MemoryAgrees, Memory
<1>12. QED  BY <1>4, <1>5, <1>6, <1>7, <1>8, <1>10, <1>11 DEF IInv, AgreeInv

\* Every step of the process, its threads and its parent keeps the invariant.
LEMMA NextInv == IInv /\ [Next]_vars => IInv'
<1> SUFFICES ASSUME IInv, [Next]_vars PROVE IInv'  OBVIOUS
<1>1. TypeOK' /\ PhaseInv' /\ Kind  BY TypeStep, PhaseStep, KindOfStep DEF IInv
<1>2. WorkInv'
  BY <1>1, IdlesStep, LoadsStep, SetsStep, TellingStep, LoggingStep, AssignsStep, ListensStep, LooksStep,
     StopsStep, StartStep, ForkStep DEF Kind
<1>3. QED  BY <1>1, <1>2 DEF IInv, WorkInv

\* The strengthening holds of every process the parent forks, with any number
\* of threads that load and set.
THEOREM Invariance == Spec => []IInv
BY InitInv, NextInv, PTL DEF Spec

\* Types: a conversion (config.h:208) that throws changes nothing, so whatever
\* the files say the variables, the copies of the listeners, the loggers and the
\* records of the threads stay well formed, in the parent and in its children.
THEOREM TypeCorrect == Spec => []TypeOK
<1>1. IInv => TypeOK  BY DEF IInv
<1>2. QED  BY <1>1, Invariance, PTL

\* config.h calls the listeners of a variable before it assigns, and ready.h
\* rebuilds only the loggers that differ.  With one thread that sets variables
\* nobody is told a value the variable does not then get: whenever no setValue
\* is under way, every listener has the present value and every logger is as
\* "logs" has it, in the first process and in each child forked after a crash.
THEOREM ListenersStayAgreed == Spec => []ListenersAgree
<1>1. IInv => ListenersAgree
  <2> SUFFICES ASSUME IInv, OneSetter, AtRest, Live
               PROVE  /\ \A v \in Plain : \A l \in callbacks[v] : copy[v][l] \in {None, val[v]}
                      /\ \A n \in Names : LoggerIs(loggers[n], n, val["logs"])
    BY DEF ListenersAgree, LoggerIs, Live
  <2>1. \A u \in Threads : ~Setting(u) /\ th[u].loop.at = "next"
    BY RestingJob DEF IInv, JobInv, AtRest, Setting
  <2>2. QED  BY <2>1, NobodySetting DEF IInv, AgreeInv, Live
<1>2. QED  BY <1>1, Invariance, PTL
=============================================================================
