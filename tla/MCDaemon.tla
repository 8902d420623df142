------------------------------ MODULE MCDaemon ------------------------------
(***************************************************************************)
(* Model-checking instances of Daemon: a supervised process with one       *)
(* thread that loads and one that logs; two with a thread that loads files *)
(* that are right, broken or garbled; one with a thread that sets          *)
(* variables and changes listeners; one with two threads that load files a *)
(* hurried editor changes, not supervised; and one with poison.            *)
(***************************************************************************)
EXTENDS Daemon, SequencesExt

CONSTANTS f1, f2, l1, l2, s1, w1, n0, n1, n2

Scalar(x)  == [kind |-> "scalar", text |-> x, kids |-> <<>>]
Entry(n, node) == [name |-> n, node |-> node]
Map(kids)  == [kind |-> "map", text |-> None, kids |-> kids]
Logger(n, level, appenders) == [name |-> n, level |-> level, appenders |-> appenders]
Logs(defs) == [kind |-> "seq", text |-> defs,
               kids |-> [i \in DOMAIN defs |-> Map(<<Entry("name", Scalar(None))>>)]]
Doc(kids)  == [ok |-> TRUE, root |-> Map(kids)]

Broken  == [ok |-> FALSE, root |-> Map(<<>>)]
One     == Doc(<<Entry("TIMEOUT", Scalar(n2)), Entry("timeout", Scalar(n1))>>)
Two     == Doc(<<Entry("late", Scalar(n2)), Entry("timeout", Scalar(n2))>>)
Garbled == Doc(<<Entry("logs", Map(<<Entry("name", Scalar(n1))>>)), Entry("timeout", Scalar(n1))>>)

RootToFile == Doc(<<Entry("logs", Logs(<<Logger("root", 1, <<"file">>)>>))>>)
NewLogger  == Doc(<<Entry("timeout", Scalar(None)), Entry("logs", Logs(<<Logger("system", 2, <<"untyped", "stdout">>)>>))>>)
Nameless   == Doc(<<Entry("logs", Logs(<<Logger("root", 1, <<"stdout">>), Logger(None, 1, <<>>)>>))>>)
Unfiled    == Doc(<<Entry("logs", Logs(<<Logger("system", 1, <<"unfiled">>)>>))>>)
Venom      == Doc(<<Entry("logs", Logs(<<Logger("system", 1, <<"other">>)>>))>>)

Docs(a, b) == (f1 :> a) @@ (f2 :> b)

\* The nodes of all documents.
RECURSIVE Tree(_)
Tree(node) ==
    {node} \cup UNION {Tree(IF node.kind = "map" THEN node.kids[i].node ELSE node.kids[i]) : i \in DOMAIN node.kids}

AllNodes ==
    UNION {Tree(doc.root) : doc \in {Broken, One, Two, Garbled, RootToFile, NewLogger, Nameless, Unfiled, Venom}}

Instances ==
    {[loaders |-> {l1}, setters |-> {}, workers |-> {w1}, calm |-> TRUE, supervised |-> TRUE, edits |-> 1, seconds |-> 2,
      docs |-> Docs({One}, {RootToFile, NewLogger})],
     [loaders |-> {l1}, setters |-> {}, workers |-> {}, calm |-> TRUE, supervised |-> TRUE, edits |-> 2, seconds |-> 3,
      docs |-> Docs({Broken, One}, {RootToFile, NewLogger})],
     [loaders |-> {l1}, setters |-> {}, workers |-> {}, calm |-> TRUE, supervised |-> TRUE, edits |-> 1, seconds |-> 2,
      docs |-> Docs({Two, Garbled}, {NewLogger, Nameless, Unfiled})],
     [loaders |-> {}, setters |-> {s1}, workers |-> {}, calm |-> FALSE, supervised |-> TRUE, edits |-> 1, seconds |-> 2,
      docs |-> Docs({Two}, {RootToFile})],
     [loaders |-> {l1, l2}, setters |-> {}, workers |-> {}, calm |-> FALSE, supervised |-> FALSE, edits |-> 1, seconds |-> 1,
      docs |-> Docs({One}, {RootToFile, NewLogger})],
     [loaders |-> {l1}, setters |-> {}, workers |-> {}, calm |-> TRUE, supervised |-> TRUE, edits |-> 1, seconds |-> 2,
      docs |-> Docs({One}, {RootToFile, Venom})]}

----------------------------------------------------------------------------
\* listAllMember of config.cpp: every node with its key, by recursion.
ListAllMember(root) ==
    LET RECURSIVE List(_, _)
        Kids(prefix, node) ==
            FlattenSeq([i \in DOMAIN node.kids |-> List(Append(prefix, node.kids[i].name), node.kids[i].node)])
        List(prefix, node) ==
            IF \E i \in DOMAIN prefix : prefix[i] \notin Letters
              THEN <<>>
              ELSE <<[key |-> prefix, node |-> node]>> \o
                   CASE node.kind = "map" -> Kids(prefix, node)
                     [] node.kind = "seq" ->
                          FlattenSeq([i \in DOMAIN node.kids |->
                              IF node.kids[i].kind = "map" THEN Kids(prefix, node.kids[i]) ELSE <<>>])
                     [] OTHER -> <<>>
    IN  List(<<>>, root)

\* LoadFromConfDir passes over files whose time of modification it has seen.
\* When files are replaced at most once a second, one thread loads and nobody
\* sets variables otherwise, then after a load that began after the last
\* change every variable has the value the files give it, also when another
\* file, another key or an earlier load has failed.
LoadIsCurrent ==
    setup.calm /\ OneSetter /\ setup.setters = {} /\ fresh /\ proc \notin {"crashed", "finished"} =>
        \A f \in Files : file[f].doc.ok =>
            \A m \in Range(ListAllMember(file[f].doc.root)) :
                \A v \in reg : m.key = <<v>> /\ FromStr(v, m.node) # {} => val[v] \in FromStr(v, m.node)

\* The files hold an appender of an unknown type, which kills every process
\* that loads them.
Poison ==
    \E f \in Files : file[f].doc.ok /\
        \E m \in Range(ListAllMember(file[f].doc.root)) :
            m.key = <<"logs">> /\ \E x \in FromStr("logs", m.node) : \E n \in Names : x[n] # None /\ Contains(x[n].appenders, "other")

\* daemon.cpp starts a child that crashed again: after a crash the application
\* serves again, unless fork() or waitpid() failed, the child found that it
\* cannot serve and finished, or the files are poison.
CrashHeals ==
    (proc = "crashed" /\ parent = "wait") ~> (proc \in {"serving", "finished"} \/ orphaned \/ Poison)
=============================================================================
