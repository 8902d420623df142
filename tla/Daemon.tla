------------------------------- MODULE Daemon -------------------------------
(***************************************************************************)
(* luwu/daemon.cpp and luwu/application.cpp: the program loads its         *)
(* configuration, and runs Application::main itself or in a child that it  *)
(* forks again whenever the child has crashed.  The configuration of the   *)
(* process at work is that of Config; a child starts with the memory its   *)
(* parent had when it forked, and its threads die with it.                 *)
(***************************************************************************)
EXTENDS Config

CONSTANT MaxFaults

ASSUME DaemonAssumption == MaxFaults \in Nat

VARIABLES
    parent,     \* where the parent is: init(), real_daemon, or gone
    image,      \* the memory of the parent
    faults,     \* what the system has refused so far
    orphaned    \* fork() has failed, or waitpid() has come back without a child

daemonVars == <<parent, image, faults, orphaned>>
vars == <<configVars, daemonVars>>

Memory == [reg |-> reg, val |-> val, callbacks |-> callbacks, copy |-> copy, seen |-> seen, loggers |-> loggers]

\* The values of a variable: those of "logs" give loggers a level and appenders.
LogValues == [Names -> Loggers \cup {None}]
AnyValue  == Numbers \cup LogValues \cup {None}

Memories ==
    [reg : SUBSET Vars, val : [Vars -> AnyValue], callbacks : [Plain -> SUBSET Listeners],
     copy : [Plain -> [Listeners -> AnyValue]], seen : [Files -> Nat], loggers : [Names -> Loggers]]

Entries == [key : Seq(STRING), node : Nodes, element : BOOLEAN]
Jobs    ==
    [at : {"rest", "file", "record", "open", "node", "calling", "assign"}, back : {"rest", "node"},
     force : BOOLEAN, todo : SUBSET Files, of : Files \cup {None}, mtime : Nat, nodes : Seq(Entries),
     var : Vars \cup {None}, new : AnyValue, left : SUBSET (Listeners \cup Names),
     loop : [at : {"next", "clear", "add"}, of : Names \cup {None}, rest : Seq(Kinds)], dirty : BOOLEAN]

TypeOK ==
    /\ setup \in Setups
    /\ proc \in {"init", "ready", "start", "main", "loaded", "bind", "serving", "finished", "crashed"}
    /\ parent \in {"init", "fork", "wait", "sleep", "main", "gone"}
    /\ file \in [Files -> [doc : [ok : BOOLEAN, root : Nodes], mtime : Nat, torn : BOOLEAN]]
    /\ Memory \in Memories /\ image \in Memories /\ th \in [Threads -> Jobs]
    /\ clock \in 1..setup.seconds /\ edits \in 0..setup.edits /\ faults \in 0..MaxFaults
    /\ {fresh, orphaned} \subseteq BOOLEAN

DaemonInit ==
    /\ Init
    /\ parent = "init" /\ image = Memory /\ faults = 0 /\ orphaned = FALSE

Fault == faults < MaxFaults /\ faults' = faults + 1

\* The process ends, and its threads with it.
Ends(how) ==
    /\ proc' = how
    /\ th' = [t \in Threads |-> Resting] /\ walk' = [w \in Workers |-> None]
    /\ UNCHANGED <<setup, dirVars, memory, loads, calls, fresh>>

----------------------------------------------------------------------------
(***************************************************************************)
(* Application::init, in the parent.                                       *)
(***************************************************************************)
InitLoad ==
    /\ proc = "init" /\ th["main"].at = "rest" /\ loads = 0
    /\ LoadBegin("main", FALSE)
    /\ UNCHANGED daemonVars

InitLoaded ==
    /\ proc = "init" /\ LoadEnd("main") /\ proc' = "ready"
    /\ UNCHANGED <<setup, dirVars, memory, walk, loads, calls, daemonVars>>

\* Help was asked for, no way to run was given, the pid file names a process
\* that runs, or the work path cannot be made.
InitRefuses ==
    /\ proc = "ready" /\ parent = "init"
    /\ Ends("finished") /\ parent' = "gone" /\ Fault
    /\ UNCHANGED <<image, orphaned>>

\* start_daemon.
StartDaemon ==
    /\ proc = "ready" /\ parent = "init"
    /\ image' = Memory
    /\ IF setup.supervised
         THEN parent' = "fork" /\ UNCHANGED proc
         ELSE parent' = "main" /\ proc' = "start"
    /\ loads' = 0
    /\ UNCHANGED <<setup, dirVars, memory, th, walk, calls, fresh, faults, orphaned>>

----------------------------------------------------------------------------
(***************************************************************************)
(* real_daemon.                                                            *)
(***************************************************************************)
Fork ==
    /\ parent = "fork" /\ parent' = "wait"
    /\ proc' = "start"
    /\ reg' = image.reg /\ val' = image.val /\ callbacks' = image.callbacks /\ copy' = image.copy
    /\ seen' = image.seen /\ loggers' = image.loggers
    /\ loads' = 0 /\ calls' = 0 /\ fresh' = FALSE
    /\ UNCHANGED <<setup, dirVars, th, walk, image, faults, orphaned>>

ForkFails ==
    /\ parent = "fork" /\ parent' = "gone" /\ orphaned' = TRUE /\ Fault
    /\ UNCHANGED <<configVars, image>>

\* Mutant of Wait: the statuses are mixed up.
WaitSwapped ==
    /\ parent = "wait"
    /\ \/ proc = "finished" /\ parent' = "sleep"
       \/ proc = "crashed" /\ parent' = "gone"
    /\ UNCHANGED <<configVars, image, faults, orphaned>>

\* waitpid: a status that is not 0 is a crash, and the child is started again.
Wait ==
    /\ parent = "wait"
    /\ \/ proc = "crashed" /\ parent' = "sleep"
       \/ proc = "finished" /\ parent' = "gone"
    /\ UNCHANGED <<configVars, image, faults, orphaned>>

\* waitpid fails, interrupted by a signal: status is still 0.
WaitFails ==
    /\ parent = "wait" /\ proc \notin {"crashed", "finished"}
    /\ parent' = "gone" /\ orphaned' = TRUE /\ Fault
    /\ UNCHANGED <<configVars, image>>

\* sleep(g_daemon_restart_interval->getValue()).
Slept ==
    /\ parent = "sleep" /\ parent' = "fork"
    /\ UNCHANGED <<configVars, image, faults, orphaned>>

----------------------------------------------------------------------------
(***************************************************************************)
(* Application::main.                                                      *)
(***************************************************************************)
MainLoad ==
    /\ proc = "start" /\ proc' = "main"
    /\ th' = [th EXCEPT !["main"] = [Resting EXCEPT !.at = "file", !.force = TRUE, !.todo = Files]]
    /\ UNCHANGED <<setup, dirVars, memory, walk, loads, calls, fresh, daemonVars>>

MainLoaded ==
    /\ proc = "main" /\ LoadEnd("main") /\ proc' = "loaded"
    /\ UNCHANGED <<setup, dirVars, memory, walk, loads, calls, daemonVars>>

\* The pid file; when it cannot be opened main() returns false, which is 0.
WritePid ==
    /\ proc = "loaded"
    /\ \/ proc' = "bind" /\ UNCHANGED <<setup, dirVars, memory, th, walk, loads, calls, fresh, faults>>
       \/ Ends("finished") /\ Fault
    /\ UNCHANGED <<parent, image, orphaned>>

\* run_fiber: an address or a type that is none, and a bind that fails, end in
\* _exit(0).
RunFiber ==
    /\ proc = "bind"
    /\ \/ proc' = "serving" /\ UNCHANGED <<setup, dirVars, memory, th, walk, loads, calls, fresh, faults>>
       \/ Ends("finished") /\ Fault
    /\ UNCHANGED <<parent, image, orphaned>>

\* The process dies: of a null appender, of a walk through freed memory, or of
\* a signal.
Dies ==
    /\ Ends("crashed")
    /\ parent' = IF parent \in {"init", "main"} THEN "gone" ELSE parent
    /\ UNCHANGED <<image, orphaned>>

NullCrash == (\E t \in Threads : Poisoned(t)) /\ Dies /\ UNCHANGED faults
WalkCrash == (\E w \in Workers : WalksFreed(w)) /\ Dies /\ UNCHANGED faults
Killed    == proc \notin {"init", "ready", "finished", "crashed"} /\ Dies /\ Fault

----------------------------------------------------------------------------
MainStep  == InitLoad \/ InitLoaded \/ StartDaemon \/ MainLoad \/ MainLoaded \/ WritePid \/ RunFiber
ParentStep == Fork \/ Wait \/ Slept

Next ==
    \/ ConfigStep /\ UNCHANGED daemonVars
    \/ MainStep \/ ParentStep
    \/ InitRefuses \/ ForkFails \/ WaitFails \/ NullCrash \/ WalkCrash \/ Killed

Spec == DaemonInit /\ [][Next]_vars

\* Processes and threads are run by the system; a process that is poisoned
\* has no other step.
Fairness ==
    /\ WF_vars(MainStep) /\ WF_vars(ParentStep)
    /\ \A t \in Threads : WF_vars(LoadStep(t) /\ UNCHANGED daemonVars)
    /\ WF_vars(NullCrash)

FairSpec == Spec /\ Fairness

----------------------------------------------------------------------------
(***************************************************************************)
(* Properties.                                                             *)
(***************************************************************************)
AtRest == \A t \in Threads : th[t].at \notin {"calling", "assign"}
OneSetter == \A t, u \in setup.loaders \cup setup.setters : t = u

\* config.h calls the listeners before it assigns, with the old value for them
\* to find out what has changed, and ready.h changes only the loggers that are
\* different.  When one thread at a time sets variables, then whenever no
\* setValue is under way every listener that was told something was told the
\* present value, and every logger is as the present value of "logs" has it,
\* or silent when it was there once, through crashes and restarts as well.
ListenersAgree ==
    OneSetter /\ AtRest /\ proc \notin {"crashed", "finished"} =>
        /\ \A v \in Plain : \A l \in callbacks[v] : copy[v][l] \in {None, val[v]}
        /\ \A n \in Names :
              loggers[n] \in IF val["logs"][n] # None THEN {val["logs"][n]} ELSE {Silenced, Initial(n)}
=============================================================================
