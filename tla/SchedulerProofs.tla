--------------------------- MODULE SchedulerProofs ---------------------------
(***************************************************************************)
(* Theorems about Scheduler for any number of threads, fibers and yields.  *)
(* TypeOK alone is not inductive: that active - 1 stays a natural number   *)
(* needs the exact count, and that the task in hand is a fiber needs       *)
(* HandInv, so the parts are proved together as IInv.                      *)
(***************************************************************************)
EXTENDS Scheduler, FiniteSetTheorems, SequenceTheorems, TLAPS

----------------------------------------------------------------------------
(***************************************************************************)
(* The inductive invariant.                                                *)
(***************************************************************************)
\* A thread that holds a task holds a fiber.
HandInv == \A t \in Threads : pc[t] \in BusyPoints => cur[t] \in Fibers

\* m_stopping is set exactly while or after stop() runs; the owner's thread
\* has not entered run() before; a thread that left run() had its idle fiber
\* end; stop() returns after every thread has left.
PhaseInv ==
    /\ stopping <=> mpc \in {"root", "join", "stopped"}
    /\ mpc = "built" => \A t \in Threads : pc[t] = "new"
    /\ \A t \in Threads : pc[t] = "new" => ~idleTerm[t]
    /\ \A t \in Threads : pc[t] = "exit" => idleTerm[t]
    /\ mpc = "started" /\ UseCaller => pc[Caller] = "new"
    /\ mpc \in {"join", "stopped"} /\ UseCaller => pc[Caller] = "exit"
    /\ mpc = "stopped" => \A t \in Threads : pc[t] = "exit"

\* While no fault has happened, a fiber's stack is used by the one thread that
\* runs the fiber, and the fiber is RUNNING until that thread changes it.
StackInv ==
    fault = "none" =>
        /\ \A f \in Fibers : \A t, u \in stack[f] : t = u
        /\ \A t \in Threads :
              pc[t] \in {"running", "resubmitted", "switch"} => t \in stack[cur[t]]
        /\ \A t \in Threads :
              pc[t] \in {"running", "resubmitted"} => fstate[cur[t]] = "RUNNING"

IInv ==
    /\ TypeOK
    /\ CountersExact
    /\ HandInv
    /\ PhaseInv
    /\ StackInv
    /\ NoEarlyExit
    /\ NoLostTask

----------------------------------------------------------------------------
(***************************************************************************)
(* Lemmas about the queue and the counters.                                *)
(***************************************************************************)
\* Erasing position i of a list (m_fibers.erase) keeps the others, in order.
LEMMA RemoveAtProperties ==
    ASSUME NEW S, NEW q \in Seq(S), NEW i \in 1..Len(q)
    PROVE  /\ RemoveAt(q, i) \in Seq(S)
           /\ Len(RemoveAt(q, i)) = Len(q) - 1
           /\ \A j \in 1..(Len(q) - 1) :
                 RemoveAt(q, i)[j] = IF j < i THEN q[j] ELSE q[j + 1]
<1> DEFINE a == SubSeq(q, 1, i - 1)
           b == SubSeq(q, i + 1, Len(q))
<1>0. Len(q) \in Nat /\ i \in Nat /\ \A j \in 1..Len(q) : q[j] \in S
  BY ElementOfSeq, LenProperties
<1>1. /\ a \in Seq(S) /\ Len(a) = i - 1
      /\ \A j \in 1..(i - 1) : a[j] = q[j]
  <2>1. \A j \in 1..(i - 1) : q[j] \in S  BY <1>0
  <2>2. i - 1 \in Int /\ 1 \in Int  BY <1>0
  <2>3. /\ a \in Seq(S)
        /\ Len(a) = IF 1 <= i - 1 THEN (i - 1) - 1 + 1 ELSE 0
        /\ \A j \in 1..((i - 1) - 1 + 1) : a[j] = q[1 + j - 1]
    BY <2>1, <2>2, SubSeqProperties
  <2>4. QED  BY <2>3, <1>0
<1>2. /\ b \in Seq(S) /\ Len(b) = Len(q) - i
      /\ \A j \in 1..(Len(q) - i) : b[j] = q[i + j]
  <2>1. \A j \in (i + 1)..Len(q) : q[j] \in S  BY <1>0
  <2>2. i + 1 \in Int /\ Len(q) \in Int  BY <1>0
  <2>3. /\ b \in Seq(S)
        /\ Len(b) = IF i + 1 <= Len(q) THEN Len(q) - (i + 1) + 1 ELSE 0
        /\ \A j \in 1..(Len(q) - (i + 1) + 1) : b[j] = q[(i + 1) + j - 1]
    BY <2>1, <2>2, SubSeqProperties
  <2>4. QED  BY <2>3, <1>0
<1>3. /\ a \o b \in Seq(S)
      /\ Len(a \o b) = Len(a) + Len(b)
      /\ \A j \in 1..(Len(a) + Len(b)) :
            (a \o b)[j] = IF j <= Len(a) THEN a[j] ELSE b[j - Len(a)]
  BY <1>1, <1>2, ConcatProperties
<1>4. RemoveAt(q, i) = a \o b  BY DEF RemoveAt
<1> HIDE DEF a, b
<1>5. Len(a) + Len(b) = Len(q) - 1  BY <1>0, <1>1, <1>2
<1>6. ASSUME NEW j \in 1..(Len(q) - 1)
      PROVE  (a \o b)[j] = IF j < i THEN q[j] ELSE q[j + 1]
  <2>1. CASE j < i  BY <2>1, <1>0, <1>1, <1>3, <1>5
  <2>2. CASE ~(j < i)
    <3>1. /\ j - (i - 1) \in 1..(Len(q) - i)
          /\ i + (j - (i - 1)) = j + 1
      BY <2>2, <1>0
    <3>2. b[j - (i - 1)] = q[j + 1]  BY <3>1, <1>2
    <3>3. QED  BY <2>2, <3>2, <1>0, <1>1, <1>3, <1>5
  <2>3. QED  BY <2>1, <2>2
<1>7. QED  BY <1>3, <1>4, <1>5, <1>6

\* What the erased list and the appended list contain.
LEMMA RemoveAtElements ==
    ASSUME NEW S, NEW q \in Seq(S), NEW i \in 1..Len(q)
    PROVE  /\ \A j \in 1..Len(RemoveAt(q, i)) :
                 \E k \in 1..Len(q) : k # i /\ RemoveAt(q, i)[j] = q[k]
           /\ \A k \in 1..Len(q) : k # i =>
                 \E j \in 1..Len(RemoveAt(q, i)) : RemoveAt(q, i)[j] = q[k]
<1> DEFINE r == RemoveAt(q, i)
<1>0. Len(q) \in Nat  BY LenProperties
<1>1. /\ Len(r) = Len(q) - 1
      /\ \A j \in 1..(Len(q) - 1) : r[j] = IF j < i THEN q[j] ELSE q[j + 1]
  BY RemoveAtProperties
<1> HIDE DEF r
<1>2. ASSUME NEW j \in 1..Len(r)
      PROVE  \E k \in 1..Len(q) : k # i /\ r[j] = q[k]
  <2>1. CASE j < i  BY <2>1, <1>0, <1>1
  <2>2. CASE ~(j < i)
    <3>1. j + 1 \in 1..Len(q) /\ j + 1 # i /\ r[j] = q[j + 1]
      BY <2>2, <1>0, <1>1
    <3>2. QED  BY <3>1
  <2>3. QED  BY <2>1, <2>2
<1>3. ASSUME NEW k \in 1..Len(q), k # i
      PROVE  \E j \in 1..Len(r) : r[j] = q[k]
  <2>1. CASE k < i
    <3>1. k \in 1..Len(r) /\ r[k] = q[k]  BY <2>1, <1>0, <1>1
    <3>2. QED  BY <3>1
  <2>2. CASE ~(k < i)
    <3>1. k - 1 \in 1..Len(r) /\ r[k - 1] = q[k]  BY <2>2, <1>0, <1>1, <1>3
    <3>2. QED  BY <3>1
  <2>3. QED  BY <2>1, <2>2
<1>4. QED  BY <1>2, <1>3 DEF r

\* The threads, and those that are busy or idling, are finitely many.
LEMMA FiniteThreads ==
    /\ IsFiniteSet(Threads)
    /\ IsFiniteSet(Busy)
    /\ IsFiniteSet(Idling)
<1>1. IsFiniteSet(Workers) /\ UseCaller \in BOOLEAN  BY SchedulerAssumption
<1>2. IsFiniteSet(IF UseCaller THEN {Caller} ELSE {})
  <2>1. CASE UseCaller  BY <2>1, FS_Singleton
  <2>2. CASE ~UseCaller  BY <2>2, FS_EmptySet
  <2>3. QED  BY <2>1, <2>2
<1>3. IsFiniteSet(Threads)  BY <1>1, <1>2, FS_Union DEF Threads
<1>4. Busy \in SUBSET Threads /\ Idling \in SUBSET Threads  BY DEF Busy, Idling
<1>5. QED  BY <1>3, <1>4, FS_Subset

\* A step that moves only thread t changes the sets of busy and of idling
\* threads by at most t.
LEMMA MovedCount ==
    ASSUME NEW t \in Threads, \A u \in Threads : u # t => pc'[u] = pc[u]
    PROVE  /\ Cardinality(Busy) \in Nat /\ Cardinality(Idling) \in Nat
           /\ pc'[t] \in BusyPoints /\ pc[t] \notin BusyPoints =>
                 Cardinality(Busy') = Cardinality(Busy) + 1
           /\ pc'[t] \notin BusyPoints /\ pc[t] \in BusyPoints =>
                 Cardinality(Busy') = Cardinality(Busy) - 1
           /\ (pc'[t] \in BusyPoints <=> pc[t] \in BusyPoints) =>
                 Cardinality(Busy') = Cardinality(Busy)
           /\ pc'[t] \in IdlePoints /\ pc[t] \notin IdlePoints =>
                 Cardinality(Idling') = Cardinality(Idling) + 1
           /\ pc'[t] \notin IdlePoints /\ pc[t] \in IdlePoints =>
                 Cardinality(Idling') = Cardinality(Idling) - 1
           /\ (pc'[t] \in IdlePoints <=> pc[t] \in IdlePoints) =>
                 Cardinality(Idling') = Cardinality(Idling)
<1>1. /\ pc'[t] \in BusyPoints => Busy' = Busy \cup {t}
      /\ pc'[t] \notin BusyPoints => Busy' = Busy \ {t}
      /\ pc'[t] \in IdlePoints => Idling' = Idling \cup {t}
      /\ pc'[t] \notin IdlePoints => Idling' = Idling \ {t}
  BY DEF Busy, Idling
<1>2. /\ t \in Busy <=> pc[t] \in BusyPoints
      /\ t \in Idling <=> pc[t] \in IdlePoints
  BY DEF Busy, Idling
<1>3. /\ Cardinality(Busy \cup {t}) =
            IF t \in Busy THEN Cardinality(Busy) ELSE Cardinality(Busy) + 1
      /\ Cardinality(Busy \ {t}) =
            IF t \in Busy THEN Cardinality(Busy) - 1 ELSE Cardinality(Busy)
  BY FiniteThreads, FS_AddElement, FS_RemoveElement
<1>4. /\ Cardinality(Idling \cup {t}) =
            IF t \in Idling THEN Cardinality(Idling) ELSE Cardinality(Idling) + 1
      /\ Cardinality(Idling \ {t}) =
            IF t \in Idling THEN Cardinality(Idling) - 1 ELSE Cardinality(Idling)
  BY FiniteThreads, FS_AddElement, FS_RemoveElement
<1>5. Cardinality(Busy) \in Nat /\ Cardinality(Idling) \in Nat
  BY FiniteThreads, FS_CardinalityType
<1>6. QED  BY <1>1, <1>2, <1>3, <1>4, <1>5

\* A thread that holds a task, or is idling, makes the counter positive.
LEMMA PositiveCount ==
    ASSUME CountersExact, NEW t \in Threads
    PROVE  /\ pc[t] \in BusyPoints => active \in Nat \ {0}
           /\ pc[t] \in IdlePoints => idle \in Nat \ {0}
<1>1. /\ pc[t] \in BusyPoints => Busy # {}
      /\ pc[t] \in IdlePoints => Idling # {}
  BY DEF Busy, Idling
<1>2. Cardinality(Busy) \in Nat /\ Cardinality(Idling) \in Nat
  BY FiniteThreads, FS_CardinalityType
<1>3. QED  BY <1>1, <1>2, FiniteThreads, FS_EmptySet DEF CountersExact

----------------------------------------------------------------------------
(***************************************************************************)
(* Every step keeps the invariant.                                         *)
(***************************************************************************)
\* Appending a task keeps the queue's positions and adds the task at the end.
LEMMA AppendedQueue ==
    ASSUME TypeOK, NEW f \in Fibers, NEW target \in Threads \cup {AnyThread},
           Schedule(f, target)
    PROVE  /\ Len(queue) \in Nat /\ Len(queue') = Len(queue) + 1
           /\ \A i \in 1..Len(queue) : i \in 1..Len(queue') /\ queue'[i] = queue[i]
           /\ queue'[Len(queue) + 1] = [fiber |-> f, thread |-> target]
           /\ queue'[Len(queue) + 1].fiber = f
           /\ \E i \in 1..Len(queue') : queue'[i].fiber = f
<1>1. [fiber |-> f, thread |-> target] \in Task /\ queue \in Seq(Task)  BY DEF Task, TypeOK
<1>2. Len(queue) \in Nat  BY <1>1, LenProperties
<1>3. QED  BY <1>1, <1>2, AppendProperties DEF Schedule

\* Every step keeps the types.
LEMMA TypeStep ==
    ASSUME IInv, [Next]_vars
    PROVE  TypeOK'
<1> USE DEF IInv, TypeOK, HandInv, BusyPoints, IdlePoints,
           mainVars, threadVars, fiberVars
<1>1. CASE UNCHANGED vars
  BY <1>1 DEF vars
<1>2. ASSUME NEW f \in Fibers, NEW target \in Threads \cup {AnyThread}, fault = "none", OwnerSubmit(f, target)
      PROVE  TypeOK'
  <2>1. [fiber |-> f, thread |-> target] \in Task  BY DEF Task
  <2>2. queue' \in Seq(Task)  BY <1>2, <2>1, AppendProperties DEF OwnerSubmit, SubmitNew, Schedule
  <2>3. QED  BY <1>2, <2>2 DEF OwnerSubmit, SubmitNew
<1>3. ASSUME NEW f \in Fibers, NEW target \in Threads \cup {AnyThread}, NEW t \in Threads, fault = "none", FiberSubmit(t, f, target)
      PROVE  TypeOK'
  <2>1. [fiber |-> f, thread |-> target] \in Task  BY DEF Task
  <2>2. queue' \in Seq(Task)  BY <1>3, <2>1, AppendProperties DEF FiberSubmit, SubmitNew, Schedule
  <2>3. QED  BY <1>3, <2>2 DEF FiberSubmit, SubmitNew
<1>4. ASSUME fault = "none", Start
      PROVE  TypeOK'
  BY <1>4 DEF Start
<1>5. ASSUME fault = "none", StopBegin
      PROVE  TypeOK'
  BY <1>5 DEF StopBegin
<1>6. ASSUME fault = "none", StopRootDone
      PROVE  TypeOK'
  BY <1>6 DEF StopRootDone
<1>7. ASSUME fault = "none", StopJoined
      PROVE  TypeOK'
  BY <1>7 DEF StopJoined
<1>8. ASSUME NEW t \in Threads, fault = "none", TakeTask(t)
      PROVE  TypeOK'
  <2>1. PICK i \in Runnable(t) : /\ cur' = [cur EXCEPT ![t] = queue[i].fiber]
                                 /\ queue' = RemoveAt(queue, i)
    BY <1>8 DEF TakeTask
  <2>2. i \in 1..Len(queue) /\ queue[i] \in Task  BY <2>1, ElementOfSeq DEF Runnable
  <2>3. queue' \in Seq(Task)  BY <2>1, <2>2, RemoveAtProperties
  <2>4. queue[i].fiber \in Fibers  BY <2>2 DEF Task
  <2>5. QED  BY <1>8, <2>1, <2>3, <2>4 DEF TakeTask
<1>9. ASSUME NEW t \in Threads, fault = "none", FindNoTask(t)
      PROVE  TypeOK'
  BY <1>9 DEF FindNoTask
<1>10. ASSUME NEW t \in Threads, fault = "none", LeaveRun(t)
      PROVE  TypeOK'
  BY <1>10 DEF LeaveRun
<1>11. ASSUME NEW t \in Threads, fault = "none", EnterIdle(t)
      PROVE  TypeOK'
  BY <1>11 DEF EnterIdle
<1>12. ASSUME NEW t \in Threads, fault = "none", IdleCheck(t)
      PROVE  TypeOK'
  <2>1. CanStop \in BOOLEAN  BY DEF CanStop
  <2>2. QED  BY <1>12, <2>1 DEF IdleCheck
<1>13. ASSUME NEW t \in Threads, fault = "none", LeaveIdle(t)
      PROVE  TypeOK'
  BY <1>13, PositiveCount DEF LeaveIdle
<1>14. ASSUME NEW t \in Threads, fault = "none", Resume(t)
      PROVE  TypeOK'
  BY <1>14 DEF Resume
<1>15. ASSUME NEW t \in Threads, fault = "none", ResumeAbort(t)
      PROVE  TypeOK'
  BY <1>15 DEF ResumeAbort
<1>16. ASSUME NEW t \in Threads, fault = "none", FiberYield(t)
      PROVE  TypeOK'
  BY <1>16 DEF FiberYield
<1>17. ASSUME NEW t \in Threads, fault = "none", FiberReturn(t)
      PROVE  TypeOK'
  BY <1>17 DEF FiberReturn
<1>18. ASSUME NEW t \in Threads, fault = "none", Switch(t)
      PROVE  TypeOK'
  BY <1>18 DEF Switch
<1>19. ASSUME NEW t \in Threads, fault = "none", Release(t)
      PROVE  TypeOK'
  BY <1>19, PositiveCount DEF Release
<1>20. ASSUME NEW t \in Threads, NEW target \in {t, AnyThread}, fault = "none", FiberResubmit(t, target)
      PROVE  TypeOK'
  <2>1. cur[t] \in Fibers  BY <1>20 DEF FiberResubmit
  <2>2. [fiber |-> cur[t], thread |-> target] \in Task
    BY <2>1 DEF Task
  <2>3. queue' \in Seq(Task)  BY <1>20, <2>2, AppendProperties DEF FiberResubmit, Schedule
  <2>4. yields[cur[t]] + 1 \in 0..MaxYields
    BY <1>20, <2>1, SchedulerAssumption DEF FiberResubmit
  <2>5. QED  BY <1>20, <2>1, <2>3, <2>4 DEF FiberResubmit
<1>21. QED
  BY <1>1, <1>2, <1>3, <1>4, <1>5, <1>6, <1>7, <1>8, <1>9, <1>10,
     <1>11, <1>12, <1>13, <1>14, <1>15, <1>16, <1>17, <1>18, <1>19, <1>20
     DEF Next, SubmitStep, StopStep, RunStep, Finished

\* Every step keeps the two counters exact.
LEMMA CountersStep ==
    ASSUME IInv, [Next]_vars
    PROVE  CountersExact'
<1> USE DEF IInv, TypeOK, CountersExact, BusyPoints, IdlePoints,
           mainVars, threadVars, fiberVars
<1>1. CASE UNCHANGED vars
  BY <1>1 DEF vars, Busy, Idling
<1>2. ASSUME NEW f \in Fibers, NEW target \in Threads \cup {AnyThread}, fault = "none", OwnerSubmit(f, target)
      PROVE  CountersExact'
  BY <1>2 DEF OwnerSubmit, Busy, Idling
<1>3. ASSUME NEW f \in Fibers, NEW target \in Threads \cup {AnyThread}, NEW t \in Threads, fault = "none", FiberSubmit(t, f, target)
      PROVE  CountersExact'
  BY <1>3 DEF FiberSubmit, Busy, Idling
<1>4. ASSUME fault = "none", Start
      PROVE  CountersExact'
  <2>1. /\ \A t \in Threads : pc[t] = "new"
        /\ \A t \in Threads : pc'[t] \in {"new", "take"}
    BY <1>4 DEF Start, PhaseInv
  <2>2. Busy' = Busy /\ Idling' = Idling  BY <2>1 DEF Busy, Idling
  <2>3. QED  BY <1>4, <2>2 DEF Start
<1>5. ASSUME fault = "none", StopBegin
      PROVE  CountersExact'
  <2>1. CASE UseCaller
    <3>1. Caller \in Threads /\ pc[Caller] = "new" /\ pc' = [pc EXCEPT ![Caller] = "take"]
      BY <1>5, <2>1 DEF StopBegin, Threads, PhaseInv
    <3>2. pc'[Caller] = "take" /\ \A u \in Threads : u # Caller => pc'[u] = pc[u]
      BY <3>1
    <3>3. QED  BY <1>5, <3>1, <3>2, MovedCount DEF StopBegin
  <2>2. CASE ~UseCaller  BY <1>5, <2>2 DEF StopBegin, Busy, Idling
  <2>3. QED  BY <2>1, <2>2
<1>6. ASSUME fault = "none", StopRootDone
      PROVE  CountersExact'
  BY <1>6 DEF StopRootDone, Busy, Idling
<1>7. ASSUME fault = "none", StopJoined
      PROVE  CountersExact'
  BY <1>7 DEF StopJoined, Busy, Idling
<1>8. ASSUME NEW t \in Threads, fault = "none", TakeTask(t)
      PROVE  CountersExact'
  <2>1. \A u \in Threads : u # t => pc'[u] = pc[u]  BY <1>8 DEF TakeTask
  <2>2. QED  BY <1>8, <2>1, MovedCount DEF TakeTask
<1>9. ASSUME NEW t \in Threads, fault = "none", FindNoTask(t)
      PROVE  CountersExact'
  <2>1. \A u \in Threads : u # t => pc'[u] = pc[u]  BY <1>9 DEF FindNoTask
  <2>2. QED  BY <1>9, <2>1, MovedCount DEF FindNoTask
<1>10. ASSUME NEW t \in Threads, fault = "none", LeaveRun(t)
      PROVE  CountersExact'
  <2>1. /\ pc[t] = "none" /\ pc'[t] = "exit" /\ active' = active /\ idle' = idle
        /\ \A u \in Threads : u # t => pc'[u] = pc[u]
    BY <1>10 DEF LeaveRun
  <2>2. QED  BY <2>1, MovedCount
<1>11. ASSUME NEW t \in Threads, fault = "none", EnterIdle(t)
      PROVE  CountersExact'
  <2>1. \A u \in Threads : u # t => pc'[u] = pc[u]  BY <1>11 DEF EnterIdle
  <2>2. QED  BY <1>11, <2>1, MovedCount DEF EnterIdle
<1>12. ASSUME NEW t \in Threads, fault = "none", IdleCheck(t)
      PROVE  CountersExact'
  <2>1. /\ pc[t] = "idle" /\ pc'[t] = "idled" /\ active' = active /\ idle' = idle
        /\ \A u \in Threads : u # t => pc'[u] = pc[u]
    BY <1>12 DEF IdleCheck
  <2>2. QED  BY <2>1, MovedCount
<1>13. ASSUME NEW t \in Threads, fault = "none", LeaveIdle(t)
      PROVE  CountersExact'
  <2>1. \A u \in Threads : u # t => pc'[u] = pc[u]  BY <1>13 DEF LeaveIdle
  <2>2. QED  BY <1>13, <2>1, MovedCount DEF LeaveIdle
<1>14. ASSUME NEW t \in Threads, fault = "none", Resume(t)
      PROVE  CountersExact'
  <2>1. \A u \in Threads : u # t => pc'[u] = pc[u]  BY <1>14 DEF Resume
  <2>2. QED  BY <1>14, <2>1, MovedCount DEF Resume
<1>15. ASSUME NEW t \in Threads, fault = "none", ResumeAbort(t)
      PROVE  CountersExact'
  BY <1>15 DEF ResumeAbort, Busy, Idling
<1>16. ASSUME NEW t \in Threads, fault = "none", FiberYield(t)
      PROVE  CountersExact'
  <2>1. \A u \in Threads : u # t => pc'[u] = pc[u]  BY <1>16 DEF FiberYield
  <2>2. QED  BY <1>16, <2>1, MovedCount DEF FiberYield
<1>17. ASSUME NEW t \in Threads, fault = "none", FiberReturn(t)
      PROVE  CountersExact'
  <2>1. \A u \in Threads : u # t => pc'[u] = pc[u]  BY <1>17 DEF FiberReturn
  <2>2. QED  BY <1>17, <2>1, MovedCount DEF FiberReturn
<1>18. ASSUME NEW t \in Threads, fault = "none", Switch(t)
      PROVE  CountersExact'
  <2>1. \A u \in Threads : u # t => pc'[u] = pc[u]  BY <1>18 DEF Switch
  <2>2. QED  BY <1>18, <2>1, MovedCount DEF Switch
<1>19. ASSUME NEW t \in Threads, fault = "none", Release(t)
      PROVE  CountersExact'
  <2>1. \A u \in Threads : u # t => pc'[u] = pc[u]  BY <1>19 DEF Release
  <2>2. QED  BY <1>19, <2>1, MovedCount DEF Release
<1>20. ASSUME NEW t \in Threads, NEW target \in {t, AnyThread}, fault = "none", FiberResubmit(t, target)
      PROVE  CountersExact'
  <2>1. \A u \in Threads : u # t => pc'[u] = pc[u]  BY <1>20 DEF FiberResubmit
  <2>2. QED  BY <1>20, <2>1, MovedCount DEF FiberResubmit
<1>21. QED
  BY <1>1, <1>2, <1>3, <1>4, <1>5, <1>6, <1>7, <1>8, <1>9, <1>10,
     <1>11, <1>12, <1>13, <1>14, <1>15, <1>16, <1>17, <1>18, <1>19, <1>20
     DEF Next, SubmitStep, StopStep, RunStep, Finished

\* Every step keeps a fiber in the hand of a busy thread.
LEMMA HandStep ==
    ASSUME IInv, [Next]_vars
    PROVE  HandInv'
<1> USE DEF IInv, TypeOK, HandInv, BusyPoints, IdlePoints,
           mainVars, threadVars, fiberVars
<1>1. CASE UNCHANGED vars
  BY <1>1 DEF vars
<1>2. ASSUME NEW f \in Fibers, NEW target \in Threads \cup {AnyThread}, fault = "none", OwnerSubmit(f, target)
      PROVE  HandInv'
  BY <1>2 DEF OwnerSubmit, SubmitNew, Schedule
<1>3. ASSUME NEW f \in Fibers, NEW target \in Threads \cup {AnyThread}, NEW t \in Threads, fault = "none", FiberSubmit(t, f, target)
      PROVE  HandInv'
  BY <1>3 DEF FiberSubmit, SubmitNew, Schedule
<1>4. ASSUME fault = "none", Start
      PROVE  HandInv'
  BY <1>4 DEF Start
<1>5. ASSUME fault = "none", StopBegin
      PROVE  HandInv'
  BY <1>5 DEF StopBegin
<1>6. ASSUME fault = "none", StopRootDone
      PROVE  HandInv'
  BY <1>6 DEF StopRootDone
<1>7. ASSUME fault = "none", StopJoined
      PROVE  HandInv'
  BY <1>7 DEF StopJoined
<1>8. ASSUME NEW t \in Threads, fault = "none", TakeTask(t)
      PROVE  HandInv'
  <2>1. PICK i \in Runnable(t) : /\ cur' = [cur EXCEPT ![t] = queue[i].fiber]
                                 /\ queue' = RemoveAt(queue, i)
    BY <1>8 DEF TakeTask
  <2>2. i \in 1..Len(queue) /\ queue[i] \in Task  BY <2>1, ElementOfSeq DEF Runnable
  <2>4. queue[i].fiber \in Fibers  BY <2>2 DEF Task
  <2>5. QED  BY <1>8, <2>1, <2>4 DEF TakeTask
<1>9. ASSUME NEW t \in Threads, fault = "none", FindNoTask(t)
      PROVE  HandInv'
  BY <1>9 DEF FindNoTask
<1>10. ASSUME NEW t \in Threads, fault = "none", LeaveRun(t)
      PROVE  HandInv'
  BY <1>10 DEF LeaveRun
<1>11. ASSUME NEW t \in Threads, fault = "none", EnterIdle(t)
      PROVE  HandInv'
  BY <1>11 DEF EnterIdle
<1>12. ASSUME NEW t \in Threads, fault = "none", IdleCheck(t)
      PROVE  HandInv'
  BY <1>12 DEF IdleCheck
<1>13. ASSUME NEW t \in Threads, fault = "none", LeaveIdle(t)
      PROVE  HandInv'
  BY <1>13 DEF LeaveIdle
<1>14. ASSUME NEW t \in Threads, fault = "none", Resume(t)
      PROVE  HandInv'
  BY <1>14 DEF Resume
<1>15. ASSUME NEW t \in Threads, fault = "none", ResumeAbort(t)
      PROVE  HandInv'
  BY <1>15 DEF ResumeAbort
<1>16. ASSUME NEW t \in Threads, fault = "none", FiberYield(t)
      PROVE  HandInv'
  BY <1>16 DEF FiberYield
<1>17. ASSUME NEW t \in Threads, fault = "none", FiberReturn(t)
      PROVE  HandInv'
  BY <1>17 DEF FiberReturn
<1>18. ASSUME NEW t \in Threads, fault = "none", Switch(t)
      PROVE  HandInv'
  BY <1>18 DEF Switch
<1>19. ASSUME NEW t \in Threads, fault = "none", Release(t)
      PROVE  HandInv'
  BY <1>19 DEF Release
<1>20. ASSUME NEW t \in Threads, NEW target \in {t, AnyThread}, fault = "none", FiberResubmit(t, target)
      PROVE  HandInv'
  BY <1>20 DEF FiberResubmit, Schedule
<1>21. QED
  BY <1>1, <1>2, <1>3, <1>4, <1>5, <1>6, <1>7, <1>8, <1>9, <1>10,
     <1>11, <1>12, <1>13, <1>14, <1>15, <1>16, <1>17, <1>18, <1>19, <1>20
     DEF Next, SubmitStep, StopStep, RunStep, Finished

\* Every step keeps the owner's and the threads' program points in phase.
LEMMA PhaseStep ==
    ASSUME IInv, [Next]_vars
    PROVE  PhaseInv'
<1> USE DEF IInv, TypeOK, PhaseInv, BusyPoints, IdlePoints,
           mainVars, threadVars, fiberVars
<1>1. CASE UNCHANGED vars
  BY <1>1 DEF vars
<1>2. ASSUME NEW f \in Fibers, NEW target \in Threads \cup {AnyThread}, fault = "none", OwnerSubmit(f, target)
      PROVE  PhaseInv'
  BY <1>2 DEF OwnerSubmit, SubmitNew, Schedule
<1>3. ASSUME NEW f \in Fibers, NEW target \in Threads \cup {AnyThread}, NEW t \in Threads, fault = "none", FiberSubmit(t, f, target)
      PROVE  PhaseInv'
  BY <1>3 DEF FiberSubmit, SubmitNew, Schedule
<1>4. ASSUME fault = "none", Start
      PROVE  PhaseInv'
  <2>1. /\ mpc = "built" /\ mpc' = "started" /\ ~stopping /\ stopping' = stopping
        /\ idleTerm' = idleTerm /\ \A t \in Threads : ~idleTerm[t]
    BY <1>4 DEF Start
  <2>2. \A t \in Threads : pc[t] = "new" /\ pc'[t] = IF t \in Workers THEN "take" ELSE "new"
    BY <1>4 DEF Start
  <2>3. UseCaller => Caller \in Threads \ Workers  BY SchedulerAssumption DEF Threads
  <2>4. QED  BY <2>1, <2>2, <2>3
<1>5. ASSUME fault = "none", StopBegin
      PROVE  PhaseInv'
  BY <1>5, SchedulerAssumption DEF StopBegin, Threads
<1>6. ASSUME fault = "none", StopRootDone
      PROVE  PhaseInv'
  BY <1>6 DEF StopRootDone
<1>7. ASSUME fault = "none", StopJoined
      PROVE  PhaseInv'
  BY <1>7 DEF StopJoined, Threads
<1>8. ASSUME NEW t \in Threads, fault = "none", TakeTask(t)
      PROVE  PhaseInv'
  BY <1>8 DEF TakeTask
<1>9. ASSUME NEW t \in Threads, fault = "none", FindNoTask(t)
      PROVE  PhaseInv'
  BY <1>9 DEF FindNoTask
<1>10. ASSUME NEW t \in Threads, fault = "none", LeaveRun(t)
      PROVE  PhaseInv'
  BY <1>10 DEF LeaveRun
<1>11. ASSUME NEW t \in Threads, fault = "none", EnterIdle(t)
      PROVE  PhaseInv'
  BY <1>11 DEF EnterIdle
<1>12. ASSUME NEW t \in Threads, fault = "none", IdleCheck(t)
      PROVE  PhaseInv'
  <2>1. CanStop \in BOOLEAN  BY DEF CanStop
  <2>2. QED  BY <1>12, <2>1 DEF IdleCheck
<1>13. ASSUME NEW t \in Threads, fault = "none", LeaveIdle(t)
      PROVE  PhaseInv'
  BY <1>13 DEF LeaveIdle
<1>14. ASSUME NEW t \in Threads, fault = "none", Resume(t)
      PROVE  PhaseInv'
  BY <1>14 DEF Resume
<1>15. ASSUME NEW t \in Threads, fault = "none", ResumeAbort(t)
      PROVE  PhaseInv'
  BY <1>15 DEF ResumeAbort
<1>16. ASSUME NEW t \in Threads, fault = "none", FiberYield(t)
      PROVE  PhaseInv'
  BY <1>16 DEF FiberYield
<1>17. ASSUME NEW t \in Threads, fault = "none", FiberReturn(t)
      PROVE  PhaseInv'
  BY <1>17 DEF FiberReturn
<1>18. ASSUME NEW t \in Threads, fault = "none", Switch(t)
      PROVE  PhaseInv'
  BY <1>18 DEF Switch
<1>19. ASSUME NEW t \in Threads, fault = "none", Release(t)
      PROVE  PhaseInv'
  BY <1>19 DEF Release
<1>20. ASSUME NEW t \in Threads, NEW target \in {t, AnyThread}, fault = "none", FiberResubmit(t, target)
      PROVE  PhaseInv'
  BY <1>20 DEF FiberResubmit, Schedule
<1>21. QED
  BY <1>1, <1>2, <1>3, <1>4, <1>5, <1>6, <1>7, <1>8, <1>9, <1>10,
     <1>11, <1>12, <1>13, <1>14, <1>15, <1>16, <1>17, <1>18, <1>19, <1>20
     DEF Next, SubmitStep, StopStep, RunStep, Finished

\* Every step keeps the fibers' stacks apart, until a fault.
LEMMA StackStep ==
    ASSUME IInv, [Next]_vars
    PROVE  StackInv'
<1> USE DEF IInv, TypeOK, HandInv, StackInv, BusyPoints, IdlePoints,
           mainVars, threadVars, fiberVars
<1>1. CASE UNCHANGED vars
  BY <1>1 DEF vars
<1>2. ASSUME NEW f \in Fibers, NEW target \in Threads \cup {AnyThread}, fault = "none", OwnerSubmit(f, target)
      PROVE  StackInv'
  BY <1>2 DEF OwnerSubmit, SubmitNew, Schedule
<1>3. ASSUME NEW f \in Fibers, NEW target \in Threads \cup {AnyThread}, NEW t \in Threads, fault = "none", FiberSubmit(t, f, target)
      PROVE  StackInv'
  BY <1>3 DEF FiberSubmit, SubmitNew, Schedule
<1>4. ASSUME fault = "none", Start
      PROVE  StackInv'
  BY <1>4 DEF Start
<1>5. ASSUME fault = "none", StopBegin
      PROVE  StackInv'
  BY <1>5 DEF StopBegin
<1>6. ASSUME fault = "none", StopRootDone
      PROVE  StackInv'
  BY <1>6 DEF StopRootDone
<1>7. ASSUME fault = "none", StopJoined
      PROVE  StackInv'
  BY <1>7 DEF StopJoined
<1>8. ASSUME NEW t \in Threads, fault = "none", TakeTask(t)
      PROVE  StackInv'
  BY <1>8 DEF TakeTask
<1>9. ASSUME NEW t \in Threads, fault = "none", FindNoTask(t)
      PROVE  StackInv'
  BY <1>9 DEF FindNoTask
<1>10. ASSUME NEW t \in Threads, fault = "none", LeaveRun(t)
      PROVE  StackInv'
  BY <1>10 DEF LeaveRun
<1>11. ASSUME NEW t \in Threads, fault = "none", EnterIdle(t)
      PROVE  StackInv'
  BY <1>11 DEF EnterIdle
<1>12. ASSUME NEW t \in Threads, fault = "none", IdleCheck(t)
      PROVE  StackInv'
  BY <1>12 DEF IdleCheck
<1>13. ASSUME NEW t \in Threads, fault = "none", LeaveIdle(t)
      PROVE  StackInv'
  BY <1>13 DEF LeaveIdle
<1>14. ASSUME NEW t \in Threads, fault = "none", Resume(t)
      PROVE  StackInv'
  BY <1>14 DEF Resume
<1>15. ASSUME NEW t \in Threads, fault = "none", ResumeAbort(t)
      PROVE  StackInv'
  BY <1>15 DEF ResumeAbort
<1>16. ASSUME NEW t \in Threads, fault = "none", FiberYield(t)
      PROVE  StackInv'
  BY <1>16 DEF FiberYield
<1>17. ASSUME NEW t \in Threads, fault = "none", FiberReturn(t)
      PROVE  StackInv'
  BY <1>17 DEF FiberReturn
<1>18. ASSUME NEW t \in Threads, fault = "none", Switch(t)
      PROVE  StackInv'
  BY <1>18 DEF Switch
<1>19. ASSUME NEW t \in Threads, fault = "none", Release(t)
      PROVE  StackInv'
  BY <1>19 DEF Release
<1>20. ASSUME NEW t \in Threads, NEW target \in {t, AnyThread}, fault = "none", FiberResubmit(t, target)
      PROVE  StackInv'
  BY <1>20 DEF FiberResubmit, Schedule
<1>21. QED
  BY <1>1, <1>2, <1>3, <1>4, <1>5, <1>6, <1>7, <1>8, <1>9, <1>10,
     <1>11, <1>12, <1>13, <1>14, <1>15, <1>16, <1>17, <1>18, <1>19, <1>20
     DEF Next, SubmitStep, StopStep, RunStep, Finished

\* Every step keeps NoEarlyExit: once an idle fiber has ended, nothing is
\* submitted (only the owner before stop() and busy threads submit) or taken.
LEMMA EarlyExitStep ==
    ASSUME IInv, [Next]_vars
    PROVE  NoEarlyExit'
<1> USE DEF IInv, TypeOK, NoEarlyExit, BusyPoints, IdlePoints,
           mainVars, threadVars, fiberVars
<1>1. CASE UNCHANGED vars
  BY <1>1 DEF vars, Busy
<1>2. ASSUME NEW f \in Fibers, NEW target \in Threads \cup {AnyThread}, fault = "none", OwnerSubmit(f, target)
      PROVE  NoEarlyExit'
  <2>1. ~stopping  BY <1>2 DEF OwnerSubmit, PhaseInv
  <2>2. \A t \in Threads : ~idleTerm[t]  BY <2>1
  <2>3. QED  BY <1>2, <2>2 DEF OwnerSubmit
<1>3. ASSUME NEW f \in Fibers, NEW target \in Threads \cup {AnyThread}, NEW t \in Threads, fault = "none", FiberSubmit(t, f, target)
      PROVE  NoEarlyExit'
  <2>1. t \in Busy  BY <1>3 DEF FiberSubmit, Busy
  <2>2. \A u \in Threads : ~idleTerm[u]  BY <2>1
  <2>3. QED  BY <1>3, <2>2 DEF FiberSubmit
<1>4. ASSUME fault = "none", Start
      PROVE  NoEarlyExit'
  <2>1. ~stopping  BY <1>4 DEF Start, PhaseInv
  <2>2. \A t \in Threads : ~idleTerm[t]  BY <2>1
  <2>3. QED  BY <1>4, <2>2 DEF Start
<1>5. ASSUME fault = "none", StopBegin
      PROVE  NoEarlyExit'
  <2>1. ~stopping  BY <1>5 DEF StopBegin, PhaseInv
  <2>2. \A t \in Threads : ~idleTerm[t]  BY <2>1
  <2>3. QED  BY <1>5, <2>2 DEF StopBegin
<1>6. ASSUME fault = "none", StopRootDone
      PROVE  NoEarlyExit'
  <2>1. Busy' \subseteq Busy /\ queue' = queue /\ stopping' = stopping /\ idleTerm' = idleTerm
    BY <1>6 DEF StopRootDone, Busy
  <2>2. QED  BY <2>1
<1>7. ASSUME fault = "none", StopJoined
      PROVE  NoEarlyExit'
  <2>1. Busy' \subseteq Busy /\ queue' = queue /\ stopping' = stopping /\ idleTerm' = idleTerm
    BY <1>7 DEF StopJoined, Busy
  <2>2. QED  BY <2>1
<1>8. ASSUME NEW t \in Threads, fault = "none", TakeTask(t)
      PROVE  NoEarlyExit'
  <2>1. queue # <<>>  BY <1>8 DEF TakeTask, Runnable
  <2>2. \A u \in Threads : ~idleTerm[u]  BY <2>1
  <2>3. QED  BY <1>8, <2>2 DEF TakeTask
<1>9. ASSUME NEW t \in Threads, fault = "none", FindNoTask(t)
      PROVE  NoEarlyExit'
  <2>1. Busy' \subseteq Busy /\ queue' = queue /\ stopping' = stopping /\ idleTerm' = idleTerm
    BY <1>9 DEF FindNoTask, Busy
  <2>2. QED  BY <2>1
<1>10. ASSUME NEW t \in Threads, fault = "none", LeaveRun(t)
      PROVE  NoEarlyExit'
  <2>1. Busy' \subseteq Busy /\ queue' = queue /\ stopping' = stopping /\ idleTerm' = idleTerm
    BY <1>10 DEF LeaveRun, Busy
  <2>2. QED  BY <2>1
<1>11. ASSUME NEW t \in Threads, fault = "none", EnterIdle(t)
      PROVE  NoEarlyExit'
  <2>1. Busy' \subseteq Busy /\ queue' = queue /\ stopping' = stopping /\ idleTerm' = idleTerm
    BY <1>11 DEF EnterIdle, Busy
  <2>2. QED  BY <2>1
<1>12. ASSUME NEW t \in Threads, fault = "none", IdleCheck(t)
      PROVE  NoEarlyExit'
  <2>1. Busy' = Busy  BY <1>12 DEF IdleCheck, Busy
  <2>2. queue' = queue /\ stopping' = stopping  BY <1>12 DEF IdleCheck
  <2>3. CASE CanStop
    <3>1. stopping /\ queue = <<>> /\ active = 0  BY <2>3 DEF CanStop
    <3>2. Busy = {}  BY <3>1, FiniteThreads, FS_EmptySet DEF CountersExact
    <3>3. QED  BY <2>1, <2>2, <3>1, <3>2
  <2>4. CASE ~CanStop
    <3>1. \A u \in Threads : idleTerm'[u] => idleTerm[u]  BY <1>12, <2>4 DEF IdleCheck
    <3>2. QED  BY <2>1, <2>2, <3>1
  <2>5. QED  BY <2>3, <2>4
<1>13. ASSUME NEW t \in Threads, fault = "none", LeaveIdle(t)
      PROVE  NoEarlyExit'
  <2>1. Busy' \subseteq Busy /\ queue' = queue /\ stopping' = stopping /\ idleTerm' = idleTerm
    BY <1>13 DEF LeaveIdle, Busy
  <2>2. QED  BY <2>1
<1>14. ASSUME NEW t \in Threads, fault = "none", Resume(t)
      PROVE  NoEarlyExit'
  <2>1. Busy' \subseteq Busy /\ queue' = queue /\ stopping' = stopping /\ idleTerm' = idleTerm
    BY <1>14 DEF Resume, Busy
  <2>2. QED  BY <2>1
<1>15. ASSUME NEW t \in Threads, fault = "none", ResumeAbort(t)
      PROVE  NoEarlyExit'
  <2>1. Busy' \subseteq Busy /\ queue' = queue /\ stopping' = stopping /\ idleTerm' = idleTerm
    BY <1>15 DEF ResumeAbort, Busy
  <2>2. QED  BY <2>1
<1>16. ASSUME NEW t \in Threads, fault = "none", FiberYield(t)
      PROVE  NoEarlyExit'
  <2>1. Busy' \subseteq Busy /\ queue' = queue /\ stopping' = stopping /\ idleTerm' = idleTerm
    BY <1>16 DEF FiberYield, Busy
  <2>2. QED  BY <2>1
<1>17. ASSUME NEW t \in Threads, fault = "none", FiberReturn(t)
      PROVE  NoEarlyExit'
  <2>1. Busy' \subseteq Busy /\ queue' = queue /\ stopping' = stopping /\ idleTerm' = idleTerm
    BY <1>17 DEF FiberReturn, Busy
  <2>2. QED  BY <2>1
<1>18. ASSUME NEW t \in Threads, fault = "none", Switch(t)
      PROVE  NoEarlyExit'
  <2>1. Busy' \subseteq Busy /\ queue' = queue /\ stopping' = stopping /\ idleTerm' = idleTerm
    BY <1>18 DEF Switch, Busy
  <2>2. QED  BY <2>1
<1>19. ASSUME NEW t \in Threads, fault = "none", Release(t)
      PROVE  NoEarlyExit'
  <2>1. Busy' \subseteq Busy /\ queue' = queue /\ stopping' = stopping /\ idleTerm' = idleTerm
    BY <1>19 DEF Release, Busy
  <2>2. QED  BY <2>1
<1>20. ASSUME NEW t \in Threads, NEW target \in {t, AnyThread}, fault = "none", FiberResubmit(t, target)
      PROVE  NoEarlyExit'
  <2>1. t \in Busy  BY <1>20 DEF FiberResubmit, Busy
  <2>2. \A u \in Threads : ~idleTerm[u]  BY <2>1
  <2>3. QED  BY <1>20, <2>2 DEF FiberResubmit
<1>21. QED
  BY <1>1, <1>2, <1>3, <1>4, <1>5, <1>6, <1>7, <1>8, <1>9, <1>10,
     <1>11, <1>12, <1>13, <1>14, <1>15, <1>16, <1>17, <1>18, <1>19, <1>20
     DEF Next, SubmitStep, StopStep, RunStep, Finished

\* Every step keeps every unfinished fiber queued or in a hand.
LEMMA LostTaskStep ==
    ASSUME IInv, [Next]_vars
    PROVE  NoLostTask'
<1> USE DEF IInv, TypeOK, HandInv, NoLostTask, BusyPoints, IdlePoints,
           mainVars, threadVars, fiberVars
<1>1. CASE UNCHANGED vars
  BY <1>1 DEF vars
<1>2. ASSUME NEW f \in Fibers, NEW target \in Threads \cup {AnyThread}, fault = "none", OwnerSubmit(f, target)
      PROVE  NoLostTask'
  <2>1. /\ \A i \in 1..Len(queue) : i \in 1..Len(queue') /\ queue'[i] = queue[i]
        /\ \E i \in 1..Len(queue') : queue'[i].fiber = f
    BY <1>2, AppendedQueue DEF OwnerSubmit, SubmitNew
  <2>2. /\ \A g \in Fibers : g # f => fstate'[g] = fstate[g]
        /\ pc' = pc /\ cur' = cur
    BY <1>2 DEF OwnerSubmit, SubmitNew
  <2>3. ASSUME NEW g \in Fibers, fstate'[g] \in {"READY", "RUNNING"}
        PROVE  \/ \E i \in 1..Len(queue') : queue'[i].fiber = g
               \/ \E u \in Threads : cur'[u] = g /\ pc'[u] \in {"resume", "running"}
    <3>1. CASE g = f  BY <3>1, <2>1, <2>2
    <3>2. CASE g # f /\ \E i \in 1..Len(queue) : queue[i].fiber = g
      <4>1. PICK i \in 1..Len(queue) : queue[i].fiber = g  BY <3>2
      <4>2. QED  BY <4>1, <2>1
    <3>3. CASE g # f /\ \E u \in Threads : cur[u] = g /\ pc[u] \in {"resume", "running"}
      BY <3>3, <2>2
    <3>4. QED  BY <3>1, <3>2, <3>3, <2>2, <2>3
  <2>4. QED  BY <2>3
<1>3. ASSUME NEW f \in Fibers, NEW target \in Threads \cup {AnyThread}, NEW t \in Threads, fault = "none", FiberSubmit(t, f, target)
      PROVE  NoLostTask'
  <2>1. /\ \A i \in 1..Len(queue) : i \in 1..Len(queue') /\ queue'[i] = queue[i]
        /\ \E i \in 1..Len(queue') : queue'[i].fiber = f
    BY <1>3, AppendedQueue DEF FiberSubmit, SubmitNew
  <2>2. /\ \A g \in Fibers : g # f => fstate'[g] = fstate[g]
        /\ pc' = pc /\ cur' = cur
    BY <1>3 DEF FiberSubmit, SubmitNew
  <2>3. ASSUME NEW g \in Fibers, fstate'[g] \in {"READY", "RUNNING"}
        PROVE  \/ \E i \in 1..Len(queue') : queue'[i].fiber = g
               \/ \E u \in Threads : cur'[u] = g /\ pc'[u] \in {"resume", "running"}
    <3>1. CASE g = f  BY <3>1, <2>1, <2>2
    <3>2. CASE g # f /\ \E i \in 1..Len(queue) : queue[i].fiber = g
      <4>1. PICK i \in 1..Len(queue) : queue[i].fiber = g  BY <3>2
      <4>2. QED  BY <4>1, <2>1
    <3>3. CASE g # f /\ \E u \in Threads : cur[u] = g /\ pc[u] \in {"resume", "running"}
      BY <3>3, <2>2
    <3>4. QED  BY <3>1, <3>2, <3>3, <2>2, <2>3
  <2>4. QED  BY <2>3
<1>4. ASSUME fault = "none", Start
      PROVE  NoLostTask'
  <2>1. \A t \in Threads : pc[t] = "new"  BY <1>4 DEF Start, PhaseInv
  <2>2. fstate' = fstate /\ queue' = queue  BY <1>4 DEF Start
  <2>3. QED  BY <2>1, <2>2
<1>5. ASSUME fault = "none", StopBegin
      PROVE  NoLostTask'
  <2>1. \A t \in Threads : pc[t] \in {"resume", "running"} => pc'[t] = pc[t]
    BY <1>5 DEF StopBegin, PhaseInv
  <2>2. fstate' = fstate /\ queue' = queue /\ cur' = cur  BY <1>5 DEF StopBegin
  <2>3. QED  BY <2>1, <2>2
<1>6. ASSUME fault = "none", StopRootDone
      PROVE  NoLostTask'
  BY <1>6 DEF StopRootDone
<1>7. ASSUME fault = "none", StopJoined
      PROVE  NoLostTask'
  BY <1>7 DEF StopJoined
<1>8. ASSUME NEW t \in Threads, fault = "none", TakeTask(t)
      PROVE  NoLostTask'
  <2>1. PICK i \in Runnable(t) : /\ cur' = [cur EXCEPT ![t] = queue[i].fiber]
                                 /\ queue' = RemoveAt(queue, i)
    BY <1>8 DEF TakeTask
  <2>2. i \in 1..Len(queue) /\ queue \in Seq(Task)  BY <2>1 DEF Runnable
  <2>3. \A k \in 1..Len(queue) : k # i =>
           \E j \in 1..Len(queue') : queue'[j] = queue[k]
    <3>1. \A k \in 1..Len(queue) : k # i =>
             \E j \in 1..Len(RemoveAt(queue, i)) : RemoveAt(queue, i)[j] = queue[k]
      BY <2>2, RemoveAtElements
    <3>2. QED  BY <3>1, <2>1
  <2>4. /\ cur'[t] = queue[i].fiber /\ pc'[t] = "resume" /\ fstate' = fstate
        /\ \A u \in Threads : u # t => cur'[u] = cur[u] /\ pc'[u] = pc[u]
        /\ pc[t] = "take"
    BY <1>8, <2>1 DEF TakeTask
  <2>5. ASSUME NEW f \in Fibers, fstate[f] \in {"READY", "RUNNING"}
        PROVE  \/ \E j \in 1..Len(queue') : queue'[j].fiber = f
               \/ \E u \in Threads : cur'[u] = f /\ pc'[u] \in {"resume", "running"}
    <3>1. CASE \E k \in 1..Len(queue) : queue[k].fiber = f
      <4>1. PICK k \in 1..Len(queue) : queue[k].fiber = f  BY <3>1
      <4>2. CASE k = i  BY <4>1, <4>2, <2>4
      <4>3. CASE k # i
        <5>1. PICK j \in 1..Len(queue') : queue'[j] = queue[k]  BY <4>3, <2>3
        <5>2. QED  BY <4>1, <5>1
      <4>4. QED  BY <4>2, <4>3
    <3>2. CASE \E u \in Threads : cur[u] = f /\ pc[u] \in {"resume", "running"}
      BY <3>2, <2>4
    <3>3. QED  BY <2>5, <3>1, <3>2
  <2>6. QED  BY <2>4, <2>5
<1>9. ASSUME NEW t \in Threads, fault = "none", FindNoTask(t)
      PROVE  NoLostTask'
  BY <1>9 DEF FindNoTask
<1>10. ASSUME NEW t \in Threads, fault = "none", LeaveRun(t)
      PROVE  NoLostTask'
  BY <1>10 DEF LeaveRun
<1>11. ASSUME NEW t \in Threads, fault = "none", EnterIdle(t)
      PROVE  NoLostTask'
  BY <1>11 DEF EnterIdle
<1>12. ASSUME NEW t \in Threads, fault = "none", IdleCheck(t)
      PROVE  NoLostTask'
  BY <1>12 DEF IdleCheck
<1>13. ASSUME NEW t \in Threads, fault = "none", LeaveIdle(t)
      PROVE  NoLostTask'
  BY <1>13 DEF LeaveIdle
<1>14. ASSUME NEW t \in Threads, fault = "none", Resume(t)
      PROVE  NoLostTask'
  BY <1>14 DEF Resume
<1>15. ASSUME NEW t \in Threads, fault = "none", ResumeAbort(t)
      PROVE  NoLostTask'
  BY <1>15 DEF ResumeAbort
<1>16. ASSUME NEW t \in Threads, fault = "none", FiberYield(t)
      PROVE  NoLostTask'
  BY <1>16 DEF FiberYield
<1>17. ASSUME NEW t \in Threads, fault = "none", FiberReturn(t)
      PROVE  NoLostTask'
  <2>1. /\ cur[t] \in Fibers /\ fstate'[cur[t]] = "TERM"
        /\ \A i \in 1..Len(queue) : i \in 1..Len(queue') /\ queue'[i] = queue[i]
    BY <1>17 DEF FiberReturn
  <2>2. /\ \A g \in Fibers : g # cur[t] => fstate'[g] = fstate[g]
        /\ cur' = cur
        /\ \A u \in Threads : u # t => pc'[u] = pc[u]
    BY <1>17 DEF FiberReturn
  <2>3. ASSUME NEW g \in Fibers, fstate'[g] \in {"READY", "RUNNING"}
        PROVE  \/ \E i \in 1..Len(queue') : queue'[i].fiber = g
               \/ \E u \in Threads : cur'[u] = g /\ pc'[u] \in {"resume", "running"}
    <3>1. g # cur[t]  BY <2>1, <2>3
    <3>2. CASE g # cur[t] /\ \E i \in 1..Len(queue) : queue[i].fiber = g
      <4>1. PICK i \in 1..Len(queue) : queue[i].fiber = g  BY <3>2
      <4>2. QED  BY <4>1, <2>1
    <3>3. CASE g # cur[t] /\ \E u \in Threads : cur[u] = g /\ pc[u] \in {"resume", "running"}
      BY <3>3, <2>2
    <3>4. QED  BY <3>1, <3>2, <3>3, <2>2, <2>3
  <2>4. QED  BY <2>3
<1>18. ASSUME NEW t \in Threads, fault = "none", Switch(t)
      PROVE  NoLostTask'
  BY <1>18 DEF Switch
<1>19. ASSUME NEW t \in Threads, fault = "none", Release(t)
      PROVE  NoLostTask'
  BY <1>19 DEF Release
<1>20. ASSUME NEW t \in Threads, NEW target \in {t, AnyThread}, fault = "none", FiberResubmit(t, target)
      PROVE  NoLostTask'
  <2>0. cur[t] \in Fibers /\ target \in Threads \cup {AnyThread}
    BY <1>20 DEF FiberResubmit
  <2>1. /\ \A i \in 1..Len(queue) : i \in 1..Len(queue') /\ queue'[i] = queue[i]
        /\ \E i \in 1..Len(queue') : queue'[i].fiber = cur[t]
    BY <1>20, <2>0, AppendedQueue DEF FiberResubmit
  <2>2. /\ fstate' = fstate /\ cur' = cur
        /\ \A u \in Threads : u # t => pc'[u] = pc[u]
    BY <1>20 DEF FiberResubmit
  <2>3. ASSUME NEW g \in Fibers, fstate'[g] \in {"READY", "RUNNING"}
        PROVE  \/ \E i \in 1..Len(queue') : queue'[i].fiber = g
               \/ \E u \in Threads : cur'[u] = g /\ pc'[u] \in {"resume", "running"}
    <3>1. CASE g = cur[t]  BY <3>1, <2>1, <2>2
    <3>2. CASE g # cur[t] /\ \E i \in 1..Len(queue) : queue[i].fiber = g
      <4>1. PICK i \in 1..Len(queue) : queue[i].fiber = g  BY <3>2
      <4>2. QED  BY <4>1, <2>1
    <3>3. CASE g # cur[t] /\ \E u \in Threads : cur[u] = g /\ pc[u] \in {"resume", "running"}
      BY <3>3, <2>2
    <3>4. QED  BY <3>1, <3>2, <3>3, <2>2, <2>3
  <2>4. QED  BY <2>3
<1> HIDE DEF NoLostTask, IInv, TypeOK, HandInv
<1>21. QED
  BY <1>1, <1>2, <1>3, <1>4, <1>5, <1>6, <1>7, <1>8, <1>9, <1>10,
     <1>11, <1>12, <1>13, <1>14, <1>15, <1>16, <1>17, <1>18, <1>19, <1>20
     DEF Next, SubmitStep, StopStep, RunStep, Finished

\* The initial state satisfies the invariant.
LEMMA InitIInv == Init => IInv
<1> SUFFICES ASSUME Init PROVE IInv  OBVIOUS
<1> USE DEF Init
<1>1. TypeOK
  <2>1. queue \in Seq(Task)  BY EmptySeq
  <2>2. yields \in [Fibers -> 0..MaxYields]  BY SchedulerAssumption
  <2>3. QED  BY <2>1, <2>2 DEF TypeOK
<1>2. Busy = {} /\ Idling = {}  BY DEF Busy, Idling, BusyPoints, IdlePoints
<1>3. CountersExact  BY <1>2, FS_EmptySet DEF CountersExact
<1>4. HandInv /\ StackInv  BY DEF HandInv, StackInv, BusyPoints
<1>5. PhaseInv
  <2>1. UseCaller => Caller \in Threads  BY DEF Threads
  <2>2. QED  BY <2>1 DEF PhaseInv
<1>6. NoEarlyExit /\ NoLostTask  BY DEF NoEarlyExit, NoLostTask
<1>7. QED  BY <1>1, <1>3, <1>4, <1>5, <1>6 DEF IInv

\* Every step keeps the invariant.
LEMMA NextIInv == IInv /\ [Next]_vars => IInv'
<1> SUFFICES ASSUME IInv, [Next]_vars PROVE IInv'  OBVIOUS
<1>1. TypeOK' /\ CountersExact'  BY TypeStep, CountersStep
<1>2. HandInv' /\ PhaseInv' /\ StackInv'  BY HandStep, PhaseStep, StackStep
<1>3. NoEarlyExit' /\ NoLostTask'  BY EarlyExitStep, LostTaskStep
<1>4. QED  BY <1>1, <1>2, <1>3 DEF IInv

\* IInv holds in every reachable state.
THEOREM Invariance == Spec => []IInv
  BY InitIInv, NextIInv, PTL DEF Spec

----------------------------------------------------------------------------
(***************************************************************************)
(* What holds for every pool, however fibers re-submit themselves.         *)
(***************************************************************************)
\* The variables keep their types: in particular the two unsigned counters of
\* scheduler.h:146-147 never wrap below zero.
THEOREM TypeCorrect == Spec => []TypeOK
<1>1. IInv => TypeOK  BY DEF IInv
<1>2. QED  BY <1>1, Invariance, PTL

\* The two atomic counters always equal the number of threads that hold a task
\* and that are inside the idle fiber (scheduler.cpp:179-214).
THEOREM CountersCorrect == Spec => []CountersExact
<1>1. IInv => CountersExact  BY DEF IInv
<1>2. QED  BY <1>1, Invariance, PTL

\* A thread's idle fiber ends only when no task is queued or in any hand
\* (scheduler.cpp:82-97).
THEOREM NoThreadExitsEarly == Spec => []NoEarlyExit
<1>1. IInv => NoEarlyExit  BY DEF IInv
<1>2. QED  BY <1>1, Invariance, PTL

\* No submitted task is lost (scheduler.cpp:155-205).
THEOREM NoTaskIsLost == Spec => []NoLostTask
<1>1. IInv => NoLostTask  BY DEF IInv
<1>2. QED  BY <1>1, Invariance, PTL

\* stop() returns only after every submitted task has run to its end
\* (scheduler.cpp:99-136): all threads have left run(), so their idle fibers
\* ended, so nothing was queued or held, so by NoLostTask nothing is unfinished.
THEOREM StopIsComplete == Spec => []StopComplete
<1>1. IInv => StopComplete
  <2> SUFFICES ASSUME IInv, mpc = "stopped"
               PROVE  /\ queue = <<>> /\ Busy = {}
                      /\ \A f \in Fibers : fstate[f] \in {"NONE", "TERM"}
    BY DEF StopComplete
  <2>1. PICK t \in Threads : TRUE  BY SchedulerAssumption
  <2>2. idleTerm[t]  BY <2>1 DEF IInv, PhaseInv
  <2>3. queue = <<>> /\ Busy = {}  BY <2>2 DEF IInv, NoEarlyExit
  <2>4. ASSUME NEW f \in Fibers, fstate[f] \in {"READY", "RUNNING"}
        PROVE  FALSE
    <3>1. Len(queue) = 0  BY <2>3
    <3>2. PICK u \in Threads : cur[u] = f /\ pc[u] \in {"resume", "running"}
      BY <2>4, <3>1 DEF IInv, NoLostTask
    <3>3. u \in Busy  BY <3>2 DEF Busy, BusyPoints
    <3>4. QED  BY <2>3, <3>3
  <2>5. fstate \in [Fibers -> {"NONE", "READY", "RUNNING", "TERM"}]  BY DEF IInv, TypeOK
  <2>6. QED  BY <2>3, <2>4, <2>5
<1>2. QED  BY <1>1, Invariance, PTL

----------------------------------------------------------------------------
(***************************************************************************)
(* When a fiber is never resumed twice: it names its own thread whenever   *)
(* it re-submits itself, or there is only one scheduling thread.  K is a   *)
(* set of such fibers; the other fibers may do as they like.               *)
(***************************************************************************)
Kept(K) ==
    /\ K \subseteq Fibers
    /\ K \subseteq PinnedFibers \/ \A t, u \in Threads : t = u

\* Two threads never hold the same fiber.
HandsApart(K) ==
    \A t, u \in Threads :
        /\ pc[t] \in BusyPoints /\ pc[u] \in BusyPoints
        /\ cur[t] = cur[u] /\ cur[t] \in K
        => t = u

\* A fiber is queued at most once.
QueueApart(K) ==
    \A i, j \in 1..Len(queue) :
        queue[i].fiber = queue[j].fiber /\ queue[i].fiber \in K => i = j

\* A fiber that is queued while in a hand re-submitted itself, and only the
\* thread that holds it can take it again.
QueuedHand(K) ==
    \A i \in 1..Len(queue), t \in Threads :
        pc[t] \in BusyPoints /\ cur[t] = queue[i].fiber /\ cur[t] \in K =>
            /\ pc[t] \in {"resubmitted", "switch", "release"}
            /\ pc[t] # "resubmitted" => fstate[cur[t]] = "READY"
            /\ \A u \in Threads : u # t => queue[i].thread \notin {AnyThread, u}

\* A queued fiber that nobody holds is READY, so is one about to be resumed,
\* and what is queued or held has been submitted.
ReadyToRun(K) ==
    /\ \A i \in 1..Len(queue) :
          /\ queue[i].fiber \in K
          /\ \A t \in Threads : pc[t] \in BusyPoints => cur[t] # queue[i].fiber
          => fstate[queue[i].fiber] = "READY"
    /\ \A t \in Threads : pc[t] = "resume" /\ cur[t] \in K => fstate[cur[t]] = "READY"
    /\ \A i \in 1..Len(queue) : fstate[queue[i].fiber] # "NONE"
    /\ \A t \in Threads : pc[t] \in BusyPoints => fstate[cur[t]] # "NONE"

\* A thread is on a fiber's stack only while it runs that fiber.
StackOwned ==
    \A f \in Fibers : \A t \in stack[f] :
        cur[t] = f /\ pc[t] \in {"running", "resubmitted", "switch"}

PinParts(K) ==
    HandsApart(K) /\ QueueApart(K) /\ QueuedHand(K) /\ ReadyToRun(K) /\ StackOwned

\* If every fiber is such a fiber, Fiber::resume never faults.
PinInv(K) == IInv /\ PinParts(K) /\ (K = Fibers => fault = "none")

\* A task submitted for the first time is nowhere else, so it leaves the fibers
\* of K apart.
LEMMA PinSubmit ==
    ASSUME NEW K, PinInv(K), NEW f \in Fibers, NEW target \in Threads \cup {AnyThread},
           SubmitNew(f, target), UNCHANGED <<pc, cur, stack>>
    PROVE  PinParts(K)'
<1> USE DEF PinInv, PinParts, IInv, TypeOK, HandInv, BusyPoints
<1>0. /\ fstate[f] = "NONE" /\ pc' = pc /\ cur' = cur /\ stack' = stack
      /\ fstate' = [fstate EXCEPT ![f] = "READY"]
  BY DEF SubmitNew
<1>1. /\ \A i \in 1..Len(queue) : queue[i].fiber # f
      /\ \A u \in Threads : pc[u] \in BusyPoints => cur[u] # f
  BY <1>0 DEF ReadyToRun
<1>2. /\ Len(queue') = Len(queue) + 1 /\ Len(queue) \in Nat
      /\ \A i \in 1..Len(queue) : queue'[i] = queue[i]
      /\ queue'[Len(queue) + 1].fiber = f
  BY AppendedQueue DEF SubmitNew
<1>3. \A i \in 1..Len(queue') : 
         (i \in 1..Len(queue)) \/ (queue'[i].fiber = f /\ i = Len(queue) + 1)
  BY <1>2
<1>4. HandsApart(K)' /\ StackOwned'  BY <1>0 DEF HandsApart, StackOwned
<1>5. QueueApart(K)'
  <2> SUFFICES ASSUME NEW i \in 1..Len(queue'), NEW j \in 1..Len(queue'),
                      queue'[i].fiber = queue'[j].fiber, queue'[i].fiber \in K
               PROVE  i = j
    BY DEF QueueApart
  <2>1. CASE i \in 1..Len(queue) /\ j \in 1..Len(queue)
    BY <2>1, <1>2 DEF QueueApart
  <2>2. CASE ~(i \in 1..Len(queue) /\ j \in 1..Len(queue))
    BY <2>2, <1>1, <1>2, <1>3
  <2>3. QED  BY <2>1, <2>2
<1>6. QueuedHand(K)'
  <2> SUFFICES ASSUME NEW j \in 1..Len(queue'), NEW u \in Threads,
                      pc'[u] \in BusyPoints, cur'[u] = queue'[j].fiber, cur'[u] \in K
               PROVE  /\ pc'[u] \in {"resubmitted", "switch", "release"}
                      /\ pc'[u] # "resubmitted" => fstate'[cur'[u]] = "READY"
                      /\ \A v \in Threads : v # u => queue'[j].thread \notin {AnyThread, v}
    BY DEF QueuedHand
  <2>1. /\ cur[u] # f /\ cur[u] \in Fibers /\ j \in 1..Len(queue) /\ queue'[j] = queue[j]
        /\ pc[u] \in BusyPoints /\ cur[u] = queue[j].fiber /\ cur[u] \in K
    BY <1>0, <1>1, <1>2, <1>3
  <2>2. fstate'[cur[u]] = fstate[cur[u]]  BY <2>1, <1>0
  <2>3. QueuedHand(K)  OBVIOUS
  <2> HIDE DEF PinInv, PinParts, IInv, TypeOK, HandInv, BusyPoints
  <2>4. /\ pc[u] \in {"resubmitted", "switch", "release"}
        /\ pc[u] # "resubmitted" => fstate[cur[u]] = "READY"
        /\ \A v \in Threads : v # u => queue[j].thread \notin {AnyThread, v}
    BY <2>1, <2>3 DEF QueuedHand
  <2>5. QED  BY <2>1, <2>2, <2>4, <1>0
<1>7. ReadyToRun(K)'
  <2>1. \A u \in Threads : /\ pc'[u] = "resume" /\ cur'[u] \in K => fstate'[cur'[u]] = "READY"
                           /\ pc'[u] \in BusyPoints => fstate'[cur'[u]] # "NONE"
    BY <1>0, <1>1 DEF ReadyToRun
  <2>2. ASSUME NEW j \in 1..Len(queue')
        PROVE  fstate'[queue'[j].fiber] # "NONE"
    <3>1. CASE j \in 1..Len(queue)
      <4>1. queue[j] \in Task  BY <3>1, ElementOfSeq
      <4>2. QED  BY <3>1, <4>1, <1>0, <1>1, <1>2 DEF ReadyToRun, Task
    <3>2. CASE queue'[j].fiber = f  BY <3>2, <1>0
    <3>3. QED  BY <3>1, <3>2, <1>3
  <2>3. ASSUME NEW j \in 1..Len(queue'), queue'[j].fiber \in K,
               \A u \in Threads : pc'[u] \in BusyPoints => cur'[u] # queue'[j].fiber
        PROVE  fstate'[queue'[j].fiber] = "READY"
    <3>1. CASE j \in 1..Len(queue)
      <4>1. queue[j] \in Task /\ queue'[j] = queue[j] /\ queue[j].fiber # f
        BY <3>1, <1>1, <1>2, ElementOfSeq
      <4>2. \A u \in Threads : pc[u] \in BusyPoints => cur[u] # queue[j].fiber
        BY <2>3, <4>1, <1>0
      <4>3. fstate[queue[j].fiber] = "READY"  BY <2>3, <3>1, <4>1, <4>2 DEF ReadyToRun
      <4>4. QED  BY <4>1, <4>3, <1>0 DEF Task
    <3>2. CASE queue'[j].fiber = f  BY <3>2, <1>0
    <3>3. QED  BY <3>1, <3>2, <1>3
  <2>4. QED  BY <2>1, <2>2, <2>3 DEF ReadyToRun
<1>8. QED  BY <1>4, <1>5, <1>6, <1>7

\* Every step keeps the fibers of K apart.
LEMMA PinStep ==
    ASSUME NEW K, Kept(K), PinInv(K), [Next]_vars
    PROVE  (K = Fibers => fault' = "none") /\ PinParts(K)'
<1> USE DEF PinInv, PinParts, IInv, TypeOK, HandInv, BusyPoints, IdlePoints,
            mainVars, threadVars, fiberVars
<1>1. CASE UNCHANGED vars
  BY <1>1 DEF vars, HandsApart, QueueApart, QueuedHand, ReadyToRun, StackOwned
<1>2. ASSUME NEW f \in Fibers, NEW target \in Threads \cup {AnyThread}, fault = "none", OwnerSubmit(f, target)
      PROVE  (K = Fibers => fault' = "none") /\ PinParts(K)'
  BY <1>2, PinSubmit DEF OwnerSubmit
<1>3. ASSUME NEW f \in Fibers, NEW target \in Threads \cup {AnyThread}, NEW t \in Threads, fault = "none", FiberSubmit(t, f, target)
      PROVE  (K = Fibers => fault' = "none") /\ PinParts(K)'
  BY <1>3, PinSubmit DEF FiberSubmit
<1>4. ASSUME fault = "none", Start
      PROVE  (K = Fibers => fault' = "none") /\ PinParts(K)'
  <2>1. /\ \A t \in Threads : pc[t] \notin BusyPoints /\ pc'[t] \notin BusyPoints
        /\ queue' = queue /\ fstate' = fstate /\ stack' = stack /\ fault' = fault
    BY <1>4 DEF Start, PhaseInv
  <2>2. HandsApart(K)' /\ QueueApart(K)' /\ QueuedHand(K)' /\ StackOwned'
    BY <2>1 DEF HandsApart, QueueApart, QueuedHand, StackOwned
  <2>3. ReadyToRun(K)'  BY <2>1 DEF ReadyToRun
  <2>4. QED  BY <2>1, <2>2, <2>3
<1>5. ASSUME fault = "none", StopBegin
      PROVE  (K = Fibers => fault' = "none") /\ PinParts(K)'
  <2>1. /\ \A u \in Threads : 
              (pc'[u] = pc[u]) \/ (pc[u] \notin BusyPoints /\ pc'[u] \notin BusyPoints)
        /\ cur' = cur /\ queue' = queue /\ fstate' = fstate /\ stack' = stack /\ fault' = fault
    BY <1>5 DEF StopBegin, PhaseInv
  <2>2. HandsApart(K)' /\ QueueApart(K)'  BY <2>1 DEF HandsApart, QueueApart
  <2>3. QueuedHand(K)'  BY <2>1 DEF QueuedHand
  <2>4. ReadyToRun(K)'  BY <2>1 DEF ReadyToRun
  <2>5. StackOwned'  BY <2>1 DEF StackOwned
  <2>6. QED  BY <2>1, <2>2, <2>3, <2>4, <2>5
<1>6. ASSUME fault = "none", StopRootDone
      PROVE  (K = Fibers => fault' = "none") /\ PinParts(K)'
  <2>1. /\ \A u \in Threads : 
              (pc'[u] = pc[u]) \/ (pc[u] \notin BusyPoints /\ pc'[u] \notin BusyPoints)
        /\ cur' = cur /\ queue' = queue /\ fstate' = fstate /\ stack' = stack /\ fault' = fault
    BY <1>6 DEF StopRootDone
  <2>2. HandsApart(K)' /\ QueueApart(K)'  BY <2>1 DEF HandsApart, QueueApart
  <2>3. QueuedHand(K)'  BY <2>1 DEF QueuedHand
  <2>4. ReadyToRun(K)'  BY <2>1 DEF ReadyToRun
  <2>5. StackOwned'  BY <2>1 DEF StackOwned
  <2>6. QED  BY <2>1, <2>2, <2>3, <2>4, <2>5
<1>7. ASSUME fault = "none", StopJoined
      PROVE  (K = Fibers => fault' = "none") /\ PinParts(K)'
  <2>1. /\ \A u \in Threads : 
              (pc'[u] = pc[u]) \/ (pc[u] \notin BusyPoints /\ pc'[u] \notin BusyPoints)
        /\ cur' = cur /\ queue' = queue /\ fstate' = fstate /\ stack' = stack /\ fault' = fault
    BY <1>7 DEF StopJoined
  <2>2. HandsApart(K)' /\ QueueApart(K)'  BY <2>1 DEF HandsApart, QueueApart
  <2>3. QueuedHand(K)'  BY <2>1 DEF QueuedHand
  <2>4. ReadyToRun(K)'  BY <2>1 DEF ReadyToRun
  <2>5. StackOwned'  BY <2>1 DEF StackOwned
  <2>6. QED  BY <2>1, <2>2, <2>3, <2>4, <2>5
<1>8. ASSUME NEW t \in Threads, fault = "none", TakeTask(t)
      PROVE  (K = Fibers => fault' = "none") /\ PinParts(K)'
  <2>1. PICK i \in Runnable(t) : /\ cur' = [cur EXCEPT ![t] = queue[i].fiber]
                                 /\ queue' = RemoveAt(queue, i)
    BY <1>8 DEF TakeTask
  <2>2. /\ i \in 1..Len(queue) /\ queue \in Seq(Task) /\ Len(queue) \in Nat
        /\ queue[i].thread \in {AnyThread, t}
    BY <2>1, LenProperties DEF Runnable
  <2>3. /\ pc[t] = "take" /\ pc'[t] = "resume" /\ cur'[t] = queue[i].fiber
        /\ fstate' = fstate /\ stack' = stack /\ fault' = fault
        /\ \A u \in Threads : u # t => cur'[u] = cur[u] /\ pc'[u] = pc[u]
    BY <1>8, <2>1 DEF TakeTask
  <2>4. queue[i].fiber \in K =>
           \A u \in Threads : pc[u] \in BusyPoints => cur[u] # queue[i].fiber
    BY <2>2, <2>3 DEF QueuedHand
  <2>5. /\ Len(queue') = Len(queue) - 1
        /\ \A j \in 1..(Len(queue) - 1) : queue'[j] = IF j < i THEN queue[j] ELSE queue[j + 1]
    <3>1. /\ Len(RemoveAt(queue, i)) = Len(queue) - 1
          /\ \A j \in 1..(Len(queue) - 1) :
                RemoveAt(queue, i)[j] = IF j < i THEN queue[j] ELSE queue[j + 1]
      BY <2>2, RemoveAtProperties
    <3>2. QED  BY <3>1, <2>1
  <2>6. \A j \in 1..Len(queue') :
           \E k \in 1..Len(queue) : k # i /\ queue'[j] = queue[k] /\ k = IF j < i THEN j ELSE j + 1
    BY <2>2, <2>5
  <2>7. queue[i].fiber \in K => \A j \in 1..Len(queue') : queue'[j].fiber # queue[i].fiber
    BY <2>2, <2>6 DEF QueueApart
  <2>8. HandsApart(K)'  BY <2>3, <2>4 DEF HandsApart
  <2>9. QueueApart(K)'
    <3> SUFFICES ASSUME NEW j \in 1..Len(queue'), NEW l \in 1..Len(queue'),
                        queue'[j].fiber = queue'[l].fiber, queue'[j].fiber \in K
                 PROVE  j = l
      BY DEF QueueApart
    <3>1. PICK k \in 1..Len(queue) : queue'[j] = queue[k] /\ k = IF j < i THEN j ELSE j + 1
      BY <2>6
    <3>2. PICK m \in 1..Len(queue) : queue'[l] = queue[m] /\ m = IF l < i THEN l ELSE l + 1
      BY <2>6
    <3>3. k = m  BY <3>1, <3>2 DEF QueueApart
    <3>4. QED  BY <3>1, <3>2, <3>3, <2>2, <2>5
  <2>10. QueuedHand(K)'
    <3> SUFFICES ASSUME NEW j \in 1..Len(queue'), NEW u \in Threads,
                        pc'[u] \in BusyPoints, cur'[u] = queue'[j].fiber, cur'[u] \in K
                 PROVE  /\ pc'[u] \in {"resubmitted", "switch", "release"}
                        /\ pc'[u] # "resubmitted" => fstate'[cur'[u]] = "READY"
                        /\ \A v \in Threads : v # u => queue'[j].thread \notin {AnyThread, v}
      BY DEF QueuedHand
    <3>1. u # t  BY <2>3, <2>7
    <3>2. PICK k \in 1..Len(queue) : queue'[j] = queue[k]  BY <2>6
    <3>3. QED  BY <3>1, <3>2, <2>3 DEF QueuedHand
  <2>11. ReadyToRun(K)'
    <3>1. \A j \in 1..Len(queue') : fstate'[queue'[j].fiber] # "NONE"
      BY <2>3, <2>6 DEF ReadyToRun
    <3>2. \A u \in Threads : /\ pc'[u] = "resume" /\ cur'[u] \in K => fstate'[cur'[u]] = "READY"
                             /\ pc'[u] \in BusyPoints => fstate'[cur'[u]] # "NONE"
      BY <2>2, <2>3, <2>4 DEF ReadyToRun
    <3>3. ASSUME NEW j \in 1..Len(queue'), queue'[j].fiber \in K,
                 \A u \in Threads : pc'[u] \in BusyPoints => cur'[u] # queue'[j].fiber
          PROVE  fstate'[queue'[j].fiber] = "READY"
      <4>1. PICK k \in 1..Len(queue) : queue'[j] = queue[k]  BY <2>6
      <4>2. \A u \in Threads : pc[u] \in BusyPoints => cur[u] # queue[k].fiber
        BY <3>3, <4>1, <2>3
      <4>3. QED  BY <3>3, <4>1, <4>2, <2>3 DEF ReadyToRun
    <3>4. QED  BY <3>1, <3>2, <3>3 DEF ReadyToRun
  <2>12. StackOwned'  BY <2>3 DEF StackOwned
  <2>13. QED  BY <2>3, <2>8, <2>9, <2>10, <2>11, <2>12
<1>9. ASSUME NEW t \in Threads, fault = "none", FindNoTask(t)
      PROVE  (K = Fibers => fault' = "none") /\ PinParts(K)'
  <2>1. /\ \A u \in Threads : 
              (pc'[u] = pc[u]) \/ (pc[u] \notin BusyPoints /\ pc'[u] \notin BusyPoints)
        /\ cur' = cur /\ queue' = queue /\ fstate' = fstate /\ stack' = stack /\ fault' = fault
    BY <1>9 DEF FindNoTask
  <2>2. HandsApart(K)' /\ QueueApart(K)'  BY <2>1 DEF HandsApart, QueueApart
  <2>3. QueuedHand(K)'  BY <2>1 DEF QueuedHand
  <2>4. ReadyToRun(K)'  BY <2>1 DEF ReadyToRun
  <2>5. StackOwned'  BY <2>1 DEF StackOwned
  <2>6. QED  BY <2>1, <2>2, <2>3, <2>4, <2>5
<1>10. ASSUME NEW t \in Threads, fault = "none", LeaveRun(t)
      PROVE  (K = Fibers => fault' = "none") /\ PinParts(K)'
  <2>1. /\ \A u \in Threads : 
              (pc'[u] = pc[u]) \/ (pc[u] \notin BusyPoints /\ pc'[u] \notin BusyPoints)
        /\ cur' = cur /\ queue' = queue /\ fstate' = fstate /\ stack' = stack /\ fault' = fault
    BY <1>10 DEF LeaveRun
  <2>2. HandsApart(K)' /\ QueueApart(K)'  BY <2>1 DEF HandsApart, QueueApart
  <2>3. QueuedHand(K)'  BY <2>1 DEF QueuedHand
  <2>4. ReadyToRun(K)'  BY <2>1 DEF ReadyToRun
  <2>5. StackOwned'  BY <2>1 DEF StackOwned
  <2>6. QED  BY <2>1, <2>2, <2>3, <2>4, <2>5
<1>11. ASSUME NEW t \in Threads, fault = "none", EnterIdle(t)
      PROVE  (K = Fibers => fault' = "none") /\ PinParts(K)'
  <2>1. /\ \A u \in Threads : 
              (pc'[u] = pc[u]) \/ (pc[u] \notin BusyPoints /\ pc'[u] \notin BusyPoints)
        /\ cur' = cur /\ queue' = queue /\ fstate' = fstate /\ stack' = stack /\ fault' = fault
    BY <1>11 DEF EnterIdle
  <2>2. HandsApart(K)' /\ QueueApart(K)'  BY <2>1 DEF HandsApart, QueueApart
  <2>3. QueuedHand(K)'  BY <2>1 DEF QueuedHand
  <2>4. ReadyToRun(K)'  BY <2>1 DEF ReadyToRun
  <2>5. StackOwned'  BY <2>1 DEF StackOwned
  <2>6. QED  BY <2>1, <2>2, <2>3, <2>4, <2>5
<1>12. ASSUME NEW t \in Threads, fault = "none", IdleCheck(t)
      PROVE  (K = Fibers => fault' = "none") /\ PinParts(K)'
  <2>1. /\ \A u \in Threads : 
              (pc'[u] = pc[u]) \/ (pc[u] \notin BusyPoints /\ pc'[u] \notin BusyPoints)
        /\ cur' = cur /\ queue' = queue /\ fstate' = fstate /\ stack' = stack /\ fault' = fault
    BY <1>12 DEF IdleCheck
  <2>2. HandsApart(K)' /\ QueueApart(K)'  BY <2>1 DEF HandsApart, QueueApart
  <2>3. QueuedHand(K)'  BY <2>1 DEF QueuedHand
  <2>4. ReadyToRun(K)'  BY <2>1 DEF ReadyToRun
  <2>5. StackOwned'  BY <2>1 DEF StackOwned
  <2>6. QED  BY <2>1, <2>2, <2>3, <2>4, <2>5
<1>13. ASSUME NEW t \in Threads, fault = "none", LeaveIdle(t)
      PROVE  (K = Fibers => fault' = "none") /\ PinParts(K)'
  <2>1. /\ \A u \in Threads : 
              (pc'[u] = pc[u]) \/ (pc[u] \notin BusyPoints /\ pc'[u] \notin BusyPoints)
        /\ cur' = cur /\ queue' = queue /\ fstate' = fstate /\ stack' = stack /\ fault' = fault
    BY <1>13 DEF LeaveIdle
  <2>2. HandsApart(K)' /\ QueueApart(K)'  BY <2>1 DEF HandsApart, QueueApart
  <2>3. QueuedHand(K)'  BY <2>1 DEF QueuedHand
  <2>4. ReadyToRun(K)'  BY <2>1 DEF ReadyToRun
  <2>5. StackOwned'  BY <2>1 DEF StackOwned
  <2>6. QED  BY <2>1, <2>2, <2>3, <2>4, <2>5
<1>14. ASSUME NEW t \in Threads, fault = "none", Resume(t)
      PROVE  (K = Fibers => fault' = "none") /\ PinParts(K)'
  <2>0. cur[t] \in Fibers /\ (cur[t] \in K => stack[cur[t]] = {})
    <3>1. cur[t] \in Fibers  BY <1>14 DEF Resume
    <3>2. cur[t] \in K => \A u \in stack[cur[t]] : u \in Threads /\ u = t
      BY <1>14, <3>1 DEF Resume, StackOwned, HandsApart
    <3>3. QED  BY <1>14, <3>1, <3>2 DEF Resume, StackOwned
  <2>1. HandsApart(K)' /\ QueueApart(K)'  BY <1>14 DEF Resume, HandsApart, QueueApart
  <2>2. QueuedHand(K)'  BY <1>14, <2>0 DEF Resume, QueuedHand, HandsApart
  <2>3. ReadyToRun(K)'  BY <1>14, <2>0 DEF Resume, ReadyToRun, HandsApart, QueuedHand
  <2>4. StackOwned'  BY <1>14, <2>0 DEF Resume, StackOwned
  <2>5. QED  BY <1>14, <2>0, <2>1, <2>2, <2>3, <2>4 DEF Resume
<1>15. ASSUME NEW t \in Threads, fault = "none", ResumeAbort(t)
      PROVE  (K = Fibers => fault' = "none") /\ PinParts(K)'
  <2>1. /\ queue' = queue /\ pc' = pc /\ cur' = cur /\ fstate' = fstate /\ stack' = stack
        /\ cur[t] \in Fibers /\ cur[t] \notin K
    BY <1>15 DEF ResumeAbort, ReadyToRun
  <2>2. PinParts(K)'
    BY <2>1 DEF HandsApart, QueueApart, QueuedHand, ReadyToRun, StackOwned
  <2>3. QED  BY <2>1, <2>2
<1>16. ASSUME NEW t \in Threads, fault = "none", FiberYield(t)
      PROVE  (K = Fibers => fault' = "none") /\ PinParts(K)'
  <2>0. cur[t] \in Fibers  BY <1>16 DEF FiberYield
  <2>1. HandsApart(K)' /\ QueueApart(K)'  BY <1>16 DEF FiberYield, HandsApart, QueueApart
  <2>2. QueuedHand(K)'  BY <1>16, <2>0 DEF FiberYield, QueuedHand, HandsApart, StackInv
  <2>3. ReadyToRun(K)'  BY <1>16, <2>0 DEF FiberYield, ReadyToRun, HandsApart, QueuedHand, StackInv
  <2>4. StackOwned'  BY <1>16, <2>0 DEF FiberYield, StackOwned
  <2>5. QED  BY <1>16, <2>1, <2>2, <2>3, <2>4 DEF FiberYield
<1>17. ASSUME NEW t \in Threads, fault = "none", FiberReturn(t)
      PROVE  (K = Fibers => fault' = "none") /\ PinParts(K)'
  <2>0. cur[t] \in Fibers  BY <1>17 DEF FiberReturn
  <2>1. HandsApart(K)' /\ QueueApart(K)'  BY <1>17 DEF FiberReturn, HandsApart, QueueApart
  <2>2. QueuedHand(K)'  BY <1>17, <2>0 DEF FiberReturn, QueuedHand, HandsApart
  <2>3. ReadyToRun(K)'  BY <1>17, <2>0 DEF FiberReturn, ReadyToRun, HandsApart, QueuedHand
  <2>4. StackOwned'  BY <1>17, <2>0 DEF FiberReturn, StackOwned
  <2>5. QED  BY <1>17, <2>1, <2>2, <2>3, <2>4 DEF FiberReturn
<1>18. ASSUME NEW t \in Threads, fault = "none", Switch(t)
      PROVE  (K = Fibers => fault' = "none") /\ PinParts(K)'
  <2>0. cur[t] \in Fibers  BY <1>18 DEF Switch
  <2>1. HandsApart(K)' /\ QueueApart(K)'  BY <1>18 DEF Switch, HandsApart, QueueApart
  <2>2. QueuedHand(K)'  BY <1>18, <2>0 DEF Switch, QueuedHand, HandsApart
  <2>3. ReadyToRun(K)'  BY <1>18, <2>0 DEF Switch, ReadyToRun, HandsApart, QueuedHand
  <2>4. StackOwned'  BY <1>18, <2>0 DEF Switch, StackOwned
  <2>5. QED  BY <1>18, <2>1, <2>2, <2>3, <2>4 DEF Switch
<1>19. ASSUME NEW t \in Threads, fault = "none", Release(t)
      PROVE  (K = Fibers => fault' = "none") /\ PinParts(K)'
  <2>0. cur[t] \in Fibers  BY <1>19 DEF Release
  <2>1. HandsApart(K)' /\ QueueApart(K)'  BY <1>19 DEF Release, HandsApart, QueueApart
  <2>2. QueuedHand(K)'  BY <1>19, <2>0 DEF Release, QueuedHand, HandsApart
  <2>3. ReadyToRun(K)'  BY <1>19, <2>0 DEF Release, ReadyToRun, HandsApart, QueuedHand
  <2>4. StackOwned'  BY <1>19, <2>0 DEF Release, StackOwned
  <2>5. QED  BY <1>19, <2>1, <2>2, <2>3, <2>4 DEF Release
<1>20. ASSUME NEW t \in Threads, NEW target \in {t, AnyThread}, fault = "none", FiberResubmit(t, target)
      PROVE  (K = Fibers => fault' = "none") /\ PinParts(K)'
  <2>0. /\ pc[t] = "running" /\ pc'[t] = "resubmitted" /\ cur[t] \in Fibers
        /\ cur' = cur /\ stack' = stack /\ fault' = fault /\ fstate' = fstate
        /\ \A u \in Threads : u # t => pc'[u] = pc[u]
    BY <1>20 DEF FiberResubmit
  <2>1. cur[t] \in K => \A i \in 1..Len(queue) : queue[i].fiber # cur[t]
    BY <2>0 DEF QueuedHand
  <2>2. target \in Threads \cup {AnyThread}  OBVIOUS
  <2>3. /\ Len(queue') = Len(queue) + 1 /\ Len(queue) \in Nat
        /\ \A i \in 1..Len(queue) : queue'[i] = queue[i]
        /\ queue'[Len(queue) + 1] = [fiber |-> cur[t], thread |-> target]
    BY <1>20, <2>0, <2>2, AppendedQueue DEF FiberResubmit
  <2>4. cur[t] \in K => \A u \in Threads : u # t => target \notin {AnyThread, u}
    BY <1>20, SchedulerAssumption DEF FiberResubmit, Kept
  <2>5. /\ queue'[Len(queue) + 1].fiber = cur[t] /\ queue'[Len(queue) + 1].thread = target
        /\ \A i \in 1..Len(queue') : i \in 1..Len(queue) \/ i = Len(queue) + 1
    BY <2>3
  <2>6. HandsApart(K)'  BY <2>0 DEF HandsApart
  <2>7. QueueApart(K)'  BY <2>1, <2>3, <2>5 DEF QueueApart
  <2>8. QueuedHand(K)'
    <3> SUFFICES ASSUME NEW j \in 1..Len(queue'), NEW u \in Threads,
                        pc'[u] \in BusyPoints, cur'[u] = queue'[j].fiber, cur'[u] \in K
                 PROVE  /\ pc'[u] \in {"resubmitted", "switch", "release"}
                        /\ pc'[u] # "resubmitted" => fstate'[cur'[u]] = "READY"
                        /\ \A v \in Threads : v # u => queue'[j].thread \notin {AnyThread, v}
      BY DEF QueuedHand
    <3>1. CASE j = Len(queue) + 1
      <4>1. u = t  BY <3>1, <2>0, <2>5 DEF HandsApart
      <4>2. QED  BY <3>1, <4>1, <2>0, <2>4, <2>5
    <3>2. CASE j \in 1..Len(queue)
      <4>1. u # t  BY <3>2, <2>0, <2>1, <2>3
      <4>2. queue'[j] = queue[j] /\ cur'[u] = cur[u] /\ pc'[u] = pc[u] /\ fstate' = fstate
        BY <3>2, <4>1, <2>0, <2>3
      <4>3. QED  BY <3>2, <4>2 DEF QueuedHand
    <3>3. QED  BY <3>1, <3>2, <2>5
  <2>9. ReadyToRun(K)'
    <3>1. \A u \in Threads : /\ pc'[u] = "resume" /\ cur'[u] \in K => fstate'[cur'[u]] = "READY"
                             /\ pc'[u] \in BusyPoints => fstate'[cur'[u]] # "NONE"
      BY <2>0 DEF ReadyToRun
    <3>2. ASSUME NEW j \in 1..Len(queue')
          PROVE  fstate'[queue'[j].fiber] # "NONE"
      BY <2>0, <2>3, <2>5 DEF ReadyToRun
    <3>3. ASSUME NEW j \in 1..Len(queue'), queue'[j].fiber \in K,
                 \A u \in Threads : pc'[u] \in BusyPoints => cur'[u] # queue'[j].fiber
          PROVE  fstate'[queue'[j].fiber] = "READY"
      <4>1. j \in 1..Len(queue) /\ queue'[j] = queue[j]  BY <3>3, <2>0, <2>3, <2>5
      <4>2. \A u \in Threads : pc[u] \in BusyPoints => cur[u] # queue[j].fiber
        BY <3>3, <4>1, <2>0
      <4>3. QED  BY <3>3, <4>1, <4>2, <2>0 DEF ReadyToRun
    <3>4. QED  BY <3>1, <3>2, <3>3 DEF ReadyToRun
  <2>10. StackOwned'  BY <2>0 DEF StackOwned
  <2>11. QED  BY <2>0, <2>6, <2>7, <2>8, <2>9, <2>10
<1>21. QED
  BY <1>1, <1>2, <1>3, <1>4, <1>5, <1>6, <1>7, <1>8, <1>9, <1>10,
     <1>11, <1>12, <1>13, <1>14, <1>15, <1>16, <1>17, <1>18, <1>19, <1>20
     DEF Next, SubmitStep, StopStep, RunStep, Finished

\* The invariant of the fibers of K is inductive.
LEMMA KeptInductive ==
    ASSUME NEW K, Kept(K)
    PROVE  /\ Init => PinInv(K)
           /\ PinInv(K) /\ [Next]_vars => PinInv(K)'
<1>1. Init => PinInv(K)
  <2> SUFFICES ASSUME Init PROVE PinInv(K)  OBVIOUS
  <2>1. IInv  BY InitIInv
  <2>2. QED  BY <2>1 DEF Init, PinInv, PinParts, HandsApart, QueueApart, QueuedHand,
                         ReadyToRun, StackOwned, BusyPoints
<1>2. PinInv(K) /\ [Next]_vars => PinInv(K)'
  BY Kept(K), NextIInv, PinStep DEF PinInv
<1>3. QED  BY <1>1, <1>2

\* A fiber that names its own thread when it re-submits itself is READY whenever
\* it is resumed, and no two threads are on its stack, whatever the other fibers
\* of the pool do (fiber.cpp:115-150).
THEOREM PinnedExclusive == Spec => [](PinnedFindsReady /\ PinnedOwnsStack)
<1>0. Kept(PinnedFibers)  BY SchedulerAssumption DEF Kept
<1> DEFINE I == PinInv(PinnedFibers)
<1>1. (Init => I) /\ (I /\ [Next]_vars => I')  BY <1>0, KeptInductive
<1>2. PinInv(PinnedFibers) => PinnedFindsReady
  BY DEF PinInv, PinParts, ReadyToRun, PinnedFindsReady
<1>3. PinInv(PinnedFibers) => PinnedOwnsStack
  <2> SUFFICES ASSUME PinInv(PinnedFibers), NEW f \in PinnedFibers
               PROVE  Cardinality(stack[f]) <= 1
    BY DEF PinnedOwnsStack
  <2>0. f \in Fibers /\ stack[f] \subseteq Threads
    BY SchedulerAssumption DEF PinInv, IInv, TypeOK
  <2>1. \A t, u \in stack[f] : t = u
    BY <2>0 DEF PinInv, PinParts, StackOwned, HandsApart, BusyPoints
  <2>2. CASE stack[f] = {}  BY <2>2, FS_EmptySet
  <2>3. CASE stack[f] # {}
    <3>1. PICK t \in stack[f] : TRUE  BY <2>3
    <3>2. stack[f] = {t}  BY <2>1, <3>1
    <3>3. Cardinality({t}) = 1  BY FS_Singleton
    <3>4. QED  BY <3>2, <3>3
  <2>4. QED  BY <2>2, <2>3
<1>4. I => PinnedFindsReady /\ PinnedOwnsStack  BY <1>2, <1>3
<1> HIDE DEF I
<1>5. QED  BY <1>1, <1>4, PTL DEF Spec

\* A pool with one scheduling thread, or whose fibers all name their own thread
\* when they re-submit themselves, never fails the assertion of Fiber::resume.
THEOREM ResumeNeverAsserts ==
    ASSUME Fibers \subseteq PinnedFibers \/ \A t, u \in Threads : t = u
    PROVE  Spec => []ResumeFindsReady
<1>0. Kept(Fibers)  BY DEF Kept
<1> DEFINE I == PinInv(Fibers)
<1>1. (Init => I) /\ (I /\ [Next]_vars => I')  BY <1>0, KeptInductive
<1>2. I => ResumeFindsReady  BY DEF PinInv, ResumeFindsReady
<1> HIDE DEF I
<1>3. QED  BY <1>1, <1>2, PTL DEF Spec

----------------------------------------------------------------------------
(***************************************************************************)
(* The scheduler implements the task pool.                                 *)
(***************************************************************************)
\* Before the pool has closed, and while it has not faulted, a change of one
\* fiber's state is a change of one task.
LEMMA OneTask ==
    ASSUME TypeOK, NEW f \in Fibers, NEW s \in {"NONE", "READY", "RUNNING", "TERM"},
           fstate' = [fstate EXCEPT ![f] = s]
    PROVE  PoolStatus' = [PoolStatus EXCEPT ![f] =
                CASE s = "NONE" -> "new" [] s = "READY" -> "pending"
                  [] s = "RUNNING" -> "running" [] OTHER -> "done"]
BY DEF PoolStatus, TypeOK

\* A step that leaves the fibers' states and the owner alone is not seen.
LEMMA Unseen ==
    ASSUME UNCHANGED <<fstate, mpc>>
    PROVE  UNCHANGED Pool!vars
BY DEF Pool!vars, PoolStatus, PoolPhase

\* A thread that is in run() keeps the pool from being closed.
LEMMA NotClosed ==
    ASSUME IInv, NEW t \in Threads, pc[t] # "exit"
    PROVE  PoolPhase # "closed" /\ (PoolPhase = "open" \/ PoolPhase = "closing")
BY DEF IInv, PhaseInv, TypeOK, PoolPhase

\* Every step of the scheduler is a step of the pool, or is not seen.
LEMMA PoolStep ==
    ASSUME IInv, [Next]_vars, StopComplete'
    PROVE  [Pool!Next]_(Pool!vars)
<1> TypeOK /\ HandInv /\ PhaseInv /\ StackInv  BY DEF IInv
<1>1. CASE UNCHANGED vars  BY <1>1, Unseen DEF vars, fiberVars, mainVars
<1>2. ASSUME NEW f \in Fibers, NEW target \in Threads \cup {AnyThread}, OwnerSubmit(f, target)
      PROVE  Pool!Next
  <2>1. PoolStatus' = [PoolStatus EXCEPT ![f] = "pending"]
    BY <1>2, OneTask DEF OwnerSubmit, SubmitNew
  <2>2. PoolStatus[f] = "new" /\ PoolPhase = "open" /\ PoolPhase' = PoolPhase
    BY <1>2 DEF OwnerSubmit, SubmitNew, PoolStatus, PoolPhase, mainVars
  <2>3. QED  BY <2>1, <2>2 DEF Pool!Next, Pool!Submit
<1>3. ASSUME NEW t \in Threads, NEW f \in Fibers, NEW target \in Threads \cup {AnyThread},
             fault = "none", FiberSubmit(t, f, target)
      PROVE  Pool!Next
  <2>1. PoolStatus' = [PoolStatus EXCEPT ![f] = "pending"]
    BY <1>3, OneTask DEF FiberSubmit, SubmitNew
  <2>2. PoolStatus[f] = "new" /\ PoolPhase' = PoolPhase
    BY <1>3 DEF FiberSubmit, SubmitNew, PoolStatus, PoolPhase, mainVars
  <2>3. cur[t] \in Fibers /\ PoolStatus[cur[t]] = "running"
    BY <1>3 DEF FiberSubmit, HandInv, StackInv, BusyPoints, PoolStatus
  <2>4. PoolPhase = "open" \/ PoolPhase = "closing"
    BY <1>3, NotClosed DEF FiberSubmit
  <2>5. QED  BY <2>1, <2>2, <2>3, <2>4 DEF Pool!Next, Pool!Submit
<1>4. CASE Start
  <2>1. PoolStatus' = PoolStatus  BY <1>4 DEF Start, fiberVars, PoolStatus
  <2>2. PoolPhase' = PoolPhase  BY <1>4 DEF Start, PoolPhase
  <2>3. QED  BY <2>1, <2>2 DEF Pool!vars
<1>5. CASE StopBegin
  <2>1. PoolStatus' = PoolStatus  BY <1>5 DEF StopBegin, fiberVars, PoolStatus
  <2>2. PoolPhase = "open" /\ PoolPhase' = "closing"  BY <1>5 DEF StopBegin, PoolPhase
  <2>3. QED  BY <2>1, <2>2 DEF Pool!Next, Pool!Close
<1>6. CASE StopRootDone
  <2>1. PoolStatus' = PoolStatus  BY <1>6 DEF StopRootDone, fiberVars, PoolStatus
  <2>2. PoolPhase' = PoolPhase  BY <1>6 DEF StopRootDone, PoolPhase
  <2>3. QED  BY <2>1, <2>2 DEF Pool!vars
<1>7. CASE StopJoined
  <2>1. PoolStatus' = PoolStatus /\ fstate' = fstate  BY <1>7 DEF StopJoined, fiberVars, PoolStatus
  <2>2. PoolPhase = "closing" /\ PoolPhase' = "closed"  BY <1>7 DEF StopJoined, PoolPhase
  <2>3. \A f \in Fibers : fstate[f] \in {"NONE", "TERM"}
    BY <1>7, <2>1 DEF StopJoined, StopComplete
  <2>4. \A f \in Fibers : PoolStatus[f] \in {"new", "done"}  BY <2>3 DEF PoolStatus
  <2>5. QED  BY <2>1, <2>2, <2>4 DEF Pool!Next, Pool!Closed
<1>8. ASSUME NEW t \in Threads,
             \/ TakeTask(t) \/ FindNoTask(t) \/ LeaveRun(t) \/ EnterIdle(t) \/ IdleCheck(t)
             \/ LeaveIdle(t) \/ ResumeAbort(t) \/ Switch(t) \/ Release(t)
             \/ \E target \in {t, AnyThread} : FiberResubmit(t, target)
      PROVE  UNCHANGED Pool!vars
  <2>1. UNCHANGED <<fstate, mpc>>
    BY <1>8 DEF TakeTask, FindNoTask, LeaveRun, EnterIdle, IdleCheck, LeaveIdle, ResumeAbort,
                Switch, Release, FiberResubmit, fiberVars, mainVars
  <2>2. QED  BY <2>1, Unseen
<1>9. ASSUME NEW t \in Threads, Resume(t)
      PROVE  Pool!Next
  <2>1. cur[t] \in Fibers  BY <1>9 DEF Resume, HandInv, BusyPoints
  <2>2. PoolStatus' = [PoolStatus EXCEPT ![cur[t]] = "running"]
    BY <1>9, <2>1, OneTask DEF Resume
  <2>3. PoolStatus[cur[t]] = "pending" /\ PoolPhase' = PoolPhase
    BY <1>9, <2>1 DEF Resume, PoolStatus, PoolPhase, mainVars
  <2>4. PoolPhase # "closed"  BY <1>9, NotClosed DEF Resume
  <2>5. QED  BY <2>1, <2>2, <2>3, <2>4 DEF Pool!Next, Pool!Begin
<1>10. ASSUME NEW t \in Threads, fault = "none", FiberYield(t) \/ FiberReturn(t)
       PROVE  Pool!Next
  <2>1. cur[t] \in Fibers /\ fstate[cur[t]] = "RUNNING"
    BY <1>10 DEF FiberYield, FiberReturn, HandInv, StackInv, BusyPoints
  <2>2. PICK s \in {"READY", "TERM"} : fstate' = [fstate EXCEPT ![cur[t]] = s]
    BY <1>10, <2>1 DEF FiberYield, FiberReturn
  <2>3. PICK v \in {"pending", "done"} : PoolStatus' = [PoolStatus EXCEPT ![cur[t]] = v]
    BY <2>1, <2>2, OneTask
  <2>4. PoolStatus[cur[t]] = "running" /\ PoolPhase' = PoolPhase
    BY <1>10, <2>1 DEF FiberYield, FiberReturn, PoolStatus, PoolPhase, mainVars
  <2>5. QED  BY <2>1, <2>3, <2>4 DEF Pool!Next, Pool!End
<1>11. QED
  BY <1>1, <1>2, <1>3, <1>4, <1>5, <1>6, <1>7, <1>8, <1>9, <1>10
     DEF Next, SubmitStep, StopStep, RunStep, Finished

\* The scheduler implements the task pool its user sees: a task is begun only
\* when it is pending and ended only by the thread that runs it, nobody submits
\* to a closed pool, and stop() closes it only when every submitted task is done
\* (scheduler.h:51-54; scheduler.cpp:99-214).
THEOREM PoolIsImplemented == Spec => ImplementsPool
<1>1. Init => Pool!Init  BY DEF Init, Pool!Init, PoolStatus, PoolPhase
<1>2. IInv /\ [Next]_vars /\ StopComplete' => [Pool!Next]_(Pool!vars)  BY PoolStep
<1>3. QED  BY <1>1, <1>2, Invariance, StopIsComplete, PTL DEF Spec, ImplementsPool, Pool!Spec
=============================================================================
