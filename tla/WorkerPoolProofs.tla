--------------------------- MODULE WorkerPoolProofs ---------------------------
(***************************************************************************)
(* Proofs about the worker pool, for any number of workers, callers, task  *)
(* addresses and allocations: its invariants and action properties, that   *)
(* it implements the task service (every initial state of the pool is one  *)
(* of the service, and every step of the pool a step of the service or     *)
(* none), and that one worker serves the queues in their order.            *)
(***************************************************************************)
EXTENDS WorkerPoolRefinement, FiniteSetTheorems, TLAPS

USE PoolAssumption DEF wakeAll, Remaining

-----------------------------------------------------------------------------
(* Facts about the helpers the actions are built from. *)

\* Entering a task into a queue, at either end, gives a queue of tasks.
LEMMA EnqueueType ==
  ASSUME NEW q \in Seq(Tasks), NEW a \in Tasks, NEW order \in Orders
  PROVE  Enqueue(q, a, order) \in Seq(Tasks)
BY DEF Enqueue, Orders

\* Allocating an object keeps the type of the heap and of its history.
LEMMA HeapType ==
  ASSUME TypeOK, NEW a \in Tasks, NEW kind \in {"auto", "keep"}, New(a, kind)
  PROVE  /\ heap' \in [Tasks -> {"free", "auto", "keep"}]
         /\ created' \in Nat
         /\ executed' \subseteq Tasks
BY DEF New, TypeOK, PoolOK

\* A worker that leaves the locked region with a task.
LEMMA ExecuteType ==
  ASSUME TypeOK, NEW w \in Workers, NEW a \in Tasks, Execute(w, a)
  PROVE  ThreadsOK'
BY DEF Execute, At, TypeOK, ThreadsOK, Threads

\* Every step of the system is one of the operations below, by a thread that
\* may perform it; the proofs of invariance go through this list.
Step ==
  \/ \E t \in Threads, a \in Tasks, order \in Orders :
        AssignLo(t, a, order) \/ AssignHi(t, a, order)
  \/ \E c \in Callers, a \in Tasks : RunSingle(c, a)
  \/ \E c \in Callers : PostSingle(c) \/ JoinSingle(c)
  \/ \E c \in Owners : OwnerStep(c)
  \/ \E w \in Workers : WorkerStep(w)

\* Every step of the specification is a Step.
LEMMA NextIsStep == Next => Step
BY DEF Next, Step, AssignStep, SingleStep, Threads, Orders

-----------------------------------------------------------------------------
(* Type correctness. *)

\* The state of the pool and of its threads keeps its type.
LEMMA TypeInductive == TypeOK /\ [Next]_vars => TypeOK'
<1> SUFFICES ASSUME TypeOK, [Next]_vars PROVE TypeOK'
  OBVIOUS
<1> USE DEF lockVars, modeVars, singleVars, queueVars, doneVars, heapVars
<1>0. CASE UNCHANGED vars
  BY <1>0 DEF TypeOK, ThreadsOK, PoolOK, vars
<1> SUFFICES ASSUME Step PROVE ThreadsOK' /\ PoolOK'
  BY <1>0, NextIsStep DEF TypeOK
<1>a. ThreadsOK /\ PoolOK
  BY DEF TypeOK
<1> USE <1>a DEF Threads
<1>1. ASSUME NEW t \in Threads, NEW a \in Tasks, NEW order \in Orders,
             AssignLo(t, a, order)
      PROVE  ThreadsOK' /\ PoolOK'
  <2>1. Enqueue(m_tasksLo, a, order) \in Seq(Tasks)
    BY EnqueueType DEF PoolOK
  <2>2. heap' \in [Tasks -> {"free", "auto", "keep"}] /\ created' \in Nat
        /\ executed' \subseteq Tasks
    BY <1>1, HeapType DEF AssignLo
  <2>3. ThreadsOK'
    BY <1>1 DEF AssignLo, ThreadsOK
  <2> QED BY <1>1, <2>1, <2>2, <2>3 DEF AssignLo, PoolOK
<1>2. ASSUME NEW t \in Threads, NEW a \in Tasks, NEW order \in Orders,
             AssignHi(t, a, order)
      PROVE  ThreadsOK' /\ PoolOK'
  <2>1. Enqueue(m_tasksHi, a, order) \in Seq(Tasks)
    BY EnqueueType DEF PoolOK
  <2>2. heap' \in [Tasks -> {"free", "auto", "keep"}] /\ created' \in Nat
        /\ executed' \subseteq Tasks
    BY <1>2, HeapType DEF AssignHi
  <2>3. ThreadsOK'
    BY <1>2 DEF AssignHi, ThreadsOK
  <2> QED BY <1>2, <2>1, <2>2, <2>3 DEF AssignHi, PoolOK
<1>3. ASSUME NEW c \in Callers, NEW a \in Tasks, RunSingle(c, a)
      PROVE  ThreadsOK' /\ PoolOK'
  <2>1. heap' \in [Tasks -> {"free", "auto", "keep"}] /\ created' \in Nat
        /\ executed' \subseteq Tasks
    BY <1>3, HeapType DEF RunSingle
  <2>2. ThreadsOK'
    BY <1>3 DEF RunSingle, ThreadsOK
  <2> QED BY <1>3, <2>1, <2>2 DEF RunSingle, PoolOK
<1>4. ASSUME NEW c \in Callers, PostSingle(c) PROVE ThreadsOK' /\ PoolOK'
  <2>1. ThreadsOK'
    BY <1>4 DEF PostSingle, At, ThreadsOK
  <2>2. PoolOK'
    BY <1>4 DEF PostSingle, At, ThreadsOK, PoolOK
  <2> QED BY <2>1, <2>2
<1>5. ASSUME NEW c \in Callers, JoinSingle(c) PROVE ThreadsOK' /\ PoolOK'
  <2>1. ThreadsOK'
    BY <1>5 DEF JoinSingle, At, ThreadsOK
  <2>2. heap' \in [Tasks -> {"free", "auto", "keep"}]
    BY <1>5 DEF JoinSingle, PoolOK
  <2> QED BY <1>5, <2>1, <2>2 DEF JoinSingle, PoolOK
<1>6. ASSUME NEW c \in Owners, OwnerStep(c) PROVE ThreadsOK' /\ PoolOK'
  <2>1. CASE Wait(c)
    <3>1. ThreadsOK'
      BY <2>1 DEF Wait, At, ThreadsOK
    <3>2. PoolOK'
      BY <2>1 DEF Wait, At, ThreadsOK, PoolOK
    <3> QED BY <3>1, <3>2
  <2>2. CASE Clear(c)
    <3>1. ThreadsOK'
      BY <2>2 DEF Clear, At, ThreadsOK
    <3>2. PoolOK'
      BY <2>2 DEF Clear, At, ThreadsOK, PoolOK
    <3> QED BY <3>1, <3>2
  <2>3. CASE Suspend(c)
    <3>1. ThreadsOK'
      BY <2>3 DEF Suspend, ThreadsOK
    <3>2. PoolOK'
      BY <2>3 DEF Suspend, ThreadsOK, PoolOK
    <3> QED BY <3>1, <3>2
  <2>4. CASE Resume(c)
    <3>1. ThreadsOK'
      BY <2>4 DEF Resume, ThreadsOK
    <3>2. PoolOK'
      BY <2>4 DEF Resume, ThreadsOK, PoolOK
    <3> QED BY <3>1, <3>2
  <2>5. CASE Start(c)
    <3>1. ThreadsOK'
      BY <2>5 DEF Start, ThreadsOK
    <3>2. PoolOK'
      BY <2>5 DEF Start, ThreadsOK, PoolOK
    <3> QED BY <3>1, <3>2
  <2>6. CASE Stop(c)
    <3>1. ThreadsOK'
      BY <2>6 DEF Stop, At, ThreadsOK
    <3>2. PoolOK'
      BY <2>6 DEF Stop, At, ThreadsOK, PoolOK
    <3> QED BY <3>1, <3>2
  <2>7. CASE Stopped(c)
    <3>1. ThreadsOK'
      BY <2>7 DEF Stopped, ThreadsOK
    <3>2. PoolOK'
      BY <2>7 DEF Stopped, ThreadsOK, PoolOK
    <3> QED BY <3>1, <3>2
  <2> QED BY <1>6, <2>1, <2>2, <2>3, <2>4, <2>5, <2>6, <2>7 DEF OwnerStep
<1>7. ASSUME NEW w \in Workers, WorkerStep(w) PROVE ThreadsOK' /\ PoolOK'
  <2>1. CASE WorkerExit(w)
    <3>1. ThreadsOK'
      BY <2>1 DEF WorkerExit, At, ThreadsOK
    <3>2. PoolOK'
      BY <2>1 DEF WorkerExit, At, ThreadsOK, PoolOK
    <3> QED BY <3>1, <3>2
  <2>2. CASE WorkerSleep(w)
    <3>1. ThreadsOK'
      BY <2>2 DEF WorkerSleep, ThreadsOK
    <3>2. PoolOK'
      BY <2>2 DEF WorkerSleep, ThreadsOK, PoolOK
    <3> QED BY <3>1, <3>2
  <2>3. CASE TakeSingle(w)
    <3>1. m_singleTask \in Tasks
      BY <2>3 DEF TakeSingle, SinglePending, PoolOK
    <3>2. ThreadsOK'
      BY <2>3, <3>1, ExecuteType DEF TakeSingle
    <3>3. PoolOK'
      BY <2>3, <3>1 DEF TakeSingle, Execute, PoolOK
    <3> QED BY <3>2, <3>3
  <2>4. CASE TakeHi(w)
    <3>1. Head(m_tasksHi) \in Tasks
      BY <2>4 DEF TakeHi, PoolOK
    <3>2. ThreadsOK'
      BY <2>4, <3>1, ExecuteType DEF TakeHi
    <3>3. PoolOK'
      BY <2>4, <3>1 DEF TakeHi, Execute, PoolOK
    <3> QED BY <3>2, <3>3
  <2>5. CASE TakeLo(w)
    <3>1. Head(m_tasksLo) \in Tasks
      BY <2>5 DEF TakeLo, PoolOK
    <3>2. ThreadsOK'
      BY <2>5, <3>1, ExecuteType DEF TakeLo
    <3>3. PoolOK'
      BY <2>5, <3>1 DEF TakeLo, Execute, PoolOK
    <3> QED BY <3>2, <3>3
  <2>6. CASE RunTask(w)
    <3>1. ThreadsOK'
      BY <2>6 DEF RunTask, ThreadsOK
    <3>2. PoolOK'
      BY <2>6 DEF RunTask, ThreadsOK, PoolOK
    <3> QED BY <3>1, <3>2
  <2>7. CASE Complete(w)
    <3>1. ThreadsOK'
      BY <2>7 DEF Complete, At, Signal, ThreadsOK
    <3>2. PoolOK'
      BY <2>7 DEF Complete, At, Signal, ThreadsOK, PoolOK
    <3> QED BY <3>1, <3>2
  <2> QED BY <1>7, <2>1, <2>2, <2>3, <2>4, <2>5, <2>6, <2>7 DEF WorkerStep
<1> QED BY <1>1, <1>2, <1>3, <1>4, <1>5, <1>6, <1>7 DEF Step

\* The constructor gives every member a value of its type.
LEMMA TypeInit == Init => TypeOK
<1> SUFFICES ASSUME Init PROVE ThreadsOK /\ PoolOK
  BY DEF TypeOK
<1>1. ThreadsOK
  BY DEF Init, ThreadsOK, Threads
<1>2. m_tasksHi \in Seq(Tasks) /\ m_tasksLo \in Seq(Tasks)
  BY DEF Init
<1>3. heap \in [Tasks -> {"free", "auto", "keep"}]
  BY DEF Init
<1>4. m_wake \subseteq Threads /\ m_dequeuedRunning \subseteq Tasks
      /\ executed \subseteq Tasks
  BY DEF Init
<1>5. m_terminating \in BOOLEAN /\ m_suspended \in BOOLEAN
      /\ unannounced \in BOOLEAN /\ cleared \in BOOLEAN
  BY DEF Init
<1>6. /\ m_lock \in Workers \cup {Null}
      /\ m_running \in Int
      /\ m_singleTask \in Tasks \cup {Null}
      /\ m_singleState \in {"PENDING", "EXECUTING", "FINISHED"}
      /\ created \in Nat
      /\ emitted \in {"none", "finished", "assignedFinished"}
  BY DEF Init
<1> QED BY <1>1, <1>2, <1>3, <1>4, <1>5, <1>6 DEF PoolOK

\* Type correctness of the pool.
THEOREM TypeCorrect == Spec => []TypeOK
BY TypeInit, TypeInductive, PTL DEF Spec

-----------------------------------------------------------------------------
(* The counter of running workers. *)

\* A step that neither takes a task nor completes one leaves the set of
\* executing workers alone, and the counter.
LEMMA SameExecuting ==
  ASSUME RunningCount, m_running' = m_running,
         \A w \in Workers : pc'[w] \in {"run", "done"} <=> pc[w] \in {"run", "done"}
  PROVE  RunningCount'
<1>1. Executing' = Executing
  BY DEF Executing
<1> QED BY <1>1 DEF RunningCount

\* The set of executing workers is finite, as the pool is.
LEMMA ExecutingFinite == IsFiniteSet(Executing)
BY FS_Subset DEF Executing

\* Taking a task adds its worker to the executing ones.
LEMMA ExecuteCount ==
  ASSUME TypeOK, RunningCount, NEW w \in Workers, NEW a, Execute(w, a)
  PROVE  RunningCount'
<1>1. w \notin Executing
  BY DEF Execute, At, Executing
<1>2. Executing' = Executing \cup {w}
  BY DEF Execute, At, Executing, TypeOK, ThreadsOK, Threads
<1>3. Cardinality(Executing \cup {w}) = Cardinality(Executing) + 1
  BY <1>1, ExecutingFinite, FS_AddElement
<1> QED BY <1>2, <1>3 DEF Execute, RunningCount

\* The counter counts the executing workers after every step.
LEMMA RunningInductive == TypeOK /\ RunningCount /\ [Next]_vars => RunningCount'
<1> SUFFICES ASSUME TypeOK, RunningCount, [Next]_vars PROVE RunningCount'
  OBVIOUS
<1> USE DEF lockVars, modeVars, singleVars, queueVars, doneVars, heapVars
<1>0. CASE UNCHANGED vars
  BY <1>0, SameExecuting DEF vars
<1> SUFFICES ASSUME Step PROVE RunningCount'
  BY <1>0, NextIsStep
<1>a. ThreadsOK
  BY DEF TypeOK
<1> USE <1>a DEF Threads
<1>1. ASSUME NEW t \in Threads, NEW a \in Tasks, NEW order \in Orders,
             AssignLo(t, a, order) \/ AssignHi(t, a, order)
      PROVE  RunningCount'
  BY <1>1, SameExecuting DEF AssignLo, AssignHi
<1>2. ASSUME NEW c \in Callers, NEW a \in Tasks, RunSingle(c, a)
      PROVE  RunningCount'
  BY <1>2, SameExecuting DEF RunSingle, ThreadsOK
<1>3. ASSUME NEW c \in Callers, PostSingle(c) \/ JoinSingle(c)
      PROVE  RunningCount'
  BY <1>3, SameExecuting DEF PostSingle, JoinSingle, ThreadsOK
<1>4. ASSUME NEW c \in Owners, OwnerStep(c) PROVE RunningCount'
  <2>1. CASE Start(c)
    BY <2>1, SameExecuting DEF Start, ThreadsOK
  <2>2. CASE Wait(c) \/ Stop(c) \/ Stopped(c)
    BY <2>2, SameExecuting DEF Wait, Stop, Stopped, ThreadsOK
  <2>3. CASE Clear(c) \/ Suspend(c) \/ Resume(c)
    BY <2>3, SameExecuting DEF Clear, Suspend, Resume
  <2> QED BY <1>4, <2>1, <2>2, <2>3 DEF OwnerStep
<1>5. ASSUME NEW w \in Workers, WorkerStep(w) PROVE RunningCount'
  <2>1. CASE WorkerExit(w)
    BY <2>1, SameExecuting DEF WorkerExit, At, ThreadsOK
  <2>2. CASE WorkerSleep(w)
    BY <2>2, SameExecuting DEF WorkerSleep
  <2>3. CASE TakeSingle(w) \/ TakeHi(w) \/ TakeLo(w)
    BY <2>3, ExecuteCount DEF TakeSingle, TakeHi, TakeLo
  <2>4. CASE RunTask(w)
    BY <2>4, SameExecuting DEF RunTask, ThreadsOK
  <2>5. CASE Complete(w)
    <3>1. w \in Executing
      BY <2>5 DEF Complete, At, Executing
    <3>2. Executing' = Executing \ {w}
      BY <2>5 DEF Complete, Executing, ThreadsOK
    <3>3. Cardinality(Executing \ {w}) = Cardinality(Executing) - 1
      BY <3>1, ExecutingFinite, FS_RemoveElement
    <3>4. m_running' = m_running - 1
      BY <2>5 DEF Complete
    <3> QED BY <3>2, <3>3, <3>4 DEF RunningCount
  <2> QED BY <1>5, <2>1, <2>2, <2>3, <2>4, <2>5 DEF WorkerStep
<1> QED BY <1>1, <1>2, <1>3, <1>4, <1>5 DEF Step

\* At first no worker executes a task and the counter is zero.
LEMMA RunningInit == Init => RunningCount
<1> SUFFICES ASSUME Init PROVE RunningCount
  OBVIOUS
<1>1. Executing = {}
  BY DEF Init, Executing, Threads
<1> QED BY <1>1, FS_EmptySet DEF Init, RunningCount

\* m_running is the number of workers that execute a task, in every reachable
\* state; in particular it is never negative.
THEOREM RunningCounted == Spec => []RunningCount
BY RunningInit, RunningInductive, TypeCorrect, PTL DEF Spec

-----------------------------------------------------------------------------
(* No wake-up is lost, when one thread controls the pool. *)

\* In the application the main thread alone calls wait() and clear().
OneOwner == \A c, d \in Owners : c = d

\* A sleeper of wait() is an owner, and nobody but a worker in its loop or a
\* caller in a waiting operation sleeps.
SleepersOK ==
  /\ NoLostWakeup
  /\ \A c \in Callers : pc[c] = "wait" => c \in Owners

\* There is work to do while a worker executes a task.
LEMMA ExecutingBusy ==
  ASSUME RunningCount, NEW w \in Workers, pc[w] \in {"run", "done"}
  PROVE  m_running > 0
<1>1. w \in Executing
  BY DEF Executing
<1>2. Cardinality(Executing) \in Nat /\ Cardinality(Executing) # 0
  BY <1>1, ExecutingFinite, FS_CardinalityType, FS_EmptySet
<1> QED BY <1>2 DEF RunningCount

\* Nobody sleeps after a wake-up.
LEMMA NobodySleeps ==
  ASSUME m_wake' = {} PROVE NoLostWakeup'
BY DEF NoLostWakeup

\* A step of thread s that does not touch what the sleepers wait for.
LEMMA SleepOn ==
  ASSUME NoLostWakeup, NEW s, s \notin m_wake,
         m_wake' \subseteq m_wake \cup {s}, s \in m_wake' => Justified(s)',
         \A t \in m_wake : pc'[t] = pc[t],
         Busy' = Busy, UNCHANGED <<modeVars, singleVars>>, Available' = Available
  PROVE  NoLostWakeup'
BY DEF NoLostWakeup, Justified, modeVars, singleVars

\* The conditions of the sleepers depend on these members of the pool only.
LEMMA SameConditions ==
  ASSUME UNCHANGED <<modeVars, singleVars, queueVars, m_running>>
  PROVE  Busy' = Busy /\ Available' = Available
BY DEF Busy, Available, SinglePending, QueuesEmpty, modeVars, singleVars, queueVars

\* No step loses a wake-up, and only owners are ever in wait().
LEMMA SleepersInductive ==
  ASSUME OneOwner, TypeOK, RunningCount, SleepersOK, [Next]_vars
  PROVE  SleepersOK'
<1> USE DEF lockVars, modeVars, singleVars, queueVars, doneVars, heapVars
<1>a. /\ NoLostWakeup
      /\ \A c \in Callers : pc[c] = "wait" => c \in Owners
      /\ ThreadsOK
      /\ m_wake \subseteq Threads
  BY DEF SleepersOK, TypeOK, PoolOK
<1>0. CASE UNCHANGED vars
  BY <1>0, SameConditions, <1>a
     DEF vars, SleepersOK, NoLostWakeup, Justified
<1>1. \A c \in Callers : pc'[c] = "wait" => c \in Owners
  <2>1. CASE Step
    <3>1. ASSUME NEW c \in Owners, OwnerStep(c)
          PROVE  \A d \in Callers : pc'[d] = "wait" => d \in Owners
      BY <3>1, <1>a DEF OwnerStep, Wait, Clear, Suspend, Resume, Start, Stop,
                        Stopped, ThreadsOK, Threads
    <3>2. ASSUME NEW w \in Workers, WorkerStep(w)
          PROVE  \A d \in Callers : pc'[d] = "wait" => d \in Owners
      BY <3>2, <1>a DEF WorkerStep, WorkerExit, WorkerSleep, TakeSingle, TakeHi,
                        TakeLo, Execute, RunTask, Complete, ThreadsOK, Threads
    <3> QED
      BY <2>1, <3>1, <3>2, <1>a DEF Step, AssignLo, AssignHi, RunSingle,
         PostSingle, JoinSingle, ThreadsOK, Threads
  <2> QED BY <1>0, <2>1, NextIsStep, <1>a DEF vars
<1>2. ASSUME Step PROVE NoLostWakeup'
  <2>1. ASSUME NEW t \in Threads, NEW a \in Tasks, NEW order \in Orders,
               AssignLo(t, a, order) \/ AssignHi(t, a, order)
        PROVE  NoLostWakeup'
    BY <2>1, NobodySleeps DEF AssignLo, AssignHi
  <2>2. ASSUME NEW c \in Callers, NEW a \in Tasks, RunSingle(c, a)
        PROVE  NoLostWakeup'
    <3>1. c \notin m_wake /\ m_wake' = m_wake /\ \A t \in m_wake : pc'[t] = pc[t]
      BY <2>2, <1>a DEF RunSingle, At, ThreadsOK
    <3>2. UNCHANGED <<modeVars, singleVars, queueVars, m_running>>
      BY <2>2 DEF RunSingle
    <3> QED BY <3>1, <3>2, <1>a, SameConditions, SleepOn
  <2>3. ASSUME NEW c \in Callers, PostSingle(c) PROVE NoLostWakeup'
    <3>1. CASE m_singleTask = Null
      BY <2>3, <3>1, NobodySleeps DEF PostSingle
    <3>2. CASE m_singleTask # Null
      <4>1. /\ c \notin m_wake /\ m_wake' = m_wake \cup {c} /\ pc' = pc
            /\ UNCHANGED <<modeVars, singleVars, queueVars, m_running>>
        BY <2>3, <3>2 DEF PostSingle, At
      <4>2. Justified(c)'
        BY <2>3, <3>2, <4>1 DEF PostSingle, At, Justified
      <4> QED BY <4>1, <4>2, <1>a, SameConditions, SleepOn
    <3> QED BY <3>1, <3>2
  <2>4. ASSUME NEW c \in Callers, JoinSingle(c) PROVE NoLostWakeup'
    <3>1. CASE m_singleState = "FINISHED"
      BY <2>4, <3>1, NobodySleeps DEF JoinSingle
    <3>2. CASE m_singleState # "FINISHED"
      <4>1. /\ c \notin m_wake /\ m_wake' = m_wake \cup {c} /\ pc' = pc
            /\ UNCHANGED <<modeVars, singleVars, queueVars, m_running>>
        BY <2>4, <3>2 DEF JoinSingle, At
      <4>2. Justified(c)'
        BY <2>4, <3>2, <4>1 DEF JoinSingle, At, Justified
      <4> QED BY <4>1, <4>2, <1>a, SameConditions, SleepOn
    <3> QED BY <3>1, <3>2
  <2>5. ASSUME NEW c \in Owners, OwnerStep(c) PROVE NoLostWakeup'
    <3>1. CASE Wait(c)
      <4>1. /\ c \notin m_wake /\ m_wake' \subseteq m_wake \cup {c}
            /\ \A t \in m_wake : pc'[t] = pc[t]
            /\ UNCHANGED <<modeVars, singleVars, queueVars, m_running>>
        BY <3>1, <1>a DEF Wait, At, ThreadsOK
      <4>2. c \in m_wake' => Justified(c)'
        <5>1. CASE Busy
          BY <3>1, <5>1, <4>1, SameConditions, <1>a
             DEF Wait, Justified, ThreadsOK, Threads
        <5>2. CASE ~Busy
          BY <3>1, <5>2, <4>1 DEF Wait
        <5> QED BY <5>1, <5>2
      <4> QED BY <4>1, <4>2, <1>a, SameConditions, SleepOn
    <3>2. CASE Clear(c)
      <4>1. ASSUME NEW t \in m_wake PROVE Justified(t)'
        <5>1. Justified(t) /\ t \in Threads
          BY <1>a DEF NoLostWakeup
        <5>2. pc[t] # "wait"
          BY <3>2, <1>a, <5>1 DEF Clear, At, OneOwner, ThreadsOK, Threads
        <5>3. ~Available => ~Available'
          BY <3>2 DEF Clear, Available, SinglePending, QueuesEmpty
        <5> QED BY <3>2, <5>1, <5>2, <5>3 DEF Clear, Justified
      <4> QED BY <3>2, <4>1 DEF Clear, NoLostWakeup
    <3>3. CASE Suspend(c)
      <4>1. ASSUME NEW t \in m_wake PROVE Justified(t)'
        BY <3>3, <1>a DEF NoLostWakeup, Suspend, Justified, Busy, Available,
                          QueuesEmpty
      <4> QED BY <3>3, <4>1 DEF Suspend, NoLostWakeup
    <3>4. CASE Resume(c) \/ Stop(c)
      BY <3>4, NobodySleeps DEF Resume, Stop
    <3>5. CASE Start(c)
      <4>1. ASSUME NEW t \in m_wake PROVE Justified(t)'
        <5>1. Justified(t) /\ t \in Threads
          BY <1>a DEF NoLostWakeup
        <5>2. t \notin Workers
          BY <3>5, <5>1 DEF Start, Justified
        <5>3. pc'[t] = pc[t] /\ pc[t] # "loop"
          BY <3>5, <5>1, <5>2, <1>a DEF Start, ThreadsOK, Threads
        <5> QED BY <3>5, <5>1, <5>3 DEF Start, Justified, Busy, QueuesEmpty
      <4> QED BY <3>5, <4>1 DEF Start, NoLostWakeup
    <3>6. CASE Stopped(c)
      <4>1. c \notin m_wake
        BY <3>6, <1>a DEF Stopped, NoLostWakeup, Justified
      <4>2. /\ m_wake' = m_wake /\ \A t \in m_wake : pc'[t] = pc[t]
            /\ UNCHANGED <<modeVars, singleVars, queueVars, m_running>>
        BY <3>6, <4>1, <1>a DEF Stopped, ThreadsOK
      <4> QED BY <4>1, <4>2, <1>a, SameConditions, SleepOn
    <3> QED BY <2>5, <3>1, <3>2, <3>3, <3>4, <3>5, <3>6 DEF OwnerStep
  <2>6. ASSUME NEW w \in Workers, WorkerStep(w) PROVE NoLostWakeup'
    <3>1. CASE WorkerExit(w)
      <4>1. /\ w \notin m_wake /\ m_wake' = m_wake
            /\ \A t \in m_wake : pc'[t] = pc[t]
            /\ UNCHANGED <<modeVars, singleVars, queueVars, m_running>>
        BY <3>1, <1>a DEF WorkerExit, At, ThreadsOK
      <4> QED BY <4>1, <1>a, SameConditions, SleepOn
    <3>2. CASE WorkerSleep(w)
      <4>1. /\ w \notin m_wake /\ m_wake' = m_wake \cup {w} /\ pc' = pc
            /\ UNCHANGED <<modeVars, singleVars, queueVars, m_running>>
        BY <3>2 DEF WorkerSleep, At
      <4>2. Justified(w)'
        BY <3>2, <4>1, SameConditions DEF WorkerSleep, At, Justified
      <4> QED BY <4>1, <4>2, <1>a, SameConditions, SleepOn
    <3>3. CASE TakeSingle(w) \/ TakeHi(w) \/ TakeLo(w)
      <4>1. PICK a : Execute(w, a)
        BY <3>3 DEF TakeSingle, TakeHi, TakeLo
      <4>2. Available
        BY <3>3, <4>1 DEF TakeSingle, TakeHi, TakeLo, Execute, Available,
                          QueuesEmpty
      <4>3. m_running' > 0
        <5>1. RunningCount'
          BY <4>1, ExecuteCount
        <5>2. Cardinality(Executing) \in Nat
          BY ExecutingFinite, FS_CardinalityType
        <5> QED BY <4>1, <5>2 DEF RunningCount, Execute
      <4>4. m_singleTask' = m_singleTask /\ m_wake' = m_wake
        BY <4>1 DEF Execute
      <4>5. m_singleState' # "FINISHED" \/ m_singleState' = m_singleState
        BY <3>3 DEF TakeSingle, TakeHi, TakeLo
      <4>6. ASSUME NEW t \in m_wake PROVE Justified(t)'
        <5>1. Justified(t) /\ t # w
          BY <1>a, <4>1 DEF NoLostWakeup, Execute, At
        <5>2. pc'[t] = pc[t]
          BY <4>1, <5>1, <1>a DEF Execute, ThreadsOK
        <5> QED BY <4>2, <4>3, <4>4, <4>5, <5>1, <5>2 DEF Justified, Busy
      <4> QED BY <4>4, <4>6 DEF NoLostWakeup
    <3>4. CASE RunTask(w)
      <4>1. w \notin m_wake
        BY <3>4, <1>a DEF RunTask, NoLostWakeup, Justified
      <4>2. /\ m_wake' = m_wake /\ \A t \in m_wake : pc'[t] = pc[t]
            /\ UNCHANGED <<modeVars, singleVars, queueVars, m_running>>
        BY <3>4, <4>1, <1>a DEF RunTask, ThreadsOK
      <4> QED BY <4>1, <4>2, <1>a, SameConditions, SleepOn
    <3>5. CASE Complete(w)
      BY <3>5, NobodySleeps DEF Complete
    <3> QED BY <2>6, <3>1, <3>2, <3>3, <3>4, <3>5 DEF WorkerStep
  <2> QED BY <1>2, <2>1, <2>2, <2>3, <2>4, <2>5, <2>6 DEF Step
<1> QED BY <1>0, <1>1, <1>2, NextIsStep DEF SleepersOK

\* At first nobody sleeps.
LEMMA SleepersInit == Init => SleepersOK
BY DEF Init, SleepersOK, NoLostWakeup, Threads

\* With one controlling thread, as in the application, no thread sleeps in the
\* pool without a reason: every step that makes the condition of a sleeper false
\* wakes it.
THEOREM WakeupsKept == ASSUME OneOwner PROVE Spec => []NoLostWakeup
<1>1. TypeOK /\ RunningCount /\ SleepersOK /\ [Next]_vars => SleepersOK'
  BY SleepersInductive
<1>2. SleepersOK => NoLostWakeup
  BY DEF SleepersOK
<1> QED BY <1>1, <1>2, SleepersInit, TypeCorrect, RunningCounted, PTL DEF Spec

-----------------------------------------------------------------------------
(***************************************************************************)
(* Who owns a task: the assertions of WorkerPool::run() hold, no pointer   *)
(* dangles, when no address is allocated again while a worker still        *)
(* compares it with the single task.                                       *)
(***************************************************************************)

NoReuse == AddressReuse = FALSE

-----------------------------------------------------------------------------
(* Queues as sets of tasks, each of them once. *)

Once(q) == \A i, j \in DOMAIN q : q[i] = q[j] => i = j

QueuedOnce ==
  /\ Once(m_tasksHi)
  /\ Once(m_tasksLo)
  /\ Elems(m_tasksHi) \cap Elems(m_tasksLo) = {}

\* A queued task is the pool's to delete and in nobody's hands.
QueuesOwn ==
  /\ QueuedOnce
  /\ \A a \in Queued : heap[a] = "auto" /\ \A t \in Threads : task[t] # a

\* A caller in runSingle() keeps its task, which no other caller has; the one
\* that joins is the one whose task is in the slot, and nothing runs a task that
\* has not been posted.
CallersOwn ==
  /\ \A c \in Callers : task[c] # Null => heap[task[c]] = "keep"
  /\ \A c, d \in Callers : task[c] # Null /\ task[c] = task[d] => c = d
  /\ \A c \in Callers : pc[c] = "join" => task[c] = m_singleTask
  /\ \A c \in Callers : pc[c] = "post" => task[c] \notin executed \cup {m_singleTask}
  /\ m_singleTask # Null => \E c \in Callers : pc[c] = "join"

\* Two workers never have the same task; what a worker runs is the single task
\* or one that the pool deletes when it has run.
WorkersOwn ==
  /\ \A v, w \in Workers : task[w] # Null /\ task[w] = task[v] => v = w
  /\ \A w \in Workers : task[w] # Null /\ ~IsSingle(w) =>
       heap[task[w]] = IF pc[w] = "run" THEN "auto" ELSE "free"

\* The state of the single task says who has it.
SlotOwns ==
  m_singleTask # Null =>
    /\ m_singleState = "PENDING" => m_singleTask \notin executed
    /\ m_singleState = "EXECUTING" <=> \E w \in Workers : IsSingle(w)
    /\ m_singleState = "FINISHED" => m_singleTask \in executed
    /\ \A w \in Workers : IsSingle(w) =>
         (pc[w] = "run" <=> m_singleTask \notin executed)

\* DequeuedRunning, address by address.
HoldersOwn ==
  \A a \in Tasks : a \in m_dequeuedRunning <=>
    a # m_singleTask /\ \E w \in Workers : task[w] = a

Ownership ==
  /\ QueuesOwn
  /\ CallersOwn
  /\ WorkersOwn
  /\ SlotOwns
  /\ HoldersOwn

-----------------------------------------------------------------------------
(* Facts about queues. *)

\* Entering a new task into a queue adds it to its elements.
LEMMA EnqueueElems ==
  ASSUME NEW q \in Seq(Tasks), NEW a \in Tasks, NEW order \in Orders,
         Once(q), a \notin Elems(q)
  PROVE  /\ Elems(Enqueue(q, a, order)) = Elems(q) \cup {a}
         /\ Once(Enqueue(q, a, order))
<1>1. CASE order = "APPEND"
  <2>1. Enqueue(q, a, order) = Append(q, a)
    BY <1>1 DEF Enqueue
  <2>2. /\ DOMAIN Append(q, a) = 1..Len(q) + 1
        /\ DOMAIN q = 1..Len(q) /\ Len(q) \in Nat
        /\ \A i \in 1..Len(q) : Append(q, a)[i] = q[i]
        /\ Append(q, a)[Len(q) + 1] = a
    OBVIOUS
  <2>3. Elems(Append(q, a)) = Elems(q) \cup {a}
    BY <2>2 DEF Elems
  <2>4. Once(Append(q, a))
    BY <2>2 DEF Elems, Once
  <2> QED BY <2>1, <2>3, <2>4
<1>2. CASE order # "APPEND"
  <2>1. Enqueue(q, a, order) = <<a>> \o q
    BY <1>2 DEF Enqueue
  <2>2. /\ DOMAIN (<<a>> \o q) = 1..Len(q) + 1
        /\ DOMAIN q = 1..Len(q) /\ Len(q) \in Nat
        /\ \A i \in 1..Len(q) : (<<a>> \o q)[i + 1] = q[i]
        /\ (<<a>> \o q)[1] = a
    OBVIOUS
  <2>3. \A i \in 1..Len(q) + 1 : i # 1 => (<<a>> \o q)[i] = q[i - 1] /\ i - 1 \in 1..Len(q)
    <3> SUFFICES ASSUME NEW i \in 1..Len(q) + 1, i # 1
                 PROVE  (<<a>> \o q)[i] = q[i - 1] /\ i - 1 \in 1..Len(q)
      OBVIOUS
    <3>1. i - 1 \in 1..Len(q) /\ (i - 1) + 1 = i
      BY <2>2
    <3> QED BY <3>1, <2>2
  <2> HIDE <1>2
  <2>4. Elems(<<a>> \o q) \subseteq Elems(q) \cup {a}
    BY <2>2, <2>3 DEF Elems
  <2>5. a \in Elems(<<a>> \o q)
    BY <2>2 DEF Elems
  <2>6. Elems(q) \subseteq Elems(<<a>> \o q)
    <3> SUFFICES ASSUME NEW i \in 1..Len(q) PROVE q[i] \in Elems(<<a>> \o q)
      BY <2>2 DEF Elems
    <3>1. i + 1 \in 1..Len(q) + 1
      BY <2>2
    <3> QED BY <3>1, <2>2 DEF Elems
  <2>7. Once(<<a>> \o q)
    BY <2>2, <2>3 DEF Elems, Once
  <2> QED BY <2>1, <2>4, <2>5, <2>6, <2>7
<1> QED BY <1>1, <1>2

\* Taking the head of a queue removes it from its elements.
LEMMA TailElems ==
  ASSUME NEW q \in Seq(Tasks), q # <<>>, Once(q)
  PROVE  /\ Head(q) \in Elems(q)
         /\ Elems(Tail(q)) = Elems(q) \ {Head(q)}
         /\ Once(Tail(q))
<1>1. /\ DOMAIN q = 1..Len(q) /\ Len(q) \in Nat /\ Len(q) # 0
      /\ DOMAIN Tail(q) = 1..Len(q) - 1
      /\ \A i \in 1..Len(q) - 1 : Tail(q)[i] = q[i + 1]
      /\ Head(q) = q[1]
  OBVIOUS
<1>2. 1 \in DOMAIN q
  BY <1>1
<1>3. \A i \in 1..Len(q) - 1 : i + 1 \in DOMAIN q /\ i + 1 # 1
  BY <1>1
<1>4. Elems(Tail(q)) \subseteq Elems(q) \ {Head(q)}
  BY <1>1, <1>2, <1>3 DEF Elems, Once
<1>5. ASSUME NEW i \in DOMAIN q, q[i] # Head(q) PROVE q[i] \in Elems(Tail(q))
  <2>1. i - 1 \in 1..Len(q) - 1 /\ (i - 1) + 1 = i
    BY <1>5, <1>1
  <2> QED BY <2>1, <1>1 DEF Elems
<1>6. Once(Tail(q))
  <2> SUFFICES ASSUME NEW i \in 1..Len(q) - 1, NEW j \in 1..Len(q) - 1, 
                      Tail(q)[i] = Tail(q)[j]
               PROVE  i = j
    BY <1>1 DEF Once
  <2>1. q[i + 1] = q[j + 1]
    BY <1>1
  <2>2. i + 1 = j + 1
    BY <2>1, <1>3 DEF Once
  <2> QED BY <2>2
<1>7. Elems(q) \ {Head(q)} \subseteq Elems(Tail(q))
  BY <1>5 DEF Elems
<1>8. Head(q) \in Elems(q)
  BY <1>1, <1>2 DEF Elems
<1> QED BY <1>4, <1>6, <1>7, <1>8

\* An empty queue has no elements.
LEMMA EmptyElems == Elems(<<>>) = {} /\ Once(<<>>)
BY DEF Elems, Once

-----------------------------------------------------------------------------
(* What the steps do to the queues and to the tasks in hand. *)

\* A task that is in no queue is entered into one of them.
LEMMA QueueAdds ==
  ASSUME TypeOK, QueuedOnce, NEW a \in Tasks, NEW order \in Orders, a \notin Queued,
         \/ m_tasksHi' = Enqueue(m_tasksHi, a, order) /\ UNCHANGED m_tasksLo
         \/ m_tasksLo' = Enqueue(m_tasksLo, a, order) /\ UNCHANGED m_tasksHi
  PROVE  QueuedOnce' /\ Queued' = Queued \cup {a}
<1>1. a \notin Elems(m_tasksHi) /\ a \notin Elems(m_tasksLo)
  BY DEF Queued
<1>2. m_tasksHi \in Seq(Tasks) /\ m_tasksLo \in Seq(Tasks)
  BY DEF TypeOK, PoolOK
<1>3. CASE m_tasksHi' = Enqueue(m_tasksHi, a, order) /\ UNCHANGED m_tasksLo
  <2>1. Elems(m_tasksHi') = Elems(m_tasksHi) \cup {a} /\ Once(m_tasksHi')
    BY <1>1, <1>2, <1>3, EnqueueElems DEF QueuedOnce
  <2> QED BY <2>1, <1>1, <1>3 DEF QueuedOnce, Queued
<1>4. CASE m_tasksLo' = Enqueue(m_tasksLo, a, order) /\ UNCHANGED m_tasksHi
  <2>1. Elems(m_tasksLo') = Elems(m_tasksLo) \cup {a} /\ Once(m_tasksLo')
    BY <1>1, <1>2, <1>4, EnqueueElems DEF QueuedOnce
  <2> QED BY <2>1, <1>1, <1>4 DEF QueuedOnce, Queued
<1> QED BY <1>3, <1>4

\* A worker takes the head of one of the queues.
LEMMA QueueTakes ==
  ASSUME TypeOK, QueuedOnce, NEW a,
         \/ /\ m_tasksHi # <<>> /\ a = Head(m_tasksHi)
            /\ m_tasksHi' = Tail(m_tasksHi) /\ UNCHANGED m_tasksLo
         \/ /\ m_tasksLo # <<>> /\ a = Head(m_tasksLo)
            /\ m_tasksLo' = Tail(m_tasksLo) /\ UNCHANGED m_tasksHi
  PROVE  QueuedOnce' /\ a \in Queued /\ Queued' = Queued \ {a}
<1>1. m_tasksHi \in Seq(Tasks) /\ m_tasksLo \in Seq(Tasks)
  BY DEF TypeOK, PoolOK
<1>2. CASE /\ m_tasksHi # <<>> /\ a = Head(m_tasksHi)
           /\ m_tasksHi' = Tail(m_tasksHi) /\ UNCHANGED m_tasksLo
  <2>1. /\ a \in Elems(m_tasksHi) /\ Once(m_tasksHi')
        /\ Elems(m_tasksHi') = Elems(m_tasksHi) \ {a}
    BY <1>1, <1>2, TailElems DEF QueuedOnce
  <2> QED BY <2>1, <1>2 DEF QueuedOnce, Queued
<1>3. CASE /\ m_tasksLo # <<>> /\ a = Head(m_tasksLo)
           /\ m_tasksLo' = Tail(m_tasksLo) /\ UNCHANGED m_tasksHi
  <2>1. /\ a \in Elems(m_tasksLo) /\ Once(m_tasksLo')
        /\ Elems(m_tasksLo') = Elems(m_tasksLo) \ {a}
    BY <1>1, <1>3, TailElems DEF QueuedOnce
  <2> QED BY <2>1, <1>3 DEF QueuedOnce, Queued
<1> QED BY <1>2, <1>3

\* The single task is kept by a caller, and in no queue.
LEMMA SingleKept ==
  ASSUME TypeOK, Ownership, m_singleTask # Null
  PROVE  /\ m_singleTask \in Tasks /\ m_singleTask \notin Queued
         /\ heap[m_singleTask] = "keep"
<1>1. PICK c \in Callers : pc[c] = "join" /\ task[c] = m_singleTask
  BY DEF Ownership, CallersOwn
<1>2. heap[m_singleTask] = "keep"
  BY <1>1 DEF Ownership, CallersOwn
<1>3. m_singleTask \notin Queued
  BY <1>1 DEF Ownership, QueuesOwn, Threads
<1> QED BY <1>2, <1>3 DEF TypeOK, PoolOK

\* A worker and a caller have the same task only if it is the single one.
LEMMA HandsApart ==
  ASSUME TypeOK, Ownership, NEW c \in Callers, NEW w \in Workers,
         task[c] # Null, task[c] = task[w]
  PROVE  IsSingle(w)
BY DEF Ownership, CallersOwn, WorkersOwn

\* A new object has an address that nobody has, as long as none is reused.
LEMMA NewFresh ==
  ASSUME NoReuse, TypeOK, Ownership, NEW a \in Tasks, NEW kind, New(a, kind)
  PROVE  /\ a \notin Queued
         /\ \A t \in Threads : task[t] # a
         /\ a # m_singleTask
         /\ heap' = [heap EXCEPT ![a] = kind]
         /\ executed' = executed \ {a}
<1>1. heap[a] = "free" /\ \A w \in Workers : task[w] # a
  BY DEF New, NoReuse
<1>2. a \notin Queued
  BY <1>1 DEF Ownership, QueuesOwn
<1>3. \A c \in Callers : task[c] # a
  BY <1>1 DEF Ownership, CallersOwn
<1>4. a # m_singleTask
  BY <1>1, SingleKept
<1> QED BY <1>1, <1>2, <1>3, <1>4 DEF New, Threads

-----------------------------------------------------------------------------
(* Every operation keeps the ownership. *)

\* Assigning a task, to either queue.
LEMMA AssignOwns ==
  ASSUME NoReuse, TypeOK, Ownership, NEW t \in Threads, NEW a \in Tasks,
         NEW order \in Orders, AssignLo(t, a, order) \/ AssignHi(t, a, order)
  PROVE  Ownership'
<1>1. /\ New(a, "auto")
      /\ UNCHANGED <<singleVars, m_dequeuedRunning, pc, task>>
  BY DEF AssignLo, AssignHi, doneVars
<1>2. /\ a \notin Queued
      /\ \A s \in Threads : task[s] # a
      /\ a # m_singleTask
      /\ heap' = [heap EXCEPT ![a] = "auto"]
      /\ executed' = executed \ {a}
  BY <1>1, NewFresh
<1>3. QueuedOnce' /\ Queued' = Queued \cup {a}
  BY <1>2, QueueAdds DEF AssignLo, AssignHi, Ownership, QueuesOwn
<1>4. heap \in [Tasks -> {"free", "auto", "keep"}] /\ ThreadsOK
  BY DEF TypeOK, PoolOK
<1>5. Queued \subseteq Tasks
  BY DEF TypeOK, PoolOK, Queued, Elems
<1>6. QueuesOwn'
  BY <1>1, <1>2, <1>3, <1>4, <1>5 DEF Ownership, QueuesOwn
<1>7. CallersOwn'
  BY <1>1, <1>2, <1>4 DEF Ownership, CallersOwn, singleVars, Threads, ThreadsOK
<1>8. WorkersOwn'
  BY <1>1, <1>2, <1>4 DEF Ownership, WorkersOwn, IsSingle, singleVars, Threads, ThreadsOK
<1>9. SlotOwns'
  BY <1>1, <1>2 DEF Ownership, SlotOwns, IsSingle, singleVars
<1>10. HoldersOwn'
  BY <1>1 DEF Ownership, HoldersOwn, singleVars
<1> QED BY <1>6, <1>7, <1>8, <1>9, <1>10 DEF Ownership

\* Making a task for runSingle().
LEMMA RunSingleOwns ==
  ASSUME NoReuse, TypeOK, Ownership, NEW c \in Callers, NEW a \in Tasks,
         RunSingle(c, a)
  PROVE  Ownership'
<1>1. /\ New(a, "keep") /\ pc[c] = "idle"
      /\ pc' = [pc EXCEPT ![c] = "post"]
      /\ task' = [task EXCEPT ![c] = a]
      /\ UNCHANGED <<singleVars, queueVars, m_dequeuedRunning>>
  BY DEF RunSingle, At, doneVars
<1>2. /\ a \notin Queued
      /\ \A s \in Threads : task[s] # a
      /\ a # m_singleTask
      /\ heap' = [heap EXCEPT ![a] = "keep"]
      /\ executed' = executed \ {a}
  BY <1>1, NewFresh
<1>3. QueuedOnce' /\ Queued' = Queued
  BY <1>1 DEF queueVars, Queued, QueuedOnce, Ownership, QueuesOwn
<1>4. /\ heap \in [Tasks -> {"free", "auto", "keep"}] /\ ThreadsOK /\ c \in Threads
      /\ a # Null /\ \A w \in Workers : w # c
  BY DEF TypeOK, PoolOK, Threads
<1>5. Queued \subseteq Tasks
  BY DEF TypeOK, PoolOK, Queued, Elems
<1>6. QueuesOwn'
  BY <1>1, <1>2, <1>3, <1>4, <1>5 DEF Ownership, QueuesOwn, ThreadsOK
<1>7. CallersOwn'
  <2>1. \A d \in Callers : task'[d] # Null => heap'[task'[d]] = "keep"
    BY <1>1, <1>2, <1>4 DEF Ownership, CallersOwn, ThreadsOK, Threads
  <2>2. \A d, e \in Callers : task'[d] # Null /\ task'[d] = task'[e] => d = e
    BY <1>1, <1>2, <1>4 DEF Ownership, CallersOwn, ThreadsOK, Threads
  <2>3. \A d \in Callers : pc'[d] = "join" => task'[d] = m_singleTask'
    BY <1>1, <1>2, <1>4 DEF Ownership, CallersOwn, ThreadsOK, Threads, singleVars
  <2>4. \A d \in Callers : pc'[d] = "post"
                            => task'[d] \notin executed' \cup {m_singleTask'}
    BY <1>1, <1>2, <1>4 DEF Ownership, CallersOwn, ThreadsOK, Threads, singleVars
  <2>5. m_singleTask' # Null => \E d \in Callers : pc'[d] = "join"
    BY <1>1, <1>2, <1>4 DEF Ownership, CallersOwn, ThreadsOK, Threads, singleVars
  <2> QED BY <2>1, <2>2, <2>3, <2>4, <2>5 DEF CallersOwn
<1>8. \A w \in Workers : task'[w] = task[w] /\ pc'[w] = pc[w]
  BY <1>1, <1>4 DEF ThreadsOK, Threads
<1>9. WorkersOwn'
  BY <1>1, <1>2, <1>4, <1>8
     DEF Ownership, WorkersOwn, IsSingle, singleVars, ThreadsOK, Threads
<1>10. SlotOwns'
  BY <1>1, <1>2, <1>8 DEF Ownership, SlotOwns, IsSingle, singleVars
<1>11. HoldersOwn'
  BY <1>1, <1>8 DEF Ownership, HoldersOwn, singleVars
<1> QED BY <1>6, <1>7, <1>9, <1>10, <1>11 DEF Ownership

\* Filling the slot, or going to sleep before it.
LEMMA PostSingleOwns ==
  ASSUME TypeOK, Ownership, NEW c \in Callers, PostSingle(c)
  PROVE  Ownership'
<1>1. /\ pc[c] = "post"
      /\ UNCHANGED <<queueVars, m_dequeuedRunning, heap, executed, task>>
  BY DEF PostSingle, At, doneVars, heapVars
<1>2. ThreadsOK /\ c \in Threads /\ \A w \in Workers : w # c
  BY DEF TypeOK, Threads
<1>3. QueuesOwn'
  BY <1>1 DEF Ownership, QueuesOwn, QueuedOnce, Queued, queueVars
<1>4. CASE m_singleTask # Null
  <2>1. UNCHANGED <<m_singleTask, m_singleState, pc>>
    BY <1>4 DEF PostSingle, singleVars
  <2> QED BY <1>1, <1>3, <2>1 DEF Ownership, CallersOwn, WorkersOwn, SlotOwns,
                                  HoldersOwn, IsSingle
<1>5. CASE m_singleTask = Null
  <2>1. /\ m_singleTask' = task[c]
        /\ m_singleState' = "PENDING"
        /\ pc' = [pc EXCEPT ![c] = "join"]
    BY <1>5 DEF PostSingle
  <2>2. task[c] # Null /\ task[c] \notin executed
    BY <1>1, <1>2 DEF ThreadsOK, Ownership, CallersOwn
  <2>3. \A d \in Callers : pc[d] # "join"
    BY <1>2, <1>5 DEF ThreadsOK, Threads, Ownership, CallersOwn
  <2>4. \A w \in Workers : task[w] # task[c]
    BY <1>5, <2>2, HandsApart DEF IsSingle
  <2>5. CallersOwn'
    BY <1>1, <1>2, <2>1, <2>2, <2>3
       DEF Ownership, CallersOwn, ThreadsOK, Threads
  <2>6. \A w \in Workers : pc'[w] = pc[w]
    BY <1>2, <2>1 DEF ThreadsOK
  <2>7. WorkersOwn'
    BY <1>1, <1>5, <2>1, <2>6 DEF Ownership, WorkersOwn, IsSingle
  <2>8. SlotOwns'
    BY <1>1, <2>1, <2>2, <2>4 DEF SlotOwns, IsSingle
  <2>9. HoldersOwn'
    BY <1>1, <1>5, <2>1, <2>4 DEF Ownership, HoldersOwn
  <2> QED BY <1>3, <2>5, <2>7, <2>8, <2>9 DEF Ownership
<1> QED BY <1>4, <1>5

\* Leaving runSingle(), or going to sleep until the task has been run.
LEMMA JoinSingleOwns ==
  ASSUME TypeOK, Ownership, NEW c \in Callers, JoinSingle(c)
  PROVE  Ownership'
<1>1. /\ pc[c] = "join"
      /\ UNCHANGED <<m_singleState, queueVars, m_dequeuedRunning, executed>>
  BY DEF JoinSingle, At, doneVars
<1>2. ThreadsOK /\ c \in Threads /\ \A w \in Workers : w # c
  BY DEF TypeOK, Threads
<1>3. Queued' = Queued /\ QueuedOnce'
  BY <1>1 DEF Ownership, QueuesOwn, QueuedOnce, Queued, queueVars
<1>4. CASE m_singleState # "FINISHED"
  <2>1. UNCHANGED <<m_singleTask, pc, task, heap>>
    BY <1>4 DEF JoinSingle
  <2> QED BY <1>1, <1>3, <2>1 DEF Ownership, QueuesOwn, CallersOwn, WorkersOwn,
                                  SlotOwns, HoldersOwn, IsSingle
<1>5. CASE m_singleState = "FINISHED"
  <2>1. /\ m_singleTask' = Null
        /\ pc' = [pc EXCEPT ![c] = "idle"]
        /\ heap' = [heap EXCEPT ![task[c]] = "free"]
        /\ task' = [task EXCEPT ![c] = Null]
    BY <1>5 DEF JoinSingle
  <2>2. task[c] = m_singleTask /\ m_singleTask # Null
    BY <1>1, <1>2 DEF ThreadsOK, Ownership, CallersOwn
  <2>3. \A w \in Workers : task[w] # m_singleTask
    BY <1>5, <2>2 DEF Ownership, SlotOwns, IsSingle
  <2>4. \A w \in Workers : pc'[w] = pc[w] /\ task'[w] = task[w]
    BY <1>2, <2>1 DEF ThreadsOK
  <2>5. heap \in [Tasks -> {"free", "auto", "keep"}] /\ task[c] \in Tasks
    BY <2>2, SingleKept DEF TypeOK, PoolOK
  <2>6. QueuesOwn'
    <3>1. Queued \subseteq Tasks /\ task[c] \notin Queued /\ Null \notin Queued
      BY <2>2, SingleKept DEF TypeOK, PoolOK, Queued, Elems
    <3> QED BY <1>2, <1>3, <2>1, <2>5, <3>1
            DEF Ownership, QueuesOwn, ThreadsOK
  <2>7. CallersOwn'
    BY <1>1, <1>2, <2>1, <2>2, <2>5
       DEF Ownership, CallersOwn, ThreadsOK, Threads
  <2>8. WorkersOwn'
    BY <1>2, <2>1, <2>2, <2>3, <2>4, <2>5
       DEF Ownership, WorkersOwn, IsSingle, ThreadsOK, Threads
  <2>9. SlotOwns'
    BY <2>1 DEF SlotOwns
  <2>10. HoldersOwn'
    BY <1>1, <2>1, <2>2, <2>3, <2>4 DEF Ownership, HoldersOwn
  <2> QED BY <2>6, <2>7, <2>8, <2>9, <2>10 DEF Ownership
<1> QED BY <1>4, <1>5

\* Operations that touch neither a task nor the thread that has one.
LEMMA SameOwns ==
  ASSUME TypeOK, Ownership,
         UNCHANGED <<singleVars, queueVars, m_dequeuedRunning, heap, executed, task>>,
         \A t \in Threads : pc'[t] # pc[t] =>
            {pc[t], pc'[t]} \cap {"post", "join", "run", "done"} = {}
  PROVE  Ownership'
<1>1. QueuesOwn'
  BY DEF Ownership, QueuesOwn, QueuedOnce, Queued, queueVars
<1>2. /\ UNCHANGED <<m_singleTask, m_singleState>>
      /\ \A t \in Threads : pc[t] = "post" <=> pc'[t] = "post"
      /\ \A t \in Threads : pc[t] = "join" <=> pc'[t] = "join"
      /\ \A t \in Threads : pc[t] = "run" <=> pc'[t] = "run"
  BY DEF singleVars
<1>3. CallersOwn'
  BY <1>2 DEF Ownership, CallersOwn, Threads
<1>4. WorkersOwn' /\ SlotOwns'
  BY <1>2 DEF Ownership, WorkersOwn, SlotOwns, IsSingle, Threads
<1>5. HoldersOwn'
  BY <1>2 DEF Ownership, HoldersOwn
<1> QED BY <1>1, <1>3, <1>4, <1>5 DEF Ownership

\* clear() deletes what is queued and nothing else.
LEMMA ClearOwns ==
  ASSUME TypeOK, Ownership, NEW c \in Owners, Clear(c)
  PROVE  Ownership'
<1>1. /\ m_tasksHi' = <<>> /\ m_tasksLo' = <<>>
      /\ heap' = [a \in Tasks |-> IF a \in Queued /\ heap[a] = "auto"
                                  THEN "free" ELSE heap[a]]
      /\ UNCHANGED <<singleVars, m_dequeuedRunning, executed, pc, task>>
  BY DEF Clear
<1>2. Queued' = {} /\ QueuedOnce'
  BY <1>1, EmptyElems DEF Queued, QueuedOnce
<1>3. \A t \in Threads : task[t] # Null => heap'[task[t]] = heap[task[t]]
  BY <1>1 DEF Ownership, QueuesOwn, TypeOK, ThreadsOK
<1>4. QueuesOwn'
  BY <1>2 DEF QueuesOwn
<1>5. CallersOwn'
  BY <1>1, <1>3 DEF Ownership, CallersOwn, singleVars, Threads
<1>6. WorkersOwn' /\ SlotOwns'
  BY <1>1, <1>3 DEF Ownership, WorkersOwn, SlotOwns, IsSingle, singleVars, Threads
<1>7. HoldersOwn'
  BY <1>1 DEF Ownership, HoldersOwn, singleVars
<1> QED BY <1>4, <1>5, <1>6, <1>7 DEF Ownership

\* Taking the single task.
LEMMA TakeSingleOwns ==
  ASSUME TypeOK, Ownership, NEW w \in Workers, TakeSingle(w)
  PROVE  Ownership'
<1>1. /\ m_singleTask # Null /\ m_singleState = "PENDING"
      /\ pc[w] = "loop" /\ pc' = [pc EXCEPT ![w] = "run"]
      /\ task' = [task EXCEPT ![w] = m_singleTask]
      /\ m_singleState' = "EXECUTING"
      /\ UNCHANGED <<m_singleTask, queueVars, m_dequeuedRunning, heap, executed>>
  BY DEF TakeSingle, SinglePending, Execute, At, heapVars
<1>2. ThreadsOK /\ w \in Threads /\ \A c \in Callers : c # w
  BY DEF TypeOK, Threads
<1>3. /\ m_singleTask \notin executed
      /\ \A v \in Workers : task[v] # m_singleTask
  BY <1>1 DEF Ownership, SlotOwns, IsSingle
<1>4. Queued' = Queued /\ QueuedOnce' /\ m_singleTask \notin Queued
  BY <1>1, SingleKept DEF Ownership, QueuesOwn, QueuedOnce, Queued, queueVars
<1>5. QueuesOwn'
  BY <1>1, <1>2, <1>4 DEF Ownership, QueuesOwn, ThreadsOK
<1>6. CallersOwn'
  <2>1. \A c \in Callers : task'[c] = task[c] /\ pc'[c] = pc[c]
    BY <1>1, <1>2 DEF ThreadsOK, Threads
  <2> QED BY <1>1, <2>1 DEF Ownership, CallersOwn
<1>7. WorkersOwn'
  BY <1>1, <1>2, <1>3 DEF Ownership, WorkersOwn, IsSingle, ThreadsOK, Threads
<1>8. SlotOwns'
  BY <1>1, <1>2, <1>3 DEF SlotOwns, IsSingle, ThreadsOK, Threads
<1>9. task[w] = Null
  BY <1>1, <1>2 DEF ThreadsOK
<1>10. HoldersOwn'
  <2>1. \A v \in Workers : v # w => task'[v] = task[v]
    BY <1>1, <1>2 DEF ThreadsOK, Threads
  <2>2. task'[w] = m_singleTask
    BY <1>1, <1>2 DEF ThreadsOK
  <2>3. \A a \in Tasks : a # Null
    OBVIOUS
  <2> QED BY <1>1, <1>9, <2>1, <2>2, <2>3 DEF Ownership, HoldersOwn
<1> QED BY <1>5, <1>6, <1>7, <1>8, <1>10 DEF Ownership

\* Taking the head of a queue.
LEMMA TakeOwns ==
  ASSUME TypeOK, Ownership, NEW w \in Workers, TakeHi(w) \/ TakeLo(w)
  PROVE  Ownership'
<1>1. PICK a :
      /\ Execute(w, a)
      /\ \/ /\ m_tasksHi # <<>> /\ a = Head(m_tasksHi)
            /\ m_tasksHi' = Tail(m_tasksHi) /\ UNCHANGED m_tasksLo
         \/ /\ m_tasksLo # <<>> /\ a = Head(m_tasksLo)
            /\ m_tasksLo' = Tail(m_tasksLo) /\ UNCHANGED m_tasksHi
      /\ m_dequeuedRunning' = m_dequeuedRunning \cup {a}
      /\ m_singleState' = m_singleState
  BY DEF TakeHi, TakeLo
<1>2. /\ pc[w] = "loop" /\ pc' = [pc EXCEPT ![w] = "run"]
      /\ task' = [task EXCEPT ![w] = a]
      /\ UNCHANGED <<m_singleTask, heap, executed>>
  BY <1>1 DEF Execute, At, heapVars
<1>3. ThreadsOK /\ w \in Threads /\ \A c \in Callers : c # w
  BY DEF TypeOK, Threads
<1>4. QueuedOnce' /\ a \in Queued /\ Queued' = Queued \ {a}
  <2>1. QueuedOnce
    BY DEF Ownership, QueuesOwn
  <2> QED BY <1>1, <2>1, QueueTakes
<1>5. heap[a] = "auto" /\ a \in Tasks /\ \A t \in Threads : task[t] # a
  BY <1>4 DEF Ownership, QueuesOwn, TypeOK, PoolOK, Queued, Elems
<1>6. a # m_singleTask
  BY <1>4, SingleKept, <1>5
<1>7. QueuesOwn'
  BY <1>2, <1>3, <1>4 DEF Ownership, QueuesOwn, ThreadsOK
<1>8. CallersOwn'
  <2>1. \A c \in Callers : task'[c] = task[c] /\ pc'[c] = pc[c]
    BY <1>2, <1>3 DEF ThreadsOK, Threads
  <2> QED BY <1>2, <2>1 DEF Ownership, CallersOwn
<1>9. WorkersOwn'
  BY <1>2, <1>3, <1>5, <1>6
     DEF Ownership, WorkersOwn, IsSingle, ThreadsOK, Threads
<1>10. task[w] = Null
  BY <1>2, <1>3 DEF ThreadsOK
<1>11. /\ \A v \in Workers : v # w => task'[v] = task[v] /\ pc'[v] = pc[v]
       /\ task'[w] = a
  BY <1>2, <1>3 DEF ThreadsOK, Threads
<1>12. SlotOwns'
  <2>1. m_singleTask # Null => \A v \in Workers : IsSingle(v)' <=> IsSingle(v)
    BY <1>2, <1>6, <1>10, <1>11 DEF IsSingle
  <2>2. \A v \in Workers : IsSingle(v)' => v # w
    BY <1>2, <1>6, <1>11 DEF IsSingle
  <2> QED BY <1>1, <1>2, <1>11, <2>1, <2>2 DEF Ownership, SlotOwns
<1>13. HoldersOwn'
  <2>1. \A b \in Tasks : b # Null
    OBVIOUS
  <2> QED BY <1>1, <1>2, <1>6, <1>10, <1>11, <2>1 DEF Ownership, HoldersOwn
<1> QED BY <1>7, <1>8, <1>9, <1>12, <1>13 DEF Ownership

\* The end of run(), after which an assigned task is deleted.
LEMMA RunTaskOwns ==
  ASSUME TypeOK, Ownership, NEW w \in Workers, RunTask(w)
  PROVE  Ownership'
<1>1. /\ pc[w] = "run" /\ pc' = [pc EXCEPT ![w] = "done"]
      /\ executed' = executed \cup {task[w]}
      /\ heap' = [heap EXCEPT ![task[w]] = IF @ = "auto" THEN "free" ELSE @]
      /\ UNCHANGED <<m_singleTask, m_singleState, queueVars, m_dequeuedRunning, task>>
  BY DEF RunTask, doneVars, singleVars
<1>2. ThreadsOK /\ w \in Threads /\ \A c \in Callers : c # w
  BY DEF TypeOK, Threads
<1>3. task[w] \in Tasks /\ task[w] # Null
  BY <1>1, <1>2 DEF ThreadsOK
<1>4. heap \in [Tasks -> {"free", "auto", "keep"}]
  BY DEF TypeOK, PoolOK
<1>5. \A a \in Tasks : heap'[a] = IF a = task[w] /\ heap[a] = "auto"
                                  THEN "free" ELSE heap[a]
  BY <1>1, <1>3, <1>4
<1>6. \A v \in Workers : v # w => task[v] # task[w] /\ pc'[v] = pc[v]
  BY <1>1, <1>2, <1>3 DEF Ownership, WorkersOwn, ThreadsOK
<1>7. QueuesOwn'
  <2>1. Queued' = Queued /\ QueuedOnce' /\ Queued \subseteq Tasks
    BY <1>1 DEF Ownership, QueuesOwn, QueuedOnce, Queued, queueVars,
                TypeOK, PoolOK, Elems
  <2> QED BY <1>1, <1>2, <1>5, <2>1 DEF Ownership, QueuesOwn
<1>8. CallersOwn'
  <2>1. \A c \in Callers : pc'[c] = pc[c]
    BY <1>1, <1>2 DEF ThreadsOK
  <2>2. \A c \in Callers : pc[c] = "post" => task[c] # task[w]
    <3> SUFFICES ASSUME NEW c \in Callers, pc[c] = "post", task[c] = task[w]
                 PROVE  FALSE
      OBVIOUS
    <3>1. task[c] = m_singleTask
      BY <1>3, HandsApart DEF IsSingle
    <3> QED BY <3>1 DEF Ownership, CallersOwn
  <2>3. \A c \in Callers : task[c] # Null => task[c] \in Tasks
    BY <1>2 DEF ThreadsOK, Threads
  <2> QED BY <1>1, <1>5, <2>1, <2>2, <2>3 DEF Ownership, CallersOwn
<1>9. WorkersOwn'
  <2>1. ~IsSingle(w) => heap[task[w]] = "auto"
    BY <1>1, <1>3 DEF Ownership, WorkersOwn
  <2>2. \A v \in Workers : task[v] # Null => task[v] \in Tasks
    BY <1>2 DEF ThreadsOK, Threads
  <2>3. pc'[w] = "done"
    BY <1>1, <1>2 DEF ThreadsOK
  <2> QED BY <1>1, <1>5, <1>6, <2>1, <2>2, <2>3
          DEF Ownership, WorkersOwn, IsSingle
<1>10. SlotOwns'
  <2>1. pc'[w] = "done"
    BY <1>1, <1>2 DEF ThreadsOK
  <2>2. m_singleTask # Null /\ IsSingle(w) => m_singleState = "EXECUTING"
    BY DEF Ownership, SlotOwns
  <2> QED BY <1>1, <1>6, <2>1, <2>2 DEF Ownership, SlotOwns, IsSingle
<1>11. HoldersOwn'
  BY <1>1 DEF Ownership, HoldersOwn
<1> QED BY <1>7, <1>8, <1>9, <1>10, <1>11 DEF Ownership

\* The bookkeeping of a worker that has run its task.
LEMMA CompleteOwns ==
  ASSUME TypeOK, Ownership, NEW w \in Workers, Complete(w)
  PROVE  Ownership'
<1>1. /\ pc[w] = "done" /\ pc' = [pc EXCEPT ![w] = "loop"]
      /\ task' = [task EXCEPT ![w] = Null]
      /\ m_singleState' = IF IsSingle(w) THEN "FINISHED" ELSE m_singleState
      /\ m_dequeuedRunning' = Remaining(w)
      /\ UNCHANGED <<m_singleTask, queueVars, heap, executed>>
  BY DEF Complete, At, heapVars
<1>2. ThreadsOK /\ w \in Threads /\ \A c \in Callers : c # w
  BY DEF TypeOK, Threads
<1>3. task[w] \in Tasks /\ task[w] # Null
  BY <1>1, <1>2 DEF ThreadsOK
<1>4. /\ \A t \in Threads : t # w => task'[t] = task[t] /\ pc'[t] = pc[t]
      /\ task'[w] = Null /\ pc'[w] = "loop"
  BY <1>1, <1>2 DEF ThreadsOK
<1>5. QueuesOwn'
  <2>1. Queued' = Queued /\ QueuedOnce'
    BY <1>1 DEF Ownership, QueuesOwn, QueuedOnce, Queued, queueVars
  <2>2. Null \notin Queued
    BY DEF TypeOK, PoolOK, Queued, Elems
  <2> QED BY <1>1, <1>4, <2>1, <2>2 DEF Ownership, QueuesOwn
<1>6. CallersOwn'
  <2>1. \A c \in Callers : task'[c] = task[c] /\ pc'[c] = pc[c]
    BY <1>2, <1>4 DEF Threads
  <2> QED BY <1>1, <2>1 DEF Ownership, CallersOwn
<1>7. WorkersOwn'
  BY <1>1, <1>4 DEF Ownership, WorkersOwn, IsSingle, Threads
<1>8. \A v \in Workers : v # w => task[v] # task[w]
  BY <1>3 DEF Ownership, WorkersOwn
<1>9. SlotOwns'
  <2>1. CASE m_singleTask # Null /\ IsSingle(w)
    <3>1. m_singleTask \in executed
      BY <1>1, <2>1 DEF Ownership, SlotOwns
    <3>2. \A v \in Workers : ~IsSingle(v)'
      BY <1>1, <1>4, <1>8, <2>1 DEF IsSingle, Threads
    <3> QED BY <1>1, <2>1, <3>1, <3>2 DEF SlotOwns
  <2>2. CASE m_singleTask # Null /\ ~IsSingle(w)
    <3>1. \A v \in Workers : IsSingle(v)' <=> IsSingle(v)
      BY <1>1, <1>4, <2>2 DEF IsSingle, Threads
    <3>2. \A v \in Workers : IsSingle(v) => pc'[v] = pc[v]
      BY <1>4, <2>2 DEF Threads
    <3> QED BY <1>1, <2>2, <3>1, <3>2 DEF Ownership, SlotOwns
  <2>3. CASE m_singleTask = Null
    BY <1>1, <2>3 DEF SlotOwns
  <2> QED BY <2>1, <2>2, <2>3
<1>10. HoldersOwn'
  <2>1. \A a \in Tasks : a # Null
    OBVIOUS
  <2> QED BY <1>1, <1>4, <1>8, <2>1 DEF Ownership, HoldersOwn, IsSingle, Threads
<1> QED BY <1>5, <1>6, <1>7, <1>9, <1>10 DEF Ownership

-----------------------------------------------------------------------------
(* The bookkeeping of the pool. *)

\* Every step of the pool keeps the ownership.
LEMMA OwnershipInductive ==
  ASSUME NoReuse, TypeOK, Ownership, [Next]_vars
  PROVE  Ownership'
<1> USE DEF lockVars, modeVars, singleVars, queueVars, doneVars, heapVars
<1>0. CASE UNCHANGED vars
  BY <1>0, SameOwns DEF vars
<1> SUFFICES ASSUME Step PROVE Ownership'
  BY <1>0, NextIsStep
<1>a. ThreadsOK /\ Owners \subseteq Threads /\ Workers \subseteq Threads
      /\ \A c \in Owners : c \notin Workers
  BY DEF TypeOK, Threads
<1>1. ASSUME NEW c \in Owners, OwnerStep(c) PROVE Ownership'
  <2>1. CASE Wait(c)
    BY <1>a, <2>1, SameOwns DEF Wait, At, ThreadsOK
  <2>2. CASE Clear(c)
    BY <2>2, ClearOwns
  <2>3. CASE Suspend(c) \/ Resume(c)
    BY <2>3, SameOwns DEF Suspend, Resume
  <2>4. CASE Start(c)
    BY <1>a, <2>4, SameOwns DEF Start, ThreadsOK
  <2>5. CASE Stop(c)
    BY <1>a, <2>5, SameOwns DEF Stop, At, ThreadsOK
  <2>6. CASE Stopped(c)
    BY <1>a, <2>6, SameOwns DEF Stopped, ThreadsOK
  <2> QED BY <1>1, <2>1, <2>2, <2>3, <2>4, <2>5, <2>6 DEF OwnerStep
<1>2. ASSUME NEW w \in Workers, WorkerStep(w) PROVE Ownership'
  <2>1. CASE WorkerExit(w)
    BY <1>a, <2>1, SameOwns DEF WorkerExit, At, ThreadsOK
  <2>2. CASE WorkerSleep(w)
    BY <2>2, SameOwns DEF WorkerSleep
  <2> QED BY <1>2, <2>1, <2>2, TakeSingleOwns, TakeOwns, RunTaskOwns, CompleteOwns
          DEF WorkerStep
<1> QED BY <1>1, <1>2, AssignOwns, RunSingleOwns, PostSingleOwns, JoinSingleOwns
        DEF Step

\* At first there is no task.
LEMMA OwnershipInit == Init => Ownership
<1> SUFFICES ASSUME Init PROVE Ownership
  OBVIOUS
<1>1. QueuedOnce /\ Queued = {}
  BY EmptyElems DEF Init, QueuedOnce, Queued
<1>2. \A t \in Threads : task[t] = Null /\ pc[t] \in {"dead", "idle"}
  BY DEF Init
<1>3. QueuesOwn
  BY <1>1 DEF QueuesOwn
<1>4. CallersOwn
  BY <1>2 DEF Init, CallersOwn, Threads
<1>5. WorkersOwn /\ SlotOwns
  BY <1>2 DEF Init, WorkersOwn, SlotOwns, Threads
<1>6. HoldersOwn
  BY <1>2 DEF Init, HoldersOwn, Threads
<1> QED BY <1>3, <1>4, <1>5, <1>6 DEF Ownership

\* The slot, its state, the callers and the workers agree.
LEMMA OwnsConsistent == TypeOK /\ Ownership => SingleConsistent
<1> SUFFICES ASSUME TypeOK, Ownership PROVE SingleConsistent
  OBVIOUS
<1>a. ThreadsOK /\ CallersOwn /\ SlotOwns
  BY DEF TypeOK, Ownership
<1>1. ASSUME m_singleTask = Null PROVE \A c \in Callers : pc[c] # "join"
  BY <1>1, <1>a DEF ThreadsOK, Threads, CallersOwn
<1>2. ASSUME m_singleTask # Null
      PROVE  m_singleTask \notin Queued \cup m_dequeuedRunning
  BY <1>2, SingleKept DEF Ownership, HoldersOwn
<1>3. ASSUME m_singleTask # Null
      PROVE  \E c \in Callers : \A d \in Callers :
               (pc[d] = "join" <=> d = c) /\ (d = c => task[d] = m_singleTask)
  <2>1. PICK c \in Callers : pc[c] = "join"
    BY <1>3, <1>a DEF CallersOwn
  <2>2. \A d \in Callers : pc[d] = "join" => d = c
    BY <1>3, <1>a, <2>1 DEF CallersOwn
  <2> QED BY <1>a, <2>1, <2>2 DEF CallersOwn
<1>4. ASSUME m_singleTask # Null
      PROVE  m_singleState = "FINISHED" <=> m_singleTask \in executed
                                            /\ \A w \in Workers : ~IsSingle(w)
  BY <1>4, <1>a DEF SlotOwns, TypeOK, PoolOK
<1>5. ASSUME m_singleTask # Null
      PROVE  m_singleState = "EXECUTING" <=> \E w \in Executing : IsSingle(w)
  BY <1>5, <1>a DEF SlotOwns, Executing, ThreadsOK, Threads, IsSingle
<1> QED BY <1>1, <1>2, <1>3, <1>4, <1>5 DEF SingleConsistent

\* m_dequeuedRunning is what the workers hold.
LEMMA OwnsDequeued == TypeOK /\ Ownership => DequeuedRunning
<1> SUFFICES ASSUME TypeOK, Ownership PROVE DequeuedRunning
  OBVIOUS
<1>1. ThreadsOK /\ m_dequeuedRunning \subseteq Tasks
  BY DEF TypeOK, PoolOK
<1>2. \A w \in Workers : w \in Executing <=> task[w] \in Tasks
  BY <1>1 DEF ThreadsOK, Threads, Executing
<1>3. Executing \subseteq Workers
  BY DEF Executing
<1> QED BY <1>1, <1>2, <1>3 DEF Ownership, HoldersOwn, DequeuedRunning

\* No pointer dangles.
LEMMA OwnsObjects == TypeOK /\ Ownership => NoDanglingTask
<1> SUFFICES ASSUME TypeOK, Ownership PROVE NoDanglingTask
  OBVIOUS
<1>1. \A a \in Queued : heap[a] = "auto"
  BY DEF Ownership, QueuesOwn
<1>2. m_singleTask # Null => heap[m_singleTask] = "keep"
  BY SingleKept
<1>3. ASSUME NEW w \in Workers, pc[w] = "run" PROVE heap[task[w]] # "free"
  <2>1. task[w] # Null
    BY <1>3 DEF TypeOK, ThreadsOK, Threads
  <2>2. CASE IsSingle(w)
    BY <1>2, <2>1, <2>2 DEF IsSingle
  <2>3. CASE ~IsSingle(w)
    BY <1>3, <2>1, <2>3 DEF Ownership, WorkersOwn
  <2> QED BY <2>2, <2>3
<1> QED BY <1>1, <1>2, <1>3 DEF NoDanglingTask

\* A finite set that one element fits into has one element, and one that two
\* elements fit into has at most two.
LEMMA FewElements ==
  ASSUME NEW S, NEW a, NEW b
  PROVE  /\ a \in S /\ S \subseteq {a} => Cardinality(S) = 1
         /\ S \subseteq {a, b} => Cardinality(S) <= 2
<1>1. a \in S /\ S \subseteq {a} => S = {a}
  OBVIOUS
<1>2. Cardinality({a}) = 1
  BY FS_Singleton
<1>3. IsFiniteSet({a, b}) /\ Cardinality({a, b}) <= 2
  <2>1. IsFiniteSet({a}) /\ Cardinality({a}) = 1
    BY FS_Singleton
  <2>2. /\ IsFiniteSet({a} \cup {b})
        /\ Cardinality({a} \cup {b}) =
             IF b \in {a} THEN Cardinality({a}) ELSE Cardinality({a}) + 1
    BY <2>1, FS_AddElement
  <2>3. {a} \cup {b} = {a, b}
    OBVIOUS
  <2>4. Cardinality({a} \cup {b}) <= 2
    BY <2>1, <2>2
  <2> QED BY <2>2, <2>3, <2>4
<1>4. S \subseteq {a, b} =>
        Cardinality(S) <= Cardinality({a, b}) /\ IsFiniteSet(S)
  BY <1>3, FS_Subset
<1>5. Cardinality({a, b}) \in Nat /\ (IsFiniteSet(S) => Cardinality(S) \in Nat)
  BY <1>3, FS_CardinalityType
<1>6. S \subseteq {a, b} => Cardinality(S) <= 2
  BY <1>3, <1>4, <1>5
<1> QED BY <1>1, <1>2, <1>6

\* The assertions of the worker loop.
LEMMA OwnsAsserts == TypeOK /\ RunningCount /\ Ownership => CodeAsserts
<1> SUFFICES ASSUME TypeOK, RunningCount, Ownership,
                    NEW w \in Workers, pc[w] = "done"
             PROVE  /\ IsSingle(w) => m_singleState = "EXECUTING"
                    /\ ~IsSingle(w) => task[w] \in m_dequeuedRunning
                    /\ Signal(w, m_dequeuedRunning \ {task[w]}) = "finished"
                         => m_running = 1
                    /\ Signal(w, m_dequeuedRunning \ {task[w]}) = "assignedFinished"
                         => m_running <= 2
  BY DEF CodeAsserts
<1>1. ThreadsOK /\ task[w] \in Tasks /\ task[w] # Null /\ w \in Executing
  BY DEF TypeOK, ThreadsOK, Threads, Executing
<1>2. IsSingle(w) => m_singleState = "EXECUTING"
  BY <1>1 DEF Ownership, SlotOwns, IsSingle
<1>3. ~IsSingle(w) => task[w] \in m_dequeuedRunning
  BY <1>1 DEF Ownership, HoldersOwn, IsSingle
<1>4. \A v \in Executing : /\ v \in Workers /\ task[v] \in Tasks
                           /\ task[v] = task[w] => v = w
  BY <1>1 DEF Executing, ThreadsOK, Threads, Ownership, WorkersOwn
<1>5. ASSUME m_dequeuedRunning \ {task[w]} = {}
      PROVE  \A v \in Executing : v = w \/ IsSingle(v)
  BY <1>4, <1>5 DEF Ownership, HoldersOwn, IsSingle
<1>6. ASSUME Signal(w, m_dequeuedRunning \ {task[w]}) = "finished"
      PROVE  m_running = 1
  <2>1. IsSingle(w) /\ m_dequeuedRunning \ {task[w]} = {}
    BY <1>6 DEF Signal
  <2>2. \A v \in Executing : v = w
    BY <2>1, <1>5, <1>4 DEF IsSingle
  <2>3. Executing \subseteq {w}
    BY <2>2
  <2>4. Cardinality(Executing) = 1
    BY <2>3, <1>1, FewElements
  <2> QED BY <2>4 DEF RunningCount
<1>7. ASSUME Signal(w, m_dequeuedRunning \ {task[w]}) = "assignedFinished"
      PROVE  m_running <= 2
  <2>1. m_dequeuedRunning \ {task[w]} = {}
    BY <1>7 DEF Signal
  <2>2. PICK u : \A v \in Executing : v = w \/ v = u
    <3>1. \A u, v \in Executing : IsSingle(u) /\ IsSingle(v) => u = v
      <4>1. \A v \in Executing : v \in Workers /\ task[v] # Null
        BY <1>4
      <4> QED BY <4>1 DEF Ownership, WorkersOwn, IsSingle
    <3>2. CASE \E u \in Executing : IsSingle(u)
      BY <2>1, <1>5, <3>1, <3>2
    <3>3. CASE ~\E u \in Executing : IsSingle(u)
      BY <2>1, <1>5, <3>3
    <3> QED BY <3>2, <3>3
  <2>3. Executing \subseteq {w, u}
    BY <2>2
  <2>4. Cardinality(Executing) <= 2
    BY <2>3, FewElements
  <2> QED BY <2>4 DEF RunningCount
<1> QED BY <1>2, <1>3, <1>6, <1>7

\* The assertions of WorkerPool::run() hold, the slot, its state, the callers and
\* the workers agree, m_dequeuedRunning is what the workers hold, and no pointer
\* is left to a deleted task; as long as no address is allocated again while a
\* worker holds it.
THEOREM BookkeepingKept == ASSUME NoReuse PROVE Spec => []Bookkeeping
<1>1. TypeOK /\ Ownership /\ [Next]_vars => Ownership'
  BY OwnershipInductive
<1>2. TypeOK /\ RunningCount /\ Ownership => Bookkeeping
  BY OwnsConsistent, OwnsDequeued, OwnsObjects, OwnsAsserts DEF Bookkeeping
<1> QED BY <1>1, <1>2, OwnershipInit, TypeCorrect, RunningCounted, PTL DEF Spec

-----------------------------------------------------------------------------
(* The announcement of the end of assigned tasks. *)

\* After an assigned task that ended silently something is left to end, or has been
\* cleared.
Owed == unannounced => ~QueuesEmpty \/ m_dequeuedRunning # {} \/ cleared

\* A step that leaves the queues, the tasks in hand and the history alone.
LEMMA SameOwed ==
  ASSUME Owed, UNCHANGED <<queueVars, m_dequeuedRunning, unannounced, cleared>>
  PROVE  Owed'
BY DEF Owed, QueuesEmpty, queueVars

\* Nobody forgets that an end is still to be announced.
LEMMA OwedInductive == TypeOK /\ Owed /\ [Next]_vars => Owed'
<1> SUFFICES ASSUME TypeOK, Owed, [Next]_vars PROVE Owed'
  OBVIOUS
<1> USE DEF modeVars, singleVars, queueVars, doneVars, heapVars
<1>0. CASE UNCHANGED vars
  BY <1>0, SameOwed DEF vars
<1> SUFFICES ASSUME Step PROVE Owed'
  BY <1>0, NextIsStep
<1>1. ASSUME NEW t \in Threads, NEW a \in Tasks, NEW order \in Orders,
             AssignLo(t, a, order) \/ AssignHi(t, a, order)
      PROVE  Owed'
  <2>1. \A q \in Seq(Tasks) : Enqueue(q, a, order) # <<>>
    BY DEF Enqueue
  <2>2. m_tasksLo' # <<>> \/ m_tasksHi' # <<>>
    BY <1>1, <2>1 DEF AssignLo, AssignHi, TypeOK, PoolOK
  <2> QED BY <2>2 DEF Owed, QueuesEmpty
<1>2. ASSUME NEW c \in Callers, NEW a \in Tasks, RunSingle(c, a) PROVE Owed'
  BY <1>2, SameOwed DEF RunSingle
<1>3. ASSUME NEW c \in Callers, PostSingle(c) \/ JoinSingle(c) PROVE Owed'
  BY <1>3, SameOwed DEF PostSingle, JoinSingle
<1>4. ASSUME NEW c \in Owners, OwnerStep(c) PROVE Owed'
  <2>1. CASE Clear(c)
    BY <2>1 DEF Clear, Owed
  <2>2. CASE ~Clear(c)
    BY <1>4, <2>2, SameOwed DEF OwnerStep, Wait, Suspend, Resume, Start, Stop, Stopped
  <2> QED BY <2>1, <2>2
<1>5. ASSUME NEW w \in Workers, WorkerStep(w) PROVE Owed'
  <2>1. CASE WorkerExit(w) \/ WorkerSleep(w) \/ RunTask(w)
    BY <2>1, SameOwed DEF WorkerExit, WorkerSleep, RunTask
  <2>2. CASE TakeSingle(w)
    BY <2>2, SameOwed DEF TakeSingle, Execute
  <2>3. CASE TakeHi(w) \/ TakeLo(w)
    <3>1. m_dequeuedRunning' # {}
      BY <2>3 DEF TakeHi, TakeLo
    <3> QED BY <3>1 DEF Owed
  <2>4. CASE Complete(w)
    <3>1. /\ unannounced' = (Signal(w, Remaining(w)) # "assignedFinished"
                             /\ (unannounced \/ ~IsSingle(w)))
          /\ cleared' = (cleared /\ IsSingle(w))
          /\ m_dequeuedRunning' = Remaining(w)
          /\ QueuesEmpty' = QueuesEmpty
      BY <2>4 DEF Complete, QueuesEmpty
    <3>2. CASE IsSingle(w)
      <4>1. Remaining(w) = m_dequeuedRunning /\ (unannounced' => unannounced)
        BY <3>1, <3>2 DEF Remaining
      <4> QED BY <3>1, <3>2, <4>1 DEF Owed
    <3>3. CASE ~IsSingle(w)
      BY <3>1, <3>3 DEF Owed, Signal
    <3> QED BY <3>2, <3>3
  <2> QED BY <1>5, <2>1, <2>2, <2>3, <2>4 DEF WorkerStep
<1> QED BY <1>1, <1>2, <1>3, <1>4, <1>5 DEF Step

\* The end of the assigned tasks is announced: when none is queued and none is
\* running, assignedFinished() was emitted after the last one of them ended, unless
\* clear() has removed the tasks that were still to announce it.
THEOREM DrainKept == ASSUME NoReuse PROVE Spec => []DrainAnnounced
<1>1. Init => Owed
  BY DEF Init, Owed
<1>2. Owed /\ DequeuedRunning => DrainAnnounced
  BY DEF Owed, DequeuedRunning, DrainAnnounced, EndAnnounced, IsSingle
<1>3. Bookkeeping => DequeuedRunning
  BY DEF Bookkeeping
<1> QED BY <1>1, <1>2, <1>3, OwedInductive, TypeCorrect, BookkeepingKept, PTL DEF Spec

-----------------------------------------------------------------------------
(* The task service the pool implements. *)

\* What the refinement mapping says of task a and of caller c.
statusBar == [a \in Tasks |-> StatusOf(a)]
awaitedBar == [c \in Callers |-> IF pc[c] \in {"post", "join"} THEN task[c] ELSE Null]

\* The parts of StatusOf.
IsRun(a) == \E w \in Workers : pc[w] = "run" /\ task[w] = a
IsPosted(a) == \E c \in Callers : pc[c] = "post" /\ task[c] = a
IsPending(a) == a = m_singleTask /\ m_singleState = "PENDING"
IsCalled(a) == \E c \in Callers : task[c] = a

-----------------------------------------------------------------------------
(* The mapping. *)

\* A caller waits for the task it has in hand.
LEMMA AwaitedIsTask ==
  TypeOK => awaitedBar = [c \in Callers |-> task[c]]
BY DEF TypeOK, ThreadsOK, Threads, awaitedBar

\* The status of a task, from its parts.
LEMMA StatusParts ==
  ASSUME TypeOK, NEW a \in Tasks
  PROVE  StatusOf(a) = IF IsRun(a) THEN "running"
                       ELSE IF a \in Queued \/ IsPosted(a) \/ IsPending(a)
                       THEN "submitted"
                       ELSE IF IsCalled(a) THEN "done" ELSE "none"
<1>1. IsCalled(a) <=> \E c \in Callers : CalledWith(c, a)
  BY DEF TypeOK, ThreadsOK, Threads, IsCalled, CalledWith
<1> QED BY <1>1 DEF StatusOf, IsRun, IsPosted, IsPending

\* The same after a step.
LEMMA StatusPartsNext ==
  ASSUME TypeOK', NEW a \in Tasks
  PROVE  StatusOf(a)' = IF IsRun(a)' THEN "running"
                        ELSE IF a \in Queued' \/ IsPosted(a)' \/ IsPending(a)'
                        THEN "submitted"
                        ELSE IF IsCalled(a)' THEN "done" ELSE "none"
<1>1. IsCalled(a)' <=> \E c \in Callers : CalledWith(c, a)'
  BY DEF TypeOK, ThreadsOK, Threads, IsCalled, CalledWith
<1> QED BY <1>1 DEF StatusOf, IsRun, IsPosted, IsPending

\* The variables of the service, spelled out.
LEMMA ServiceVars ==
  /\ Service!vars = <<statusBar, awaitedBar>>
  /\ UNCHANGED <<statusBar, awaitedBar>> => UNCHANGED Service!vars
BY DEF Service!vars, statusBar, awaitedBar

\* A step that changes the status of no task and what no caller waits for.
LEMMA ServiceStutter ==
  ASSUME TypeOK, TypeOK', \A c \in Callers : task'[c] = task[c],
         \A a \in Tasks : StatusOf(a)' = StatusOf(a)
  PROVE  UNCHANGED Service!vars
<1>1. awaitedBar = [c \in Callers |-> task[c]]
  BY AwaitedIsTask
<1>2. awaitedBar' = [c \in Callers |-> task'[c]]
  BY DEF TypeOK, ThreadsOK, Threads, awaitedBar
<1>3. statusBar' = statusBar
  BY DEF statusBar
<1> QED BY <1>1, <1>2, <1>3, ServiceVars

\* A step that changes the status of one task.
LEMMA StatusChange ==
  ASSUME NEW x \in Tasks, NEW s, StatusOf(x)' = s,
         \A b \in Tasks : b # x => StatusOf(b)' = StatusOf(b)
  PROVE  statusBar' = [statusBar EXCEPT ![x] = s]
BY DEF statusBar

\* What callers wait for when a caller gets a task or gives it up.
LEMMA AwaitedChange ==
  ASSUME TypeOK, TypeOK', NEW c \in Callers, NEW x,
         \A d \in Callers : task'[d] = IF d = c THEN x ELSE task[d]
  PROVE  awaitedBar' = [awaitedBar EXCEPT ![c] = x]
<1>1. awaitedBar = [d \in Callers |-> task[d]]
  BY AwaitedIsTask
<1>2. awaitedBar' = [d \in Callers |-> task'[d]]
  BY DEF TypeOK, ThreadsOK, Threads, awaitedBar
<1> QED BY <1>1, <1>2

\* Nothing that concerns the callers.
LEMMA AwaitedSame ==
  ASSUME TypeOK, TypeOK', \A d \in Callers : task'[d] = task[d]
  PROVE  awaitedBar' = awaitedBar
<1>1. awaitedBar = [d \in Callers |-> task[d]]
  BY AwaitedIsTask
<1>2. awaitedBar' = [d \in Callers |-> task'[d]]
  BY DEF TypeOK, ThreadsOK, Threads, awaitedBar
<1> QED BY <1>1, <1>2

\* A task is awaited if a caller has it in hand.
LEMMA AwaitedMeans ==
  ASSUME TypeOK, NEW a \in Tasks PROVE Service!Awaited(a) <=> IsCalled(a)
BY AwaitedIsTask DEF Service!Awaited, IsCalled, awaitedBar

\* While a worker looks for a task there is room for one more to run.
LEMMA RoomToBegin ==
  ASSUME TypeOK, NEW w \in Workers, pc[w] # "run"
  PROVE  Cardinality(Service!Running) < Cardinality(Workers)
<1> DEFINE R == {v \in Workers : pc[v] = "run"}
           f == [v \in R |-> task[v]]
<1>1. Service!Running = {a \in Tasks : IsRun(a)}
  <2>1. Service!Running = {a \in Tasks : StatusOf(a) = "running"}
    BY DEF Service!Running
  <2>2. \A a \in Tasks : StatusOf(a) = "running" <=> IsRun(a)
    BY DEF StatusOf, IsRun
  <2> QED BY <2>1, <2>2
<1>2. f \in Surjection(R, Service!Running)
  <2>1. \A v \in R : task[v] \in Tasks
    BY DEF TypeOK, ThreadsOK, Threads
  <2>2. f \in [R -> Service!Running]
    BY <1>1, <2>1 DEF IsRun
  <2>3. \A a \in Service!Running : \E v \in R : f[v] = a
    BY <1>1 DEF IsRun
  <2> QED BY <2>2, <2>3 DEF Surjection
<1>3. IsFiniteSet(R) /\ Cardinality(R) <= Cardinality(Workers \ {w})
  <2>1. R \subseteq Workers \ {w}
    OBVIOUS
  <2>2. IsFiniteSet(Workers \ {w})
    BY FS_RemoveElement
  <2> QED BY <2>1, <2>2, FS_Subset
<1>4. Cardinality(Workers \ {w}) = Cardinality(Workers) - 1
  BY FS_RemoveElement
<1>5. Cardinality(Service!Running) <= Cardinality(R)
      /\ IsFiniteSet(Service!Running)
  BY <1>2, <1>3, FS_Surjection
<1>6. /\ Cardinality(Service!Running) \in Nat /\ Cardinality(R) \in Nat
      /\ Cardinality(Workers) \in Nat
  BY <1>3, <1>5, FS_CardinalityType
<1> HIDE DEF R, f
<1> QED BY <1>3, <1>4, <1>5, <1>6

-----------------------------------------------------------------------------
(* The steps of the pool as steps of the service. *)

\* Assigning a task submits it.
LEMMA AssignSubmits ==
  ASSUME NoReuse, TypeOK, TypeOK', Ownership,
         NEW t \in Threads, NEW a \in Tasks, NEW order \in Orders,
         AssignLo(t, a, order) \/ AssignHi(t, a, order)
  PROVE  Service!Submit(a)
<1>1. New(a, "auto") /\ UNCHANGED <<m_singleTask, m_singleState, pc, task>>
  BY DEF AssignLo, AssignHi, singleVars
<1>2. a \notin Queued /\ (\A s \in Threads : task[s] # a) /\ a # m_singleTask
  BY <1>1, NewFresh
<1>3. Queued' = Queued \cup {a}
  BY <1>2, QueueAdds DEF AssignLo, AssignHi, Ownership, QueuesOwn
<1>4. \A b \in Tasks : /\ IsRun(b)' <=> IsRun(b)
                       /\ IsPosted(b)' <=> IsPosted(b)
                       /\ IsPending(b)' <=> IsPending(b)
                       /\ IsCalled(b)' <=> IsCalled(b)
  BY <1>1 DEF IsRun, IsPosted, IsPending, IsCalled
<1>5. ~IsRun(a) /\ ~IsPosted(a) /\ ~IsPending(a) /\ ~IsCalled(a)
  BY <1>2 DEF IsRun, IsPosted, IsPending, IsCalled, Threads
<1>6. StatusOf(a) = "none" /\ StatusOf(a)' = "submitted"
  BY <1>2, <1>3, <1>4, <1>5, StatusParts, StatusPartsNext
<1>7. \A b \in Tasks : b # a => StatusOf(b)' = StatusOf(b)
  BY <1>3, <1>4, StatusParts, StatusPartsNext
<1>8. statusBar' = [statusBar EXCEPT ![a] = "submitted"]
  BY <1>6, <1>7, StatusChange
<1>9. awaitedBar' = awaitedBar
  BY <1>1, AwaitedSame
<1> QED BY <1>6, <1>8, <1>9 DEF Service!Submit, statusBar, awaitedBar

\* The call of runSingle() submits its task and waits for it.
LEMMA RunSingleCalls ==
  ASSUME NoReuse, TypeOK, TypeOK', Ownership,
         NEW c \in Callers, NEW a \in Tasks, RunSingle(c, a)
  PROVE  Service!Call(c, a)
<1>1. /\ New(a, "keep") /\ pc[c] = "idle"
      /\ pc' = [pc EXCEPT ![c] = "post"] /\ task' = [task EXCEPT ![c] = a]
      /\ UNCHANGED <<m_singleTask, m_singleState, m_tasksHi, m_tasksLo>>
  BY DEF RunSingle, At, singleVars, queueVars
<1>2. a \notin Queued /\ (\A s \in Threads : task[s] # a) /\ a # m_singleTask
  BY <1>1, NewFresh
<1>3. /\ ThreadsOK /\ c \in Threads /\ task[c] = Null
      /\ \A t \in Threads : t # c => pc'[t] = pc[t] /\ task'[t] = task[t]
      /\ pc'[c] = "post" /\ task'[c] = a
  BY <1>1 DEF TypeOK, ThreadsOK, Threads
<1>4. Queued' = Queued /\ a # Null
  BY <1>1 DEF Queued
<1>5. \A b \in Tasks : /\ IsRun(b)' <=> IsRun(b)
                       /\ IsPending(b)' <=> IsPending(b)
                       /\ b # a => (IsPosted(b)' <=> IsPosted(b))
                       /\ b # a => (IsCalled(b)' <=> IsCalled(b))
  <2> SUFFICES ASSUME NEW b \in Tasks
               PROVE  /\ IsRun(b)' <=> IsRun(b)
                      /\ IsPending(b)' <=> IsPending(b)
                      /\ b # a => (IsPosted(b)' <=> IsPosted(b))
                      /\ b # a => (IsCalled(b)' <=> IsCalled(b))
    OBVIOUS
  <2>1. IsRun(b)' <=> IsRun(b)
    BY <1>3 DEF IsRun, Threads
  <2>2. IsPending(b)' <=> IsPending(b)
    BY <1>1 DEF IsPending
  <2>3. b # a => (IsPosted(b)' <=> IsPosted(b))
    BY <1>1, <1>3 DEF IsPosted, Threads
  <2>4. b # a => (IsCalled(b)' <=> IsCalled(b))
    BY <1>3 DEF IsCalled, Threads
  <2> QED BY <2>1, <2>2, <2>3, <2>4
<1>6. /\ ~IsRun(a) /\ ~IsPosted(a) /\ ~IsPending(a) /\ ~IsCalled(a)
      /\ IsPosted(a)'
  BY <1>2, <1>3 DEF IsRun, IsPosted, IsPending, IsCalled, Threads
<1>7. StatusOf(a) = "none" /\ StatusOf(a)' = "submitted"
  BY <1>2, <1>5, <1>6, StatusParts, StatusPartsNext
<1>8. \A b \in Tasks : b # a => StatusOf(b)' = StatusOf(b)
  BY <1>4, <1>5, StatusParts, StatusPartsNext
<1>9. statusBar' = [statusBar EXCEPT ![a] = "submitted"]
  BY <1>7, <1>8, StatusChange
<1>10. awaitedBar' = [awaitedBar EXCEPT ![c] = a]
  <2>1. \A d \in Callers : task'[d] = IF d = c THEN a ELSE task[d]
    BY <1>3 DEF Threads
  <2> QED BY <2>1, AwaitedChange
<1>11. awaitedBar[c] = Null
  BY <1>1 DEF awaitedBar
<1> QED BY <1>7, <1>9, <1>10, <1>11 DEF Service!Call, statusBar, awaitedBar

\* Filling the slot changes nothing for the service: the task was submitted when
\* runSingle() was called.
LEMMA PostSingleStutters ==
  ASSUME TypeOK, TypeOK', Ownership, NEW c \in Callers, PostSingle(c)
  PROVE  UNCHANGED Service!vars
<1>1. pc[c] = "post" /\ UNCHANGED <<m_tasksHi, m_tasksLo, task>>
  BY DEF PostSingle, At, queueVars
<1>2. ThreadsOK /\ c \in Threads /\ Queued' = Queued
  BY <1>1 DEF TypeOK, Threads, Queued
<1>3. CASE m_singleTask # Null
  <2>1. UNCHANGED <<m_singleTask, m_singleState, pc>>
    BY <1>3 DEF PostSingle, singleVars
  <2>2. \A b \in Tasks : StatusOf(b)' = StatusOf(b)
    BY <1>1, <1>2, <2>1 DEF StatusOf, CalledWith
  <2> QED BY <1>1, <2>2, ServiceStutter
<1>4. CASE m_singleTask = Null
  <2>1. /\ m_singleTask' = task[c] /\ m_singleState' = "PENDING"
        /\ pc' = [pc EXCEPT ![c] = "join"]
    BY <1>4 DEF PostSingle
  <2>2. /\ \A t \in Threads : t # c => pc'[t] = pc[t]
        /\ pc'[c] = "join" /\ c \notin Workers
    BY <1>2, <2>1 DEF ThreadsOK
  <2>3. \A b \in Tasks : StatusOf(b)' = StatusOf(b)
    <3> SUFFICES ASSUME NEW b \in Tasks PROVE StatusOf(b)' = StatusOf(b)
      OBVIOUS
    <3>1. IsRun(b)' <=> IsRun(b)
      BY <1>1, <2>2 DEF IsRun, Threads
    <3>2. IsCalled(b)' <=> IsCalled(b)
      BY <1>1 DEF IsCalled
    <3>3. (IsPosted(b) \/ IsPending(b)) <=> (IsPosted(b) \/ IsPending(b))'
      <4>1. ~IsPending(b)
        BY <1>4 DEF IsPending
      <4>2. IsPending(b)' <=> b = task[c]
        BY <2>1 DEF IsPending
      <4>3. \A d \in Callers : d # c => (pc'[d] = "post" <=> pc[d] = "post")
        BY <2>2 DEF Threads
      <4> QED BY <1>1, <2>2, <4>1, <4>2, <4>3 DEF IsPosted
    <3> QED BY <1>2, <3>1, <3>2, <3>3, StatusParts, StatusPartsNext
  <2> QED BY <1>1, <2>3, ServiceStutter
<1> QED BY <1>3, <1>4

\* runSingle() returns after its task was run.
LEMMA JoinSingleReturns ==
  ASSUME TypeOK, TypeOK', Ownership, NEW c \in Callers, JoinSingle(c)
  PROVE  Service!Return(c) \/ UNCHANGED Service!vars
<1>1. pc[c] = "join" /\ UNCHANGED <<m_singleState, m_tasksHi, m_tasksLo>>
  BY DEF JoinSingle, At, queueVars
<1>2. ThreadsOK /\ c \in Threads /\ Queued' = Queued
  BY <1>1 DEF TypeOK, Threads, Queued
<1>3. CASE m_singleState # "FINISHED"
  <2>1. UNCHANGED <<m_singleTask, pc, task>>
    BY <1>3 DEF JoinSingle
  <2>2. \A b \in Tasks : StatusOf(b)' = StatusOf(b)
    BY <1>1, <1>2, <2>1 DEF StatusOf, CalledWith
  <2> QED BY <2>1, <2>2, ServiceStutter
<1>4. CASE m_singleState = "FINISHED"
  <2>0. PICK a \in Tasks : a = task[c]
    BY <1>1, <1>2 DEF ThreadsOK
  <2>1. /\ m_singleTask' = Null
        /\ pc' = [pc EXCEPT ![c] = "idle"] /\ task' = [task EXCEPT ![c] = Null]
    BY <1>4 DEF JoinSingle
  <2>2. a = m_singleTask /\ a # Null /\ a \notin Queued
    BY <1>1, <1>2, <2>0, SingleKept DEF ThreadsOK, Ownership, CallersOwn
  <2>3. \A w \in Workers : task[w] # a
    BY <1>4, <2>2 DEF Ownership, SlotOwns, IsSingle
  <2>4. /\ \A t \in Threads : t # c => pc'[t] = pc[t] /\ task'[t] = task[t]
        /\ pc'[c] = "idle" /\ task'[c] = Null /\ c \notin Workers
    BY <1>2, <2>1 DEF ThreadsOK
  <2>5. \A d \in Callers : d # c => task[d] # a
    BY <2>0, <2>2 DEF Ownership, CallersOwn
  <2>6. /\ ~IsRun(a) /\ ~IsPosted(a) /\ ~IsPending(a)
        /\ ~IsRun(a)' /\ ~IsPosted(a)' /\ ~IsPending(a)' /\ ~IsCalled(a)'
    <3>1. ~IsRun(a) /\ ~IsRun(a)'
      BY <2>3, <2>4 DEF IsRun, Threads
    <3>2. ~IsPosted(a)
      BY <1>1, <2>5 DEF IsPosted
    <3>3. ~IsPosted(a)' /\ ~IsCalled(a)'
      BY <2>2, <2>4, <2>5 DEF IsPosted, IsCalled, Threads
    <3>4. ~IsPending(a) /\ ~IsPending(a)'
      BY <1>4, <2>1, <2>2 DEF IsPending
    <3> QED BY <3>1, <3>2, <3>3, <3>4
  <2>7. IsCalled(a)
    BY <2>0 DEF IsCalled
  <2>8. StatusOf(a) = "done" /\ StatusOf(a)' = "none"
    BY <1>2, <2>2, <2>6, <2>7, StatusParts, StatusPartsNext
  <2>9. \A b \in Tasks : b # a => StatusOf(b)' = StatusOf(b)
    <3> SUFFICES ASSUME NEW b \in Tasks, b # a PROVE StatusOf(b)' = StatusOf(b)
      OBVIOUS
    <3>1. IsRun(b)' <=> IsRun(b)
      BY <2>4 DEF IsRun, Threads
    <3>2. IsCalled(b)' <=> IsCalled(b)
      BY <2>0, <2>4 DEF IsCalled, Threads
    <3>3. IsPosted(b)' <=> IsPosted(b)
      BY <1>1, <2>4 DEF IsPosted, Threads
    <3>4. ~IsPending(b)' /\ ~IsPending(b)
      BY <1>1, <1>4 DEF IsPending
    <3> QED BY <1>2, <3>1, <3>2, <3>3, <3>4, StatusParts, StatusPartsNext
  <2>10. statusBar' = [statusBar EXCEPT ![a] = "none"]
    BY <2>2, <2>8, <2>9, StatusChange
  <2>11. awaitedBar' = [awaitedBar EXCEPT ![c] = Null]
    <3>1. \A d \in Callers : task'[d] = IF d = c THEN Null ELSE task[d]
      BY <2>4 DEF Threads
    <3> QED BY <3>1, AwaitedChange
  <2>12. awaitedBar[c] = a
    BY <1>1, <2>0 DEF awaitedBar
  <2>13. statusBar[awaitedBar[c]] = "done"
    BY <2>2, <2>8, <2>12 DEF statusBar
  <2> QED BY <2>2, <2>10, <2>11, <2>12, <2>13 DEF Service!Return, statusBar, awaitedBar
<1> QED BY <1>3, <1>4

\* A step that touches neither the queues nor the slot, nor a task in hand.
LEMMA SameStutters ==
  ASSUME TypeOK, TypeOK', UNCHANGED <<singleVars, queueVars, task>>,
         \A t \in Threads : pc'[t] # pc[t] =>
            {pc[t], pc'[t]} \cap {"post", "join", "run", "done"} = {}
  PROVE  UNCHANGED Service!vars
<1>1. \A b \in Tasks : StatusOf(b)' = StatusOf(b)
  <2> SUFFICES ASSUME NEW b \in Tasks PROVE StatusOf(b)' = StatusOf(b)
    OBVIOUS
  <2>1. IsRun(b)' <=> IsRun(b)
    BY DEF IsRun, Threads
  <2>2. IsPosted(b)' <=> IsPosted(b)
    BY DEF IsPosted, Threads
  <2>3. (IsCalled(b)' <=> IsCalled(b)) /\ (IsPending(b)' <=> IsPending(b))
    BY DEF IsCalled, IsPending, singleVars
  <2>4. Queued' = Queued
    BY DEF Queued, queueVars
  <2> QED BY <2>1, <2>2, <2>3, <2>4, StatusParts, StatusPartsNext
<1> QED BY <1>1, ServiceStutter

\* clear() drops what has not begun and nobody waits for.
LEMMA ClearDrops ==
  ASSUME TypeOK, TypeOK', Ownership, NEW c \in Owners, Clear(c)
  PROVE  Service!Drop
<1>1. /\ m_tasksHi' = <<>> /\ m_tasksLo' = <<>>
      /\ UNCHANGED <<m_singleTask, m_singleState, pc, task>>
  BY DEF Clear, singleVars
<1>2. Queued' = {}
  BY <1>1, EmptyElems DEF Queued
<1>3. \A b \in Tasks : /\ IsRun(b)' <=> IsRun(b)
                       /\ IsPosted(b)' <=> IsPosted(b)
                       /\ IsPending(b)' <=> IsPending(b)
                       /\ IsCalled(b)' <=> IsCalled(b)
  BY <1>1 DEF IsRun, IsPosted, IsPending, IsCalled
<1>4. \A b \in Tasks : IsPosted(b) \/ IsPending(b) => IsCalled(b)
  <2> SUFFICES ASSUME NEW b \in Tasks, IsPending(b) PROVE IsCalled(b)
    BY DEF IsPosted, IsCalled
  <2>1. PICK d \in Callers : pc[d] = "join"
    BY DEF IsPending, Ownership, CallersOwn
  <2> QED BY <2>1 DEF IsPending, IsCalled, Ownership, CallersOwn
<1>5. \A b \in Queued : ~IsCalled(b)
  BY DEF IsCalled, Ownership, QueuesOwn, Threads
<1>6. \A b \in Tasks : StatusOf(b)' = IF StatusOf(b) = "submitted" /\ ~IsCalled(b)
                                      THEN "none" ELSE StatusOf(b)
  <2> SUFFICES ASSUME NEW b \in Tasks
               PROVE  StatusOf(b)' = IF StatusOf(b) = "submitted" /\ ~IsCalled(b)
                                     THEN "none" ELSE StatusOf(b)
    OBVIOUS
  <2>1. ~IsCalled(b) => ~IsPosted(b) /\ ~IsPending(b)
    BY <1>4
  <2> QED BY <1>2, <1>3, <1>5, <2>1, StatusParts, StatusPartsNext
<1>7. statusBar' = [b \in Tasks |-> IF statusBar[b] = "submitted" /\ ~Service!Awaited(b)
                                   THEN "none" ELSE statusBar[b]]
  BY <1>6, AwaitedMeans DEF statusBar
<1>8. awaitedBar' = awaitedBar
  BY <1>1, AwaitedSame
<1> QED BY <1>7, <1>8 DEF Service!Drop, statusBar, awaitedBar

\* A worker that leaves the locked region with a submitted task begins it, if
\* nothing else changes for the service.
LEMMA ExecuteBegins ==
  ASSUME TypeOK, TypeOK', NEW w \in Workers, NEW a \in Tasks, Execute(w, a),
         StatusOf(a) = "submitted",
         \A b \in Tasks : b # a =>
            ((b \in Queued \/ IsPending(b))' <=> (b \in Queued \/ IsPending(b)))
  PROVE  Service!Begin(a)
<1>1. /\ pc[w] = "loop" /\ pc' = [pc EXCEPT ![w] = "run"]
      /\ task' = [task EXCEPT ![w] = a]
  BY DEF Execute, At
<1>2. /\ ThreadsOK /\ w \in Threads /\ w \notin Callers /\ a # Null
      /\ \A t \in Threads : t # w => pc'[t] = pc[t] /\ task'[t] = task[t]
      /\ pc'[w] = "run" /\ task'[w] = a /\ task[w] = Null
  BY <1>1 DEF TypeOK, ThreadsOK, Threads
<1>3. StatusOf(a)' = "running"
  BY <1>2, StatusPartsNext DEF IsRun
<1>4. \A b \in Tasks : b # a => StatusOf(b)' = StatusOf(b)
  <2> SUFFICES ASSUME NEW b \in Tasks, b # a PROVE StatusOf(b)' = StatusOf(b)
    OBVIOUS
  <2>1. IsRun(b)' <=> IsRun(b)
    BY <1>1, <1>2 DEF IsRun, Threads
  <2>2. (IsCalled(b)' <=> IsCalled(b)) /\ (IsPosted(b)' <=> IsPosted(b))
    BY <1>2 DEF IsCalled, IsPosted, Threads
  <2> QED BY <2>1, <2>2, StatusParts, StatusPartsNext
<1>5. statusBar' = [statusBar EXCEPT ![a] = "running"]
  BY <1>3, <1>4, StatusChange
<1>6. awaitedBar' = awaitedBar
  BY <1>2, AwaitedSame DEF Threads
<1>7. Cardinality(Service!Running) < Cardinality(Workers)
  BY <1>1, RoomToBegin
<1>8. Service!Cardinality(Service!Running) = Cardinality(Service!Running)
  BY DEF Service!Cardinality, Cardinality
<1> QED BY <1>5, <1>6, <1>7, <1>8 DEF Service!Begin, statusBar, awaitedBar

\* Taking the single task begins it.
LEMMA TakeSingleBegins ==
  ASSUME TypeOK, TypeOK', Ownership, NEW w \in Workers, TakeSingle(w)
  PROVE  \E a \in Tasks : Service!Begin(a)
<1>1. PICK a \in Tasks : a = m_singleTask
  BY DEF TakeSingle, SinglePending, TypeOK, PoolOK
<1>2. /\ m_singleTask # Null /\ m_singleState = "PENDING"
      /\ m_singleState' = "EXECUTING" /\ Execute(w, a)
      /\ UNCHANGED <<m_singleTask, m_tasksHi, m_tasksLo>>
  BY <1>1 DEF TakeSingle, SinglePending, Execute, queueVars
<1>3. IsPending(a) /\ ~IsRun(a)
  BY <1>1, <1>2 DEF IsPending, IsRun, Ownership, SlotOwns, IsSingle
<1>4. StatusOf(a) = "submitted"
  BY <1>3, StatusParts
<1>5. \A b \in Tasks : b # a =>
        ((b \in Queued \/ IsPending(b))' <=> (b \in Queued \/ IsPending(b)))
  BY <1>1, <1>2 DEF IsPending, Queued
<1> QED BY <1>2, <1>4, <1>5, ExecuteBegins

\* Taking the head of a queue begins it.
LEMMA TakeBegins ==
  ASSUME TypeOK, TypeOK', Ownership, NEW w \in Workers, TakeHi(w) \/ TakeLo(w)
  PROVE  \E a \in Tasks : Service!Begin(a)
<1>1. PICK a :
      /\ Execute(w, a)
      /\ \/ /\ m_tasksHi # <<>> /\ a = Head(m_tasksHi)
            /\ m_tasksHi' = Tail(m_tasksHi) /\ UNCHANGED m_tasksLo
         \/ /\ m_tasksLo # <<>> /\ a = Head(m_tasksLo)
            /\ m_tasksLo' = Tail(m_tasksLo) /\ UNCHANGED m_tasksHi
      /\ UNCHANGED <<m_singleTask, m_singleState>>
  BY DEF TakeHi, TakeLo, Execute
<1>2. a \in Queued /\ Queued' = Queued \ {a}
  <2>1. QueuedOnce
    BY DEF Ownership, QueuesOwn
  <2> QED BY <1>1, <2>1, QueueTakes
<1>3. a \in Tasks
  BY <1>2 DEF TypeOK, PoolOK, Queued, Elems
<1>4. ~IsRun(a)
  BY <1>2 DEF IsRun, Ownership, QueuesOwn, Threads
<1>5. StatusOf(a) = "submitted"
  BY <1>2, <1>3, <1>4, StatusParts
<1>6. \A b \in Tasks : b # a =>
        ((b \in Queued \/ IsPending(b))' <=> (b \in Queued \/ IsPending(b)))
  BY <1>1, <1>2 DEF IsPending
<1> QED BY <1>1, <1>3, <1>5, <1>6, ExecuteBegins

\* The end of run() finishes the task.
LEMMA RunTaskFinishes ==
  ASSUME TypeOK, TypeOK', Ownership, NEW w \in Workers, RunTask(w)
  PROVE  \E a \in Tasks : Service!Finish(a)
<1>1. /\ pc[w] = "run" /\ pc' = [pc EXCEPT ![w] = "done"]
      /\ UNCHANGED <<m_singleTask, m_singleState, m_tasksHi, m_tasksLo, task>>
  BY DEF RunTask, singleVars, queueVars
<1>2. PICK a \in Tasks : a = task[w] /\ a # Null
  BY <1>1 DEF TypeOK, ThreadsOK, Threads
<1>3. /\ w \in Threads /\ w \notin Callers
      /\ \A t \in Threads : t # w => pc'[t] = pc[t]
      /\ pc'[w] = "done"
  BY <1>1 DEF TypeOK, ThreadsOK, Threads
<1>4. Queued' = Queued /\ a \notin Queued
  BY <1>1, <1>2, <1>3 DEF Queued, Ownership, QueuesOwn
<1>5. \A v \in Workers : v # w => task[v] # a
  BY <1>2 DEF Ownership, WorkersOwn
<1>6. \A b \in Tasks : /\ b # a => (IsRun(b)' <=> IsRun(b))
                       /\ IsPosted(b)' <=> IsPosted(b)
                       /\ IsPending(b)' <=> IsPending(b)
                       /\ IsCalled(b)' <=> IsCalled(b)
  <2> SUFFICES ASSUME NEW b \in Tasks
               PROVE  /\ b # a => (IsRun(b)' <=> IsRun(b))
                      /\ IsPosted(b)' <=> IsPosted(b)
                      /\ IsPending(b)' <=> IsPending(b)
                      /\ IsCalled(b)' <=> IsCalled(b)
    OBVIOUS
  <2>1. b # a => (IsRun(b)' <=> IsRun(b))
    BY <1>1, <1>2, <1>3 DEF IsRun, Threads
  <2>2. IsPosted(b)' <=> IsPosted(b)
    BY <1>1, <1>3 DEF IsPosted, Threads
  <2>3. (IsPending(b)' <=> IsPending(b)) /\ (IsCalled(b)' <=> IsCalled(b))
    BY <1>1 DEF IsPending, IsCalled
  <2> QED BY <2>1, <2>2, <2>3
<1>7. ~IsPosted(a) /\ ~IsPending(a)
  <2>1. ~IsPending(a)
    BY <1>2 DEF IsPending, Ownership, SlotOwns, IsSingle
  <2>2. ASSUME NEW c \in Callers, pc[c] = "post", task[c] = a PROVE FALSE
    <3>1. task[c] = m_singleTask
      BY <1>2, <2>2, HandsApart DEF IsSingle
    <3> QED BY <2>2, <3>1 DEF Ownership, CallersOwn
  <2> QED BY <2>1, <2>2 DEF IsPosted
<1>8. IsRun(a) /\ ~IsRun(a)'
  BY <1>1, <1>2, <1>3, <1>5 DEF IsRun, Threads
<1>9. StatusOf(a) = "running"
      /\ StatusOf(a)' = IF IsCalled(a) THEN "done" ELSE "none"
  BY <1>4, <1>6, <1>7, <1>8, StatusParts, StatusPartsNext
<1>10. \A b \in Tasks : b # a => StatusOf(b)' = StatusOf(b)
  BY <1>4, <1>6, StatusParts, StatusPartsNext
<1>11. statusBar' = [statusBar EXCEPT ![a] = IF Service!Awaited(a)
                                            THEN "done" ELSE "none"]
  BY <1>9, <1>10, StatusChange, AwaitedMeans
<1>12. awaitedBar' = awaitedBar
  BY <1>1, AwaitedSame
<1> QED BY <1>9, <1>11, <1>12 DEF Service!Finish, statusBar, awaitedBar

\* The bookkeeping after a task changes nothing for the service.
LEMMA CompleteStutters ==
  ASSUME TypeOK, TypeOK', Ownership, NEW w \in Workers, Complete(w)
  PROVE  UNCHANGED Service!vars
<1>1. /\ pc[w] = "done" /\ pc' = [pc EXCEPT ![w] = "loop"]
      /\ task' = [task EXCEPT ![w] = Null]
      /\ m_singleState' = IF IsSingle(w) THEN "FINISHED" ELSE m_singleState
      /\ UNCHANGED <<m_singleTask, m_tasksHi, m_tasksLo>>
  BY DEF Complete, At, queueVars
<1>2. /\ w \in Threads /\ w \notin Callers /\ task[w] # Null
      /\ \A t \in Threads : t # w => pc'[t] = pc[t] /\ task'[t] = task[t]
      /\ pc'[w] = "loop"
  BY <1>1 DEF TypeOK, ThreadsOK, Threads
<1>3. \A b \in Tasks : StatusOf(b)' = StatusOf(b)
  <2> SUFFICES ASSUME NEW b \in Tasks PROVE StatusOf(b)' = StatusOf(b)
    OBVIOUS
  <2>1. IsRun(b)' <=> IsRun(b)
    BY <1>1, <1>2 DEF IsRun, Threads
  <2>2. (IsPosted(b)' <=> IsPosted(b)) /\ (IsCalled(b)' <=> IsCalled(b))
    BY <1>2 DEF IsPosted, IsCalled, Threads
  <2>3. IsPending(b)' <=> IsPending(b)
    <3>1. IsSingle(w) => m_singleState # "PENDING"
      BY <1>2 DEF Ownership, SlotOwns, IsSingle
    <3> QED BY <1>1, <3>1 DEF IsPending
  <2>4. Queued' = Queued
    BY <1>1 DEF Queued
  <2> QED BY <2>1, <2>2, <2>3, <2>4, StatusParts, StatusPartsNext
<1>4. \A c \in Callers : task'[c] = task[c]
  BY <1>2 DEF Threads
<1> QED BY <1>3, <1>4, ServiceStutter

-----------------------------------------------------------------------------
(* The refinement. *)

\* Every step of the pool is a step of the service or none.
LEMMA ServiceStep ==
  ASSUME NoReuse, TypeOK, Ownership, [Next]_vars
  PROVE  [Service!Next]_(Service!vars)
<1> USE DEF lockVars, modeVars, singleVars, queueVars, doneVars, heapVars
<1>a. TypeOK'
  BY TypeInductive
<1>0. CASE UNCHANGED vars
  BY <1>0, <1>a, SameStutters DEF vars
<1> SUFFICES ASSUME Step PROVE Service!Next \/ UNCHANGED Service!vars
  BY <1>0, NextIsStep
<1>b. ThreadsOK /\ Owners \subseteq Threads /\ Workers \subseteq Threads
      /\ \A c \in Owners : c \notin Workers
  BY DEF TypeOK, Threads
<1>1. ASSUME NEW t \in Threads, NEW a \in Tasks, NEW order \in Orders,
             AssignLo(t, a, order) \/ AssignHi(t, a, order)
      PROVE  Service!Next
  BY <1>1, <1>a, AssignSubmits DEF Service!Next
<1>2. ASSUME NEW c \in Callers, NEW a \in Tasks, RunSingle(c, a)
      PROVE  Service!Next
  BY <1>2, <1>a, RunSingleCalls DEF Service!Next
<1>3. ASSUME NEW c \in Callers, PostSingle(c) \/ JoinSingle(c)
      PROVE  Service!Next \/ UNCHANGED Service!vars
  BY <1>3, <1>a, PostSingleStutters, JoinSingleReturns DEF Service!Next
<1>4. ASSUME NEW c \in Owners, OwnerStep(c)
      PROVE  Service!Next \/ UNCHANGED Service!vars
  <2>1. CASE Wait(c)
    BY <1>a, <1>b, <2>1, SameStutters DEF Wait, At, ThreadsOK
  <2>2. CASE Clear(c)
    BY <1>a, <2>2, ClearDrops DEF Service!Next
  <2>3. CASE Suspend(c) \/ Resume(c)
    BY <1>a, <2>3, SameStutters DEF Suspend, Resume
  <2>4. CASE Start(c)
    BY <1>a, <1>b, <2>4, SameStutters DEF Start, ThreadsOK
  <2>5. CASE Stop(c) \/ Stopped(c)
    BY <1>a, <1>b, <2>5, SameStutters DEF Stop, Stopped, At, ThreadsOK
  <2> QED BY <1>4, <2>1, <2>2, <2>3, <2>4, <2>5 DEF OwnerStep
<1>5. ASSUME NEW w \in Workers, WorkerStep(w)
      PROVE  Service!Next \/ UNCHANGED Service!vars
  <2>1. CASE WorkerExit(w)
    BY <1>a, <1>b, <2>1, SameStutters DEF WorkerExit, At, ThreadsOK
  <2>2. CASE WorkerSleep(w)
    BY <1>a, <2>2, SameStutters DEF WorkerSleep
  <2>3. CASE TakeSingle(w) \/ TakeHi(w) \/ TakeLo(w)
    BY <1>a, <2>3, TakeSingleBegins, TakeBegins DEF Service!Next
  <2>4. CASE RunTask(w)
    BY <1>a, <2>4, RunTaskFinishes DEF Service!Next
  <2>5. CASE Complete(w)
    BY <1>a, <2>5, CompleteStutters
  <2> QED BY <1>5, <2>1, <2>2, <2>3, <2>4, <2>5 DEF WorkerStep
<1> QED BY <1>1, <1>2, <1>3, <1>4, <1>5 DEF Step

\* At first no task is submitted and nobody waits.
LEMMA ServiceInit == Init => Service!Init
<1> SUFFICES ASSUME Init PROVE Service!Init
  OBVIOUS
<1>1. \A t \in Threads : pc[t] \in {"dead", "idle"}
  BY DEF Init
<1>2. Queued = {} /\ m_singleTask = Null
  BY EmptyElems DEF Init, Queued
<1>3. \A a \in Tasks : StatusOf(a) = "none"
  BY <1>1, <1>2 DEF StatusOf, CalledWith, Threads
<1>4. statusBar = [a \in Tasks |-> "none"]
  BY <1>3 DEF statusBar
<1>5. awaitedBar = [c \in Callers |-> Null]
  BY <1>1 DEF awaitedBar, Threads
<1> QED BY <1>4, <1>5 DEF Service!Init, statusBar, awaitedBar

\* The pool implements the task service: no task runs twice or after clear()
\* dropped it, never more than one a worker, and runSingle() returns only after
\* its task was run; as long as no address is allocated again while a worker
\* holds it.
THEOREM PoolImplementsService == ASSUME NoReuse PROVE Spec => ImplementsService
<1>1. TypeOK /\ Ownership /\ [Next]_vars => [Service!Next]_(Service!vars)
  BY ServiceStep
<1>2. TypeOK /\ Ownership /\ [Next]_vars => Ownership'
  BY OwnershipInductive
<1> QED BY <1>1, <1>2, ServiceInit, OwnershipInit, TypeCorrect, PTL
        DEF Spec, ImplementsService, Service!Spec

-----------------------------------------------------------------------------
(* One worker serves the queues in their order. *)

\* The application creates the pool with one thread (initialisation.cpp).
OneWorker == \A v, w \in Workers : v = w

\* The only worker executes the task it has in hand.
LEMMA CurrentIsTask ==
  ASSUME OneWorker, TypeOK, NEW w \in Workers
  PROVE  CurrentTask = task[w]
<1>1. CASE w \in Executing
  <2>1. (CHOOSE v \in Executing : TRUE) \in Executing
    BY <1>1
  <2>2. (CHOOSE v \in Executing : TRUE) = w
    BY <2>1 DEF OneWorker, Executing
  <2> QED BY <1>1, <2>2 DEF CurrentTask
<1>2. CASE w \notin Executing
  <2>1. ~\E v \in Executing : TRUE
    BY <1>2 DEF OneWorker, Executing
  <2>2. task[w] = Null
    BY <1>2 DEF TypeOK, ThreadsOK, Threads, Executing
  <2> QED BY <2>1, <2>2 DEF CurrentTask
<1> QED BY <1>1, <1>2

\* The same after a step.
LEMMA CurrentIsTaskNext ==
  ASSUME OneWorker, TypeOK', NEW w \in Workers
  PROVE  CurrentTask' = task'[w]
<1>1. CASE w \in Executing'
  <2>1. (CHOOSE v \in Executing' : TRUE) \in Executing'
    BY <1>1
  <2>2. (CHOOSE v \in Executing' : TRUE) = w
    BY <2>1 DEF OneWorker, Executing
  <2> QED BY <1>1, <2>2 DEF CurrentTask
<1>2. CASE w \notin Executing'
  <2>1. ~\E v \in Executing' : TRUE
    BY <1>2 DEF OneWorker, Executing
  <2>2. task'[w] = Null
    BY <1>2 DEF TypeOK, ThreadsOK, Threads, Executing
  <2> QED BY <2>1, <2>2 DEF CurrentTask
<1> QED BY <1>1, <1>2

\* A step that changes the task in hand of no worker.
LEMMA CurrentSame ==
  ASSUME OneWorker, TypeOK, TypeOK', \A w \in Workers : task'[w] = task[w]
  PROVE  CurrentTask' = CurrentTask
<1>1. CASE Workers = {}
  <2>1. ~(\E v \in Executing : TRUE) /\ ~(\E v \in Executing' : TRUE)
    BY <1>1 DEF Executing
  <2> QED BY <2>1 DEF CurrentTask
<1>2. ASSUME NEW w \in Workers PROVE CurrentTask' = CurrentTask
  BY CurrentIsTask, CurrentIsTaskNext
<1> QED BY <1>1, <1>2

\* The pools enter tasks into queues alike.
LEMMA PutIsEnqueue ==
  ASSUME NEW q, NEW a, NEW order PROVE Queue!Put(q, a, order) = Enqueue(q, a, order)
BY DEF Queue!Put, Enqueue

\* What a worker takes.
LEMMA ExecuteTakes ==
  ASSUME OneWorker, TypeOK, TypeOK', NEW w \in Workers, NEW a, Execute(w, a)
  PROVE  /\ ~m_terminating /\ CurrentTask = Null /\ CurrentTask' = a
         /\ UNCHANGED <<m_singleTask, m_terminating, emitted>>
<1>1. task[w] = Null /\ task'[w] = a
  BY DEF Execute, At, TypeOK, ThreadsOK, Threads
<1> QED BY <1>1, CurrentIsTask, CurrentIsTaskNext DEF Execute, modeVars

\* Every step of a pool with one worker is a step of the queues or none.
LEMMA QueueStep ==
  ASSUME NoReuse, OneWorker, TypeOK, Ownership, [Next]_vars
  PROVE  [Queue!PoolNext]_(Queue!poolVars)
<1> USE DEF lockVars, modeVars, singleVars, queueVars, doneVars, heapVars
<1>a. TypeOK'
  BY TypeInductive
<1>0. CASE UNCHANGED vars
  BY <1>0, <1>a, CurrentSame DEF vars, Queue!poolVars
<1> SUFFICES ASSUME Step PROVE Queue!PoolNext \/ UNCHANGED Queue!poolVars
  BY <1>0, NextIsStep
<1>b. ThreadsOK /\ Owners \subseteq Callers /\ Workers \subseteq Threads
      /\ \A c \in Callers : c \notin Workers
  BY DEF TypeOK, Threads
<1>1. ASSUME NEW t \in Threads, NEW a \in Tasks, NEW order \in Orders,
             AssignLo(t, a, order) \/ AssignHi(t, a, order)
      PROVE  Queue!PoolNext
  <2>1. CurrentTask' = CurrentTask
    BY <1>1, <1>a, CurrentSame DEF AssignLo, AssignHi
  <2>2. Queue!PutLo(a, order) \/ Queue!PutHi(a, order)
    BY <1>1, <2>1, PutIsEnqueue DEF AssignLo, AssignHi, Queue!PutLo, Queue!PutHi
  <2> QED BY <2>2 DEF Queue!PoolNext, Orders
<1>2. ASSUME NEW c \in Callers, NEW a \in Tasks, RunSingle(c, a)
      PROVE  UNCHANGED Queue!poolVars
  <2>1. CurrentTask' = CurrentTask
    <3>1. \A w \in Workers : task'[w] = task[w]
      BY <1>2, <1>b DEF RunSingle, ThreadsOK
    <3> QED BY <3>1, <1>a, CurrentSame
  <2> QED BY <1>2, <2>1 DEF RunSingle, Queue!poolVars
<1>3. ASSUME NEW c \in Callers, PostSingle(c)
      PROVE  Queue!PoolNext \/ UNCHANGED Queue!poolVars
  <2>1. CurrentTask' = CurrentTask
    BY <1>3, <1>a, CurrentSame DEF PostSingle
  <2>2. task[c] \in Tasks
    BY <1>3, <1>b DEF PostSingle, At, ThreadsOK, Threads
  <2>3. CASE m_singleTask = Null
    <3>1. Queue!PutSingle(task[c])
      BY <1>3, <2>1, <2>3 DEF PostSingle, Queue!PutSingle
    <3> QED BY <2>2, <3>1 DEF Queue!PoolNext
  <2>4. CASE m_singleTask # Null
    BY <1>3, <2>1, <2>4 DEF PostSingle, Queue!poolVars
  <2> QED BY <2>3, <2>4
<1>4. ASSUME NEW c \in Callers, JoinSingle(c)
      PROVE  Queue!PoolNext \/ UNCHANGED Queue!poolVars
  <2>1. CurrentTask' = CurrentTask
    <3>1. \A w \in Workers : task'[w] = task[w]
      BY <1>4, <1>b DEF JoinSingle, ThreadsOK
    <3> QED BY <3>1, <1>a, CurrentSame
  <2>2. CASE m_singleState = "FINISHED"
    <3>1. m_singleTask # Null
      BY <1>4, <1>b DEF JoinSingle, At, ThreadsOK, Threads, Ownership, CallersOwn
    <3>2. Queue!VacateSingle
      BY <1>4, <2>1, <2>2, <3>1 DEF JoinSingle, Queue!VacateSingle
    <3> QED BY <3>2 DEF Queue!PoolNext
  <2>3. CASE m_singleState # "FINISHED"
    BY <1>4, <2>1, <2>3 DEF JoinSingle, Queue!poolVars
  <2> QED BY <2>2, <2>3
<1>5. ASSUME NEW c \in Owners, OwnerStep(c)
      PROVE  Queue!PoolNext \/ UNCHANGED Queue!poolVars
  <2>1. CurrentTask' = CurrentTask
    <3>1. task' = task
      BY <1>5 DEF OwnerStep, Wait, Clear, Suspend, Resume, Start, Stop, Stopped
    <3> QED BY <3>1, <1>a, CurrentSame
  <2>2. CASE Wait(c) \/ Suspend(c) \/ Resume(c) \/ Stopped(c)
    BY <2>1, <2>2 DEF Wait, Suspend, Resume, Stopped, Queue!poolVars
  <2>3. CASE Clear(c)
    BY <2>1, <2>3 DEF Clear, Queue!PoolNext, Queue!ClearQueues
  <2>4. CASE Start(c) \/ Stop(c)
    <3>1. Queue!SetTerminating(FALSE) \/ Queue!SetTerminating(TRUE)
      BY <2>1, <2>4 DEF Start, Stop, Queue!SetTerminating
    <3> QED BY <3>1 DEF Queue!PoolNext
  <2> QED BY <1>5, <2>2, <2>3, <2>4 DEF OwnerStep
<1>6. ASSUME NEW w \in Workers, WorkerStep(w)
      PROVE  Queue!PoolNext \/ UNCHANGED Queue!poolVars
  <2>1. CASE WorkerExit(w) \/ WorkerSleep(w) \/ RunTask(w)
    <3>1. CurrentTask' = CurrentTask
      <4>1. task' = task
        BY <2>1 DEF WorkerExit, WorkerSleep, RunTask
      <4> QED BY <4>1, <1>a, CurrentSame
    <3> QED BY <2>1, <3>1 DEF WorkerExit, WorkerSleep, RunTask, Queue!poolVars
  <2>2. CASE TakeSingle(w)
    <3>1. Execute(w, m_singleTask)
      BY <2>2 DEF TakeSingle
    <3>2. Queue!Take
      BY <1>a, <2>2, <3>1, ExecuteTakes
         DEF TakeSingle, SinglePending, Queue!Take, Queue!Pending
    <3> QED BY <3>2 DEF Queue!PoolNext
  <2>3. CASE TakeHi(w)
    <3>1. Execute(w, Head(m_tasksHi))
      BY <2>3 DEF TakeHi
    <3>2. Queue!Take
      BY <1>a, <2>3, <3>1, ExecuteTakes
         DEF TakeHi, SinglePending, Queue!Take, Queue!Pending
    <3> QED BY <3>2 DEF Queue!PoolNext
  <2>4. CASE TakeLo(w)
    <3>1. Execute(w, Head(m_tasksLo))
      BY <2>4 DEF TakeLo
    <3>2. Queue!Take
      BY <1>a, <2>4, <3>1, ExecuteTakes
         DEF TakeLo, SinglePending, Queue!Take, Queue!Pending
    <3> QED BY <3>2 DEF Queue!PoolNext
  <2>5. CASE Complete(w)
    <3>1. task[w] # Null /\ task'[w] = Null
      BY <2>5, <1>b DEF Complete, At, ThreadsOK
    <3>2. CurrentTask = task[w] /\ CurrentTask' = Null
      BY <1>a, <3>1, CurrentIsTask, CurrentIsTaskNext
    <3>3. Remaining(w) = {}
      <4>1. m_dequeuedRunning \subseteq {task[w]} \ {m_singleTask}
        BY DEF OneWorker, Ownership, HoldersOwn, TypeOK, PoolOK
      <4> QED BY <4>1 DEF IsSingle
    <3>4. /\ m_singleState' = IF task[w] = m_singleTask THEN "FINISHED" ELSE m_singleState
          /\ emitted' = Signal(w, Remaining(w))
          /\ UNCHANGED <<m_tasksHi, m_tasksLo, m_singleTask, m_terminating>>
      BY <2>5 DEF Complete, IsSingle
    <3>5. Signal(w, Remaining(w)) =
            IF m_tasksHi # <<>> \/ m_tasksLo # <<>> THEN "none"
            ELSE IF task[w] = m_singleTask THEN "finished" ELSE "assignedFinished"
      BY <3>3 DEF Signal, QueuesEmpty, IsSingle
    <3> HIDE DEF Remaining
    <3>6. Queue!EndOfTask
      BY <3>1, <3>2, <3>4, <3>5 DEF Queue!EndOfTask
    <3> QED BY <3>6 DEF Queue!PoolNext
  <2> QED BY <1>6, <2>1, <2>2, <2>3, <2>4, <2>5 DEF WorkerStep
<1> QED BY <1>1, <1>2, <1>3, <1>4, <1>5, <1>6 DEF Step

\* With one worker, as in the application, the pool takes the single task, then
\* the high and then the low priority tasks, in the order of their queues, and
\* ends a batch with its signal; any number of callers, whatever they do
\* meanwhile.
THEOREM OneWorkerImplementsQueue ==
  ASSUME NoReuse, OneWorker PROVE Spec => ImplementsQueue
<1>1. TypeOK /\ Ownership /\ [Next]_vars => [Queue!PoolNext]_(Queue!poolVars)
  BY QueueStep
<1>2. TypeOK /\ Ownership /\ [Next]_vars => Ownership'
  BY OwnershipInductive
<1>3. Init => Queue!PoolInit
  <2> SUFFICES ASSUME Init PROVE Queue!PoolInit
    OBVIOUS
  <2>1. ~\E w \in Executing : TRUE
    BY DEF Init, Executing, Threads
  <2> QED BY <2>1 DEF Init, Queue!PoolInit, CurrentTask
<1> QED BY <1>1, <1>2, <1>3, OwnershipInit, TypeCorrect, PTL
        DEF Spec, ImplementsQueue, Queue!PoolSpec

=============================================================================
