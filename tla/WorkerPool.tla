----------------------------- MODULE WorkerPool -----------------------------
(***************************************************************************)
(* The worker pool of Datovka, src/datovka_shared/worker/pool.cpp: a       *)
(* monitor (mutex m_lock, one condition m_wake) that hands tasks to worker *)
(* threads.  Tasks come from three places, in order of priority: one       *)
(* single task, whose caller sleeps in runSingle() until it has been run,  *)
(* a high priority queue and a low priority queue.                         *)
(*                                                                         *)
(* A task is known to the pool by its address only, so Tasks is a set of   *)
(* addresses and heap says which of them hold an object: one the pool      *)
(* deletes ("auto") or one its caller deletes ("keep").                    *)
(*                                                                         *)
(* Every region between m_lock.lock() and the unlock() or the wait() that  *)
(* ends it is one action.  The one region that spans two is a worker that  *)
(* has finished a task: it does its bookkeeping and looks for the next     *)
(* task without giving the mutex up.  m_lock names that worker between the *)
(* two actions and is Null otherwise.                                      *)
(***************************************************************************)
EXTENDS Integers, Sequences, FiniteSets

CONSTANTS
  Workers,      \* the threads of the pool
  Callers,      \* the threads that submit tasks
  Owners,       \* those of them that also start, stop, suspend, clear and wait
  Tasks,        \* the addresses task objects are allocated at
  Null,
  MaxTasks,     \* bound: objects allocated in one behaviour
  AddressReuse  \* may an address be allocated while a worker still holds it?

ASSUME PoolAssumption ==
  /\ Owners \subseteq Callers
  /\ Workers \cap Callers = {}
  /\ Null \notin Workers \cup Callers \cup Tasks
  /\ IsFiniteSet(Workers)
  /\ MaxTasks \in Nat
  /\ AddressReuse \in BOOLEAN

VARIABLES
  m_lock, m_wake,                     \* the worker in mid region; the sleepers
  m_terminating, m_suspended, m_running,
  m_singleTask, m_singleState,
  m_tasksHi, m_tasksLo, m_dequeuedRunning,
  pc, task,                           \* per thread: where it is, its local task
  heap,                               \* per address: "free", "auto" or "keep"
  created,                            \* objects allocated so far
  executed,                           \* history: objects whose run() returned
  emitted,                            \* history: signal of the last completion
  unannounced,                        \* history: assigned tasks ended silently
  cleared                             \* history: clear() has removed the last of
                                      \* the tasks that were to announce it

lockVars == <<m_lock, m_wake>>
modeVars == <<m_terminating, m_suspended>>
singleVars == <<m_singleTask, m_singleState>>
queueVars == <<m_tasksHi, m_tasksLo>>
doneVars == <<m_running, m_dequeuedRunning, emitted, unannounced, cleared>>
heapVars == <<heap, created, executed>>
vars == <<lockVars, modeVars, singleVars, queueVars, doneVars, heapVars,
          pc, task>>

Threads == Workers \cup Callers
Orders == {"APPEND", "PREPEND"}
Elems(q) == {q[i] : i \in DOMAIN q}
Queued == Elems(m_tasksHi) \cup Elems(m_tasksLo)
QueuesEmpty == m_tasksHi = <<>> /\ m_tasksLo = <<>>

\* The threads: a caller or a worker has a task in hand exactly where the code
\* has a local pointer to one.
ThreadsOK ==
  /\ pc \in [Threads -> {"idle", "wait", "post", "join", "stop",
                         "dead", "loop", "run", "done"}]
  /\ \A c \in Callers : pc[c] \in {"idle", "wait", "post", "join", "stop"}
  /\ \A w \in Workers : pc[w] \in {"dead", "loop", "run", "done"}
  /\ task \in [Threads -> Tasks \cup {Null}]
  /\ \A t \in Threads : task[t] # Null <=> pc[t] \in {"post", "join", "run", "done"}

\* The members of the pool, the allocator and the history variables.
PoolOK ==
  /\ m_lock \in Workers \cup {Null}
  /\ m_wake \subseteq Threads
  /\ m_terminating \in BOOLEAN
  /\ m_suspended \in BOOLEAN
  /\ m_running \in Int
  /\ m_singleTask \in Tasks \cup {Null}
  /\ m_singleState \in {"PENDING", "EXECUTING", "FINISHED"}
  /\ m_tasksHi \in Seq(Tasks)
  /\ m_tasksLo \in Seq(Tasks)
  /\ m_dequeuedRunning \subseteq Tasks
  /\ heap \in [Tasks -> {"free", "auto", "keep"}]
  /\ created \in Nat
  /\ executed \subseteq Tasks
  /\ emitted \in {"none", "finished", "assignedFinished"}
  /\ unannounced \in BOOLEAN /\ cleared \in BOOLEAN

TypeOK == ThreadsOK /\ PoolOK

Init ==
  /\ m_lock = Null
  /\ m_wake = {}
  /\ m_terminating = FALSE
  /\ m_suspended = FALSE
  /\ m_running = 0
  /\ m_singleTask = Null
  /\ m_singleState = "FINISHED"
  /\ m_tasksHi = <<>>
  /\ m_tasksLo = <<>>
  /\ m_dequeuedRunning = {}
  /\ pc = [t \in Threads |-> IF t \in Workers THEN "dead" ELSE "idle"]
  /\ task = [t \in Threads |-> Null]
  /\ heap = [a \in Tasks |-> "free"]
  /\ created = 0
  /\ executed = {}
  /\ emitted = "none"
  /\ unannounced = FALSE
  /\ cleared = FALSE

-----------------------------------------------------------------------------
(* Task objects. *)

\* The tests wait() and working() make: is there anything left to do?
Busy ==
  \/ m_singleTask # Null
  \/ ~QueuesEmpty
  \/ m_running > 0

\* A thread at location l that is awake and can get the mutex.
At(t, l) == pc[t] = l /\ t \notin m_wake /\ m_lock \in {Null, t}

\* new: the allocator never returns an address in use.  A worker deletes an
\* assigned task before it takes the mutex and forgets the pointer; in between
\* the allocator is free to hand the same address out again.
New(a, kind) ==
  /\ created < MaxTasks
  /\ heap[a] = "free"
  /\ AddressReuse \/ \A w \in Workers : task[w] # a
  /\ heap' = [heap EXCEPT ![a] = kind]
  /\ created' = created + 1
  /\ executed' = executed \ {a}

\* MUTANT of wakeAll: wakeOne() in its place.
wakeOne == m_wake' = {} \/ \E t \in m_wake : m_wake' = m_wake \ {t}

\* m_wake.wakeAll(): everybody looks again at the condition he sleeps on.
wakeAll == m_wake' = {}

Enqueue(q, a, order) == IF order = "APPEND" THEN Append(q, a) ELSE <<a>> \o q

-----------------------------------------------------------------------------
(* The operations of the pool, called by t. *)

\* Callers assign at any time, a worker while it runs a task: the download of a
\* message list assigns the downloads of its messages.
MayAssign(t) ==
  /\ m_lock = Null
  /\ IF t \in Workers THEN pc[t] = "run" ELSE pc[t] = "idle"

AssignLo(t, a, order) ==
  /\ MayAssign(t)
  /\ New(a, "auto")
  /\ m_tasksLo' = Enqueue(m_tasksLo, a, order)
  /\ wakeAll
  /\ UNCHANGED <<m_lock, modeVars, singleVars, m_tasksHi, doneVars, pc, task>>

AssignHi(t, a, order) ==
  /\ MayAssign(t)
  /\ New(a, "auto")
  /\ m_tasksHi' = Enqueue(m_tasksHi, a, order)
  /\ wakeAll
  /\ UNCHANGED <<m_lock, modeVars, singleVars, m_tasksLo, doneVars, pc, task>>

\* runSingle(): the caller makes the task and keeps it.
RunSingle(c, a) ==
  /\ At(c, "idle")
  /\ New(a, "keep")
  /\ pc' = [pc EXCEPT ![c] = "post"]
  /\ task' = [task EXCEPT ![c] = a]
  /\ UNCHANGED <<lockVars, modeVars, singleVars, queueVars, doneVars>>

\* runSingle(), first region: wait for the slot, then fill it.
PostSingle(c) ==
  /\ At(c, "post")
  /\ \/ /\ m_singleTask # Null
        /\ m_wake' = m_wake \cup {c}
        /\ UNCHANGED <<singleVars, pc>>
     \/ /\ m_singleTask = Null
        /\ m_singleTask' = task[c]
        /\ m_singleState' = "PENDING"
        /\ wakeAll
        /\ pc' = [pc EXCEPT ![c] = "join"]
  /\ UNCHANGED <<m_lock, modeVars, queueVars, doneVars, heapVars, task>>

\* MUTANT of JoinSingle: the caller still has its pointer after runSingle().
JoinSingleKeepsTask(c) ==
  /\ At(c, "join")
  /\ \/ /\ m_singleState # "FINISHED"
        /\ m_wake' = m_wake \cup {c}
        /\ UNCHANGED <<m_singleTask, pc, task, heap>>
     \/ /\ m_singleState = "FINISHED"
        /\ m_singleTask' = Null
        /\ wakeAll
        /\ pc' = [pc EXCEPT ![c] = "idle"]
        /\ heap' = [heap EXCEPT ![task[c]] = "free"]
        /\ UNCHANGED task
  /\ UNCHANGED <<m_lock, modeVars, m_singleState, queueVars, doneVars,
                 created, executed>>

\* runSingle(), second region: wait for the result and vacate the slot; the
\* caller deletes the task as soon as runSingle() returns.
JoinSingle(c) ==
  /\ At(c, "join")
  /\ \/ /\ m_singleState # "FINISHED"
        /\ m_wake' = m_wake \cup {c}
        /\ UNCHANGED <<m_singleTask, pc, task, heap>>
     \/ /\ m_singleState = "FINISHED"
        /\ m_singleTask' = Null
        /\ wakeAll
        /\ pc' = [pc EXCEPT ![c] = "idle"]
        /\ heap' = [heap EXCEPT ![task[c]] = "free"]
        /\ task' = [task EXCEPT ![c] = Null]
  /\ UNCHANGED <<m_lock, modeVars, m_singleState, queueVars, doneVars,
                 created, executed>>

\* wait(): the call, and each time its caller is woken.
Wait(c) ==
  /\ At(c, "idle") \/ At(c, "wait")
  /\ \/ /\ Busy
        /\ m_wake' = m_wake \cup {c}
        /\ pc' = [pc EXCEPT ![c] = "wait"]
     \/ /\ ~Busy
        /\ pc' = [pc EXCEPT ![c] = "idle"]
        /\ UNCHANGED m_wake
  /\ UNCHANGED <<m_lock, modeVars, singleVars, queueVars, doneVars, heapVars,
                 task>>

\* clear(): deletes what is queued, wakes nobody and announces nothing.
Clear(c) ==
  /\ At(c, "idle")
  /\ m_tasksHi' = <<>>
  /\ m_tasksLo' = <<>>
  /\ heap' = [a \in Tasks |-> IF a \in Queued /\ heap[a] = "auto"
                              THEN "free" ELSE heap[a]]
  /\ cleared' = (cleared \/ (unannounced /\ m_dequeuedRunning = {}))
  /\ UNCHANGED <<lockVars, modeVars, singleVars, m_running, m_dequeuedRunning,
                 emitted, unannounced, created, executed, pc, task>>

Suspend(c) ==
  /\ At(c, "idle")
  /\ m_suspended' = TRUE
  /\ UNCHANGED <<lockVars, m_terminating, singleVars, queueVars, doneVars,
                 heapVars, pc, task>>

Resume(c) ==
  /\ At(c, "idle")
  /\ m_suspended' = FALSE
  /\ wakeAll
  /\ UNCHANGED <<m_lock, m_terminating, singleVars, queueVars, doneVars,
                 heapVars, pc, task>>

\* start(): called when no thread of the pool runs; it takes no lock.
Start(c) ==
  /\ pc[c] = "idle"
  /\ \A w \in Workers : pc[w] = "dead"
  /\ m_terminating' = FALSE
  /\ m_suspended' = FALSE
  /\ pc' = [t \in Threads |-> IF t \in Workers THEN "loop" ELSE pc[t]]
  /\ UNCHANGED <<lockVars, singleVars, queueVars, doneVars, heapVars, task>>

\* stop(): the locked region, then the join of every thread.
Stop(c) ==
  /\ At(c, "idle")
  /\ m_terminating' = TRUE
  /\ wakeAll
  /\ pc' = [pc EXCEPT ![c] = "stop"]
  /\ UNCHANGED <<m_lock, m_suspended, singleVars, queueVars, doneVars,
                 heapVars, task>>

Stopped(c) ==
  /\ pc[c] = "stop"
  /\ \A w \in Workers : pc[w] = "dead"
  /\ pc' = [pc EXCEPT ![c] = "idle"]
  /\ UNCHANGED <<lockVars, modeVars, singleVars, queueVars, doneVars, heapVars,
                 task>>

-----------------------------------------------------------------------------
(* The worker thread, WorkerPool::run(). *)

\* MUTANT of SinglePending: the state of the single task is not looked at.
SingleAny == m_singleTask # Null

SinglePending == m_singleTask # Null /\ m_singleState = "PENDING"

\* Is there a task the worker loop would take?
Available == ~m_suspended /\ (SinglePending \/ ~QueuesEmpty)

WorkerExit(w) ==
  /\ At(w, "loop")
  /\ m_terminating
  /\ m_lock' = Null
  /\ pc' = [pc EXCEPT ![w] = "dead"]
  /\ UNCHANGED <<m_wake, modeVars, singleVars, queueVars, doneVars, heapVars,
                 task>>

WorkerSleep(w) ==
  /\ At(w, "loop")
  /\ ~m_terminating
  /\ ~Available
  /\ m_lock' = Null
  /\ m_wake' = m_wake \cup {w}
  /\ UNCHANGED <<modeVars, singleVars, queueVars, doneVars, heapVars, pc, task>>

\* MUTANT of Execute: m_running is not incremented.
ExecuteUncounted(w, a) ==
  /\ At(w, "loop")
  /\ ~m_terminating
  /\ ~m_suspended
  /\ m_lock' = Null
  /\ UNCHANGED m_running
  /\ pc' = [pc EXCEPT ![w] = "run"]
  /\ task' = [task EXCEPT ![w] = a]
  /\ UNCHANGED <<m_wake, modeVars, m_singleTask, emitted, unannounced,
                 cleared, heapVars>>

\* Leave the locked region to run a.
Execute(w, a) ==
  /\ At(w, "loop")
  /\ ~m_terminating
  /\ ~m_suspended
  /\ m_lock' = Null
  /\ m_running' = m_running + 1
  /\ pc' = [pc EXCEPT ![w] = "run"]
  /\ task' = [task EXCEPT ![w] = a]
  /\ UNCHANGED <<m_wake, modeVars, m_singleTask, emitted, unannounced,
                 cleared, heapVars>>

TakeSingle(w) ==
  /\ SinglePending
  /\ Execute(w, m_singleTask)
  /\ m_singleState' = "EXECUTING"
  /\ UNCHANGED <<queueVars, m_dequeuedRunning>>

TakeHi(w) ==
  /\ ~SinglePending
  /\ m_tasksHi # <<>>
  /\ Execute(w, Head(m_tasksHi))
  /\ m_tasksHi' = Tail(m_tasksHi)
  /\ m_dequeuedRunning' = m_dequeuedRunning \cup {Head(m_tasksHi)}
  /\ UNCHANGED <<m_tasksLo, m_singleState>>

\* MUTANT of TakeLo: the high priority queue is not looked at.
TakeLoFirst(w) ==
  /\ ~SinglePending
  /\ m_tasksLo # <<>>
  /\ Execute(w, Head(m_tasksLo))
  /\ m_tasksLo' = Tail(m_tasksLo)
  /\ m_dequeuedRunning' = m_dequeuedRunning \cup {Head(m_tasksLo)}
  /\ UNCHANGED <<m_tasksHi, m_singleState>>

TakeLo(w) ==
  /\ ~SinglePending
  /\ m_tasksHi = <<>>
  /\ m_tasksLo # <<>>
  /\ Execute(w, Head(m_tasksLo))
  /\ m_tasksLo' = Tail(m_tasksLo)
  /\ m_dequeuedRunning' = m_dequeuedRunning \cup {Head(m_tasksLo)}
  /\ UNCHANGED <<m_tasksHi, m_singleState>>

\* task->run() returns and an assigned task is deleted, without the mutex.
RunTask(w) ==
  /\ pc[w] = "run"
  /\ pc' = [pc EXCEPT ![w] = "done"]
  /\ executed' = executed \cup {task[w]}
  /\ heap' = [heap EXCEPT ![task[w]] = IF @ = "auto" THEN "free" ELSE @]
  /\ UNCHANGED <<lockVars, modeVars, singleVars, queueVars, doneVars, created,
                 task>>

\* MUTANT of IsSingle: a single task is taken for the one that has just ended.
IsSingleAny(w) == m_singleTask # Null

IsSingle(w) == task[w] = m_singleTask

\* m_dequeuedRunning without the task of w, which the single task is not in.
Remaining(w) ==
  IF IsSingle(w) THEN m_dequeuedRunning ELSE m_dequeuedRunning \ {task[w]}

\* MUTANT of Signal: nothing is announced while the single slot is occupied.
SignalAfterSingle(w, d) ==
  IF d # {} \/ ~QueuesEmpty \/ m_singleTask # Null THEN "none"
  ELSE IF IsSingle(w) THEN "finished" ELSE "assignedFinished"

\* The signal the bookkeeping of w emits; d is m_dequeuedRunning without w's task.
Signal(w, d) ==
  IF d # {} \/ ~QueuesEmpty THEN "none"
  ELSE IF IsSingle(w) THEN "finished" ELSE "assignedFinished"

\* The bookkeeping after a task; the mutex stays with w.
Complete(w) ==
  LET s == Signal(w, Remaining(w)) IN
  /\ At(w, "done")
  /\ m_lock' = w
  /\ m_running' = m_running - 1
  /\ m_singleState' = IF IsSingle(w) THEN "FINISHED" ELSE m_singleState
  /\ m_dequeuedRunning' = Remaining(w)
  /\ emitted' = s
  /\ unannounced' = (s # "assignedFinished" /\ (unannounced \/ ~IsSingle(w)))
  /\ cleared' = (cleared /\ IsSingle(w))
  /\ wakeAll
  /\ pc' = [pc EXCEPT ![w] = "loop"]
  /\ task' = [task EXCEPT ![w] = Null]
  /\ UNCHANGED <<modeVars, m_singleTask, queueVars, heapVars>>

WorkerStep(w) ==
  \/ WorkerExit(w)
  \/ WorkerSleep(w)
  \/ TakeSingle(w)
  \/ TakeHi(w)
  \/ TakeLo(w)
  \/ RunTask(w)
  \/ Complete(w)

OwnerStep(c) ==
  \/ Wait(c)
  \/ Clear(c)
  \/ Suspend(c)
  \/ Resume(c)
  \/ Start(c)
  \/ Stop(c)
  \/ Stopped(c)

AssignStep(t) ==
  \E a \in Tasks, order \in Orders :
     \/ AssignLo(t, a, order)
     \/ AssignHi(t, a, order)

SingleStep(c) ==
  \/ \E a \in Tasks : RunSingle(c, a)
  \/ PostSingle(c)
  \/ JoinSingle(c)

Next ==
  \/ \E w \in Workers : WorkerStep(w)
  \/ \E c \in Owners : OwnerStep(c)
  \/ \E c \in Callers : AssignStep(c) \/ SingleStep(c)
  \/ \E w \in Workers, a \in Tasks : AssignLo(w, a, "PREPEND")

Spec == Init /\ [][Next]_vars

\* Threads that can go on do so, and every task ends.  Nothing makes an idle
\* caller call the pool again.
Fairness ==
  /\ \A w \in Workers : WF_vars(WorkerStep(w))
  /\ \A c \in Owners : WF_vars(pc[c] = "wait" /\ Wait(c)) /\ WF_vars(Stopped(c))
  /\ \A c \in Callers : WF_vars(PostSingle(c)) /\ WF_vars(JoinSingle(c))

FairSpec == Spec /\ Fairness

-----------------------------------------------------------------------------
(* Properties. *)

Executing == {w \in Workers : pc[w] \in {"run", "done"}}

\* m_running counts the workers between the two locked regions of the loop,
\* whatever the order in which several of them leave and come back.
RunningCount == m_running = Cardinality(Executing)

\* The assertions of WorkerPool::run() (lines 243, 246, 253 and 256) hold
\* whenever a worker is about to make them.
CodeAsserts ==
  \A w \in Workers : pc[w] = "done" =>
    /\ IsSingle(w) => m_singleState = "EXECUTING"
    /\ ~IsSingle(w) => task[w] \in m_dequeuedRunning
    /\ Signal(w, m_dequeuedRunning \ {task[w]}) = "finished" => m_running = 1
    /\ Signal(w, m_dequeuedRunning \ {task[w]}) = "assignedFinished"
         => m_running <= 2

\* The single slot, the state of its task, the caller that joins it and the
\* worker that executes it agree: a caller sleeps for exactly one task, and the
\* task is executed by at most one worker, and only while it is EXECUTING.
SingleConsistent ==
  /\ m_singleTask = Null => \A c \in Callers : pc[c] # "join"
  /\ m_singleTask # Null =>
       /\ m_singleTask \notin Queued \cup m_dequeuedRunning
       /\ \E c \in Callers : \A d \in Callers :
            (pc[d] = "join" <=> d = c) /\ (d = c => task[d] = m_singleTask)
       /\ m_singleState = "FINISHED" <=> m_singleTask \in executed
                                         /\ \A w \in Workers : ~IsSingle(w)
       /\ m_singleState = "EXECUTING" <=> \E w \in Executing : IsSingle(w)

\* m_dequeuedRunning is what the workers hold, the single task apart; if a
\* pointer stayed behind, assignedFinished() would never be emitted again.
DequeuedRunning ==
  m_dequeuedRunning = {task[w] : w \in Executing} \ {m_singleTask}

\* Every pointer the pool may still dereference points to an object that has
\* not been deleted, neither by clear() nor by the caller of runSingle().
NoDanglingTask ==
  /\ \A a \in Queued : heap[a] = "auto"
  /\ \A w \in Workers : pc[w] = "run" => heap[task[w]] # "free"
  /\ m_singleTask # Null => heap[m_singleTask] = "keep"

\* The assertions hold, and what they stand for: the slot, its state, the callers
\* and the workers agree, m_dequeuedRunning is what the workers hold, and no
\* pointer is left to a task that has been deleted.
Bookkeeping == CodeAsserts /\ SingleConsistent /\ DequeuedRunning /\ NoDanglingTask

\* No wake-up is lost: whoever sleeps in m_wake.wait() still has the condition
\* it sleeps on.
Justified(t) ==
  \/ pc[t] = "wait" /\ Busy
  \/ pc[t] = "post" /\ m_singleTask # Null
  \/ pc[t] = "join" /\ m_singleState # "FINISHED"
  \/ pc[t] = "loop" /\ ~m_terminating /\ ~Available

NoLostWakeup == \A t \in m_wake : Justified(t)

\* Doc of assignedFinished(): "Emitted when all enqueued jobs finished and queues
\* are empty."  The code does not, when clear() empties the queues (see cleared).
EndAnnounced ==
  QueuesEmpty /\ ~(\E w \in Executing : ~IsSingle(w)) => ~unannounced

\* The end of the assigned tasks is announced: when none is queued and none is
\* running, assignedFinished() was emitted after the last one ended, whatever was
\* assigned, cleared and finished by other workers meanwhile.  The synchronisation
\* buttons of the main window depend on it.  Only when clear() removes the last
\* tasks of a batch after others have ended silently, and no assigned task is
\* running, does nobody announce the end, until a later batch ends.
DrainAnnounced == EndAnnounced \/ cleared

\* The pool serves its queues.
Serving ==
  ~m_terminating /\ ~m_suspended /\ \A w \in Workers : pc[w] # "dead"

\* Whoever is in wait() or in runSingle() gets out of it as long as the pool
\* is left running.
CallersReturn ==
  <>[]Serving => \A c \in Callers :
                    pc[c] \in {"wait", "post", "join"} ~> pc[c] = "idle"

\* stop() returns: every worker sees m_terminating, asleep or not.
StopReturns == \A c \in Owners : pc[c] = "stop" ~> pc[c] = "idle"

\* Every call that sleeps returns: wait() and runSingle() while the pool is left
\* running, stop() always.
CallsReturn == CallersReturn /\ StopReturns

=============================================================================
