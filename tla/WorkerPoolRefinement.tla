------------------------- MODULE WorkerPoolRefinement -------------------------
(***************************************************************************)
(* The worker pool implements the task service: a task is submitted when   *)
(* it is in a queue, or in the hands of a caller of runSingle() whose turn *)
(* has not come; it is running while a worker executes its run().          *)
(***************************************************************************)
EXTENDS WorkerPool

\* Caller c is inside runSingle() with task a.
CalledWith(c, a) == pc[c] \in {"post", "join"} /\ task[c] = a

StatusOf(a) ==
  IF \E w \in Workers : pc[w] = "run" /\ task[w] = a THEN "running"
  ELSE IF \/ a \in Queued
          \/ \E c \in Callers : pc[c] = "post" /\ task[c] = a
          \/ a = m_singleTask /\ m_singleState = "PENDING"
       THEN "submitted"
  ELSE IF \E c \in Callers : CalledWith(c, a) THEN "done"
  ELSE "none"

Service == INSTANCE TaskService WITH
  Clients <- Callers,
  Capacity <- Cardinality(Workers),
  status <- [a \in Tasks |-> StatusOf(a)],
  awaited <- [c \in Callers |-> IF pc[c] \in {"post", "join"}
                                THEN task[c] ELSE Null]

\* Every behaviour of the pool is one of the task service: no task is run
\* twice or after clear() dropped it, and runSingle() returns only when its
\* task was run, whoever else uses the pool meanwhile.
ImplementsService == Service!Spec

-----------------------------------------------------------------------------
(* With one worker the pool serves its queues like PoolQueue. *)

\* The task the only worker executes.
CurrentTask ==
  IF \E w \in Executing : TRUE THEN task[CHOOSE w \in Executing : TRUE] ELSE Null

Queue == INSTANCE PoolQueue WITH
  Items <- Tasks, None <- Null,
  hi <- m_tasksHi, lo <- m_tasksLo,
  single <- m_singleTask, state <- m_singleState,
  current <- CurrentTask,
  terminating <- m_terminating,
  emitted <- emitted

\* One worker takes the single task, then the high and then the low priority
\* tasks, in the order of their queues, and ends a batch with its signal;
\* sleeping, waking and suspending never reorder, repeat or lose a task.
ImplementsQueue == Queue!PoolSpec
=============================================================================
