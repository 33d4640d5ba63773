------------------------------ MODULE PoolQueue ------------------------------
(***************************************************************************)
(* The worker pool as the application uses it (initialisation.cpp creates  *)
(* it with one thread), without mutex, sleepers and task addresses: two    *)
(* queues and a single slot served in the order of their priority, one     *)
(* task at a time, and the signal that ends a batch.  WorkerPool           *)
(* implements it; the modules about the main thread are composed with it.  *)
(***************************************************************************)
EXTENDS Naturals, Sequences

CONSTANTS
  Items,   \* what is queued: tasks
  None

VARIABLES
  hi, lo,            \* the queues
  single, state,     \* the single slot and the state of its task
  current,           \* the task the worker executes
  terminating,
  emitted            \* the signal emitted when the last task ended

poolVars == <<hi, lo, single, state, current, terminating, emitted>>

PoolTypeOK ==
  /\ hi \in Seq(Items) /\ lo \in Seq(Items)
  /\ single \in Items \cup {None}
  /\ state \in {"PENDING", "EXECUTING", "FINISHED"}
  /\ current \in Items \cup {None}
  /\ terminating \in BOOLEAN
  /\ emitted \in {"none", "finished", "assignedFinished"}

PoolInit ==
  /\ hi = <<>> /\ lo = <<>>
  /\ single = None /\ state = "FINISHED"
  /\ current = None
  /\ terminating = FALSE
  /\ emitted = "none"

Put(q, x, order) == IF order = "APPEND" THEN Append(q, x) ELSE <<x>> \o q

PutLo(x, order) ==
  /\ lo' = Put(lo, x, order)
  /\ UNCHANGED <<hi, single, state, current, terminating, emitted>>

PutHi(x, order) ==
  /\ hi' = Put(hi, x, order)
  /\ UNCHANGED <<lo, single, state, current, terminating, emitted>>

PutSingle(x) ==
  /\ single = None
  /\ single' = x
  /\ state' = "PENDING"
  /\ UNCHANGED <<hi, lo, current, terminating, emitted>>

\* MUTANT of VacateSingle: runSingle() returns and leaves its task in the slot.
VacateSingleKeeps ==
  /\ single # None
  /\ state = "FINISHED"
  /\ single' = single
  /\ UNCHANGED <<hi, lo, state, current, terminating, emitted>>

\* runSingle() returns.
VacateSingle ==
  /\ single # None
  /\ state = "FINISHED"
  /\ single' = None
  /\ UNCHANGED <<hi, lo, state, current, terminating, emitted>>

Pending == single # None /\ state = "PENDING"

Take ==
  /\ ~terminating
  /\ current = None
  /\ \/ /\ Pending
        /\ current' = single
        /\ state' = "EXECUTING"
        /\ UNCHANGED <<hi, lo>>
     \/ /\ ~Pending
        /\ hi # <<>>
        /\ current' = Head(hi)
        /\ hi' = Tail(hi)
        /\ UNCHANGED <<lo, state>>
     \/ /\ ~Pending
        /\ hi = <<>>
        /\ lo # <<>>
        /\ current' = Head(lo)
        /\ lo' = Tail(lo)
        /\ UNCHANGED <<hi, state>>
  /\ UNCHANGED <<single, terminating, emitted>>

EndOfTask ==
  /\ current # None
  /\ current' = None
  /\ state' = IF current = single THEN "FINISHED" ELSE state
  /\ emitted' = IF hi # <<>> \/ lo # <<>> THEN "none"
                ELSE IF current = single THEN "finished"
                ELSE "assignedFinished"
  /\ UNCHANGED <<hi, lo, single, terminating>>

SetTerminating(b) ==
  /\ terminating' = b
  /\ UNCHANGED <<hi, lo, single, state, current, emitted>>

ClearQueues ==
  /\ hi' = <<>>
  /\ lo' = <<>>
  /\ UNCHANGED <<single, state, current, terminating, emitted>>

Working == hi # <<>> \/ lo # <<>> \/ single # None \/ current # None

PoolNext ==
  \/ \E x \in Items, order \in {"APPEND", "PREPEND"} :
        PutLo(x, order) \/ PutHi(x, order)
  \/ \E x \in Items : PutSingle(x)
  \/ VacateSingle
  \/ Take
  \/ EndOfTask
  \/ \E b \in BOOLEAN : SetTerminating(b)
  \/ ClearQueues

PoolSpec == PoolInit /\ [][PoolNext]_poolVars

=============================================================================
