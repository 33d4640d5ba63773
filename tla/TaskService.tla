----------------------------- MODULE TaskService -----------------------------
(***************************************************************************)
(* What the worker pool promises to the code that uses it, without its     *)
(* mutex, its queues and its threads: a task object is submitted once, is  *)
(* run at most once, by a bounded number of tasks at a time; a client that *)
(* submits a task and waits for it gets control back after it was run; and *)
(* only the submitted tasks that nobody waits for may be dropped.          *)
(***************************************************************************)
EXTENDS Naturals, FiniteSets

CONSTANTS
  Tasks,     \* task objects
  Clients,   \* threads that may wait for a task
  Null,
  Capacity   \* how many tasks may run at a time

VARIABLES
  status,    \* status[a]: what became of task object a
  awaited    \* awaited[c]: the task client c waits for

vars == <<status, awaited>>

Init ==
  /\ status = [a \in Tasks |-> "none"]
  /\ awaited = [c \in Clients |-> Null]

Awaited(a) == \E c \in Clients : awaited[c] = a
Running == {a \in Tasks : status[a] = "running"}

\* A task nobody waits for.
Submit(a) ==
  /\ status[a] = "none"
  /\ status' = [status EXCEPT ![a] = "submitted"]
  /\ UNCHANGED awaited

\* A task client c waits for.
Call(c, a) ==
  /\ awaited[c] = Null
  /\ status[a] = "none"
  /\ status' = [status EXCEPT ![a] = "submitted"]
  /\ awaited' = [awaited EXCEPT ![c] = a]

Begin(a) ==
  /\ status[a] = "submitted"
  /\ Cardinality(Running) < Capacity
  /\ status' = [status EXCEPT ![a] = "running"]
  /\ UNCHANGED awaited

\* The result of an awaited task is kept for its client.
Finish(a) ==
  /\ status[a] = "running"
  /\ status' = [status EXCEPT ![a] = IF Awaited(a) THEN "done" ELSE "none"]
  /\ UNCHANGED awaited

Return(c) ==
  /\ awaited[c] # Null
  /\ status[awaited[c]] = "done"
  /\ status' = [status EXCEPT ![awaited[c]] = "none"]
  /\ awaited' = [awaited EXCEPT ![c] = Null]

\* All tasks that have not begun are dropped, the awaited ones excepted.
Drop ==
  /\ status' = [a \in Tasks |-> IF status[a] = "submitted" /\ ~Awaited(a)
                                THEN "none" ELSE status[a]]
  /\ UNCHANGED awaited

Next ==
  \/ \E a \in Tasks : Submit(a) \/ Begin(a) \/ Finish(a)
  \/ \E c \in Clients : Return(c) \/ \E a \in Tasks : Call(c, a)
  \/ Drop

Spec == Init /\ [][Next]_vars

=============================================================================
