---------------------------- MODULE SingleInstance ----------------------------
(***************************************************************************)
(* src/single/single_instance.cpp: the processes of one user find out      *)
(* through a shared memory segment whether another one runs already, and   *)
(* the later ones leave messages in it for the first one before they exit. *)
(*                                                                         *)
(* The segment, its lock and the system semaphore are the operating        *)
(* system's: the segment disappears when the last process detaches from    *)
(* it, a crash detaches without that check (on UNIX) and gives up the lock *)
(* the process had.                                                        *)
(***************************************************************************)
EXTENDS Naturals, Sequences, FiniteSets

CONSTANTS
  Processes,   \* processes that may be started, each once
  Nobody,
  Modes,       \* the programs and run modes they are started in
  Capacity     \* how many messages fit into MEM_SIZE

ASSUME InstanceAssumption ==
  /\ Nobody \notin Processes
  /\ Modes \subseteq {"RM_GUI", "RM_ZFO", "RM_CLI", "main_cli"}
  /\ Capacity \in Nat \ {0}

VARIABLES
  at,          \* where each process is
  mode,        \* run mode in main.cpp, "main_cli" for main_cli.cpp; "none" while off
  sema,        \* the holder of the system semaphore
  exists,      \* is there a segment under the key?
  attached,    \* the processes attached to it
  locked,      \* the holder of its lock
  memory,      \* the messages in it
  written, delivered   \* history of this segment

segment == <<exists, attached, locked, memory, written, delivered>>
vars == <<at, mode, sema, segment>>

Messages == Processes \X {"RaiseMainWindow", "Compose"}

TypeOK ==
  /\ at \in [Processes -> {"off", "clean", "create", "attach", "show", "exec",
                           "noMemory", "raise", "compose", "leave", "gone"}]
  /\ mode \in [Processes -> Modes \cup {"none"}]
  /\ sema \in Processes \cup {Nobody}
  /\ exists \in BOOLEAN
  /\ attached \subseteq Processes
  /\ locked \in Processes \cup {Nobody}
  /\ memory \in Seq(Messages) /\ Len(memory) <= Capacity
  /\ written \in Seq(Messages) /\ delivered \in Seq(Messages)

Init ==
  /\ at = [p \in Processes |-> "off"]
  /\ mode = [p \in Processes |-> "none"]
  /\ sema = Nobody
  /\ exists = FALSE
  /\ attached = {}
  /\ locked = Nobody
  /\ memory = <<>> /\ written = <<>> /\ delivered = <<>>

Goes(p, from, to) == at[p] = from /\ at' = [at EXCEPT ![p] = to]

-----------------------------------------------------------------------------
(* The constructor, up to the release of the semaphore; every call on the     *)
(* segment takes its lock for the time of the call.                          *)

Start(p) ==
  /\ Goes(p, "off", "clean")
  /\ \E m \in Modes : mode' = [mode EXCEPT ![p] = m]
  /\ sema = Nobody
  /\ sema' = p
  /\ UNCHANGED segment

\* MUTANT of Removed: what was in the segment is still there in the next one.
RemovedKeepsMemory ==
  exists' = FALSE /\ written' = <<>> /\ delivered' = <<>> /\ UNCHANGED memory

Removed ==
  /\ exists' = FALSE
  /\ memory' = <<>> /\ written' = <<>> /\ delivered' = <<>>

\* MUTANT of Clean: the segment is removed even while it is in use.
CleanUsed(p) ==
  /\ Goes(p, "clean", "create")
  /\ locked = Nobody
  /\ IF TRUE
     THEN Removed
     ELSE UNCHANGED <<exists, memory, written, delivered>>
  /\ UNCHANGED <<mode, sema, attached, locked>>

\* attach() and detach(): removes a segment nobody is attached to, which a crash
\* leaves behind.  The memory is not removed while another process uses it.
Clean(p) ==
  /\ Goes(p, "clean", "create")
  /\ locked = Nobody
  /\ IF attached = {}
     THEN Removed
     ELSE UNCHANGED <<exists, memory, written, delivered>>
  /\ UNCHANGED <<mode, sema, attached, locked>>

\* create() succeeds when there is no segment: the process owns it, clears it
\* and starts the timer that reads it.
Create(p) ==
  /\ ~exists
  /\ locked = Nobody
  /\ Goes(p, "create", "show")
  /\ exists' = TRUE
  /\ attached' = {p}
  /\ sema' = Nobody
  /\ UNCHANGED <<mode, locked, memory, written, delivered>>

CreateFails(p) ==
  /\ exists
  /\ locked = Nobody
  /\ Goes(p, "create", "attach")
  /\ UNCHANGED <<mode, sema, segment>>

\* attach() finds the segment of another process, m_memoryExisted: main.cpp sends
\* messages in each of its modes, main_cli.cpp leaves at once.
Attach(p) ==
  /\ exists
  /\ locked = Nobody
  /\ Goes(p, "attach", IF mode[p] = "main_cli" THEN "leave" ELSE "raise")
  /\ attached' = attached \cup {p}
  /\ sema' = Nobody
  /\ UNCHANGED <<mode, exists, locked, memory, written, delivered>>

\* Neither create() nor attach() succeeds: the error is logged.
AttachFails(p) ==
  /\ ~exists
  /\ Goes(p, "attach", "noMemory")
  /\ sema' = Nobody
  /\ UNCHANGED <<mode, segment>>

-----------------------------------------------------------------------------
(* Messages. *)

\* Is there space for another message?
Fits == Len(memory) < Capacity

\* sendMessage(): false for a message that is too long, before the lock is
\* taken; false without unlock() when the memory is full.
Send(p, type, fits) ==
  \/ /\ ~fits
     /\ UNCHANGED <<locked, memory, written>>
  \/ /\ fits
     /\ locked \in {Nobody, p}
     /\ IF Fits
        THEN /\ memory' = Append(memory, <<p, type>>)
             /\ written' = Append(written, <<p, type>>)
             /\ locked' = Nobody
        ELSE /\ locked' = p
             /\ UNCHANGED <<memory, written>>

\* The later process: raise the window of the first one, then, if it was started
\* with a message to compose, hand that over.
SendRaise(p) ==
  /\ Goes(p, "raise", "compose") \/ Goes(p, "raise", "leave")
  /\ Send(p, "RaiseMainWindow", TRUE)
  /\ UNCHANGED <<mode, sema, exists, attached, delivered>>

SendCompose(p) ==
  /\ Goes(p, "compose", "leave")
  /\ \E fits \in BOOLEAN : Send(p, "Compose", fits)
  /\ UNCHANGED <<mode, sema, exists, attached, delivered>>

\* The first process has started up.  With a main window it sends itself what it
\* was started with.
ShowWindow(p) ==
  /\ Goes(p, "show", "exec")
  /\ \/ UNCHANGED <<locked, memory, written>>
     \/ mode[p] = "RM_GUI" /\ \E fits \in BOOLEAN : Send(p, "Compose", fits)
  /\ UNCHANGED <<mode, sema, exists, attached, delivered>>

\* Where the timer of the owner can fire: the start-up waits for downloads, for a
\* PIN and for the splash screen in event loops; later the window and the view of
\* a ZFO file have one, the services of the CLI have none.
EventLoop(p) ==
  at[p] = "show" \/ (at[p] = "exec" /\ mode[p] \in {"RM_GUI", "RM_ZFO"})

\* MUTANT of CheckMessage: the memory is read and not unlocked.
CheckMessageKeepsLock(p) ==
  /\ EventLoop(p)
  /\ locked \in {Nobody, p}
  /\ delivered' = delivered \o memory
  /\ memory' = <<>>
  /\ locked' = p
  /\ UNCHANGED <<at, mode, sema, exists, attached, written>>

\* MUTANT of CheckMessage: it locks through an object of its own, which does not
\* know that a sendMessage() of this process has kept the lock.
CheckMessageLocksAgain(p) ==
  /\ EventLoop(p)
  /\ locked = Nobody
  /\ delivered' = delivered \o memory
  /\ memory' = <<>>
  /\ UNCHANGED <<at, mode, sema, exists, attached, locked, written>>

\* checkMessage() of the owner's timer.  What is read is emitted; whether a main
\* window is there to receive it depends on the mode and the time.
CheckMessage(p) ==
  /\ EventLoop(p)
  /\ locked \in {Nobody, p}
  /\ delivered' = delivered \o memory
  /\ memory' = <<>>
  /\ locked' = Nobody
  /\ UNCHANGED <<at, mode, sema, exists, attached, written>>

-----------------------------------------------------------------------------
(* The end of a process. *)

Ends(p) ==
  /\ at' = [at EXCEPT ![p] = "gone"]
  /\ mode' = [mode EXCEPT ![p] = "none"]

\* The destructor detaches; the last process that does removes the segment.  The
\* start-up may fail as well, for example because of a wrong PIN.
Exit(p) ==
  /\ at[p] \in {"show", "exec", "leave"}
  /\ Ends(p)
  /\ locked \in {Nobody, p}
  /\ locked' = Nobody
  /\ attached' = attached \ {p}
  /\ IF attached = {p}
     THEN Removed
     ELSE UNCHANGED <<exists, memory, written, delivered>>
  /\ UNCHANGED sema

ExitNoMemory(p) ==
  /\ at[p] = "noMemory"
  /\ Ends(p)
  /\ UNCHANGED <<sema, segment>>

\* The code assumes that there is no crash while the semaphore is held.
Crash(p) ==
  /\ at[p] \notin {"off", "gone"}
  /\ sema # p
  /\ Ends(p)
  /\ attached' = attached \ {p}
  /\ locked' = IF locked = p THEN Nobody ELSE locked
  /\ UNCHANGED <<sema, exists, memory, written, delivered>>

-----------------------------------------------------------------------------

Constructor(p) ==
  \/ Clean(p) \/ Create(p) \/ CreateFails(p) \/ Attach(p) \/ AttachFails(p)
Guest(p) == SendRaise(p) \/ SendCompose(p) \/ (at[p] = "leave" /\ Exit(p))

Next ==
  \E p \in Processes :
     \/ Start(p) \/ Constructor(p) \/ Guest(p)
     \/ ShowWindow(p) \/ CheckMessage(p)
     \/ Exit(p) \/ ExitNoMemory(p) \/ Crash(p)

Spec == Init /\ [][Next]_vars

\* A started process goes through the constructor, a guest goes on and leaves, and
\* the timer of a running owner fires; nobody need start a process, answer its
\* dialogues, exit the first one or crash.
FairSpec ==
  /\ Spec
  /\ \A p \in Processes :
       /\ WF_vars(Constructor(p)) /\ WF_vars(Guest(p))
       /\ SF_vars(at[p] = "exec" /\ CheckMessage(p) /\ memory # <<>>)

-----------------------------------------------------------------------------
(* Properties. *)

Owner(p) == at[p] \in {"show", "exec"}
Guests == {p \in Processes : at[p] \in {"raise", "compose", "leave"}}

\* At most one process owns the segment, and as long as it lives the segment is
\* there and it is attached to it, whatever processes crashed before and however
\* the clean-up of a third one interleaves.
OwnersSegment ==
  /\ \A p, q \in Processes : Owner(p) /\ Owner(q) => p = q
  /\ \A p \in Processes : Owner(p) \/ p \in Guests => exists /\ p \in attached

\* The owner receives every message that was accepted, once and in the order of
\* sending.
AcceptedOnce == written = delivered \o memory

\* A message that was accepted reaches the main window of the process that owns the
\* segment, unless that process ends.
MessageDelivered ==
  \A p \in Processes :
     at[p] = "exec" /\ mode[p] = "RM_GUI" /\ memory # <<>> ~> memory = <<>> \/ at[p] = "gone"

\* Every process that was started learns whether it is the first one; if it is not
\* it leaves.
StartSettles ==
  \A p \in Processes :
     at[p] # "off" ~> at[p] \in {"show", "exec", "noMemory", "gone"}

\* Nobody is left waiting for the lock or the semaphore: a started process learns
\* its part, and the owner comes to read what was accepted.
NobodyBlocked == StartSettles /\ MessageDelivered

\* main.cpp, line 166: "Ensure only one instance with given configuration file."
OneInstance ==
  \A p, q \in Processes :
     at[p] \in {"show", "exec", "noMemory"} /\ at[q] \in {"show", "exec", "noMemory"}
       => p = q

=============================================================================
