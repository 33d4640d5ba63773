------------------------- MODULE SingleInstanceProofs -------------------------
(***************************************************************************)
(* Proofs about the single instance, for any set of processes, in any of   *)
(* the modes, and any size of the shared memory.                           *)
(***************************************************************************)
EXTENDS SingleInstance, SequenceTheorems, TLAPS

USE InstanceAssumption

\* Between the constructor and the destructor a process is attached.
Inside(p) == Owner(p) \/ p \in Guests

\* The system semaphore is held by the process that is in the constructor.
SemaphoreGuards ==
  \A p \in Processes : sema = p <=> at[p] \in {"clean", "create", "attach"}

\* Attached are those that use the segment, which is there while it is used.
SegmentUsed ==
  /\ \A p \in Processes : p \in attached <=> Inside(p)
  /\ attached # {} => exists

OneOwner == \A p, q \in Processes : Owner(p) /\ Owner(q) => p = q

SegmentInv == SemaphoreGuards /\ SegmentUsed /\ OneOwner

-----------------------------------------------------------------------------
(* Type correctness. *)

\* Sending keeps the type of what is in the segment.
LEMMA SendType ==
  ASSUME TypeOK, NEW p \in Processes, NEW type \in {"RaiseMainWindow", "Compose"},
         NEW fits \in BOOLEAN, Send(p, type, fits)
  PROVE  /\ memory' \in Seq(Messages) /\ Len(memory') <= Capacity
         /\ written' \in Seq(Messages)
         /\ locked' \in Processes \cup {Nobody}
<1>1. <<p, type>> \in Messages
  BY DEF Messages
<1>2. CASE UNCHANGED <<memory, written>>
  BY <1>2 DEF TypeOK, Send
<1>3. CASE /\ Fits /\ memory' = Append(memory, <<p, type>>)
           /\ written' = Append(written, <<p, type>>)
           /\ locked' = Nobody
  <2>1. Len(memory') = Len(memory) + 1 /\ Len(memory) \in Nat
    BY <1>1, <1>3 DEF TypeOK
  <2>2. memory' \in Seq(Messages) /\ written' \in Seq(Messages)
    BY <1>1, <1>3 DEF TypeOK
  <2> QED BY <1>3, <2>1, <2>2 DEF Fits
<1> QED BY <1>2, <1>3 DEF Send

\* The segment, the semaphore and the processes keep their types.
LEMMA TypeInductive == TypeOK /\ [Next]_vars => TypeOK'
<1> SUFFICES ASSUME TypeOK, [Next]_vars PROVE TypeOK'
  OBVIOUS
<1> USE DEF segment, Goes
<1>0. CASE UNCHANGED vars
  BY <1>0 DEF vars, TypeOK
<1>1. ASSUME NEW p \in Processes, Start(p) PROVE TypeOK'
  BY <1>1 DEF Start, TypeOK
<1>2. ASSUME NEW p \in Processes, Clean(p) PROVE TypeOK'
  <2>1. <<>> \in Seq(Messages) /\ Len(<<>>) <= Capacity
    BY DEF Messages
  <2> QED BY <1>2, <2>1 DEF Clean, Removed, TypeOK
<1>3. ASSUME NEW p \in Processes, Create(p) \/ CreateFails(p) PROVE TypeOK'
  BY <1>3 DEF Create, CreateFails, TypeOK
<1>4. ASSUME NEW p \in Processes, Attach(p) \/ AttachFails(p) PROVE TypeOK'
  BY <1>4 DEF Attach, AttachFails, TypeOK
<1>5. ASSUME NEW p \in Processes, SendRaise(p) PROVE TypeOK'
  BY <1>5, SendType DEF SendRaise, TypeOK
<1>6. ASSUME NEW p \in Processes, SendCompose(p) PROVE TypeOK'
  BY <1>6, SendType DEF SendCompose, TypeOK
<1>7. ASSUME NEW p \in Processes, ShowWindow(p) PROVE TypeOK'
  <2>1. CASE UNCHANGED <<locked, memory, written>>
    BY <1>7, <2>1 DEF ShowWindow, TypeOK
  <2>2. ASSUME NEW fits \in BOOLEAN, Send(p, "Compose", fits) PROVE TypeOK'
    BY <1>7, <2>2, SendType DEF ShowWindow, TypeOK
  <2> QED BY <1>7, <2>1, <2>2 DEF ShowWindow
<1>8. ASSUME NEW p \in Processes, CheckMessage(p) PROVE TypeOK'
  <2>1. <<>> \in Seq(Messages) /\ Len(<<>>) <= Capacity
    BY DEF Messages
  <2>2. delivered \o memory \in Seq(Messages)
    BY DEF TypeOK
  <2> QED BY <1>8, <2>1, <2>2 DEF CheckMessage, TypeOK
<1>9. ASSUME NEW p \in Processes, Exit(p) PROVE TypeOK'
  <2>1. <<>> \in Seq(Messages) /\ Len(<<>>) <= Capacity
    BY DEF Messages
  <2> QED BY <1>9, <2>1 DEF Exit, Ends, Removed, TypeOK
<1>10. ASSUME NEW p \in Processes, ExitNoMemory(p) \/ Crash(p) PROVE TypeOK'
  BY <1>10 DEF ExitNoMemory, Crash, Ends, TypeOK
<1> QED BY <1>0, <1>1, <1>2, <1>3, <1>4, <1>5, <1>6, <1>7, <1>8, <1>9, <1>10
        DEF Next, Constructor, Guest

\* Before the first process is started there is no segment.
LEMMA TypeInit == Init => TypeOK
<1> SUFFICES ASSUME Init PROVE TypeOK
  OBVIOUS
<1>1. /\ memory \in Seq(Messages) /\ Len(memory) <= Capacity
      /\ written \in Seq(Messages) /\ delivered \in Seq(Messages)
  BY DEF Init
<1>2. at \in [Processes -> {"off", "clean", "create", "attach", "show", "exec",
                           "noMemory", "raise", "compose", "leave", "gone"}]
  BY DEF Init
<1>3. mode \in [Processes -> Modes \cup {"none"}]
  BY DEF Init
<1>4. sema \in Processes \cup {Nobody} /\ locked \in Processes \cup {Nobody}
  BY DEF Init
<1>5. exists \in BOOLEAN /\ attached \subseteq Processes
  BY DEF Init
<1> QED BY <1>1, <1>2, <1>3, <1>4, <1>5 DEF TypeOK

\* Type correctness of the single instance.
THEOREM TypeCorrect == Spec => []TypeOK
BY TypeInit, TypeInductive, PTL DEF Spec

-----------------------------------------------------------------------------
(* The segment. *)

\* A process that goes on within its part: in the segment before and after, or
\* in neither, and holding the semaphore or not.
LEMMA GoesOn ==
  ASSUME TypeOK, SegmentInv, NEW p \in Processes, NEW to,
         at' = [at EXCEPT ![p] = to],
         UNCHANGED <<sema, exists, attached>>,
         Owner(p)' <=> Owner(p), (p \in Guests)' <=> p \in Guests,
         to \in {"clean", "create", "attach"} <=> at[p] \in {"clean", "create", "attach"}
  PROVE  SegmentInv'
<1>1. /\ \A q \in Processes : q # p => at'[q] = at[q]
      /\ at'[p] = to
  BY DEF TypeOK
<1>2. SemaphoreGuards'
  BY <1>1 DEF SegmentInv, SemaphoreGuards
<1>3. \A q \in Processes : (Owner(q)' <=> Owner(q)) /\ (Inside(q)' <=> Inside(q))
  BY <1>1 DEF Owner, Inside, Guests
<1> QED BY <1>2, <1>3 DEF SegmentInv, SegmentUsed, OneOwner

\* Every step keeps the segment to those who use it.
LEMMA SegmentInductive == TypeOK /\ SegmentInv /\ [Next]_vars => SegmentInv'
<1> SUFFICES ASSUME TypeOK, SegmentInv, [Next]_vars PROVE SegmentInv'
  OBVIOUS
<1> USE DEF segment, Goes
<1>0. CASE UNCHANGED vars
  BY <1>0 DEF vars, SegmentInv, SemaphoreGuards, SegmentUsed, OneOwner, Inside,
              Owner, Guests
<1>a. at \in [Processes -> {"off", "clean", "create", "attach", "show", "exec",
                            "noMemory", "raise", "compose", "leave", "gone"}]
  BY DEF TypeOK
<1>1. ASSUME NEW p \in Processes, Start(p) PROVE SegmentInv'
  BY <1>1, <1>a DEF Start, SegmentInv, SemaphoreGuards, SegmentUsed, OneOwner, Inside,
                    Owner, Guests
<1>2. ASSUME NEW p \in Processes, Clean(p) PROVE SegmentInv'
  BY <1>2, <1>a DEF Clean, Removed, SegmentInv, SemaphoreGuards, SegmentUsed,
                    OneOwner, Inside, Owner, Guests
<1>3. ASSUME NEW p \in Processes, Create(p) PROVE SegmentInv'
  <2>1. attached = {} /\ \A q \in Processes : ~Inside(q)
    BY <1>3 DEF Create, SegmentInv, SegmentUsed
  <2>2. \A q \in Processes : q # p => ~Inside(q)' /\ at'[q] = at[q]
    BY <1>3, <1>a, <2>1 DEF Create, Inside, Owner, Guests
  <2>3. at'[p] = "show" /\ Inside(p)' /\ sema = p
    BY <1>3, <1>a DEF Create, Inside, Owner, SegmentInv, SemaphoreGuards
  <2>4. SemaphoreGuards'
    <3>1. /\ \A q \in Processes : q # p => at[q] \notin {"clean", "create", "attach"}
          /\ sema' = Nobody
      BY <1>3, <2>3 DEF Create, SegmentInv, SemaphoreGuards
    <3> QED BY <2>2, <2>3, <3>1 DEF SemaphoreGuards
  <2>5. SegmentUsed'
    BY <1>3, <2>2, <2>3 DEF Create, SegmentUsed
  <2>6. OneOwner'
    BY <2>2 DEF OneOwner, Inside
  <2> QED BY <2>4, <2>5, <2>6 DEF SegmentInv
<1>4. ASSUME NEW p \in Processes, CreateFails(p) PROVE SegmentInv'
  BY <1>4, <1>a, GoesOn DEF CreateFails, Owner, Guests
<1>5. ASSUME NEW p \in Processes, Attach(p) PROVE SegmentInv'
  <2>1. /\ \A q \in Processes : q # p => at'[q] = at[q]
        /\ at'[p] \in {"leave", "raise"} /\ at[p] = "attach" /\ sema = p
    BY <1>5, <1>a DEF Attach, SegmentInv, SemaphoreGuards
  <2>2. SemaphoreGuards'
    BY <1>5, <2>1 DEF Attach, SegmentInv, SemaphoreGuards
  <2>3. \A q \in Processes : /\ Owner(q)' <=> Owner(q)
                             /\ Inside(q)' <=> Inside(q) \/ q = p
    BY <2>1 DEF Owner, Inside, Guests
  <2> QED BY <1>5, <2>2, <2>3 DEF Attach, SegmentInv, SegmentUsed, OneOwner
<1>6. ASSUME NEW p \in Processes, AttachFails(p) PROVE SegmentInv'
  BY <1>6, <1>a DEF AttachFails, SegmentInv, SemaphoreGuards, SegmentUsed, OneOwner,
                    Inside, Owner, Guests
<1>7. ASSUME NEW p \in Processes, SendRaise(p) \/ SendCompose(p) PROVE SegmentInv'
  BY <1>7, <1>a, GoesOn DEF SendRaise, SendCompose, Owner, Guests
<1>8. ASSUME NEW p \in Processes, ShowWindow(p) PROVE SegmentInv'
  BY <1>8, <1>a, GoesOn DEF ShowWindow, Owner, Guests
<1>9. ASSUME NEW p \in Processes, CheckMessage(p) PROVE SegmentInv'
  BY <1>9 DEF CheckMessage, SegmentInv, SemaphoreGuards, SegmentUsed, OneOwner,
              Inside, Owner, Guests
<1>10. ASSUME NEW p \in Processes, Exit(p) \/ Crash(p) PROVE SegmentInv'
  <2>1. /\ \A q \in Processes : q # p => at'[q] = at[q]
        /\ at'[p] = "gone" /\ at[p] \notin {"off", "gone"} /\ sema # p /\ sema' = sema
        /\ attached' = attached \ {p}
    BY <1>10, <1>a DEF Exit, Crash, Ends, SegmentInv, SemaphoreGuards
  <2>2. SemaphoreGuards'
    BY <2>1 DEF SegmentInv, SemaphoreGuards
  <2>3. \A q \in Processes : /\ Owner(q)' <=> Owner(q) /\ q # p
                             /\ Inside(q)' <=> Inside(q) /\ q # p
    BY <2>1 DEF Owner, Inside, Guests
  <2>4. attached' # {} => exists'
    <3>1. attached' # {} => attached # {} /\ attached # {p}
      BY <2>1
    <3> QED BY <1>10, <3>1 DEF Exit, Crash, SegmentInv, SegmentUsed
  <2> QED BY <2>1, <2>2, <2>3, <2>4 DEF SegmentInv, SegmentUsed, OneOwner
<1>11. ASSUME NEW p \in Processes, ExitNoMemory(p) PROVE SegmentInv'
  BY <1>11, <1>a, GoesOn DEF ExitNoMemory, Ends, Owner, Guests
<1> QED BY <1>0, <1>1, <1>2, <1>3, <1>4, <1>5, <1>6, <1>7, <1>8, <1>9, <1>10, <1>11
        DEF Next, Constructor, Guest

\* At first there are no processes.
LEMMA SegmentInit == Init => SegmentInv
BY DEF Init, SegmentInv, SemaphoreGuards, SegmentUsed, OneOwner, Inside, Owner, Guests

\* There is one owner at most, and its segment stays as long as it or a later
\* process uses it, whoever crashes and cleans up meanwhile.
THEOREM SegmentKept == Spec => []OwnersSegment
<1>1. SegmentInv => OwnersSegment
  BY DEF SegmentInv, SegmentUsed, OneOwner, Inside, OwnersSegment
<1> QED BY <1>1, SegmentInit, SegmentInductive, TypeCorrect, PTL DEF Spec

-----------------------------------------------------------------------------
(* The messages. *)

\* Accepting a message adds it to what was written and to what is to be read.
LEMMA SendAccepts ==
  ASSUME TypeOK, AcceptedOnce, NEW p \in Processes,
         NEW type \in {"RaiseMainWindow", "Compose"},
         NEW fits, Send(p, type, fits), UNCHANGED delivered
  PROVE  AcceptedOnce'
<1>1. CASE UNCHANGED <<memory, written>>
  BY <1>1 DEF AcceptedOnce
<1>2. CASE /\ memory' = Append(memory, <<p, type>>)
           /\ written' = Append(written, <<p, type>>)
  <2>1. delivered \in Seq(Messages) /\ memory \in Seq(Messages)
        /\ <<p, type>> \in Messages
    BY DEF TypeOK, Messages
  <2>2. PICK m \in Messages : m = <<p, type>>
    BY <2>1
  <2>3. Append(delivered \o memory, m) = delivered \o Append(memory, m)
    <3>1. <<m>> \in Seq(Messages) /\ delivered \o memory \in Seq(Messages)
      BY <2>1
    <3>2. /\ Append(delivered \o memory, m) = (delivered \o memory) \o <<m>>
          /\ Append(memory, m) = memory \o <<m>>
      BY <2>1, <3>1, AppendIsConcat
    <3>3. (delivered \o memory) \o <<m>> = delivered \o (memory \o <<m>>)
      BY <2>1, <3>1, ConcatAssociative
    <3> QED BY <3>2, <3>3
  <2> QED BY <1>2, <2>2, <2>3 DEF AcceptedOnce
<1> QED BY <1>1, <1>2 DEF Send

\* No step loses, repeats or reorders an accepted message.
LEMMA AcceptedInductive == TypeOK /\ AcceptedOnce /\ [Next]_vars => AcceptedOnce'
<1> SUFFICES ASSUME TypeOK, AcceptedOnce, [Next]_vars PROVE AcceptedOnce'
  OBVIOUS
<1> USE DEF segment
<1>1. CASE UNCHANGED <<memory, written, delivered>>
  BY <1>1 DEF AcceptedOnce
<1>2. CASE Removed
  <2>1. <<>> = <<>> \o <<>>
    OBVIOUS
  <2> QED BY <1>2, <2>1 DEF Removed, AcceptedOnce
<1>3. ASSUME NEW p \in Processes, SendRaise(p) PROVE AcceptedOnce'
  BY <1>3, SendAccepts DEF SendRaise
<1>4. ASSUME NEW p \in Processes, SendCompose(p) PROVE AcceptedOnce'
  BY <1>4, SendAccepts DEF SendCompose
<1>5. ASSUME NEW p \in Processes, ShowWindow(p) PROVE AcceptedOnce'
  BY <1>1, <1>5, SendAccepts DEF ShowWindow
<1>6. ASSUME NEW p \in Processes, CheckMessage(p) PROVE AcceptedOnce'
  <2>1. delivered \o memory \in Seq(Messages)
    BY DEF TypeOK
  <2>2. (delivered \o memory) \o <<>> = delivered \o memory
    BY <2>1
  <2> QED BY <1>6, <2>2 DEF CheckMessage, AcceptedOnce
<1>7. ASSUME NEW p \in Processes,
             Start(p) \/ Constructor(p) \/ Exit(p) \/ ExitNoMemory(p) \/ Crash(p)
      PROVE  AcceptedOnce'
  BY <1>1, <1>2, <1>7 DEF Start, Constructor, Clean, Create, CreateFails, Attach,
                          AttachFails, Exit, ExitNoMemory, Crash
<1> QED BY <1>1, <1>3, <1>4, <1>5, <1>6, <1>7 DEF Next, Guest, vars

\* The owner of the segment has read every message that was accepted and is no
\* longer in the memory, once and in the order of sending.
THEOREM MessagesOnce == Spec => []AcceptedOnce
<1>1. Init => AcceptedOnce
  BY DEF Init, AcceptedOnce
<1> QED BY <1>1, AcceptedInductive, TypeCorrect, PTL DEF Spec

=============================================================================
