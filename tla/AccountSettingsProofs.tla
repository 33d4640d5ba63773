------------------------- MODULE AccountSettingsProofs -------------------------
(***************************************************************************)
(* Proofs about the settings of the accounts, for any number of accounts,  *)
(* passwords and PINs, any number of slots and any nesting of them: each   *)
(* row of the window has settings, and what the configuration file keeps   *)
(* of the passwords is what is read of it again.                           *)
(***************************************************************************)
EXTENDS AccountSettings, SequenceTheorems, TLAPS

USE SettingsAssumption

-----------------------------------------------------------------------------
(* The inductive invariant of the slots, the list and the map. *)

\* The names in the list, those that a slot, a task or the map may be about, and
\* those with settings.
Listed == Range(rows)
Known == Listed \cup orphaned
Settled == {u \in DOMAIN acntMap : acntMap[u] \in Settings}

Loops == {"next", "processEvents"}
LoggingIn == {"logIn", "askPwd", "askAccount", "connected"}
Changing == {"changePwd", "changed"}

\* Where a slot may be.
PlacesOf(slot) ==
  CASE slot = "all" -> {"next"} \cup LoggingIn \cup Changing
    [] slot = "one" -> {"processEvents"} \cup LoggingIn \cup Changing
    [] slot \in {"password", "send"} -> {"connect"} \cup LoggingIn \cup Changing
    [] slot = "add" -> {"dialogue", "exists"} \cup LoggingIn
    [] OTHER -> {"dialogue"}

\* A slot that logs in has settings to log in with.
CopyHeld(f) ==
  \/ f.at \in {"logIn", "askPwd", "askAccount", "changed"}
  \/ f.slot = "add" /\ f.at = "connected"
  => f.copy \in Settings

\* A slot that changes a password is about an account with settings.
UserHeld(f, settled) ==
  \/ f.at \in Changing
  \/ f.slot = "password" /\ f.at \in {"connect", "connected"}
  => f.user \in settled

\* The account of a slot is in the list, or was removed under it; a new one has a name.
UserKnown(f, listed, known) ==
  /\ f.slot # "add" => f.user \in known \cup {None}
  /\ f.slot = "add" => f.user \in Users
  /\ f.slot = "remove" => f.user \in listed
  /\ f.at = "exists" => f.user \in known

FrameOK(f, listed, known, settled) ==
  /\ f \in Frames /\ f.at \in PlacesOf(f.slot)
  /\ CopyHeld(f) /\ UserHeld(f, settled) /\ UserKnown(f, listed, known)

\* Slots are entered from an event loop; the dialogue that removes an account only
\* when no other dialogue is open.
Nested(frames) ==
  \A i, j \in DOMAIN frames : i < j =>
    /\ frames[i].at \in Loops \cup Dialogues
    /\ frames[j].slot = "remove" => frames[i].at \in Loops

StackOK(frames, listed, known, settled) ==
  /\ frames \in Seq(Frames) /\ Nested(frames)
  /\ \A i \in DOMAIN frames : FrameOK(frames[i], listed, known, settled)

\* A slot that returns to its event loop never becomes the dialogue of a removal.
GoesOn(frames, f) == f.slot = "remove" => frames[Len(frames)].slot = "remove"

\* Where a slot may be entered from.
Entered(frames, f) ==
  /\ frames # <<>> => frames[Len(frames)].at \in Loops \cup Dialogues
  /\ f.slot = "remove" => \A i \in DOMAIN frames : frames[i].at \in Loops

\* Every name has one row.
Once(names) == \A i, j \in DOMAIN names : names[i] = names[j] => i = j

\* A name is in the map because it is in the list or was looked up for somebody.
ListOK ==
  /\ Once(rows)
  /\ Listed \subseteq Settled
  /\ pending \cup DOMAIN acntMap \subseteq Known \cup {None}
  /\ UNION offered \subseteq Known \cup {None}

\* Nobody is there when the window is not.
Quiet ==
  /\ at # "window" => stack = <<>>
  /\ at \in {"down", "pin"} => pending = {} /\ offered = {} /\ rewriting = None

MemoryTyped ==
  /\ at \in {"down", "pin", "window", "closing"}
  /\ pin \in Pins \cup {None}
  /\ rows \in Seq(Users)
  /\ DOMAIN acntMap \subseteq Accounts
  /\ acntMap \in [DOMAIN acntMap -> Settings \cup {Null}]
  /\ sessions \subseteq Accounts
  /\ pending \subseteq Accounts
  /\ offered \subseteq SUBSET Users
  /\ orphaned \subseteq Accounts
  /\ server \in [Users -> Passwords]
  /\ ops \in 0 .. MaxOps

MemoryInv ==
  /\ MemoryTyped
  /\ StackOK(stack, Listed, Known, Settled)
  /\ ListOK
  /\ Quiet

-----------------------------------------------------------------------------
(* The inductive invariant of the file. *)

DiskTyped ==
  /\ file \in Files
  /\ rewriting \in Files \cup {None}
  /\ DOMAIN remembered \subseteq Users
  /\ remembered \in [DOMAIN remembered -> Secrets]
  /\ torn \in BOOLEAN

\* FileSound of any content.
Sound(f) ==
  \A e \in Range(f.accounts) :
    /\ e.pwd # None => f.pin = None /\ e.rememberPwd
    /\ e.pwdCode # NoCode => e.pwdCode.pin = f.pin /\ e.rememberPwd

NamedOnce(f) ==
  \A i, j \in DOMAIN f.accounts : f.accounts[i].userName = f.accounts[j].userName => i = j

\* The content has what was to be remembered.
Represents(f) ==
  /\ DOMAIN remembered = {f.accounts[i].userName : i \in DOMAIN f.accounts}
  /\ \A i \in DOMAIN f.accounts :
       remembered[f.accounts[i].userName] = Decrypted(f.accounts[i], f.pin).pwd

FileInv ==
  /\ DiskTyped
  /\ Sound(file) /\ NamedOnce(file)
  /\ rewriting # None =>
       /\ Sound(rewriting) /\ NamedOnce(rewriting) /\ Represents(rewriting)
       /\ file \in {rewriting, Emptied}
  /\ rewriting = None /\ ~torn => Represents(file)

-----------------------------------------------------------------------------
(* Sequences. *)

\* A sequence without its last element.
LEMMA FrontElems ==
  ASSUME NEW S, NEW s \in Seq(S), s # <<>>
  PROVE  /\ SubSeq(s, 1, Len(s) - 1) \in Seq(S)
         /\ DOMAIN SubSeq(s, 1, Len(s) - 1) = 1 .. Len(s) - 1
         /\ \A i \in 1 .. Len(s) - 1 : SubSeq(s, 1, Len(s) - 1)[i] = s[i]
<1>1. Len(s) \in Nat \ {0}
  OBVIOUS
<1> QED BY <1>1, SubSeqProperties

\* A sequence whose last element is replaced.
LEMMA TurnedElems ==
  ASSUME NEW S, NEW s \in Seq(S), NEW f \in S, s # <<>>
  PROVE  /\ [s EXCEPT ![Len(s)] = f] \in Seq(S)
         /\ DOMAIN [s EXCEPT ![Len(s)] = f] = 1 .. Len(s)
         /\ [s EXCEPT ![Len(s)] = f][Len(s)] = f
         /\ \A i \in 1 .. Len(s) - 1 : [s EXCEPT ![Len(s)] = f][i] = s[i]
OBVIOUS

-----------------------------------------------------------------------------
(* Stacks of slots, under anything that adds to what is known. *)

LEMMA StackGrows ==
  ASSUME NEW s, NEW l, NEW k, NEW h, NEW l2, NEW k2, NEW h2,
         StackOK(s, l, k, h), l \subseteq l2, k \subseteq k2, h \subseteq h2
  PROVE  StackOK(s, l2, k2, h2)
BY DEF StackOK, FrameOK, UserHeld, UserKnown

\* The last slot returns.
LEMMA StackPops ==
  ASSUME NEW s, NEW l, NEW k, NEW h, StackOK(s, l, k, h), s # <<>>
  PROVE  StackOK(SubSeq(s, 1, Len(s) - 1), l, k, h)
<1> DEFINE t == SubSeq(s, 1, Len(s) - 1)
<1>1. s \in Seq(Frames)
  BY DEF StackOK
<1>2. /\ t \in Seq(Frames)
      /\ DOMAIN t = 1 .. Len(s) - 1
      /\ \A i \in 1 .. Len(s) - 1 : t[i] = s[i]
  BY <1>1, FrontElems
<1>3. DOMAIN s = 1 .. Len(s) /\ Len(s) \in Nat
  BY <1>1
<1> HIDE DEF t
<1>4. DOMAIN t \subseteq DOMAIN s /\ \A i \in DOMAIN t : t[i] = s[i] /\ i \in Nat
  BY <1>2, <1>3
<1>5. Nested(t)
  BY <1>4 DEF StackOK, Nested
<1> QED BY <1>2, <1>4, <1>5 DEF StackOK, t

\* The last slot goes on.
LEMMA StackTurns ==
  ASSUME NEW s, NEW l, NEW k, NEW h, StackOK(s, l, k, h), s # <<>>,
         NEW f, FrameOK(f, l, k, h), GoesOn(s, f)
  PROVE  StackOK([s EXCEPT ![Len(s)] = f], l, k, h)
<1> DEFINE t == [s EXCEPT ![Len(s)] = f]
           n == Len(s)
<1>1. s \in Seq(Frames) /\ f \in Frames
  BY DEF StackOK, FrameOK
<1>2. n \in Nat /\ n > 0 /\ DOMAIN s = 1 .. n
  BY <1>1
<1>3. t \in Seq(Frames) /\ DOMAIN t = 1 .. n /\ t[n] = f
  BY <1>1, TurnedElems
<1>4. \A i \in 1 .. n - 1 : t[i] = s[i]
  BY <1>1, TurnedElems
<1>5. t[n].slot = "remove" => s[n].slot = "remove"
  BY <1>3 DEF GoesOn
<1> HIDE DEF t, n
<1>6. Nested(t)
  <2> SUFFICES ASSUME NEW i \in 1 .. n, NEW j \in 1 .. n, i < j
               PROVE  /\ t[i].at \in Loops \cup Dialogues
                      /\ t[j].slot = "remove" => t[i].at \in Loops
    BY <1>3 DEF Nested
  <2>1. i \in 1 .. n - 1 /\ (j = n \/ j \in 1 .. n - 1)
    BY <1>2
  <2>2. t[i] = s[i]
    BY <1>4, <2>1
  <2>3. t[j].slot = "remove" => s[j].slot = "remove"
    BY <1>4, <1>5, <2>1
  <2> QED BY <1>2, <2>2, <2>3 DEF StackOK, Nested
<1>7. \A i \in DOMAIN t : FrameOK(t[i], l, k, h)
  <2> SUFFICES ASSUME NEW i \in 1 .. n PROVE FrameOK(t[i], l, k, h)
    BY <1>3
  <2>1. CASE i = n
    BY <1>3, <2>1
  <2>2. CASE i # n
    <3>1. i \in 1 .. n - 1
      BY <1>2, <2>2
    <3> QED BY <1>2, <1>4, <3>1 DEF StackOK
  <2> QED BY <2>1, <2>2
<1> QED BY <1>3, <1>6, <1>7 DEF StackOK, t, n

\* A slot is entered.
LEMMA StackPushes ==
  ASSUME NEW s, NEW l, NEW k, NEW h, StackOK(s, l, k, h),
         NEW f, FrameOK(f, l, k, h), Entered(s, f)
  PROVE  StackOK(Append(s, f), l, k, h)
<1> DEFINE t == Append(s, f)
<1>1. s \in Seq(Frames) /\ f \in Frames /\ Len(s) \in Nat
  BY DEF StackOK, FrameOK
<1>2. /\ t \in Seq(Frames) /\ DOMAIN t = 1 .. Len(s) + 1 /\ DOMAIN s = 1 .. Len(s)
      /\ t[Len(s) + 1] = f
      /\ \A i \in 1 .. Len(s) : t[i] = s[i]
  BY <1>1
<1> HIDE DEF t
<1>3. Nested(t)
  <2> SUFFICES ASSUME NEW i \in 1 .. Len(s) + 1, NEW j \in 1 .. Len(s) + 1, i < j
               PROVE  /\ t[i].at \in Loops \cup Dialogues
                      /\ t[j].slot = "remove" => t[i].at \in Loops
    BY <1>2 DEF Nested
  <2>1. i \in 1 .. Len(s) /\ t[i] = s[i]
    BY <1>1, <1>2
  <2>2. CASE j = Len(s) + 1
    <3>1. s[i].at \in Loops \cup Dialogues
      <4>1. CASE i = Len(s)
        <5>1. s # <<>>
          BY <2>1, <4>1
        <5> QED BY <4>1, <5>1 DEF Entered
      <4>2. CASE i # Len(s)
        <5>1. i < Len(s) /\ Len(s) \in DOMAIN s
          BY <1>1, <1>2, <2>1, <4>2
        <5> QED BY <1>2, <2>1, <5>1 DEF StackOK, Nested
      <4> QED BY <4>1, <4>2
    <3> QED BY <1>2, <2>1, <2>2, <3>1 DEF Entered
  <2>3. CASE j # Len(s) + 1
    <3>1. j \in 1 .. Len(s) /\ t[j] = s[j]
      BY <1>1, <1>2, <2>3
    <3> QED BY <1>2, <2>1, <3>1 DEF StackOK, Nested
  <2> QED BY <2>2, <2>3
<1>4. \A i \in DOMAIN t : FrameOK(t[i], l, k, h)
  BY <1>1, <1>2 DEF StackOK
<1> QED BY <1>2, <1>3, <1>4 DEF StackOK, t
-----------------------------------------------------------------------------
(* The settings of the accounts, and steps that leave the list as it is. *)

\* The map gets no other names than those something is about, and loses no settings.
MapGrows ==
  /\ acntMap' \in [DOMAIN acntMap' -> Settings \cup {Null}]
  /\ DOMAIN acntMap' \subseteq Known \cup {None}
  /\ Settled \subseteq Settled'

LEMMA SameMap == MemoryInv /\ UNCHANGED acntMap => MapGrows
BY DEF MemoryInv, MemoryTyped, ListOK, MapGrows, Settled

\* Settings are assigned.
LEMMA AssignedGrows ==
  ASSUME MemoryInv, NEW STATE u, u \in Known \cup {None}, NEW STATE sett, sett \in Settings,
         acntMap' = Assigned(u, sett)
  PROVE  MapGrows /\ u \in Settled'
<1>1. /\ DOMAIN acntMap' = DOMAIN acntMap \cup {u}
      /\ \A v \in DOMAIN acntMap' : acntMap'[v] = IF v = u THEN sett ELSE acntMap[v]
      /\ acntMap' = [v \in DOMAIN acntMap' |-> acntMap'[v]]
  BY DEF Assigned
<1>2. acntMap' \in [DOMAIN acntMap' -> Settings \cup {Null}]
  BY <1>1 DEF MemoryInv, MemoryTyped
<1>3. DOMAIN acntMap' \subseteq Known \cup {None}
  BY <1>1 DEF MemoryInv, ListOK
<1>4. Settled \subseteq Settled' /\ u \in Settled'
  BY <1>1 DEF Settled
<1> QED BY <1>2, <1>3, <1>4 DEF MapGrows

\* Settings are looked up.
LEMMA LookedUpGrows ==
  ASSUME MemoryInv, NEW STATE u, u \in Known \cup {None}, acntMap' = LookedUp(u)
  PROVE  MapGrows /\ u \in DOMAIN acntMap' /\ acntMap'[u] = SettingsOf(u)
<1>1. /\ DOMAIN acntMap' = DOMAIN acntMap \cup {u}
      /\ \A v \in DOMAIN acntMap : acntMap'[v] = acntMap[v]
      /\ acntMap'[u] = SettingsOf(u)
      /\ acntMap' = [v \in DOMAIN acntMap' |-> acntMap'[v]]
  BY DEF Assigned, LookedUp, SettingsOf
<1>2. SettingsOf(u) \in Settings \cup {Null}
  BY DEF MemoryInv, MemoryTyped, SettingsOf
<1>3. acntMap' \in [DOMAIN acntMap' -> Settings \cup {Null}]
  BY <1>1, <1>2 DEF MemoryInv, MemoryTyped
<1>4. DOMAIN acntMap' \subseteq Known \cup {None}
  BY <1>1 DEF MemoryInv, ListOK
<1>5. Settled \subseteq Settled'
  BY <1>1 DEF Settled
<1> QED BY <1>1, <1>3, <1>4, <1>5 DEF MapGrows

LEMMA KnownAccounts == MemoryInv => Known \cup {None} \subseteq Accounts
BY RangeEquality DEF MemoryInv, MemoryTyped, Known, Listed, Accounts, Range

\* A step in the window that leaves the list as it is.
LEMMA WindowStays ==
  ASSUME MemoryInv, at = "window", UNCHANGED <<at, rows, orphaned>>, MapGrows,
         pin' \in Pins \cup {None}, pending' \subseteq Known \cup {None},
         offered' \subseteq SUBSET Users, UNION offered' \subseteq Known \cup {None},
         sessions' \subseteq Accounts, server' \in [Users -> Passwords],
         ops' \in 0 .. MaxOps,
         StackOK(stack', Listed, Known, Settled')
  PROVE  MemoryInv'
<1>1. Known' = Known /\ Listed' = Listed
  BY DEF Known, Listed
<1>2. MemoryTyped'
  BY KnownAccounts DEF MemoryInv, MemoryTyped, MapGrows
<1>3. ListOK'
  BY <1>1 DEF MemoryInv, ListOK, MapGrows
<1>4. Quiet'
  BY DEF Quiet
<1> QED BY <1>1, <1>2, <1>3, <1>4 DEF MemoryInv
-----------------------------------------------------------------------------
(* The current slot. *)

\* What is known of the current slot.
LEMMA TopHolds ==
  ASSUME MemoryInv, stack # <<>>
  PROVE  FrameOK(Top, Listed, Known, Settled)
<1>1. Len(stack) \in DOMAIN stack
  BY DEF MemoryInv, StackOK
<1> QED BY <1>1 DEF MemoryInv, StackOK, Top

LEMMA StackKept ==
  ASSUME MemoryInv, MapGrows
  PROVE  StackOK(stack, Listed, Known, Settled')
BY StackGrows DEF MemoryInv, MapGrows

\* It returns.
LEMMA Returns ==
  ASSUME MemoryInv, stack # <<>>, MapGrows, stack' = Caller
  PROVE  StackOK(stack', Listed, Known, Settled')
BY StackKept, StackPops DEF Caller

\* It goes on.
LEMMA Continues ==
  ASSUME MemoryInv, stack # <<>>, MapGrows, NEW STATE f,
         FrameOK(f, Listed, Known, Settled'), f.slot = Top.slot,
         stack' = [stack EXCEPT ![Len(stack)] = f]
  PROVE  StackOK(stack', Listed, Known, Settled')
<1>1. GoesOn(stack, f)
  BY DEF GoesOn, Top
<1> QED BY <1>1, StackKept, StackTurns

\* It goes on, with the settings it has.
LEMMA ContinuesAt ==
  ASSUME MemoryInv, stack # <<>>, MapGrows, NEW CONSTANT place, GoTo(place),
         place \in PlacesOf(Top.slot),
         CopyHeld([Top EXCEPT !.at = place]),
         UserHeld([Top EXCEPT !.at = place], Settled'),
         place = "exists" => Top.user \in Known
  PROVE  StackOK(stack', Listed, Known, Settled')
<1> DEFINE f == [Top EXCEPT !.at = place]
<1>1. stack' = [stack EXCEPT ![Len(stack)] = f]
  BY DEF GoTo, Top
<1>2. FrameOK(Top, Listed, Known, Settled)
  BY TopHolds
<1>3. place \in Places
  BY DEF PlacesOf, Places, LoggingIn, Changing
<1>4. f \in Frames /\ f.slot = Top.slot /\ f.user = Top.user /\ f.at = place
  BY <1>2, <1>3 DEF FrameOK, Frames
<1>5. UserKnown(f, Listed, Known)
  BY <1>2, <1>4 DEF FrameOK, UserKnown
<1>6. FrameOK(f, Listed, Known, Settled')
  BY <1>4, <1>5 DEF FrameOK
<1> HIDE DEF f
<1> QED BY <1>1, <1>4, <1>6, Continues

\* It is left.
LEMMA Leaves ==
  ASSUME MemoryInv, stack # <<>>, MapGrows, Leave
  PROVE  StackOK(stack', Listed, Known, Settled')
<1>1. CASE Top.slot = "all"
  <2>1. GoTo("next")
    BY <1>1 DEF Leave
  <2>2. [Top EXCEPT !.at = "next"].at = "next" /\ [Top EXCEPT !.at = "next"].slot = "all"
    BY <1>1, TopHolds DEF FrameOK, Frames
  <2>3. CopyHeld([Top EXCEPT !.at = "next"]) /\ UserHeld([Top EXCEPT !.at = "next"], Settled')
    BY <2>2 DEF CopyHeld, UserHeld, Changing
  <2>4. "next" \in PlacesOf(Top.slot)
    BY <1>1 DEF PlacesOf
  <2> QED BY <2>1, <2>3, <2>4, ContinuesAt
<1>2. CASE Top.slot # "all"
  BY <1>2, Returns DEF Leave
<1> QED BY <1>1, <1>2

\* Another slot is entered.
LEMMA Enters ==
  ASSUME MemoryInv, EventLoop,
         UNCHANGED <<at, pin, rows, acntMap, sessions, pending, orphaned, server>>,
         offered' \subseteq SUBSET Users, UNION offered' \subseteq Known \cup {None},
         NEW CONSTANT slot \in {"all", "one", "manage", "remove", "add", "password",
                                "preferences", "send"},
         NEW CONSTANT u, NEW CONSTANT place \in {"next", "processEvents", "dialogue", "connect"},
         Enter(slot, u, place), place \in PlacesOf(slot),
         slot # "add" => u \in Known \cup {None},
         slot = "add" => u \in Users,
         slot \in {"remove", "password"} => u \in Listed,
         slot = "remove" => WindowReachable
  PROVE  MemoryInv'
<1> DEFINE f == [slot |-> slot, user |-> u, at |-> place, copy |-> Null,
                 row |-> 1, count |-> Len(rows)]
<1>1. stack' = Append(stack, f) /\ ops' \in 0 .. MaxOps
  BY DEF Enter, MemoryInv, MemoryTyped
<1>2. MapGrows
  BY SameMap
<1>3. u \in Accounts
  BY KnownAccounts DEF Known, Accounts
<1>4. Len(rows) \in Nat
  BY DEF MemoryInv, MemoryTyped
<1>5. f \in Frames
  BY <1>3, <1>4 DEF Frames, Places
<1>6. CopyHeld(f)
  BY DEF CopyHeld
<1>7. UserHeld(f, Settled)
  <2>1. f.at \notin Changing /\ f.slot = slot /\ f.user = u
    BY DEF Changing
  <2> QED BY <2>1 DEF UserHeld, MemoryInv, ListOK
<1>8. UserKnown(f, Listed, Known)
  BY DEF UserKnown, Known
<1>9. FrameOK(f, Listed, Known, Settled)
  BY <1>5, <1>6, <1>7, <1>8 DEF FrameOK
<1>10. Entered(stack, f)
  <2>1. stack # <<>> => stack[Len(stack)].at \in Loops \cup Dialogues
    BY DEF EventLoop, Top, Loops
  <2>2. ASSUME slot = "remove", NEW i \in DOMAIN stack PROVE stack[i].at \in Loops
    <3>1. stack[i].at \notin Dialogues
      BY <2>2 DEF WindowReachable
    <3>2. Len(stack) \in DOMAIN stack /\ i <= Len(stack) /\ i \in Nat
      BY DEF MemoryInv, StackOK
    <3>3. CASE i = Len(stack)
      BY <2>1, <3>1, <3>3
    <3>4. CASE i < Len(stack)
      BY <3>1, <3>2, <3>4 DEF MemoryInv, StackOK, Nested
    <3> QED BY <3>2, <3>3, <3>4 DEF MemoryInv, StackOK
  <2> QED BY <2>1, <2>2 DEF Entered
<1> HIDE DEF f
<1>11. StackOK(stack', Listed, Known, Settled)
  BY <1>1, <1>9, <1>10, StackPushes DEF MemoryInv
<1>12. Settled' = Settled
  BY DEF Settled
<1> QED BY <1>1, <1>2, <1>11, <1>12, WindowStays
        DEF EventLoop, Running, MemoryInv, MemoryTyped, ListOK
\* Which slot it is where it is.
LEMMA SlotAt ==
  ASSUME NEW f, NEW l, NEW k, NEW h, FrameOK(f, l, k, h)
  PROVE  /\ f.at = "next" => f.slot = "all"
         /\ f.at = "processEvents" => f.slot = "one"
         /\ f.at = "connect" => f.slot \in {"password", "send"}
         /\ f.at = "exists" => f.slot = "add"
         /\ f.at \in LoggingIn => f.slot \in {"all", "one", "password", "send", "add"}
         /\ f.at \in Changing => f.slot \in {"all", "one", "password", "send"}
         /\ f.slot = "remove" => f.at = "dialogue"
BY DEF FrameOK, Frames, PlacesOf, LoggingIn, Changing

-----------------------------------------------------------------------------
(* Logging in. *)

LEMMA Connects ==
  ASSUME MemoryInv, NEW STATE frames, frames # <<>>,
         StackOK(frames, Listed, Known, Settled),
         NEW STATE u, u = frames[Len(frames)].user,
         frames[Len(frames)].slot \in {"all", "one", "password", "send"},
         frames[Len(frames)].slot = "password" => u \in Settled,
         Connect(u, frames)
  PROVE  MapGrows /\ StackOK(stack', Listed, Known, Settled')
<1> DEFINE t == frames[Len(frames)]
<1>1. Len(frames) \in DOMAIN frames
  BY DEF StackOK
<1>2. FrameOK(t, Listed, Known, Settled)
  BY <1>1 DEF StackOK
<1>3. t \in Frames /\ u \in Known \cup {None}
  BY <1>2 DEF FrameOK, UserKnown
<1>4. CASE /\ stack' = [frames EXCEPT ![Len(frames)].at = "connected"]
           /\ UNCHANGED acntMap
  <2> DEFINE f == [t EXCEPT !.at = "connected"]
  <2>1. /\ f \in Frames /\ f.slot = t.slot /\ f.user = u /\ f.at = "connected"
        /\ stack' = [frames EXCEPT ![Len(frames)] = f]
    BY <1>3, <1>4 DEF Frames, Places
  <2> HIDE DEF f
  <2>2. "connected" \in PlacesOf(t.slot)
    BY DEF PlacesOf, LoggingIn
  <2>3. CopyHeld(f) /\ UserHeld(f, Settled) /\ UserKnown(f, Listed, Known)
    BY <1>3, <2>1 DEF CopyHeld, UserHeld, UserKnown, Changing
  <2>4. FrameOK(f, Listed, Known, Settled) /\ GoesOn(frames, f)
    BY <2>1, <2>2, <2>3 DEF FrameOK, GoesOn
  <2>5. Settled' = Settled
    BY <1>4 DEF Settled
  <2>6. StackOK([frames EXCEPT ![Len(frames)] = f], Listed, Known, Settled)
    BY <2>4, StackTurns
  <2>7. MapGrows
    BY <1>4, SameMap
  <2> QED BY <2>1, <2>5, <2>6, <2>7
<1>5. CASE /\ acntMap' = LookedUp(u)
           /\ stack' = IF SettingsOf(u) # Null
                       THEN [frames EXCEPT ![Len(frames)].at = "logIn",
                                           ![Len(frames)].copy = SettingsOf(u)]
                       ELSE IF t.slot = "all"
                       THEN [frames EXCEPT ![Len(frames)].at = "next"]
                       ELSE SubSeq(frames, 1, Len(frames) - 1)
  <2>1. MapGrows
    BY <1>3, <1>5, LookedUpGrows
  <2>2. StackOK(frames, Listed, Known, Settled')
    BY <2>1, StackGrows DEF MapGrows
  <2>3. CASE SettingsOf(u) # Null
    <3> DEFINE f == [t EXCEPT !.at = "logIn", !.copy = SettingsOf(u)]
    <3>1. SettingsOf(u) \in Settings
      BY <2>3 DEF SettingsOf, MemoryInv, MemoryTyped
    <3>2. /\ f \in Frames /\ f.slot = t.slot /\ f.user = u /\ f.at = "logIn"
          /\ f.copy \in Settings
      BY <1>3, <3>1 DEF Frames, Places
    <3>3. stack' = [frames EXCEPT ![Len(frames)] = f]
      BY <1>5, <2>3
    <3> HIDE DEF f
    <3>4. "logIn" \in PlacesOf(t.slot)
      BY DEF PlacesOf, LoggingIn
    <3>5. CopyHeld(f) /\ UserHeld(f, Settled') /\ UserKnown(f, Listed, Known)
      BY <1>3, <3>2 DEF CopyHeld, UserHeld, UserKnown, Changing
    <3>6. FrameOK(f, Listed, Known, Settled') /\ GoesOn(frames, f)
      BY <3>2, <3>4, <3>5 DEF FrameOK, GoesOn
    <3> QED BY <2>1, <2>2, <3>3, <3>6, StackTurns
  <2>4. CASE SettingsOf(u) = Null /\ t.slot = "all"
    <3> DEFINE f == [t EXCEPT !.at = "next"]
    <3>1. /\ f \in Frames /\ f.slot = t.slot /\ f.user = u /\ f.at = "next"
          /\ stack' = [frames EXCEPT ![Len(frames)] = f]
      BY <1>3, <1>5, <2>4 DEF Frames, Places
    <3> HIDE DEF f
    <3>2. "next" \in PlacesOf(t.slot)
      BY <2>4 DEF PlacesOf
    <3>3. CopyHeld(f) /\ UserHeld(f, Settled') /\ UserKnown(f, Listed, Known)
      BY <1>3, <2>4, <3>1 DEF CopyHeld, UserHeld, UserKnown, Changing
    <3>4. FrameOK(f, Listed, Known, Settled') /\ GoesOn(frames, f)
      BY <3>1, <3>2, <3>3 DEF FrameOK, GoesOn
    <3> QED BY <2>1, <2>2, <3>1, <3>4, StackTurns
  <2>5. CASE SettingsOf(u) = Null /\ t.slot # "all"
    <3>1. stack' = SubSeq(frames, 1, Len(frames) - 1)
      BY <1>5, <2>5
    <3> QED BY <2>1, <2>2, <3>1, StackPops
  <2> QED BY <2>3, <2>4, <2>5
<1> QED BY <1>4, <1>5 DEF Connect

LEMMA EventsProcessedKeeps == MemoryInv /\ EventsProcessed => MemoryInv'
<1> SUFFICES ASSUME MemoryInv, EventsProcessed PROVE MemoryInv'
  OBVIOUS
<1>1. stack # <<>> /\ at = "window" /\ Top.at \in {"processEvents", "connect"}
  BY DEF EventsProcessed, In, Running
<1>2. FrameOK(Top, Listed, Known, Settled)
  BY <1>1, TopHolds
<1>3. /\ Top.slot \in {"one", "password", "send"}
      /\ Top.slot = "password" => Top.at = "connect"
  BY <1>1, <1>2, SlotAt
<1>4. Top.slot = "password" => Top.user \in Settled
  BY <1>2, <1>3 DEF FrameOK, UserHeld
<1>5. Top = stack[Len(stack)] /\ Connect(Top.user, stack)
  BY DEF Top, EventsProcessed
<1>6. MapGrows /\ StackOK(stack', Listed, Known, Settled')
  BY <1>1, <1>3, <1>4, <1>5, Connects DEF MemoryInv
<1> QED BY <1>1, <1>6, WindowStays
        DEF EventsProcessed, MemoryInv, MemoryTyped, ListOK

LEMMA SyncNextKeeps == MemoryInv /\ SyncNext => MemoryInv'
<1> SUFFICES ASSUME MemoryInv, SyncNext PROVE MemoryInv'
  OBVIOUS
<1> DEFINE u == IF Top.row \in DOMAIN rows THEN rows[Top.row] ELSE None
           f == [Top EXCEPT !.row = @ + 1, !.user = u]
           frames == [stack EXCEPT ![Len(stack)].row = @ + 1, ![Len(stack)].user = u]
<1>1. stack # <<>> /\ at = "window" /\ Top.at = "next"
  BY DEF SyncNext, In, Running
<1>2. FrameOK(Top, Listed, Known, Settled) /\ Top.slot = "all"
  BY <1>1, TopHolds, SlotAt
<1>3. u \in Known \cup {None}
  BY DEF Known, Listed, Range
<1>4. frames = [stack EXCEPT ![Len(stack)] = f]
  BY DEF Top
<1>5. u \in Accounts
  BY <1>3, KnownAccounts
<1> HIDE DEF u
<1>6. /\ f \in Frames /\ f.slot = "all" /\ f.at = "next" /\ f.user = u
  <2> DEFINE g == [Top EXCEPT !.row = @ + 1]
  <2>1. g \in Frames /\ g.slot = "all" /\ g.at = "next"
    BY <1>1, <1>2 DEF FrameOK, Frames
  <2>2. f = [g EXCEPT !.user = u]
    OBVIOUS
  <2> HIDE DEF f, g
  <2> QED BY <1>5, <2>1, <2>2 DEF Frames
<1> HIDE DEF f, frames
<1>7. CopyHeld(f) /\ UserHeld(f, Settled) /\ UserKnown(f, Listed, Known)
  BY <1>3, <1>6 DEF CopyHeld, UserHeld, UserKnown, Changing
<1>8. FrameOK(f, Listed, Known, Settled) /\ GoesOn(stack, f)
  BY <1>1, <1>2, <1>6, <1>7 DEF FrameOK, GoesOn
<1>9. StackOK(frames, Listed, Known, Settled)
  BY <1>1, <1>4, <1>8, StackTurns DEF MemoryInv
<1>10. stack \in Seq(Frames) /\ f \in Frames
  BY <1>6 DEF MemoryInv, StackOK
<1>11. frames # <<>> /\ Len(frames) = Len(stack) /\ frames[Len(frames)] = f
  <2>1. DOMAIN frames = 1 .. Len(stack) /\ frames[Len(stack)] = f /\ Len(stack) \in Nat \ {0}
    BY <1>1, <1>4, <1>10, TurnedElems
  <2>2. frames \in Seq(Frames)
    BY <1>9 DEF StackOK
  <2>3. Len(frames) = Len(stack)
    BY <2>1, <2>2
  <2> QED BY <2>1, <2>2, <2>3
<1>12. CASE stack' = Caller /\ UNCHANGED acntMap
  BY <1>1, <1>12, SameMap, Returns, WindowStays
     DEF SyncNext, MemoryInv, MemoryTyped, ListOK
<1>13. CASE stack' = frames /\ acntMap' = LookedUp(u)
  <2>1. MapGrows
    BY <1>3, <1>13, LookedUpGrows
  <2>2. StackOK(stack', Listed, Known, Settled')
    BY <1>9, <1>13, <2>1, StackGrows DEF MapGrows
  <2> QED BY <1>1, <2>1, <2>2, WindowStays DEF SyncNext, MemoryInv, MemoryTyped, ListOK
<1>14. CASE Connect(u, frames)
  <2>1. frames[Len(frames)].slot = "all" /\ u = frames[Len(frames)].user
    BY <1>6, <1>11
  <2>2. MapGrows /\ StackOK(stack', Listed, Known, Settled')
    BY <1>9, <1>11, <1>14, <2>1, Connects
  <2> QED BY <1>1, <2>2, WindowStays DEF SyncNext, MemoryInv, MemoryTyped, ListOK
<1> QED BY <1>12, <1>13, <1>14 DEF SyncNext, u, frames
\* The log-in fails or the account is asked for, the password is given up.
LEMMA FailsKeeps ==
  ASSUME MemoryInv, at = "window", stack # <<>>, LogInFails,
         UNCHANGED <<at, pin, rows, acntMap, sessions, pending, offered, orphaned, ops, server>>
  PROVE  MemoryInv'
BY SameMap, Leaves, WindowStays DEF LogInFails, MemoryInv, MemoryTyped, ListOK

LEMMA WriteBackKeeps ==
  ASSUME MemoryInv, In("logIn"), WriteBack,
         UNCHANGED <<at, pin, rows, pending, offered, orphaned, ops, server>>
  PROVE  MemoryInv'
<1>1. stack # <<>> /\ at = "window" /\ Top.at = "logIn"
  BY DEF In, Running
<1>2. FrameOK(Top, Listed, Known, Settled)
  BY <1>1, TopHolds
<1>3. Top.slot \in {"all", "one", "password", "send", "add"}
  BY <1>1, <1>2, SlotAt DEF LoggingIn
<1>4. Top \in Frames /\ Top.copy \in Settings
  BY <1>1, <1>2 DEF FrameOK, CopyHeld
<1>5. sessions' \subseteq Accounts
  BY <1>4 DEF WriteBack, MemoryInv, MemoryTyped, Frames
<1>6. CASE Top.slot = "add"
  <2> DEFINE f == [Top EXCEPT !.at = "connected"]
  <2>1. MapGrows /\ GoTo("connected")
    BY <1>6, SameMap DEF WriteBack
  <2>2. f.at = "connected" /\ f.slot = "add" /\ f.copy \in Settings
    BY <1>4, <1>6 DEF Frames
  <2> HIDE DEF f
  <2>3. CopyHeld(f) /\ UserHeld(f, Settled')
    BY <2>2 DEF CopyHeld, UserHeld, Changing
  <2>4. "connected" \in PlacesOf(Top.slot)
    BY <1>6 DEF PlacesOf, LoggingIn
  <2>5. StackOK(stack', Listed, Known, Settled')
    BY <1>1, <2>1, <2>3, <2>4, ContinuesAt DEF f
  <2> QED BY <1>1, <1>5, <2>1, <2>5, WindowStays DEF MemoryInv, MemoryTyped, ListOK
<1>7. CASE Top.slot # "add"
  <2>1. Top.user \in Known \cup {None}
    BY <1>2, <1>7 DEF FrameOK, UserKnown
  <2>2. acntMap' = Assigned(Top.user, Top.copy)
    BY <1>7 DEF WriteBack
  <2>3. MapGrows /\ Top.user \in Settled'
    BY <1>4, <2>1, <2>2, AssignedGrows
  <2>4. PICK place \in {"connected", "changePwd"} : GoTo(place)
    BY <1>7 DEF WriteBack
  <2> DEFINE f == [Top EXCEPT !.at = place]
  <2>5. f.at = place /\ f.slot # "add" /\ f.user = Top.user
    BY <1>4, <1>7 DEF Frames
  <2> HIDE DEF f
  <2>6. CopyHeld(f) /\ UserHeld(f, Settled')
    BY <2>3, <2>5 DEF CopyHeld, UserHeld, Changing
  <2>7. place \in PlacesOf(Top.slot) /\ place # "exists"
    BY <1>3, <1>7 DEF PlacesOf, LoggingIn, Changing
  <2>8. StackOK(stack', Listed, Known, Settled')
    BY <1>1, <2>3, <2>4, <2>6, <2>7, ContinuesAt DEF f
  <2> QED BY <1>1, <1>5, <2>3, <2>8, WindowStays DEF MemoryInv, MemoryTyped, ListOK
<1> QED BY <1>6, <1>7

LEMMA LogInKeeps == MemoryInv /\ LogIn => MemoryInv'
<1> SUFFICES ASSUME MemoryInv, LogIn PROVE MemoryInv'
  OBVIOUS
<1>1. stack # <<>> /\ at = "window" /\ Top.at = "logIn"
  BY DEF LogIn, In, Running
<1>2. CASE WriteBack
  BY <1>2, WriteBackKeeps DEF LogIn
<1>3. ASSUME NEW place \in {"askPwd", "askAccount"}, GoTo(place),
             UNCHANGED <<acntMap, sessions>>
      PROVE  MemoryInv'
  <2> DEFINE f == [Top EXCEPT !.at = place]
  <2>1. FrameOK(Top, Listed, Known, Settled)
    BY <1>1, TopHolds
  <2>2. Top.slot \in {"all", "one", "password", "send", "add"}
    BY <1>1, <2>1, SlotAt DEF LoggingIn
  <2>3. f.at = place /\ f.copy \in Settings
    BY <1>1, <2>1 DEF FrameOK, CopyHeld, Frames
  <2> HIDE DEF f
  <2>4. CopyHeld(f) /\ UserHeld(f, Settled')
    BY <2>3 DEF CopyHeld, UserHeld, Changing
  <2>5. place \in PlacesOf(Top.slot) /\ place # "exists"
    BY <2>2 DEF PlacesOf, LoggingIn
  <2>6. MapGrows
    BY <1>3, SameMap
  <2>7. StackOK(stack', Listed, Known, Settled')
    BY <1>1, <1>3, <2>4, <2>5, <2>6, ContinuesAt DEF f
  <2> QED BY <1>1, <1>3, <2>6, <2>7, WindowStays DEF LogIn, MemoryInv, MemoryTyped, ListOK
<1>4. CASE LogInFails /\ UNCHANGED <<acntMap, sessions>>
  BY <1>1, <1>4, FailsKeeps DEF LogIn
<1> QED BY <1>2, <1>3, <1>4 DEF LogIn

\* A slot gets settings and is somewhere in the log-in.
LEMMA GivenKeeps ==
  ASSUME MemoryInv, at = "window", stack # <<>>,
         UNCHANGED <<at, pin, rows, acntMap, sessions, pending, offered, orphaned, ops, server>>,
         NEW CONSTANT sett \in Settings, NEW CONSTANT place \in {"logIn", "connected"},
         Top.slot \in {"all", "one", "password", "send", "add"},
         place = "connected" => Top.slot = "add",
         stack' = [stack EXCEPT ![Len(stack)].copy = sett, ![Len(stack)].at = place]
  PROVE  MemoryInv'
<1> DEFINE f == [Top EXCEPT !.copy = sett, !.at = place]
<1>1. FrameOK(Top, Listed, Known, Settled)
  BY TopHolds
<1>2. stack' = [stack EXCEPT ![Len(stack)] = f]
  BY DEF Top
<1>3. /\ f \in Frames /\ f.copy = sett /\ f.at = place
      /\ f.slot = Top.slot /\ f.user = Top.user
  BY <1>1 DEF FrameOK, Frames, Places
<1> HIDE DEF f
<1>4. CopyHeld(f) /\ UserHeld(f, Settled') /\ UserKnown(f, Listed, Known)
  BY <1>1, <1>3 DEF CopyHeld, UserHeld, UserKnown, FrameOK, Changing
<1>5. place \in PlacesOf(f.slot)
  BY <1>3 DEF PlacesOf, LoggingIn
<1>6. FrameOK(f, Listed, Known, Settled')
  BY <1>3, <1>4, <1>5 DEF FrameOK
<1>7. MapGrows
  BY SameMap
<1>8. StackOK(stack', Listed, Known, Settled')
  BY <1>2, <1>3, <1>6, <1>7, Continues
<1> QED BY <1>7, <1>8, WindowStays DEF MemoryInv, MemoryTyped, ListOK

LEMMA AskedKeeps == MemoryInv /\ Asked => MemoryInv'
<1> SUFFICES ASSUME MemoryInv, Asked PROVE MemoryInv'
  OBVIOUS
<1>1. stack # <<>> /\ at = "window" /\ Top.at \in {"askPwd", "askAccount"}
  BY DEF Asked, In, Running
<1>2. Top.slot \in {"all", "one", "password", "send", "add"}
  BY <1>1, TopHolds, SlotAt DEF LoggingIn
<1>3. ASSUME NEW sett \in Settings,
             stack' = [stack EXCEPT ![Len(stack)].copy = sett, ![Len(stack)].at = "logIn"]
      PROVE  MemoryInv'
  BY <1>1, <1>2, <1>3, GivenKeeps DEF Asked
<1>4. CASE LogInFails
  BY <1>1, <1>4, FailsKeeps DEF Asked
<1> QED BY <1>3, <1>4 DEF Asked

-----------------------------------------------------------------------------
(* What the user does. *)

LEMMA UserKeeps == MemoryInv /\ User => MemoryInv'
<1> SUFFICES ASSUME MemoryInv, User PROVE MemoryInv'
  OBVIOUS
<1>0. WindowReachable => EventLoop
  BY DEF WindowReachable
<1>12. offered \subseteq SUBSET Users /\ UNION offered \subseteq Known \cup {None}
           /\ Listed \subseteq Known
  BY DEF MemoryInv, MemoryTyped, ListOK, Known
<1>1. CASE SyncAll
  BY <1>1, <1>12, Enters DEF SyncAll, PlacesOf
<1>2. CASE SyncOne
  <2>1. PICK u \in Listed : Enter("one", u, "processEvents")
    BY <1>2 DEF SyncOne, Listed
  <2> QED BY <1>0, <1>2, <2>1, <1>12, Enters DEF SyncOne, PlacesOf
<1>3. CASE Manage
  <2>1. PICK u \in Listed : Enter("manage", u, "dialogue")
    BY <1>3 DEF Manage, Listed
  <2> QED BY <1>0, <1>3, <2>1, <1>12, Enters DEF Manage, PlacesOf
<1>4. CASE Add
  <2>1. PICK u \in Users : Enter("add", u, "dialogue")
    BY <1>4 DEF Add
  <2> QED BY <1>0, <1>4, <2>1, <1>12, Enters DEF Add, PlacesOf
<1>5. CASE Remove
  <2>1. PICK u \in Listed : Enter("remove", u, "dialogue")
    BY <1>5 DEF Remove, Listed
  <2> QED BY <1>0, <1>5, <2>1, <1>12, Enters DEF Remove, PlacesOf
<1>6. CASE ChangePassword
  <2>1. PICK u \in Listed : Enter("password", u, "connect")
    BY <1>6 DEF ChangePassword, Listed
  <2> QED BY <1>0, <1>6, <2>1, <1>12, Enters DEF ChangePassword, PlacesOf
<1>7. CASE Preferences
  BY <1>0, <1>7, <1>12, Enters DEF Preferences, PlacesOf
<1>9. CASE SendMessageDialog
  <2>1. PICK u \in Listed, names \in SUBSET Listed :
               offered' = offered \cup {names} /\ Enter("send", u, "connect")
    BY <1>9 DEF SendMessageDialog, Listed
  <2>2. Listed \subseteq Users
    BY DEF MemoryInv, MemoryTyped, Listed, Range
  <2>3. offered' \subseteq SUBSET Users /\ UNION offered' \subseteq Known \cup {None}
    BY <2>1, <2>2 DEF MemoryInv, MemoryTyped, ListOK, Known
  <2> QED BY <1>0, <1>9, <2>1, <2>3, Enters DEF SendMessageDialog, PlacesOf, Known
<1>10. CASE ChooseSender
  <2>1. PICK u \in UNION offered : Enter("send", u, "connect")
    BY <1>10 DEF ChooseSender
  <2>2. u \in Known \cup {None}
    BY DEF MemoryInv, ListOK
  <2> QED BY <1>0, <1>10, <2>1, <2>2, Enters
          DEF ChooseSender, PlacesOf, MemoryInv, MemoryTyped, ListOK
<1>11. CASE MessageLeft \/ Assign
  <2>1. MapGrows /\ at = "window"
    BY <1>11, SameMap DEF MessageLeft, Assign, WindowReachable, EventLoop, Running
  <2>2. Settled' = Settled
    BY <1>11 DEF MessageLeft, Assign, Settled
  <2>3. pending' \subseteq Known \cup {None}
    BY <1>11 DEF MessageLeft, Assign, MemoryInv, ListOK, Known, Listed
  <2>4. offered' \subseteq SUBSET Users /\ UNION offered' \subseteq Known \cup {None}
    <3>1. offered' \subseteq offered
      BY <1>11 DEF MessageLeft, Assign
    <3> QED BY <3>1 DEF MemoryInv, MemoryTyped, ListOK
  <2> QED BY <1>11, <2>1, <2>2, <2>3, <2>4, WindowStays
          DEF MessageLeft, Assign, MemoryInv, MemoryTyped
<1>8. CASE Store
  <2>1. MapGrows /\ at = "window"
    BY <1>8, SameMap DEF Store, memory, WindowReachable, EventLoop, Running
  <2>2. Settled' = Settled
    BY <1>8 DEF Store, memory, Settled
  <2> QED BY <1>8, <2>1, <2>2, WindowStays DEF Store, memory, MemoryInv, MemoryTyped, ListOK
<1> QED BY <1>1, <1>2, <1>3, <1>4, <1>5, <1>6, <1>7, <1>8, <1>9, <1>10, <1>11 DEF User

\* The dialogue of a message looks up the account that was chosen.
LEMMA SetAccountInfoKeeps == MemoryInv /\ SetAccountInfo => MemoryInv'
<1> SUFFICES ASSUME MemoryInv, SetAccountInfo PROVE MemoryInv'
  OBVIOUS
<1>1. stack # <<>> /\ at = "window" /\ Top.slot = "send" /\ stack' = Caller
  BY DEF SetAccountInfo, In, Running
<1>2. Top.user \in Known \cup {None}
  BY <1>1, TopHolds DEF FrameOK, UserKnown
<1>3. MapGrows
  BY <1>2, LookedUpGrows DEF SetAccountInfo
<1> QED BY <1>1, <1>3, Returns, WindowStays
        DEF SetAccountInfo, MemoryInv, MemoryTyped, ListOK

\* Synchronising an account that is connected; a synchronisation of all starts one
\* of one.
LEMMA SynchroniseKeeps == MemoryInv /\ Synchronise => MemoryInv'
<1> SUFFICES ASSUME MemoryInv, Synchronise PROVE MemoryInv'
  OBVIOUS
<1>1. stack # <<>> /\ at = "window"
  BY DEF Synchronise, In, Running
<1>2. FrameOK(Top, Listed, Known, Settled) /\ MapGrows
  BY <1>1, TopHolds, SameMap DEF Synchronise
<1>3. Settled' = Settled
  BY DEF Synchronise, Settled
<1>4. ASSUME Top.slot = "all",
             stack' = Append([stack EXCEPT ![Len(stack)].at = "next"],
                             [Top EXCEPT !.slot = "one", !.at = "processEvents", !.copy = Null]),
             UNCHANGED pending
      PROVE  MemoryInv'
  <2> DEFINE f == [Top EXCEPT !.at = "next"]
             g == [Top EXCEPT !.slot = "one", !.at = "processEvents", !.copy = Null]
             frames == [stack EXCEPT ![Len(stack)] = f]
  <2>1. stack' = Append(frames, g)
    BY <1>4 DEF Top
  <2>2. /\ f \in Frames /\ f.slot = "all" /\ f.at = "next" /\ f.user = Top.user
        /\ g \in Frames /\ g.slot = "one" /\ g.at = "processEvents" /\ g.user = Top.user
    BY <1>2, <1>4 DEF FrameOK, Frames, Places
  <2> HIDE DEF f, g
  <2>3. Top.user \in Known \cup {None}
    BY <1>2, <1>4 DEF FrameOK, UserKnown
  <2>4. FrameOK(f, Listed, Known, Settled) /\ GoesOn(stack, f)
    BY <2>2, <2>3
       DEF FrameOK, CopyHeld, UserHeld, UserKnown, PlacesOf, Changing, GoesOn
  <2>5. FrameOK(g, Listed, Known, Settled)
    BY <2>2, <2>3 DEF FrameOK, CopyHeld, UserHeld, UserKnown, PlacesOf, Changing
  <2>6. StackOK(frames, Listed, Known, Settled)
    BY <1>1, <2>4, StackTurns DEF MemoryInv
  <2>7. stack \in Seq(Frames) /\ f \in Frames
    BY <2>2 DEF MemoryInv, StackOK
  <2>8. frames[Len(frames)] = f
    <3>1. DOMAIN frames = 1 .. Len(stack) /\ frames[Len(stack)] = f /\ frames \in Seq(Frames)
      BY <1>1, <2>7, TurnedElems
    <3>2. Len(stack) \in Nat
      BY <2>7
    <3> HIDE DEF frames
    <3> QED BY <3>1, <3>2
  <2>9. Entered(frames, g)
    BY <2>2, <2>8 DEF Entered, Loops
  <2> HIDE DEF frames
  <2>10. StackOK(stack', Listed, Known, Settled')
    BY <1>3, <2>1, <2>5, <2>6, <2>9, StackPushes
  <2> QED BY <1>1, <1>2, <1>4, <2>10, WindowStays
          DEF Synchronise, MemoryInv, MemoryTyped, ListOK
<1>5. ASSUME Top.slot = "one", pending' = pending \cup {Top.user}, stack' = Caller
      PROVE  MemoryInv'
  <2>1. pending' \subseteq Known \cup {None}
    BY <1>2, <1>5 DEF FrameOK, UserKnown, MemoryInv, ListOK
  <2>2. StackOK(stack', Listed, Known, Settled')
    BY <1>1, <1>2, <1>5, Returns
  <2> QED BY <1>1, <1>2, <2>1, <2>2, WindowStays
          DEF Synchronise, MemoryInv, MemoryTyped, ListOK
<1> QED BY <1>4, <1>5 DEF Synchronise

\* A task looks its account up.
LEMMA WorkerKeeps == MemoryInv /\ Worker => MemoryInv'
<1> SUFFICES ASSUME MemoryInv, Worker PROVE MemoryInv'
  OBVIOUS
<1>1. PICK u \in pending : /\ pending' \in {pending, pending \ {u}}
                           /\ acntMap' \in {acntMap, LookedUp(u)}
  BY DEF Worker
<1>2. u \in Known \cup {None}
  BY DEF MemoryInv, ListOK
<1>3. MapGrows
  BY <1>1, <1>2, SameMap, LookedUpGrows
<1>4. StackOK(stack', Listed, Known, Settled')
  BY <1>3, StackKept DEF Worker
<1>5. pending' \subseteq Known \cup {None}
  BY <1>1 DEF MemoryInv, ListOK
<1> QED BY <1>3, <1>4, <1>5, WindowStays DEF Worker, MemoryInv, MemoryTyped, ListOK

LEMMA ManagedKeeps == MemoryInv /\ Managed => MemoryInv'
<1> SUFFICES ASSUME MemoryInv, Managed PROVE MemoryInv'
  OBVIOUS
<1>1. stack # <<>> /\ at = "window" /\ Top.slot = "manage" /\ stack' = Caller
  BY DEF Managed, In, Running
<1>2. Top.user \in Known \cup {None}
  BY <1>1, TopHolds DEF FrameOK, UserKnown
<1>3. MapGrows
  <2>1. CASE UNCHANGED acntMap
    BY <2>1, SameMap
  <2>2. ASSUME NEW sett \in Settings, acntMap' = Assigned(Top.user, sett) PROVE MapGrows
    BY <1>2, <2>2, AssignedGrows
  <2> QED BY <2>1, <2>2 DEF Managed
<1> QED BY <1>1, <1>3, Returns, WindowStays DEF Managed, MemoryInv, MemoryTyped, ListOK

LEMMA AddGivenKeeps == MemoryInv /\ AddGiven => MemoryInv'
<1> SUFFICES ASSUME MemoryInv, AddGiven PROVE MemoryInv'
  OBVIOUS
<1>1. stack # <<>> /\ at = "window" /\ Top.slot = "add"
  BY DEF AddGiven, In, Running
<1>2. CASE stack' = Caller
  BY <1>1, <1>2, SameMap, Returns, WindowStays DEF AddGiven, MemoryInv, MemoryTyped, ListOK
<1>3. ASSUME NEW sett \in Settings, NEW place \in {"logIn", "connected"},
             stack' = [stack EXCEPT ![Len(stack)].copy = sett, ![Len(stack)].at = place]
      PROVE  MemoryInv'
  BY <1>1, <1>3, GivenKeeps DEF AddGiven
<1> QED BY <1>2, <1>3 DEF AddGiven

LEMMA PasswordDialogueKeeps == MemoryInv /\ PasswordDialogue => MemoryInv'
<1> SUFFICES ASSUME MemoryInv, PasswordDialogue PROVE MemoryInv'
  OBVIOUS
<1> DEFINE f == [Top EXCEPT !.at = "changePwd"]
<1>1. /\ stack # <<>> /\ at = "window" /\ Top.slot = "password" /\ Top.at = "connected"
      /\ GoTo("changePwd")
  BY DEF PasswordDialogue, In, Running
<1>2. FrameOK(Top, Listed, Known, Settled)
  BY <1>1, TopHolds
<1>3. Top.user \in Settled /\ MapGrows
  BY <1>1, <1>2, SameMap DEF FrameOK, UserHeld, PasswordDialogue
<1>4. f.at = "changePwd" /\ f.slot = "password" /\ f.user = Top.user
  BY <1>1, <1>2 DEF FrameOK, Frames
<1> HIDE DEF f
<1>5. CopyHeld(f) /\ UserHeld(f, Settled')
  BY <1>3, <1>4 DEF CopyHeld, UserHeld, Changing, MapGrows
<1>6. "changePwd" \in PlacesOf(Top.slot)
  BY <1>1 DEF PlacesOf, Changing
<1>7. StackOK(stack', Listed, Known, Settled')
  BY <1>1, <1>3, <1>5, <1>6, ContinuesAt DEF f
<1> QED BY <1>1, <1>3, <1>7, WindowStays DEF PasswordDialogue, MemoryInv, MemoryTyped, ListOK

\* The password dialogue is left.
LEMMA PasswordLeftKeeps ==
  ASSUME MemoryInv, stack # <<>>, Top.at \in Changing, MapGrows, PasswordLeft
  PROVE  StackOK(stack', Listed, Known, Settled')
<1>1. CASE Top.slot = "password"
  BY <1>1, Returns DEF PasswordLeft
<1>2. CASE Top.slot # "password"
  <2> DEFINE f == [Top EXCEPT !.at = "connected"]
  <2>1. FrameOK(Top, Listed, Known, Settled)
    BY TopHolds
  <2>2. Top.slot \in {"all", "one", "send"}
    BY <1>2, <2>1, SlotAt
  <2>3. f.at = "connected" /\ f.slot \in {"all", "one", "send"}
    BY <2>1, <2>2 DEF FrameOK, Frames
  <2> HIDE DEF f
  <2>4. CopyHeld(f) /\ UserHeld(f, Settled')
    BY <2>3 DEF CopyHeld, UserHeld, Changing
  <2>5. "connected" \in PlacesOf(Top.slot)
    BY <2>2 DEF PlacesOf, LoggingIn
  <2> QED BY <1>2, <2>4, <2>5, ContinuesAt DEF PasswordLeft, f
<1> QED BY <1>1, <1>2

LEMMA PasswordSentKeeps == MemoryInv /\ PasswordSent => MemoryInv'
<1> SUFFICES ASSUME MemoryInv, PasswordSent PROVE MemoryInv'
  OBVIOUS
<1>1. stack # <<>> /\ at = "window" /\ Top.at = "changePwd" /\ MapGrows
  BY SameMap DEF PasswordSent, In, Running
<1>2. FrameOK(Top, Listed, Known, Settled)
  BY <1>1, TopHolds
<1>3. CASE PasswordLeft /\ UNCHANGED server
  <2>1. StackOK(stack', Listed, Known, Settled')
    BY <1>1, <1>3, PasswordLeftKeeps DEF Changing
  <2> QED BY <1>1, <1>3, <2>1, WindowStays DEF PasswordSent, MemoryInv, MemoryTyped, ListOK
<1>4. ASSUME NEW new \in Passwords,
             server' = [server EXCEPT ![Top.user] = new],
             stack' = [stack EXCEPT ![Len(stack)].at = "changed",
                                    ![Len(stack)].copy = [pwd |-> new, rememberPwd |-> FALSE]]
      PROVE  MemoryInv'
  <2> DEFINE sett == [pwd |-> new, rememberPwd |-> FALSE]
             f == [Top EXCEPT !.at = "changed", !.copy = sett]
  <2>1. server' \in [Users -> Passwords]
    BY <1>4 DEF MemoryInv, MemoryTyped
  <2>2. sett \in Settings
    BY DEF Settings, Secrets
  <2>3. stack' = [stack EXCEPT ![Len(stack)] = f]
    BY <1>4 DEF Top
  <2> HIDE DEF sett
  <2>4. /\ f \in Frames /\ f.slot = Top.slot /\ f.user = Top.user
        /\ f.at = "changed" /\ f.copy = sett
    BY <1>2, <2>2 DEF FrameOK, Frames, Places
  <2> HIDE DEF f
  <2>5. Top.slot \in {"all", "one", "password", "send"} /\ Top.user \in Settled
    BY <1>1, <1>2, SlotAt DEF FrameOK, UserHeld, Changing
  <2>6. "changed" \in PlacesOf(f.slot)
    BY <2>4, <2>5 DEF PlacesOf, Changing
  <2>7. CopyHeld(f) /\ UserHeld(f, Settled') /\ UserKnown(f, Listed, Known)
    BY <1>1, <1>2, <2>2, <2>4, <2>5
       DEF FrameOK, CopyHeld, UserHeld, UserKnown, MapGrows
  <2>8. FrameOK(f, Listed, Known, Settled')
    BY <2>4, <2>6, <2>7 DEF FrameOK
  <2>9. StackOK(stack', Listed, Known, Settled')
    BY <1>1, <2>3, <2>4, <2>8, Continues
  <2> QED BY <1>1, <2>1, <2>9, WindowStays DEF PasswordSent, MemoryInv, MemoryTyped, ListOK
<1> QED BY <1>3, <1>4 DEF PasswordSent

LEMMA PasswordChangedKeeps == MemoryInv /\ PasswordChanged => MemoryInv'
<1> SUFFICES ASSUME MemoryInv, PasswordChanged PROVE MemoryInv'
  OBVIOUS
<1> DEFINE sett == [acntMap[Top.user] EXCEPT !.pwd = Top.copy.pwd]
<1>1. stack # <<>> /\ at = "window" /\ Top.at = "changed"
  BY DEF PasswordChanged, In, Running
<1>2. FrameOK(Top, Listed, Known, Settled)
  BY <1>1, TopHolds
<1>3. /\ Top.user \in DOMAIN acntMap /\ acntMap[Top.user] \in Settings
      /\ Top.copy \in Settings
  BY <1>1, <1>2 DEF FrameOK, UserHeld, CopyHeld, Changing, Settled
<1>4. sett \in Settings
  BY <1>3 DEF Settings
<1>5. acntMap' = Assigned(Top.user, sett)
  BY <1>3 DEF PasswordChanged, LookedUp, Assigned, SettingsOf
<1>6. Top.user \in Known \cup {None}
  BY <1>3 DEF MemoryInv, ListOK
<1> HIDE DEF sett
<1>7. MapGrows
  BY <1>4, <1>5, <1>6, AssignedGrows
<1>8. StackOK(stack', Listed, Known, Settled')
  BY <1>1, <1>7, PasswordLeftKeeps DEF PasswordChanged, Changing
<1> QED BY <1>1, <1>7, <1>8, WindowStays DEF PasswordChanged, MemoryInv, MemoryTyped, ListOK

LEMMA PreferencesLeftKeeps == MemoryInv /\ PreferencesLeft => MemoryInv'
BY SameMap, Returns, WindowStays
   DEF PreferencesLeft, In, Running, MemoryInv, MemoryTyped, ListOK

LEMMA RefusalReadKeeps == MemoryInv /\ RefusalRead => MemoryInv'
BY SameMap, Returns, WindowStays
   DEF RefusalRead, In, Running, MemoryInv, MemoryTyped, ListOK

-----------------------------------------------------------------------------
(* Accounts come and go. *)

LEMMA AddAccountKeeps == MemoryInv /\ AddAccount => MemoryInv'
<1> SUFFICES ASSUME MemoryInv, AddAccount PROVE MemoryInv'
  OBVIOUS
<1> DEFINE u == Top.user
<1>1. stack # <<>> /\ at = "window" /\ Top.at = "connected" /\ Top.slot = "add"
  BY DEF AddAccount, In, Running
<1>2. FrameOK(Top, Listed, Known, Settled)
  BY <1>1, TopHolds
<1>3. Top.copy \in Settings /\ u \in Users /\ u # None
  BY <1>1, <1>2 DEF FrameOK, CopyHeld, UserKnown
<1>4. CASE u \in DOMAIN acntMap
  <2> DEFINE f == [Top EXCEPT !.at = "exists"]
  <2>1. MapGrows /\ GoTo("exists")
    BY <1>4, SameMap DEF AddAccount
  <2>2. f.at = "exists" /\ f.slot = "add"
    BY <1>1, <1>2 DEF FrameOK, Frames
  <2> HIDE DEF f
  <2>3. CopyHeld(f) /\ UserHeld(f, Settled')
    BY <2>2 DEF CopyHeld, UserHeld, Changing
  <2>4. "exists" \in PlacesOf(Top.slot)
    BY <1>1 DEF PlacesOf
  <2>5. Top.user \in Known
    BY <1>3, <1>4 DEF MemoryInv, ListOK
  <2>6. StackOK(stack', Listed, Known, Settled')
    BY <1>1, <2>1, <2>3, <2>4, <2>5, ContinuesAt DEF f
  <2> QED BY <1>1, <1>4, <2>1, <2>6, WindowStays
          DEF AddAccount, MemoryInv, MemoryTyped, ListOK
<1>5. CASE u \notin DOMAIN acntMap
  <2>1. /\ rows' = Append(rows, u)
        /\ acntMap' = Assigned(u, Top.copy)
        /\ stack' = Caller
    BY <1>5 DEF AddAccount
  <2> HIDE DEF u
  <2>2. rows \in Seq(Users) /\ u \notin Listed
    BY <1>5 DEF MemoryInv, MemoryTyped, ListOK, Settled
  <2>3. /\ rows' \in Seq(Users) /\ DOMAIN rows' = 1 .. Len(rows) + 1
        /\ DOMAIN rows = 1 .. Len(rows) /\ Len(rows) \in Nat
        /\ rows'[Len(rows) + 1] = u
        /\ \A i \in 1 .. Len(rows) : rows'[i] = rows[i]
    BY <1>3, <2>1, <2>2
  <2>4. Listed' = Listed \cup {u}
    BY <2>3 DEF Listed, Range
  <2>5. Known' = Known \cup {u}
    BY <2>4 DEF Known, AddAccount
  <2>6. Once(rows')
    <3> SUFFICES ASSUME NEW i \in DOMAIN rows', NEW j \in DOMAIN rows', rows'[i] = rows'[j]
                 PROVE  i = j
      BY DEF Once
    <3>1. \A m \in 1 .. Len(rows) : rows'[m] \in Listed
      BY <2>3 DEF Listed, Range
    <3>2. (i \in 1 .. Len(rows) \/ i = Len(rows) + 1) /\ (j \in 1 .. Len(rows) \/ j = Len(rows) + 1)
      BY <2>3
    <3> QED BY <2>2, <2>3, <3>1, <3>2 DEF MemoryInv, ListOK, Once
  <2>7. /\ DOMAIN acntMap' = DOMAIN acntMap \cup {u}
        /\ \A v \in DOMAIN acntMap' : acntMap'[v] = IF v = u THEN Top.copy ELSE acntMap[v]
        /\ acntMap' = [v \in DOMAIN acntMap' |-> acntMap'[v]]
    BY <2>1 DEF Assigned
  <2>8. acntMap' \in [DOMAIN acntMap' -> Settings \cup {Null}]
    BY <1>3, <2>7 DEF MemoryInv, MemoryTyped
  <2>9. Settled \subseteq Settled' /\ u \in Settled'
    BY <1>3, <2>7 DEF Settled
  <2>10. ListOK'
    BY <2>4, <2>5, <2>6, <2>7, <2>9 DEF MemoryInv, ListOK, AddAccount
  <2>11. MemoryTyped'
    BY <1>3, <2>3, <2>7, <2>8 DEF MemoryInv, MemoryTyped, AddAccount, Accounts
  <2>12. StackOK(stack, Listed', Known', Settled')
    BY <2>4, <2>5, <2>9, StackGrows DEF MemoryInv
  <2>13. StackOK(stack', Listed', Known', Settled')
    BY <1>1, <2>1, <2>12, StackPops DEF Caller
  <2>14. Quiet'
    BY <1>1 DEF Quiet, AddAccount
  <2> QED BY <2>10, <2>11, <2>13, <2>14 DEF MemoryInv
<1> QED BY <1>4, <1>5

\* A sequence without its element i.
LEMMA CutElems ==
  ASSUME NEW S, NEW s \in Seq(S), NEW i \in 1 .. Len(s)
  PROVE  LET t == SubSeq(s, 1, i - 1) \o SubSeq(s, i + 1, Len(s))
         IN /\ t \in Seq(S)
            /\ Len(t) = Len(s) - 1
            /\ \A n \in 1 .. Len(s) - 1 : t[n] = s[IF n < i THEN n ELSE n + 1]
<1> DEFINE a == SubSeq(s, 1, i - 1)
           b == SubSeq(s, i + 1, Len(s))
<1>1. Len(s) \in Nat /\ i \in Nat /\ 1 <= i /\ i <= Len(s)
  OBVIOUS
<1>2. \A n \in 1 .. Len(s) : s[n] \in S
  OBVIOUS
<1>3. a \in Seq(S) /\ Len(a) = i - 1 /\ \A n \in 1 .. i - 1 : a[n] = s[n]
  <2>1. \A n \in 1 .. i - 1 : s[n] \in S
    BY <1>1, <1>2
  <2> HIDE <1>2
  <2>2. /\ a \in Seq(S) /\ Len(a) = (IF 1 <= i - 1 THEN i - 1 - 1 + 1 ELSE 0)
        /\ \A n \in 1 .. i - 1 - 1 + 1 : a[n] = s[1 + n - 1]
    BY <1>1, <2>1, SubSeqProperties
  <2> HIDE DEF a
  <2> QED BY <1>1, <2>2
<1>4. b \in Seq(S) /\ Len(b) = Len(s) - i /\ \A n \in 1 .. Len(s) - i : b[n] = s[i + n]
  <2>1. \A n \in i + 1 .. Len(s) : s[n] \in S
    BY <1>1, <1>2
  <2>2. /\ b \in Seq(S)
        /\ Len(b) = (IF i + 1 <= Len(s) THEN Len(s) - (i + 1) + 1 ELSE 0)
        /\ \A n \in 1 .. Len(s) - (i + 1) + 1 : b[n] = s[i + 1 + n - 1]
    BY <1>1, <2>1, SubSeqProperties
  <2> HIDE DEF b
  <2> QED BY <1>1, <2>2
<1> HIDE DEF a, b
<1>5. /\ a \o b \in Seq(S) /\ Len(a \o b) = Len(a) + Len(b)
      /\ \A n \in 1 .. Len(a) + Len(b) :
           (a \o b)[n] = IF n <= Len(a) THEN a[n] ELSE b[n - Len(a)]
  <2>1. a \in Seq(S) /\ b \in Seq(S)
    BY <1>3, <1>4
  <2> QED BY <2>1, ConcatProperties, Zenon
<1>6. Len(a \o b) = Len(s) - 1
  BY <1>1, <1>3, <1>4, <1>5
<1>7. ASSUME NEW n \in 1 .. Len(s) - 1
      PROVE  (a \o b)[n] = s[IF n < i THEN n ELSE n + 1]
  <2>1. (a \o b)[n] = IF n <= i - 1 THEN a[n] ELSE b[n - (i - 1)]
    BY <1>1, <1>3, <1>4, <1>5
  <2>2. CASE n < i
    <3>1. n \in 1 .. i - 1
      BY <1>1, <2>2
    <3> QED BY <1>1, <1>3, <2>1, <2>2, <3>1
  <2>3. CASE ~(n < i)
    <3>1. n - (i - 1) \in 1 .. Len(s) - i /\ i + (n - (i - 1)) = n + 1 /\ ~(n <= i - 1)
      BY <1>1, <2>3
    <3>2. b[n - (i - 1)] = s[i + (n - (i - 1))]
      BY <1>4, <3>1
    <3> QED BY <2>1, <2>3, <3>1, <3>2
  <2> QED BY <2>2, <2>3
<1> QED BY <1>5, <1>6, <1>7 DEF a, b

\* The list without row i, as Removed has it.
CutRow(s, i) == SubSeq(s, 1, i - 1) \o SubSeq(s, i + 1, Len(s))

\* It has the other names, each of them once.
LEMMA RowRemoved ==
  ASSUME NEW S, NEW s \in Seq(S), NEW i \in 1 .. Len(s), Once(s)
  PROVE  /\ CutRow(s, i) \in Seq(S)
         /\ Range(CutRow(s, i)) = Range(s) \ {s[i]}
         /\ Once(CutRow(s, i))
<1> DEFINE t == CutRow(s, i)
<1>0. /\ t \in Seq(S) /\ Len(t) = Len(s) - 1
      /\ \A n \in 1 .. Len(s) - 1 : t[n] = s[IF n < i THEN n ELSE n + 1]
  BY CutElems DEF CutRow
<1> HIDE DEF t
<1>1. Len(s) \in Nat /\ DOMAIN s = 1 .. Len(s) /\ i \in Nat /\ 1 <= i /\ i <= Len(s)
  OBVIOUS
<1>2. DOMAIN t = 1 .. Len(s) - 1
  BY <1>0, <1>1
<1>3. ASSUME NEW n \in DOMAIN t PROVE t[n] \in Range(s) \ {s[i]}
  <2> DEFINE m == IF n < i THEN n ELSE n + 1
  <2>1. m \in DOMAIN s /\ m # i /\ i \in DOMAIN s
    BY <1>1, <1>2
  <2>2. t[n] = s[m]
    BY <1>0, <1>2
  <2> HIDE DEF m
  <2> QED BY <2>1, <2>2 DEF Range, Once
<1>4. ASSUME NEW m \in DOMAIN s, m # i PROVE s[m] \in Range(t)
  <2> DEFINE n == IF m < i THEN m ELSE m - 1
  <2>1. n \in DOMAIN t /\ (IF n < i THEN n ELSE n + 1) = m
    BY <1>1, <1>2, <1>4
  <2>2. t[n] = s[m]
    BY <1>0, <1>2, <2>1
  <2> HIDE DEF n
  <2> QED BY <2>1, <2>2 DEF Range
<1>5. Range(t) = Range(s) \ {s[i]}
  BY <1>3, <1>4 DEF Range
<1>6. ASSUME NEW m \in DOMAIN t, NEW n \in DOMAIN t, t[m] = t[n] PROVE m = n
  <2> DEFINE to(j) == IF j < i THEN j ELSE j + 1
  <2>1. to(m) \in DOMAIN s /\ to(n) \in DOMAIN s /\ (to(m) = to(n) => m = n)
    BY <1>1, <1>2
  <2>2. s[to(m)] = s[to(n)]
    BY <1>0, <1>2, <1>6
  <2> HIDE DEF to
  <2> QED BY <2>1, <2>2 DEF Once
<1> QED BY <1>0, <1>5, <1>6 DEF t, Once

\* What waits under the dialogue of a removal still knows its account.
LEMMA RemovedUnder ==
  ASSUME NEW s, NEW l, NEW k, NEW h, StackOK(s, l, k, h), s # <<>>,
         s[Len(s)].slot = "remove", NEW l2, NEW k2, NEW h2,
         \A i \in DOMAIN s : i # Len(s) /\ s[i].user \in k => s[i].user \in k2
  PROVE  StackOK(SubSeq(s, 1, Len(s) - 1), l2, k2, h2)
<1> DEFINE t == SubSeq(s, 1, Len(s) - 1)
<1>1. StackOK(t, l, k, h)
  BY StackPops
<1>2. s \in Seq(Frames)
  BY DEF StackOK
<1>3. /\ DOMAIN t = 1 .. Len(s) - 1
      /\ \A i \in 1 .. Len(s) - 1 : t[i] = s[i]
  BY <1>2, FrontElems
<1>4. DOMAIN s = 1 .. Len(s) /\ Len(s) \in Nat /\ Len(s) \in DOMAIN s
  BY <1>2
<1> HIDE DEF t
<1>5. ASSUME NEW i \in DOMAIN t PROVE FrameOK(t[i], l2, k2, h2)
  <2>1. i \in DOMAIN s /\ i < Len(s) /\ t[i] = s[i]
    BY <1>3, <1>4
  <2>2. t[i].at \in Loops
    BY <1>4, <2>1 DEF StackOK, Nested
  <2>3. FrameOK(t[i], l, k, h)
    BY <1>1 DEF StackOK
  <2>4. t[i].slot \in {"all", "one"}
    BY <2>2, <2>3, SlotAt DEF Loops
  <2>5. t[i].user \in k2 \cup {None}
    BY <2>1, <2>3, <2>4 DEF FrameOK, UserKnown
  <2> QED BY <2>2, <2>3, <2>4, <2>5
          DEF FrameOK, CopyHeld, UserHeld, UserKnown, Loops, Changing
<1> QED BY <1>1, <1>5 DEF StackOK, t

LEMMA RemovedKeeps == MemoryInv /\ Removed => MemoryInv'
<1> SUFFICES ASSUME MemoryInv, Removed PROVE MemoryInv'
  OBVIOUS
<1> DEFINE u == Top.user
<1>1. stack # <<>> /\ at = "window" /\ Top.slot = "remove" /\ stack' = Caller
  BY DEF Removed, In, Running
<1>2. u \in Listed
  BY <1>1, TopHolds DEF FrameOK, UserKnown
<1>3. CASE UNCHANGED <<rows, acntMap, orphaned>>
  BY <1>1, <1>3, SameMap, Returns, WindowStays DEF Removed, MemoryInv, MemoryTyped, ListOK
<1>4. CASE ~UNCHANGED <<rows, acntMap, orphaned>>
  <2>1. PICK i \in DOMAIN rows : rows[i] = u /\ rows' = CutRow(rows, i)
    BY <1>4 DEF Removed, CutRow
  <2>2. acntMap' = Without(u)
    BY <1>4 DEF Removed
  <2>3. orphaned' = IF \/ u \in pending \cup UNION offered
                       \/ \E j \in DOMAIN Caller : Caller[j].user = u
                    THEN orphaned \cup {u} ELSE orphaned
    BY <1>4 DEF Removed
  <2> HIDE DEF u
  <2>4. rows \in Seq(Users) /\ i \in 1 .. Len(rows) /\ Once(rows)
    BY DEF MemoryInv, MemoryTyped, ListOK
  <2>5. /\ rows' \in Seq(Users) /\ Range(rows') = Range(rows) \ {rows[i]}
        /\ Once(rows')
    BY <2>1, <2>4, RowRemoved
  <2>6. Listed' = Listed \ {u}
    BY <2>1, <2>5 DEF Listed
  <2>7. /\ DOMAIN acntMap' = DOMAIN acntMap \ {u}
        /\ \A v \in DOMAIN acntMap' : acntMap'[v] = acntMap[v]
        /\ acntMap' = [v \in DOMAIN acntMap' |-> acntMap'[v]]
    BY <2>2 DEF Without, Restrict
  <2>8. acntMap' \in [DOMAIN acntMap' -> Settings \cup {Null}]
    BY <2>7 DEF MemoryInv, MemoryTyped
  <2>9. Settled' = Settled \ {u}
    BY <2>7 DEF Settled
  <2>10. Known \ {u} \subseteq Known'
    BY <2>3, <2>6 DEF Known
  <2>11. u \in pending \cup UNION offered => u \in Known'
    BY <2>3 DEF Known
  <2>12. ListOK'
    BY <2>5, <2>6, <2>7, <2>9, <2>10, <2>11 DEF MemoryInv, ListOK, Removed
  <2>13. orphaned' \subseteq Accounts
    BY <1>2, <2>3, KnownAccounts DEF MemoryInv, MemoryTyped, Known
  <2>14. MemoryTyped'
    BY <2>5, <2>7, <2>8, <2>13 DEF MemoryInv, MemoryTyped, Removed
  <2>15. ASSUME NEW j \in DOMAIN stack, j # Len(stack), stack[j].user \in Known
         PROVE  stack[j].user \in Known'
    <3>1. stack \in Seq(Frames)
      BY DEF MemoryInv, StackOK
    <3>2. j \in DOMAIN Caller /\ Caller[j] = stack[j]
      BY <1>1, <2>15, <3>1, FrontElems DEF Caller
    <3>3. stack[j].user = u => u \in orphaned'
      BY <2>3, <3>2
    <3> QED BY <2>10, <2>15, <3>3 DEF Known
  <2>16. StackOK(stack, Listed, Known, Settled) /\ stack[Len(stack)].slot = "remove"
    BY <1>1 DEF MemoryInv, Top
  <2>17. StackOK(Caller, Listed', Known', Settled')
    BY <1>1, <2>15, <2>16, RemovedUnder DEF Caller
  <2>18. Quiet'
    BY <1>1 DEF Quiet, Removed
  <2> QED BY <1>1, <2>12, <2>14, <2>17, <2>18 DEF MemoryInv
<1> QED BY <1>3, <1>4

-----------------------------------------------------------------------------
(* The process. *)

LEMMA EmptyStack ==
  ASSUME NEW l, NEW k, NEW h PROVE StackOK(<<>>, l, k, h)
<1>1. <<>> \in Seq(Frames) /\ DOMAIN <<>> = {}
  OBVIOUS
<1> QED BY <1>1 DEF StackOK, Nested

\* Whoever starts finds nothing of the process before.
LEMMA EmptyMemory ==
  ASSUME Nothing, at' = "down", rewriting' = None, server' \in [Users -> Passwords]
  PROVE  MemoryInv'
<1>1. DOMAIN <<>> = {} /\ <<>> \in Seq(Users)
  OBVIOUS
<1>2. rows' = <<>> /\ acntMap' = <<>> /\ stack' = <<>> /\ pending' = {} /\ offered' = {} /\ orphaned' = {}
  BY DEF Nothing
<1>3. Listed' = {} /\ Settled' = {} /\ Known' = {}
  BY <1>1, <1>2 DEF Listed, Settled, Known, Range
<1>4. acntMap' \in [DOMAIN acntMap' -> Settings \cup {Null}]
  BY <1>1, <1>2
<1>5. MemoryTyped'
  <2>1. 0 \in 0 .. MaxOps
    OBVIOUS
  <2> QED BY <1>1, <1>2, <1>4, <2>1 DEF Nothing, MemoryTyped
<1>6. ListOK'
  BY <1>1, <1>2, <1>3 DEF ListOK, Once
<1>7. Quiet'
  BY <1>2 DEF Quiet
<1> QED BY <1>2, <1>5, <1>6, <1>7, EmptyStack DEF MemoryInv

\* A stored entry is read as settings.
LEMMA DecryptedTyped ==
  ASSUME NEW e \in Entries, NEW key PROVE Decrypted(e, key) \in Settings
<1>1. /\ e.rememberPwd \in BOOLEAN /\ e.pwd \in Secrets
      /\ e.pwdCode.pwd \in Secrets
  BY DEF Entries, NoCode, Secrets
<1> QED BY <1>1 DEF Decrypted, Settings, Secrets

\* Loading makes a list of accounts with settings of a sound file.
LEMMA LoadKeeps ==
  ASSUME MemoryInv, FileInv, at \in {"down", "pin"},
         NEW STATE key, key \in Pins \cup {None}, LoadSettings(key),
         UNCHANGED <<stack, sessions, pending, offered, orphaned, ops, server>>
  PROVE  MemoryInv' /\ Listed' = {file.accounts[i].userName : i \in DOMAIN file.accounts}
<1> DEFINE accounts == file.accounts
           entry(u) == CHOOSE e \in Range(accounts) : e.userName = u
<1>1. accounts \in Seq(Entries)
  BY DEF FileInv, DiskTyped, Files
<1>2. \A i \in DOMAIN accounts : accounts[i] \in Entries /\ accounts[i].userName \in Users
  <2>1. \A i \in DOMAIN accounts : accounts[i] \in Entries
    BY <1>1
  <2>2. \A e \in Entries : e.userName \in Users
    BY DEF Entries
  <2> QED BY <2>1, <2>2
<1>3. rows' = [i \in DOMAIN accounts |-> accounts[i].userName]
  BY DEF LoadSettings
<1>4. rows' \in Seq(Users) /\ DOMAIN rows' = DOMAIN accounts
  <2>1. DOMAIN accounts = 1 .. Len(accounts) /\ Len(accounts) \in Nat
    BY <1>1
  <2> HIDE DEF accounts
  <2> QED BY <1>2, <1>3, <2>1
<1>5. Listed' = {accounts[i].userName : i \in DOMAIN accounts}
  BY <1>3, <1>4 DEF Listed, Range
<1>6. Once(rows')
  BY <1>3, <1>4 DEF FileInv, NamedOnce, Once
<1>7. acntMap' = [u \in Listed' |-> Decrypted(entry(u), key)]
  BY DEF LoadSettings, Listed
<1>8. ASSUME NEW u \in Listed' PROVE Decrypted(entry(u), key) \in Settings
  <2>1. PICK i \in DOMAIN accounts : accounts[i].userName = u
    BY <1>5
  <2>2. accounts[i] \in Range(accounts)
    BY DEF Range
  <2>3. entry(u) \in Range(accounts)
    BY <2>1, <2>2
  <2>4. Range(accounts) \subseteq Entries
    BY <1>2 DEF Range
  <2> QED BY <2>3, <2>4, DecryptedTyped
<1> HIDE DEF accounts, entry
<1>9. DOMAIN acntMap' = Listed' /\ acntMap' \in [Listed' -> Settings] /\ Settled' = Listed'
  BY <1>7, <1>8 DEF Settled
<1>10. stack = <<>> /\ pending = {} /\ offered = {}
  BY DEF MemoryInv, Quiet
<1>11. Listed' \subseteq Users
  BY <1>2, <1>5
<1>12. MemoryTyped'
  BY <1>4, <1>9, <1>10, <1>11 DEF MemoryInv, MemoryTyped, LoadSettings, Accounts
<1>13. ListOK'
  BY <1>6, <1>9, <1>10 DEF ListOK, Known
<1>14. Quiet'
  BY DEF LoadSettings, Quiet
<1>15. StackOK(stack', Listed', Known', Settled')
  BY <1>10, EmptyStack
<1> QED BY <1>5, <1>12, <1>13, <1>14, <1>15 DEF MemoryInv, accounts

LEMMA ProcessKeeps == MemoryInv /\ FileInv /\ Process => MemoryInv'
<1> SUFFICES ASSUME MemoryInv, FileInv, Process PROVE MemoryInv'
  OBVIOUS
<1>1. CASE Rewrite
  <2>1. Listed' = Listed /\ Known' = Known /\ Settled' = Settled
    BY <1>1 DEF Rewrite, memory, Listed, Known, Settled
  <2> QED BY <1>1, <2>1 DEF Rewrite, memory, MemoryInv, MemoryTyped, ListOK, Quiet
<1>2. CASE Start
  <2>1. CASE file.pin = None
    BY <1>2, <2>1, LoadKeeps DEF Start
  <2>2. CASE file.pin # None
    <3>1. at' = "pin" /\ UNCHANGED <<memory, server, disk>> /\ stack = <<>>
      BY <1>2, <2>2 DEF Start, memory, MemoryInv, Quiet
    <3>2. Listed' = Listed /\ Known' = Known /\ Settled' = Settled
      BY <3>1 DEF memory, Listed, Known, Settled
    <3> QED BY <1>2, <3>1, <3>2 DEF Start, memory, disk, MemoryInv, MemoryTyped, ListOK, Quiet
  <2> QED BY <2>1, <2>2
<1>3. CASE PinEntered
  <2>1. CASE LoadSettings(file.pin)
    <3>1. file.pin \in Pins \cup {None}
      BY DEF FileInv, DiskTyped, Files
    <3> QED BY <1>3, <2>1, <3>1, LoadKeeps DEF PinEntered
  <2>2. CASE at' = "down" /\ UNCHANGED <<pin, rows, acntMap>>
    <3>1. Listed' = Listed /\ Known' = Known /\ Settled' = Settled
      BY <1>3, <2>2 DEF PinEntered, Listed, Known, Settled
    <3> QED BY <1>3, <2>2, <3>1
            DEF PinEntered, disk, MemoryInv, MemoryTyped, ListOK, Quiet
  <2> QED BY <1>3, <2>1, <2>2 DEF PinEntered
<1>4. CASE Close
  <2>1. Listed' = Listed /\ Known' = Known /\ Settled' = Settled
    BY <1>4 DEF Close, memory, Listed, Known, Settled
  <2> QED BY <1>4, <2>1 DEF Close, memory, MemoryInv, MemoryTyped, ListOK, Quiet
<1>5. CASE Ended
  BY <1>5, EmptyMemory DEF Ended, disk, MemoryInv, MemoryTyped
<1>6. CASE Crash
  BY <1>6, EmptyMemory DEF Crash, MemoryInv, MemoryTyped
<1> QED BY <1>1, <1>2, <1>3, <1>4, <1>5, <1>6 DEF Process

\* Slots, list and map.
LEMMA MemoryInductive == MemoryInv /\ FileInv /\ [Next]_vars => MemoryInv'
<1> SUFFICES ASSUME MemoryInv, FileInv, [Next]_vars PROVE MemoryInv'
  OBVIOUS
<1>1. CASE User
  BY <1>1, UserKeeps
<1>2. CASE Continue
  BY <1>2, LogInKeeps, AskedKeeps, SyncNextKeeps, EventsProcessedKeeps, SynchroniseKeeps,
     ManagedKeeps, AddGivenKeeps, AddAccountKeeps, RefusalReadKeeps, RemovedKeeps,
     PasswordDialogueKeeps, PasswordSentKeeps, PasswordChangedKeeps, PreferencesLeftKeeps, SetAccountInfoKeeps
     DEF Continue
<1>3. CASE Worker
  BY <1>3, WorkerKeeps
<1>4. CASE Process
  BY <1>4, ProcessKeeps
<1>5. CASE UNCHANGED vars
  <2>1. Listed' = Listed /\ Known' = Known /\ Settled' = Settled
    BY <1>5 DEF vars, memory, Listed, Known, Settled
  <2> QED BY <1>5, <2>1 DEF vars, memory, disk, MemoryInv, MemoryTyped, ListOK, Quiet
<1> QED BY <1>1, <1>2, <1>3, <1>4, <1>5 DEF Next

-----------------------------------------------------------------------------
(* The file. *)

\* What an entry keeps of the settings, and what is read of it.
LEMMA EntryHolds ==
  ASSUME NEW u \in Users, NEW sett \in Settings, NEW key \in Pins \cup {None}
  PROVE  LET e == Entry(u, sett, key)
         IN /\ e \in Entries /\ e.userName = u
            /\ e.pwd # None => key = None /\ e.rememberPwd
            /\ e.pwdCode # NoCode => e.pwdCode.pin = key /\ e.rememberPwd
            /\ Decrypted(e, key).pwd = IF sett.rememberPwd THEN sett.pwd ELSE None
<1>1. sett.pwd \in Secrets /\ sett.rememberPwd \in BOOLEAN
  BY DEF Settings
<1>2. CASE sett.rememberPwd /\ sett.pwd # None /\ key # None
  <2> DEFINE code == [pin |-> key, pwd |-> sett.pwd]
             e == [userName |-> u, rememberPwd |-> TRUE, pwd |-> None, pwdCode |-> code]
  <2>1. Entry(u, sett, key) = e
    BY <1>1, <1>2 DEF Entry
  <2>2. code \in [pin : Pins, pwd : Passwords] /\ code.pin = key /\ code.pwd = sett.pwd
    BY <1>1, <1>2 DEF Secrets
  <2> HIDE DEF code
  <2>3. e \in Entries
    BY <2>2 DEF Entries, Secrets
  <2> QED BY <1>2, <2>1, <2>2, <2>3 DEF Decrypted
<1>3. CASE ~(sett.rememberPwd /\ sett.pwd # None /\ key # None)
  <2> DEFINE stored == IF sett.rememberPwd /\ key = None THEN sett.pwd ELSE None
             e == [userName |-> u, rememberPwd |-> sett.rememberPwd, pwd |-> stored,
                   pwdCode |-> NoCode]
  <2>1. Entry(u, sett, key) = e
    BY <1>1, <1>3 DEF Entry
  <2>2. stored \in Secrets
    BY <1>1 DEF Secrets
  <2>3. e \in Entries
    BY <1>1, <2>2 DEF Entries
  <2>4. Decrypted(e, key).pwd = IF sett.rememberPwd THEN sett.pwd ELSE None
    BY <1>1, <1>3 DEF Decrypted, NoCode
  <2> QED BY <1>1, <1>3, <2>1, <2>3, <2>4
<1> QED BY <1>2, <1>3

\* Saving leaves a sound file that has what was to be remembered.
LEMMA SaveKeeps ==
  ASSUME MemoryInv', pin \in Pins \cup {None}, SaveSettings(rows', acntMap')
  PROVE  FileInv'
<1>1. PICK names : names = rows'
  OBVIOUS
<1>2. PICK map : map = acntMap'
  OBVIOUS
<1>3. PICK key : key = pin
  OBVIOUS
<1> DEFINE kept(sett) == IF sett.rememberPwd THEN sett.pwd ELSE None
           entry(i) == Entry(names[i], map[names[i]], key)
           accounts == [i \in DOMAIN names |-> entry(i)]
           f == [pin |-> key, accounts |-> accounts]
<1>4. /\ file' = f /\ rewriting' = f /\ torn' = FALSE
      /\ remembered' = [u \in Range(names) |-> kept(map[u])]
  BY <1>1, <1>2, <1>3 DEF SaveSettings
<1>5. /\ names \in Seq(Users) /\ Once(names)
      /\ \A i \in DOMAIN names : map[names[i]] \in Settings
  BY <1>1, <1>2 DEF MemoryInv, MemoryTyped, ListOK, Listed, Settled, Range
<1>6. \A i \in DOMAIN names : names[i] \in Users
  BY <1>5
<1>7. ASSUME NEW i \in DOMAIN names
      PROVE  /\ entry(i) \in Entries /\ entry(i).userName = names[i]
             /\ entry(i).pwd # None => key = None /\ entry(i).rememberPwd
             /\ entry(i).pwdCode # NoCode => entry(i).pwdCode.pin = key /\ entry(i).rememberPwd
             /\ Decrypted(entry(i), key).pwd = kept(map[names[i]])
  BY <1>3, <1>5, <1>6, EntryHolds
<1>8. ASSUME NEW i \in DOMAIN names PROVE kept(map[names[i]]) \in Secrets
  BY <1>5 DEF Settings, Secrets
<1> HIDE DEF entry, kept
<1>9. DOMAIN accounts = DOMAIN names /\ \A i \in DOMAIN names : accounts[i] = entry(i)
  OBVIOUS
<1>10. accounts \in Seq(Entries)
  <2>1. DOMAIN names = 1 .. Len(names) /\ Len(names) \in Nat
    BY <1>5
  <2> QED BY <1>7, <2>1
<1> HIDE DEF accounts
<1>11. f \in Files /\ f.pin = key /\ f.accounts = accounts
  BY <1>3, <1>10 DEF Files
<1> HIDE DEF f
<1>12. Sound(f)
  BY <1>7, <1>9, <1>11 DEF Sound, Range
<1>13. NamedOnce(f)
  BY <1>5, <1>7, <1>9, <1>11 DEF NamedOnce, Once
<1>14. /\ DOMAIN remembered' = Range(names)
       /\ \A i \in DOMAIN names : remembered'[names[i]] = kept(map[names[i]])
  BY <1>4 DEF Range
<1>15. Range(names) = {f.accounts[i].userName : i \in DOMAIN f.accounts}
  BY <1>7, <1>9, <1>11 DEF Range
<1>16. Represents(f)'
  BY <1>7, <1>9, <1>11, <1>14, <1>15 DEF Represents
<1>17. DOMAIN remembered' \subseteq Users /\ remembered' \in [DOMAIN remembered' -> Secrets]
  BY <1>4, <1>6, <1>8, <1>14 DEF Range
<1>18. DiskTyped'
  BY <1>4, <1>11, <1>17 DEF DiskTyped
<1> QED BY <1>4, <1>12, <1>13, <1>16, <1>18 DEF FileInv, Represents

\* Nothing else touches the file.
LEMMA DiskStep ==
  ASSUME [Next]_vars
  PROVE  UNCHANGED disk \/ SaveSettings(rows', acntMap') \/ Rewrite \/ Crash
<1>1. CASE User
  BY <1>1 DEF User, SyncAll, SyncOne, Manage, Add, Remove, ChangePassword, Preferences, Store,
     SendMessageDialog, ChooseSender, MessageLeft, Assign,
     memory, SaveSettings
<1>2. CASE LogIn \/ Asked \/ RefusalRead
  BY <1>2 DEF LogIn, Asked, RefusalRead, WriteBack, LogInFails, SaveSettings
<1>3. CASE SyncNext \/ EventsProcessed \/ Synchronise \/ AddGiven \/ PasswordDialogue
           \/ PasswordSent \/ PasswordChanged \/ PreferencesLeft \/ SetAccountInfo \/ Worker
  BY <1>3 DEF SyncNext, EventsProcessed, Synchronise, AddGiven, PasswordDialogue,
     PasswordSent, PasswordChanged, PreferencesLeft, SetAccountInfo, Worker
<1>4. CASE Managed \/ AddAccount \/ Removed
  BY <1>4 DEF Managed, AddAccount, Removed, SaveSettings
<1>5. CASE Process
  BY <1>5 DEF Process, Start, PinEntered, Close, Ended, memory, SaveSettings
<1>6. CASE UNCHANGED vars
  BY <1>6 DEF vars
<1> QED BY <1>1, <1>2, <1>3, <1>4, <1>5, <1>6 DEF Next, Continue

LEMMA EmptiedSound == Emptied \in Files /\ Sound(Emptied) /\ NamedOnce(Emptied)
<1>1. <<>> \in Seq(Entries) /\ DOMAIN <<>> = {}
  OBVIOUS
<1>2. Emptied.pin = None /\ Emptied.accounts = <<>> /\ Emptied \in Files
  BY <1>1 DEF Emptied, Files
<1> QED BY <1>1, <1>2 DEF Sound, NamedOnce, Range

LEMMA FileInductive == MemoryInv /\ FileInv /\ [Next]_vars => FileInv'
<1> SUFFICES ASSUME MemoryInv, FileInv, [Next]_vars PROVE FileInv'
  OBVIOUS
<1>1. CASE UNCHANGED disk
  BY <1>1 DEF disk, FileInv, DiskTyped, Represents
<1>2. CASE SaveSettings(rows', acntMap')
  BY <1>2, MemoryInductive, SaveKeeps DEF MemoryInv, MemoryTyped
<1>3. CASE Rewrite
  <2>1. UNCHANGED <<remembered, torn>> /\ rewriting # None
    BY <1>3 DEF Rewrite
  <2>2. CASE file' = Emptied /\ UNCHANGED rewriting
    BY <2>1, <2>2, EmptiedSound DEF FileInv, DiskTyped, Represents
  <2>3. CASE file' = rewriting /\ rewriting' = None
    BY <2>1, <2>3 DEF FileInv, DiskTyped, Represents
  <2> QED BY <1>3, <2>2, <2>3 DEF Rewrite
<1>4. CASE Crash
  <2>1. /\ UNCHANGED <<file, remembered>> /\ rewriting' = None
        /\ torn' = (torn \/ (rewriting # None /\ file # rewriting))
    BY <1>4 DEF Crash
  <2>2. DiskTyped'
    BY <2>1 DEF FileInv, DiskTyped
  <2>3. ~torn' => Represents(file)
    BY <2>1 DEF FileInv
  <2> QED BY <2>1, <2>2, <2>3 DEF FileInv, Represents
<1> QED BY <1>1, <1>2, <1>3, <1>4, DiskStep

-----------------------------------------------------------------------------
(* The theorems. *)

LEMMA SettingsInit == Init => MemoryInv /\ FileInv
<1> SUFFICES ASSUME Init PROVE MemoryInv /\ FileInv
  OBVIOUS
<1>1. DOMAIN <<>> = {} /\ <<>> \in Seq(Users)
  OBVIOUS
<1>2. rows = <<>> /\ acntMap = <<>> /\ stack = <<>> /\ pending = {} /\ offered = {} /\ orphaned = {}
  BY DEF Init
<1>3. Listed = {} /\ Settled = {} /\ Known = {}
  BY <1>1, <1>2 DEF Listed, Settled, Known, Range
<1>4. MemoryTyped
  <2>1. acntMap \in [DOMAIN acntMap -> Settings \cup {Null}]
    BY <1>1, <1>2
  <2>2. 0 \in 0 .. MaxOps
    OBVIOUS
  <2> QED BY <1>1, <1>2, <2>1, <2>2 DEF Init, MemoryTyped
<1>5. ListOK /\ Quiet
  BY <1>1, <1>2, <1>3 DEF ListOK, Once, Quiet, Init
<1>6. MemoryInv
  BY <1>2, <1>4, <1>5, EmptyStack DEF MemoryInv
<1>7. file = Emptied /\ rewriting = None /\ remembered = <<>> /\ torn = FALSE
  BY DEF Init
<1>8. DiskTyped
  <2>1. remembered \in [DOMAIN remembered -> Secrets] /\ DOMAIN remembered = {}
    BY <1>1, <1>7
  <2> QED BY <1>7, <2>1, EmptiedSound DEF DiskTyped
<1>9. Represents(Emptied)
  BY <1>1, <1>7 DEF Represents, Emptied
<1> QED BY <1>6, <1>7, <1>8, <1>9, EmptiedSound DEF FileInv

LEMMA SettingsKept == Spec => [](MemoryInv /\ FileInv)
<1>1. MemoryInv /\ FileInv /\ [Next]_vars => (MemoryInv /\ FileInv)'
  BY MemoryInductive, FileInductive
<1> QED BY <1>1, SettingsInit, PTL DEF Spec

\* The variables have their types.
THEOREM TypeCorrect == Spec => []TypeOK
<1>1. MemoryInv /\ FileInv => TypeOK
  <2> SUFFICES ASSUME MemoryInv, FileInv PROVE TypeOK
    OBVIOUS
  <2>1. stack \in Seq(Frames)
    BY DEF MemoryInv, StackOK
  <2> QED BY <2>1 DEF MemoryInv, MemoryTyped, FileInv, DiskTyped, TypeOK
<1> QED BY <1>1, SettingsKept, PTL

\* Each row has settings and each name one row, and an account is refused as one
\* that exists only if it is in the list or was removed while a slot, a task or an
\* open dialogue of a message was about it.
THEOREM ListKept == Spec => []ListAgrees
<1>1. MemoryInv => ListAgrees
  <2> SUFFICES ASSUME MemoryInv PROVE ListAgrees
    OBVIOUS
  <2>1. ASSUME NEW i \in DOMAIN rows PROVE SettingsOf(rows[i]) # Null
    <3>1. rows[i] \in Settled
      BY DEF MemoryInv, ListOK, Listed, Range
    <3> QED BY <3>1 DEF Settled, SettingsOf
  <2>2. RowsHaveSettings
    BY <2>1 DEF RowsHaveSettings, MemoryInv, ListOK, Once
  <2>3. RefusedWhenKnown
    BY DEF RefusedWhenKnown, MemoryInv, StackOK, FrameOK, UserKnown, Known, Listed
  <2> QED BY <2>2, <2>3 DEF ListAgrees
<1> QED BY <1>1, SettingsKept, PTL

\* What a window that opens has of the passwords.
LEMMA LoadRemembers ==
  ASSUME MemoryInv, FileInv, at \in {"down", "pin"}, ~torn, LoadSettings(file.pin)
  PROVE  [u \in Range(rows') |-> acntMap'[u].pwd] = remembered
<1> DEFINE entry(u) == CHOOSE e \in Range(file.accounts) : e.userName = u
<1>1. Represents(file) /\ NamedOnce(file)
  BY DEF MemoryInv, Quiet, FileInv
<1>2. rows' = [i \in DOMAIN file.accounts |-> file.accounts[i].userName]
  BY DEF LoadSettings
<1>3. Range(rows') = DOMAIN remembered
  BY <1>1, <1>2 DEF Represents, Range
<1>4. acntMap' = [u \in Range(rows') |-> Decrypted(entry(u), file.pin)]
  BY DEF LoadSettings
<1>5. ASSUME NEW u \in Range(rows') PROVE acntMap'[u].pwd = remembered[u]
  <2>1. PICK i \in DOMAIN file.accounts : file.accounts[i].userName = u
    BY <1>2, <1>5 DEF Range
  <2>2. file.accounts[i] \in Range(file.accounts)
    BY DEF Range
  <2>3. entry(u) \in Range(file.accounts) /\ entry(u).userName = u
    BY <2>1, <2>2
  <2>4. PICK j \in DOMAIN file.accounts : file.accounts[j] = entry(u)
    BY <2>3 DEF Range
  <2> HIDE DEF entry
  <2>5. remembered[u] = Decrypted(entry(u), file.pin).pwd
    BY <1>1, <2>3, <2>4 DEF Represents
  <2> QED BY <1>4, <2>5
<1>6. remembered = [u \in DOMAIN remembered |-> remembered[u]]
  BY DEF FileInv, DiskTyped
<1> QED BY <1>3, <1>5, <1>6

\* Every step leaves passwords in the file only as the PIN and the accounts ask for,
\* and a window that opens has those that the last save was to keep.
THEOREM PasswordsKept == Spec => FileKept
<1>1. MemoryInv /\ FileInv /\ [Next]_vars => RememberedFound
  <2> SUFFICES ASSUME MemoryInv, FileInv, [Next]_vars, at # "window", at' = "window", ~torn
               PROVE  [u \in Range(rows') |-> acntMap'[u].pwd] = remembered
    BY DEF RememberedFound
  <2>1. ~User
    BY DEF User, SyncAll, SyncOne, Manage, Add, Remove, ChangePassword, Preferences, Store,
     SendMessageDialog, ChooseSender, MessageLeft, Assign,
       WindowReachable, EventLoop, Running
  <2>2. ~Continue
    BY DEF Continue, LogIn, Asked, SyncNext, EventsProcessed, Synchronise, Managed, AddGiven,
       AddAccount, RefusalRead, Removed, PasswordDialogue, PasswordSent, PasswordChanged,
       PreferencesLeft, SetAccountInfo, In, Running
  <2>3. at \in {"down", "pin"} /\ LoadSettings(file.pin)
    BY <2>1, <2>2 DEF Next, Process, Worker, Rewrite, Start, PinEntered, Close, Ended, Crash,
       vars
  <2> QED BY <2>3, LoadRemembers
<1>2. FileInv' => FileSound'
  BY DEF FileInv, Sound, FileSound
<1>3. MemoryInv /\ FileInv /\ [Next]_vars => [FileSound' /\ RememberedFound]_vars
  BY <1>1, <1>2, FileInductive
<1> QED BY <1>3, SettingsKept, PTL DEF Spec, FileKept
=============================================================================
