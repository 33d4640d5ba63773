--------------------------- MODULE MainWindowProofs ---------------------------
(***************************************************************************)
(* Proofs about the main thread and its worker, for any number of          *)
(* accounts, files, dialogues and recipients, and any nesting of the       *)
(* slots: a quiet window is ready, the end of main() drops no task, what   *)
(* was asked of the worker is told once to who asked, and what imports     *)
(* and dialogues show of it is true.                                       *)
(***************************************************************************)
EXTENDS MainWindow, SequenceTheorems, FiniteSetTheorems, TLAPS

-----------------------------------------------------------------------------
(* The inductive invariant of the slots. *)

Loops == {"processEvents1", "processEvents2"} \cup Dialogues

\* The places in connectToIsds().
Connection ==
  {"login", "info", "infoWait", "expires", "change", "changeWait", "changed"}

\* Where a slot may be.
PlacesOf(slot) ==
  CASE slot = "all" -> {"next"} \cup Connection
    [] slot = "one" -> {"processEvents1", "processEvents2", "assign1", "assign2"} \cup Connection
    [] slot = "close" -> {"ask", "join"}
    [] slot = "import" -> {"ask", "assign"}
    [] slot = "form" -> {"alive", "aliveWait", "credit", "creditWait"} \cup Connection
    [] slot = "box" -> {"info", "infoWait", "ask"}
    [] slot = "send" -> {"ask", "build", "assign"}
    [] OTHER -> {"ask"}

\* The slots that are about a dialogue that sends messages.
FormSlots == {"form", "box", "send", "told"}

FrameOK(f) ==
  /\ f.at \in PlacesOf(f.slot)
  /\ f.slot \in FormSlots <=> f.form # 0
  /\ f.unsent # {} <=> f.slot = "send" /\ f.at = "assign"

\* A slot is entered from an event loop or from synchroniseAllAccounts(), and under
\* an open dialogue only by the timer and by the reports of the worker.
Nested(s) ==
  /\ \A i \in DOMAIN s : i < Len(s) =>
       s[i].at \in Loops \/ (s[i].slot = "all" /\ s[i].at = "next" /\ s[i + 1].slot = "one")
  /\ \A i, j \in DOMAIN s : i < j /\ s[i].at \in Dialogues =>
       s[j].slot \in {"all", "one", "told", "imported"}

StackOK(s) ==
  /\ s \in Seq(Frames)
  /\ \A i \in DOMAIN s : FrameOK(s[i])
  /\ Nested(s)

EventSet == {"assignedFinished", "quit"} \cup Files \cup Transactions

\* The counters of a dialogue, their bounds apart.
CountedForm ==
  [at : {"unopened", "enabled", "disabled", "allSent", "someNot", "closed"},
   loggedIn : BOOLEAN,
   recipients : SUBSET Transactions,
   transactIds : SUBSET Transactions,
   results : Nat,
   successes : Nat]

FormTyped ==
  /\ form \in [Dialogs -> CountedForm]
  /\ result \in [Transactions -> Results \cup {None}]
  /\ sent \in [Transactions -> Nat]

WindowTyped ==
  /\ stage \in {"begun", "reported"}
  /\ events \in Seq(EventSet)
  /\ enabled \in BOOLEAN /\ restored \in BOOLEAN
  /\ timer \in BOOLEAN
  /\ importable \in BOOLEAN /\ mixed \in BOOLEAN /\ fruitless \in BOOLEAN
  /\ unassigned \in SUBSET Files
  /\ zfoFilesToImport \in SUBSET Files /\ chosen \in SUBSET Files
  /\ imported \in Seq(Files)
  /\ closed \in BOOLEAN
  /\ mainAt \in {"exec", "wait", "stop", "end"}
  /\ ops \in 0 .. MaxOps

\* What each place of the pool may hold.
QueuesTyped ==
  /\ single \in {None, "info"}
  /\ hi \in Seq({"download", "ping"} \cup Transactions)
  /\ lo \in Seq({"list", "download"} \cup Files)
  /\ current \in Items \cup {None}
  /\ state \in {"PENDING", "EXECUTING", "FINISHED"}
  /\ current = "info" => single = "info"
  /\ state = "FINISHED" => current # "info"
  /\ terminating \in BOOLEAN
  /\ emitted \in {"none", "finished", "assignedFinished"}

\* The slots are left when main() goes on, and the pool is idle when it has waited.
MainInv ==
  /\ mainAt # "exec" => stack = <<>>
  /\ mainAt \in {"stop", "end"} => ~Working

\* A slot that is about a dialogue finds it as it left it.
FrameFits(f, forms) ==
  /\ f.slot = "form" => forms[f.form].at \in {"unopened", "enabled"}
  /\ f.slot = "box" => forms[f.form].at = "enabled"
  /\ f.slot = "send" /\ f.unsent = {} =>
       forms[f.form].at = "enabled" /\ forms[f.form].recipients # {}
  /\ f.slot = "send" /\ f.unsent # {} =>
       forms[f.form].at = "disabled" /\ f.unsent \subseteq forms[f.form].transactIds
  /\ f.slot = "told" => forms[f.form].at \in {"allSent", "someNot"}

\* A dialogue is disabled as long as it waits for reports, of its own recipients.
DialogsOK ==
  \A n \in Dialogs :
    /\ form[n].recipients \subseteq Recipients[n]
    /\ form[n].transactIds \subseteq form[n].recipients
    /\ form[n].at = "disabled" <=> form[n].transactIds # {}

\* One box tells of the reports.
FormsInv ==
  /\ DialogsOK
  /\ \A i \in DOMAIN stack : FrameFits(stack[i], form)
  /\ \A i, j \in DOMAIN stack :
       stack[i].slot = "told" /\ stack[j].slot = "told" /\ stack[i].form = stack[j].form
       => i = j

WindowInv ==
  /\ FormTyped /\ WindowTyped /\ QueuesTyped
  /\ StackOK(stack)
  /\ MainInv
  /\ FormsInv

-----------------------------------------------------------------------------
(* Operations on stacks of slots. *)

LEMMA FramesNamed ==
  ASSUME NEW f \in Frames
  PROVE  /\ f.slot \in {"all", "one", "close", "import", "imported", "form", "box", "send", "told"}
         /\ f.form \in Dialogs \cup {0}
         /\ f.unsent \in SUBSET Transactions
         /\ f.todo \in 0 .. NumAccounts
         /\ f.appended \in BOOLEAN /\ f.wasEnabled \in BOOLEAN
BY DEF Frames

LEMMA Pushed ==
  ASSUME NEW S, NEW s \in Seq(S), NEW f \in S
  PROVE  /\ Append(s, f) \in Seq(S)
         /\ Len(Append(s, f)) = Len(s) + 1
         /\ DOMAIN Append(s, f) = 1 .. Len(s) + 1
         /\ \A i \in 1 .. Len(s) : Append(s, f)[i] = s[i]
         /\ Append(s, f)[Len(s) + 1] = f
         /\ Append(s, f) # <<>>
OBVIOUS

LEMMA Popped ==
  ASSUME NEW S, NEW s \in Seq(S), s # <<>>
  PROVE  /\ SubSeq(s, 1, Len(s) - 1) \in Seq(S)
         /\ Len(SubSeq(s, 1, Len(s) - 1)) = Len(s) - 1
         /\ DOMAIN SubSeq(s, 1, Len(s) - 1) = 1 .. Len(s) - 1
         /\ \A i \in 1 .. Len(s) - 1 : SubSeq(s, 1, Len(s) - 1)[i] = s[i]
<1>1. Len(s) \in Nat \ {0}
  OBVIOUS
<1>2. \A i \in 1 .. Len(s) - 1 : s[i] \in S
  BY <1>1
<1>3. /\ SubSeq(s, 1, Len(s) - 1) \in Seq(S)
      /\ DOMAIN SubSeq(s, 1, Len(s) - 1) = 1 .. Len(s) - 1
  BY <1>1, <1>2, SubSeqProperties
<1>4. \A i \in 1 .. Len(s) - 1 : SubSeq(s, 1, Len(s) - 1)[i] = s[i]
  BY <1>1, <1>2, SubSeqProperties
<1>5. Len(SubSeq(s, 1, Len(s) - 1)) \in Nat
      /\ DOMAIN SubSeq(s, 1, Len(s) - 1) = 1 .. Len(SubSeq(s, 1, Len(s) - 1))
  BY <1>3, LenProperties
<1>6. ASSUME NEW a \in Nat, NEW b \in Nat, 1 .. a = 1 .. b PROVE a = b
  <2>1. ~ a < b
    <3> SUFFICES ASSUME a < b PROVE FALSE
      OBVIOUS
    <3> QED BY b \in 1 .. b, b \notin 1 .. a, <1>6
  <2>2. ~ b < a
    <3> SUFFICES ASSUME b < a PROVE FALSE
      OBVIOUS
    <3> QED BY a \in 1 .. a, a \notin 1 .. b, <1>6
  <2> QED BY <2>1, <2>2
<1>7. Len(s) - 1 \in Nat
  BY <1>1
<1>8. 1 .. Len(SubSeq(s, 1, Len(s) - 1)) = 1 .. Len(s) - 1
  BY <1>3, <1>5
<1>9. Len(SubSeq(s, 1, Len(s) - 1)) = Len(s) - 1
  BY <1>5, <1>6, <1>7, <1>8, Zenon
<1> QED
  BY <1>3, <1>4, <1>9

LEMMA Changed ==
  ASSUME NEW S, NEW s \in Seq(S), s # <<>>, NEW f \in S
  PROVE  LET t == [s EXCEPT ![Len(s)] = f] IN
         /\ t \in Seq(S) /\ t # <<>>
         /\ Len(t) = Len(s)
         /\ DOMAIN t = 1 .. Len(s)
         /\ \A i \in 1 .. Len(s) - 1 : t[i] = s[i]
         /\ t[Len(s)] = f
OBVIOUS

\* What a step on a stack keeps: the slots that stay are the same; they do not go
\* back to their begin, nor leave an assignment; those that come and go are of
\* these kinds, and have assigned what they had to.
Follows(s, t, new, gone) ==
  /\ \A i \in DOMAIN s \cap DOMAIN t :
       /\ t[i].slot = s[i].slot /\ t[i].form = s[i].form /\ t[i].unsent = s[i].unsent
       /\ s[i].at = "assign" => t[i].at = "assign"
       /\ s[i].at # "processEvents1" => t[i].at # "processEvents1"
  /\ \A i \in DOMAIN t \ DOMAIN s : t[i].slot \in new /\ t[i].unsent = {}
  /\ \A i \in DOMAIN s \ DOMAIN t : s[i].slot \in gone /\ s[i].unsent = {}

SameAppended(s, t) == \A i \in DOMAIN s \cap DOMAIN t : t[i].appended = s[i].appended

LEMMA FollowsSame ==
  ASSUME NEW s
  PROVE  Follows(s, s, {}, {}) /\ SameAppended(s, s)
BY DEF Follows, SameAppended

LEMMA FollowsTwo ==
  ASSUME NEW s, NEW t, NEW u, NEW new, NEW gone,
         DOMAIN t = DOMAIN s, Follows(s, t, {}, {}), Follows(t, u, new, gone)
  PROVE  Follows(s, u, new, gone)
BY DEF Follows

\* A slot may be entered when the innermost one runs an event loop.
MayEnter(s, f) ==
  /\ s # <<>> => s[Len(s)].at \in Loops
  /\ f.slot \in {"all", "one", "told", "imported"}
       \/ \A i \in DOMAIN s : s[i].at \notin Dialogues

LEMMA StackPush ==
  ASSUME NEW s, StackOK(s), NEW f \in Frames, FrameOK(f), MayEnter(s, f), f.unsent = {}
  PROVE  /\ StackOK(Append(s, f))
         /\ Follows(s, Append(s, f), {f.slot}, {}) /\ SameAppended(s, Append(s, f))
         /\ Append(s, f) # <<>>
<1>1. StackOK(Append(s, f))
  BY Pushed DEF StackOK, Nested, MayEnter
<1>2. Follows(s, Append(s, f), {f.slot}, {}) /\ SameAppended(s, Append(s, f))
  BY Pushed DEF StackOK, Follows, SameAppended
<1> QED
  BY <1>1, <1>2, Pushed DEF StackOK

\* synchroniseAllAccounts() calls synchroniseSelectedAccount().
LEMMA StackCall ==
  ASSUME NEW s, StackOK(s), NEW f \in Frames, FrameOK(f), f.slot = "one", f.unsent = {},
         s # <<>>, s[Len(s)].slot = "all", s[Len(s)].at = "next"
  PROVE  /\ StackOK(Append(s, f))
         /\ Follows(s, Append(s, f), {"one"}, {}) /\ SameAppended(s, Append(s, f))
         /\ Append(s, f) # <<>>
<1>1. StackOK(Append(s, f))
  BY Pushed DEF StackOK, Nested
<1>2. Follows(s, Append(s, f), {"one"}, {}) /\ SameAppended(s, Append(s, f))
  BY Pushed DEF StackOK, Follows, SameAppended
<1> QED
  BY <1>1, <1>2, Pushed DEF StackOK

LEMMA StackPop ==
  ASSUME NEW s, StackOK(s), s # <<>>
  PROVE  /\ StackOK(SubSeq(s, 1, Len(s) - 1))
         /\ SameAppended(s, SubSeq(s, 1, Len(s) - 1))
         /\ s[Len(s)].unsent = {} =>
              Follows(s, SubSeq(s, 1, Len(s) - 1), {}, {s[Len(s)].slot})
<1>1. StackOK(SubSeq(s, 1, Len(s) - 1))
  BY Popped DEF StackOK, Nested
<1>2. SameAppended(s, SubSeq(s, 1, Len(s) - 1))
  BY Popped DEF StackOK, SameAppended
<1>3. ASSUME s[Len(s)].unsent = {}
      PROVE  Follows(s, SubSeq(s, 1, Len(s) - 1), {}, {s[Len(s)].slot})
  BY <1>3, Popped DEF StackOK, Follows
<1> QED
  BY <1>1, <1>2, <1>3

\* The innermost slot goes on.
LEMMA StackChange ==
  ASSUME NEW s, StackOK(s), s # <<>>, NEW f \in Frames, FrameOK(f),
         f.slot = s[Len(s)].slot
  PROVE  /\ StackOK([s EXCEPT ![Len(s)] = f])
         /\ [s EXCEPT ![Len(s)] = f] # <<>>
         /\ Len([s EXCEPT ![Len(s)] = f]) = Len(s)
         /\ DOMAIN [s EXCEPT ![Len(s)] = f] = DOMAIN s
         /\ [s EXCEPT ![Len(s)] = f][Len(s)] = f
         /\ /\ f.form = s[Len(s)].form /\ f.unsent = s[Len(s)].unsent
            /\ f.at # "processEvents1"
            /\ s[Len(s)].at = "assign" => f.at = "assign"
            => Follows(s, [s EXCEPT ![Len(s)] = f], {}, {})
         /\ f.appended = s[Len(s)].appended => SameAppended(s, [s EXCEPT ![Len(s)] = f])
<1>1. StackOK([s EXCEPT ![Len(s)] = f])
  BY Changed DEF StackOK, Nested
<1>2. ASSUME f.form = s[Len(s)].form, f.unsent = s[Len(s)].unsent,
             f.at # "processEvents1", s[Len(s)].at = "assign" => f.at = "assign"
      PROVE  Follows(s, [s EXCEPT ![Len(s)] = f], {}, {})
  BY <1>2, Changed DEF StackOK, Follows
<1>3. ASSUME f.appended = s[Len(s)].appended
      PROVE  SameAppended(s, [s EXCEPT ![Len(s)] = f])
  BY <1>3, Changed DEF StackOK, SameAppended
<1> QED
  BY <1>1, <1>2, <1>3, Changed DEF StackOK

\* GoTo()
LEMMA StackGoTo ==
  ASSUME NEW s, StackOK(s), s # <<>>, s[Len(s)].unsent = {},
         NEW at \in PlacesOf(s[Len(s)].slot), at # "processEvents1",
         s[Len(s)].at = "assign" => at = "assign",
         ~(s[Len(s)].slot = "send" /\ at = "assign")
  PROVE  LET t == [s EXCEPT ![Len(s)].at = at] IN
         /\ StackOK(t) /\ t # <<>>
         /\ Follows(s, t, {}, {}) /\ SameAppended(s, t)
<1> DEFINE f == [s[Len(s)] EXCEPT !.at = at]
<1>1. s[Len(s)] \in Frames /\ FrameOK(s[Len(s)])
  BY DEF StackOK
<1>2. /\ f \in Frames
      /\ f.at = at /\ f.slot = s[Len(s)].slot /\ f.form = s[Len(s)].form
      /\ f.unsent = s[Len(s)].unsent /\ f.appended = s[Len(s)].appended
  BY <1>1 DEF Frames, PlacesOf, Connection
<1>3. [s EXCEPT ![Len(s)].at = at] = [s EXCEPT ![Len(s)] = f]
  BY DEF StackOK
<1> HIDE DEF f
<1>4. FrameOK(f)
  BY <1>1, <1>2 DEF FrameOK
<1> QED
  BY <1>2, <1>3, <1>4, StackChange

\* ReturnOne(b)
Returned(s, b) ==
  LET caller == SubSeq(s, 1, Len(s) - 1)
      last == Len(caller) IN
  IF caller # <<>> /\ caller[last].slot = "all" /\ caller[last].at = "next"
  THEN [caller EXCEPT ![last].appended = @ \/ b] ELSE caller

LEMMA StackReturn ==
  ASSUME NEW s, StackOK(s), s # <<>>, NEW b \in BOOLEAN, s[Len(s)].slot = "one"
  PROVE  /\ StackOK(Returned(s, b)) /\ Follows(s, Returned(s, b), {}, {"one"})
         /\ ~b => SameAppended(s, Returned(s, b))
<1> DEFINE caller == SubSeq(s, 1, Len(s) - 1)
           last == Len(caller)
<1>1. s[Len(s)] \in Frames /\ FrameOK(s[Len(s)])
  BY DEF StackOK
<1>2. s[Len(s)].unsent = {}
  BY <1>1 DEF FrameOK
<1>3. /\ StackOK(caller) /\ SameAppended(s, caller)
      /\ Follows(s, caller, {}, {"one"})
      /\ DOMAIN caller \subseteq DOMAIN s
  <2>1. /\ StackOK(caller) /\ SameAppended(s, caller)
        /\ Follows(s, caller, {}, {"one"})
    BY <1>2, StackPop
  <2>2. s \in Seq(Frames) /\ DOMAIN s = 1 .. Len(s) /\ Len(s) \in Nat
    BY DEF StackOK
  <2>3. DOMAIN caller = 1 .. Len(s) - 1
    BY <2>2, Popped
  <2> QED
    BY <2>1, <2>2, <2>3
<1> HIDE DEF caller
<1>4. CASE ~(caller # <<>> /\ caller[last].slot = "all" /\ caller[last].at = "next")
  BY <1>3, <1>4 DEF Returned, caller
<1>5. CASE caller # <<>> /\ caller[last].slot = "all" /\ caller[last].at = "next"
  <2> DEFINE f == [caller[last] EXCEPT !.appended = @ \/ b]
  <2>1. caller[last] \in Frames /\ FrameOK(caller[last])
    BY <1>3, <1>5 DEF StackOK
  <2>2. /\ f \in Frames /\ f.slot = "all" /\ f.at = "next" /\ f.form = caller[last].form
        /\ f.unsent = caller[last].unsent /\ f.appended = (caller[last].appended \/ b)
    BY <1>5, <2>1 DEF Frames
  <2>3. Returned(s, b) = [caller EXCEPT ![last] = f]
    BY <1>3, <1>5 DEF Returned, caller, StackOK
  <2> HIDE DEF f
  <2>4. FrameOK(f)
    BY <1>5, <2>1, <2>2 DEF FrameOK
  <2> DEFINE t == [caller EXCEPT ![last] = f]
  <2>5. /\ StackOK(t) /\ Follows(caller, t, {}, {}) /\ DOMAIN t = DOMAIN caller
        /\ f.appended = caller[last].appended => SameAppended(caller, t)
    BY <1>3, <1>5, <2>2, <2>4, StackChange DEF StackOK
  <2> HIDE DEF t
  <2>6. Follows(s, t, {}, {"one"})
    BY <1>3, <2>5 DEF Follows
  <2>7. ~b => SameAppended(s, t)
    <3> SUFFICES ASSUME ~b PROVE SameAppended(s, t)
      OBVIOUS
    <3>1. f.appended = caller[last].appended
      BY <2>1, <2>2 DEF Frames
    <3> QED
      BY <1>3, <2>5, <3>1 DEF SameAppended
  <2> QED
    BY <2>3, <2>5, <2>6, <2>7 DEF t
<1> QED
  BY <1>4, <1>5

-----------------------------------------------------------------------------
(* What the actions do to the stack. *)

LEMMA Places ==
  /\ PlacesOf("all") = {"next", "login", "info", "infoWait", "expires", "change", "changeWait",
                        "changed"}
  /\ PlacesOf("one") = {"processEvents1", "processEvents2", "login", "info", "infoWait",
                        "expires", "change", "changeWait", "changed", "assign1", "assign2"}
  /\ PlacesOf("close") = {"ask", "join"}
  /\ PlacesOf("import") = {"ask", "assign"}
  /\ PlacesOf("form") = {"alive", "aliveWait", "login", "info", "infoWait", "expires", "change",
                         "changeWait", "changed", "credit", "creditWait"}
  /\ PlacesOf("box") = {"info", "infoWait", "ask"}
  /\ PlacesOf("send") = {"ask", "build", "assign"}
  /\ PlacesOf("imported") = {"ask"} /\ PlacesOf("told") = {"ask"}
BY DEF PlacesOf, Connection

LEMMA FrameMade ==
  ASSUME NEW slot \in {"all", "one", "close", "import", "imported"},
         NEW at \in PlacesOf(slot), NEW todo \in 0 .. NumAccounts, NEW was \in BOOLEAN
  PROVE  LET f == Frame(slot, at, todo, was) IN
         /\ f \in Frames /\ FrameOK(f)
         /\ f.slot = slot /\ f.at = at /\ f.unsent = {} /\ f.form = 0 /\ ~f.appended
BY DEF Frame, Frames, PlacesOf, Connection, FrameOK, FormSlots

LEMMA FormFrameMade ==
  ASSUME NEW slot \in FormSlots, NEW at \in PlacesOf(slot), NEW n \in Dialogs,
         ~(slot = "send" /\ at = "assign")
  PROVE  LET f == FormFrame(slot, at, n) IN
         /\ f \in Frames /\ FrameOK(f)
         /\ f.slot = slot /\ f.at = at /\ f.unsent = {} /\ f.form = n /\ ~f.appended
<1> DEFINE g == Frame(slot, at, 0, FALSE)
<1>1. 0 \in 0 .. NumAccounts /\ n \in Dialogs \cup {0} /\ n # 0
  BY WindowAssumption, RecipientsAssumption DEF Dialogs
<1>2. at \in {"alive", "aliveWait", "login", "info", "infoWait", "expires", "change",
              "changeWait", "changed", "credit", "creditWait", "ask", "build", "assign"}
  BY DEF PlacesOf, Connection, FormSlots
<1>3. g \in Frames /\ g.slot = slot /\ g.at = at /\ g.unsent = {} /\ ~g.appended
  BY <1>1, <1>2 DEF Frame, Frames, FormSlots
<1> HIDE DEF g
<1> DEFINE f == [g EXCEPT !.form = n]
<1>4. /\ f \in Frames
      /\ f.slot = slot /\ f.at = at /\ f.unsent = {} /\ f.form = n /\ ~f.appended
  BY <1>1, <1>3 DEF Frames
<1> HIDE DEF f
<1>5. FrameOK(f)
  BY <1>1, <1>4 DEF FrameOK, FormSlots
<1>6. FormFrame(slot, at, n) = f
  BY DEF FormFrame, f, g
<1> QED
  BY <1>4, <1>5, <1>6

LEMMA TopOK ==
  ASSUME StackOK(stack), stack # <<>>
  PROVE  /\ Top \in Frames /\ FrameOK(Top)
         /\ Top.at \in PlacesOf(Top.slot)
         /\ Top.unsent # {} <=> Top.slot = "send" /\ Top.at = "assign"
BY DEF StackOK, Top, FrameOK

\* The innermost slot may be left, and a slot may be entered, from an event loop.
LEMMA LoopEnters ==
  ASSUME StackOK(stack), EventLoop, NEW f \in Frames, FrameOK(f), f.unsent = {},
         f.slot \in {"all", "one", "told", "imported"} \/ WindowReachable
  PROVE  /\ StackOK(Append(stack, f))
         /\ Follows(stack, Append(stack, f), {f.slot}, {})
         /\ SameAppended(stack, Append(stack, f))
         /\ Append(stack, f) # <<>>
<1>1. MayEnter(stack, f)
  BY DEF MayEnter, EventLoop, WindowReachable, Top, Loops
<1> QED
  BY <1>1, StackPush

LEMMA GoToOK ==
  ASSUME StackOK(stack), stack # <<>>, NEW at \in PlacesOf(Top.slot), GoTo(at),
         Top.at # "assign", at \notin {"processEvents1", "assign"}
                              \/ (Top.slot = "import" /\ at = "assign")
  PROVE  /\ StackOK(stack') /\ stack' # <<>>
         /\ Follows(stack, stack', {}, {}) /\ SameAppended(stack, stack')
BY TopOK, StackGoTo DEF GoTo, Top

LEMMA CallerOK ==
  ASSUME StackOK(stack), stack # <<>>, stack' = Caller
  PROVE  /\ StackOK(stack') /\ SameAppended(stack, stack')
         /\ Top.unsent = {} => Follows(stack, stack', {}, {Top.slot})
BY StackPop DEF Caller, Top

LEMMA ReturnOneOK ==
  ASSUME StackOK(stack), stack # <<>>, Top.slot = "one", NEW b \in BOOLEAN, ReturnOne(b)
  PROVE  /\ StackOK(stack') /\ Follows(stack, stack', {}, {"one"})
         /\ ~b => SameAppended(stack, stack')
<1>1. stack' = Returned(stack, b)
  BY DEF ReturnOne, CalledByAll, Caller, Returned
<1> QED
  BY <1>1, StackReturn DEF Top

\* synchroniseAllAccounts() turns to an account.
LEMMA AllNextStack ==
  ASSUME StackOK(stack), AllNext, enabled \in BOOLEAN
  PROVE  /\ StackOK(stack') /\ stack' # <<>>
         /\ Follows(stack, stack', {"one"}, {}) /\ SameAppended(stack, stack')
<1> DEFINE f == [Top EXCEPT !.todo = @ - 1]
           g == [Top EXCEPT !.todo = @ - 1, !.at = "login"]
           n == Len(stack)
<1>1. /\ stack # <<>> /\ Top \in Frames /\ FrameOK(Top)
      /\ Top.slot = "all" /\ Top.at = "next" /\ Top.todo > 0 /\ Top = stack[n]
      /\ Top.unsent = {}
  BY TopOK DEF AllNext, In, Top
<1>2. Top.todo - 1 \in 0 .. NumAccounts
  BY <1>1, FramesNamed, WindowAssumption
<1>3. /\ f \in Frames /\ f.slot = "all" /\ f.at = "next" /\ f.form = Top.form
      /\ f.unsent = Top.unsent /\ f.appended = Top.appended
  BY <1>1, <1>2 DEF Frames
<1>4. /\ g \in Frames /\ g.slot = "all" /\ g.at = "login" /\ g.form = Top.form
      /\ g.unsent = Top.unsent /\ g.appended = Top.appended
  BY <1>1, <1>2 DEF Frames
<1>5. /\ [stack EXCEPT ![n].todo = @ - 1] = [stack EXCEPT ![n] = f]
      /\ [stack EXCEPT ![n].todo = @ - 1, ![n].at = "login"] = [stack EXCEPT ![n] = g]
  BY <1>1 DEF StackOK
<1> HIDE DEF f, g
<1>6. FrameOK(f) /\ FrameOK(g)
  BY <1>1, <1>3, <1>4 DEF FrameOK, PlacesOf, Connection
<1>7. CASE stack' = [stack EXCEPT ![n] = g]
  <2>1. /\ StackOK(stack') /\ stack' # <<>>
        /\ Follows(stack, stack', {}, {}) /\ SameAppended(stack, stack')
    BY <1>1, <1>4, <1>6, <1>7, StackChange
  <2> QED
    BY <2>1 DEF Follows
<1>8. CASE stack' = Append([stack EXCEPT ![n] = f], Frame("one", "processEvents1", 0, enabled))
  <2> DEFINE t == [stack EXCEPT ![n] = f]
             h == Frame("one", "processEvents1", 0, enabled)
  <2>1. /\ StackOK(t) /\ t # <<>> /\ Len(t) = n /\ t[n] = f /\ DOMAIN t = DOMAIN stack
        /\ Follows(stack, t, {}, {}) /\ SameAppended(stack, t)
    BY <1>1, <1>3, <1>6, StackChange
  <2>2. h \in Frames /\ FrameOK(h) /\ h.slot = "one" /\ h.unsent = {}
    BY FrameMade, Places, WindowAssumption
  <2> HIDE DEF t, h
  <2>3. /\ StackOK(Append(t, h)) /\ Append(t, h) # <<>>
        /\ Follows(t, Append(t, h), {"one"}, {}) /\ SameAppended(t, Append(t, h))
    BY <1>3, <2>1, <2>2, StackCall
  <2>4. Follows(stack, Append(t, h), {"one"}, {}) /\ SameAppended(stack, Append(t, h))
    <3>1. Follows(stack, Append(t, h), {"one"}, {})
      BY <2>1, <2>3, FollowsTwo
    <3> QED
      BY <2>1, <2>3, <3>1 DEF SameAppended
  <2> QED
    BY <1>8, <2>3, <2>4 DEF t, h
<1> QED
  BY <1>5, <1>7, <1>8 DEF AllNext

\* What a step does to the stack: the kinds of slots that are entered and left.
StackStep(new, gone) ==
  /\ StackOK(stack')
  /\ Follows(stack, stack', new, gone)
  /\ SameAppended(stack, stack')

LEMMA StackStays == ASSUME StackOK(stack), stack' = stack PROVE StackStep({}, {})
BY FollowsSame DEF StackStep

LEMMA StackEntered ==
  ASSUME StackOK(stack), EventLoop, NEW f \in Frames, FrameOK(f), f.unsent = {},
         f.slot \in {"all", "one", "told", "imported"} \/ WindowReachable,
         stack' = Append(stack, f)
  PROVE  StackStep({f.slot}, {})
BY LoopEnters DEF StackStep

LEMMA StackLeft ==
  ASSUME StackOK(stack), stack # <<>>, Top.unsent = {}, stack' = Caller
  PROVE  StackStep({}, {Top.slot})
BY CallerOK DEF StackStep

LEMMA StackGoes ==
  ASSUME StackOK(stack), stack # <<>>, NEW at \in PlacesOf(Top.slot), GoTo(at),
         Top.at # "assign", at \notin {"processEvents1", "assign"}
                              \/ (Top.slot = "import" /\ at = "assign")
  PROVE  StackStep({}, {})
BY GoToOK DEF StackStep

LEMMA WindowSlots ==
  ASSUME StackOK(stack), enabled \in BOOLEAN
  PROVE  /\ SyncAll => StackStep({"all"}, {})
         /\ SyncOne => StackStep({"one"}, {})
         /\ ImportZfo => StackStep({"import"}, {})
         /\ CloseEvent => StackStep({"close"}, {})
         /\ \A f \in Files : CollectImportZfoStatus(f) => StackStep({"imported"}, {})
<1>1. 0 \in 0 .. NumAccounts /\ NumAccounts \in 0 .. NumAccounts
  BY WindowAssumption
<1>2. ASSUME SyncAll PROVE StackStep({"all"}, {})
  <2> DEFINE f == Frame("all", "next", NumAccounts, FALSE)
  <2>1. f \in Frames /\ FrameOK(f) /\ f.slot = "all" /\ f.unsent = {}
    BY <1>1, Places DEF Frame, Frames, FrameOK, FormSlots
  <2> HIDE DEF f
  <2>2. EventLoop /\ stack' = Append(stack, f)
    BY <1>2 DEF SyncAll, f
  <2> QED
    BY <2>1, <2>2, StackEntered
<1>3. ASSUME SyncOne PROVE StackStep({"one"}, {})
  <2> DEFINE f == Frame("one", "processEvents1", 0, enabled)
  <2>1. f \in Frames /\ FrameOK(f) /\ f.slot = "one" /\ f.unsent = {}
    BY <1>1, FrameMade, Places
  <2> HIDE DEF f
  <2>2. EventLoop /\ stack' = Append(stack, f)
    BY <1>3 DEF SyncOne, WindowReachable, f
  <2> QED
    BY <2>1, <2>2, StackEntered
<1>4. ASSUME ImportZfo PROVE StackStep({"import"}, {})
  <2> DEFINE f == Frame("import", "ask", 0, FALSE)
  <2>1. f \in Frames /\ FrameOK(f) /\ f.slot = "import" /\ f.unsent = {}
    BY <1>1, Places DEF Frame, Frames, FrameOK, FormSlots
  <2> HIDE DEF f
  <2>2. EventLoop /\ WindowReachable /\ stack' = Append(stack, f)
    BY <1>4 DEF ImportZfo, WindowReachable, f
  <2> QED
    BY <2>1, <2>2, StackEntered
<1>5. ASSUME CloseEvent PROVE StackStep({"close"}, {})
  <2> DEFINE f == Frame("close", "ask", 0, FALSE)
  <2>1. f \in Frames /\ FrameOK(f) /\ f.slot = "close" /\ f.unsent = {}
    BY <1>1, Places DEF Frame, Frames, FrameOK, FormSlots
  <2> HIDE DEF f
  <2>2. CASE stack' = stack
    BY <2>2, FollowsSame DEF StackStep, Follows
  <2>3. CASE stack' = Append(stack, f)
    <3>1. EventLoop /\ WindowReachable
      BY <1>5 DEF CloseEvent, EventLoop, WindowReachable
    <3> QED
      BY <2>1, <2>3, <3>1, StackEntered
  <2> QED
    BY <1>5, <2>2, <2>3 DEF CloseEvent, f
<1>6. ASSUME NEW x \in Files, CollectImportZfoStatus(x) PROVE StackStep({"imported"}, {})
  <2> DEFINE f == Frame("imported", "ask", 0, FALSE)
  <2>1. f \in Frames /\ FrameOK(f) /\ f.slot = "imported" /\ f.unsent = {}
    BY <1>1, Places DEF Frame, Frames, FrameOK, FormSlots
  <2> HIDE DEF f
  <2>2. CASE stack' = stack
    BY <2>2, FollowsSame DEF StackStep, Follows
  <2>3. CASE stack' = Append(stack, f)
    <3>1. EventLoop
      BY <1>6 DEF CollectImportZfoStatus, Delivered
    <3> QED
      BY <2>1, <2>3, <3>1, StackEntered
  <2> QED
    BY <1>6, <2>2, <2>3 DEF CollectImportZfoStatus, f
<1> QED
  BY <1>2, <1>3, <1>4, <1>5, <1>6

LEMMA FormEntered ==
  ASSUME StackOK(stack), EventLoop, NEW slot \in FormSlots, NEW at \in PlacesOf(slot),
         ~(slot = "send" /\ at = "assign"), NEW n \in Dialogs,
         slot = "told" \/ WindowReachable,
         stack' = Append(stack, FormFrame(slot, at, n))
  PROVE  StackStep({slot}, {})
<1> DEFINE f == FormFrame(slot, at, n)
<1>1. f \in Frames /\ FrameOK(f) /\ f.slot = slot /\ f.unsent = {}
  BY FormFrameMade
<1> HIDE DEF f
<1>2. stack' = Append(stack, f)
  BY DEF f
<1> QED
  BY <1>1, <1>2, StackEntered

LEMMA FormSlotsEntered ==
  ASSUME StackOK(stack), NEW n \in Dialogs
  PROVE  /\ ShowSendMessageDialog(n) => StackStep({"form"}, {})
         /\ SetAccountInfo(n) => StackStep({"form"}, {})
         /\ AddRecipient(n) => StackStep({"box"}, {})
         /\ SendMessage(n) => StackStep({"send"}, {})
<1> USE DEF FormSlots
<1>1. ASSUME ShowSendMessageDialog(n) \/ SetAccountInfo(n) PROVE StackStep({"form"}, {})
  BY <1>1, FormEntered, Places DEF ShowSendMessageDialog, SetAccountInfo, WindowReachable
<1>2. ASSUME AddRecipient(n) PROVE StackStep({"box"}, {})
  BY <1>2, FormEntered, Places DEF AddRecipient, WindowReachable
<1>3. ASSUME SendMessage(n) PROVE StackStep({"send"}, {})
  BY <1>3, FormEntered, Places DEF SendMessage, WindowReachable
<1> QED
  BY <1>1, <1>2, <1>3

\* collectSendMessageStatus() shows the box of a dialogue that it has completed.
LEMMA CollectSendStack ==
  ASSUME StackOK(stack), NEW t \in Transactions, CollectSendMessageStatus(t)
  PROVE  StackStep({"told"}, {})
<1>1. EventLoop
  BY DEF CollectSendMessageStatus, Delivered
<1>2. CASE Completed = {}
  <2>1. stack' = stack
    BY <1>2 DEF CollectSendMessageStatus
  <2> QED
    BY <2>1, FollowsSame DEF StackStep, Follows
<1>3. CASE Completed # {}
  <2> DEFINE n == CHOOSE k \in Completed : TRUE
  <2>1. n \in Dialogs
    BY <1>3 DEF Completed
  <2>2. stack' = Append(stack, FormFrame("told", "ask", n))
    BY <1>3 DEF CollectSendMessageStatus
  <2> HIDE DEF n
  <2> QED
    BY <1>1, <2>1, <2>2, FormEntered, Places DEF FormSlots
<1> QED
  BY <1>2, <1>3

\* A slot that is somewhere has nothing left to assign, unless it is the one that
\* assigns the messages.
LEMMA Somewhere ==
  ASSUME StackOK(stack), NEW slot, NEW at, In(slot, at)
  PROVE  /\ stack # <<>> /\ Top.slot = slot /\ Top.at = at
         /\ ~(slot = "send" /\ at = "assign") => Top.unsent = {}
BY TopOK DEF In

\* A slot goes on within connectToIsds().
LEMMA ConnectingGoes ==
  ASSUME StackOK(stack), NEW from \in Connection, NEW to \in Connection,
         Connecting(from), GoTo(to)
  PROVE  StackStep({}, {})
<1>1. stack # <<>> /\ Top.slot \in {"one", "all", "form"} /\ Top.at = from
  BY DEF Connecting, In
<1>2. Top.at # "assign" /\ to \notin {"processEvents1", "assign"} /\ to \in PlacesOf(Top.slot)
  BY <1>1, Places DEF Connection
<1> QED
  BY <1>1, <1>2, StackGoes

LEMMA SyncSlots ==
  ASSUME StackOK(stack)
  PROVE  /\ AllEnd => StackStep({}, {"all"})
         /\ OneDisable => StackStep({}, {})
         /\ OneConnected => StackStep({}, {})
         /\ LoggedIn => StackStep({}, {})
         /\ InfoPost => StackStep({}, {})
<1>1. AllEnd => StackStep({}, {"all"})
  BY Somewhere, StackLeft DEF AllEnd
<1>2. OneDisable => StackStep({}, {})
  BY Somewhere, StackGoes, Places DEF OneDisable
<1>3. OneConnected => StackStep({}, {})
  <2> SUFFICES ASSUME OneConnected PROVE StackStep({}, {})
    OBVIOUS
  <2>1. stack # <<>> /\ Top.slot = "one" /\ Top.at = "processEvents2"
    BY DEF OneConnected, In
  <2>2. CASE GoTo("login")
    BY <2>1, <2>2, StackGoes, Places
  <2>3. CASE GoTo("assign1")
    BY <2>1, <2>3, StackGoes, Places
  <2> QED
    BY <2>2, <2>3 DEF OneConnected
<1>4. LoggedIn => StackStep({}, {})
  <2> SUFFICES ASSUME LoggedIn PROVE StackStep({}, {})
    OBVIOUS
  <2>1. stack # <<>> /\ Top.slot \in {"one", "all", "form"} /\ Top.at = "login"
    BY DEF LoggedIn, Connecting, In
  <2>2. "info" \in PlacesOf(Top.slot)
    BY <2>1, Places
  <2> QED
    BY <2>1, <2>2, StackGoes DEF LoggedIn
<1>5. InfoPost => StackStep({}, {})
  <2> SUFFICES ASSUME InfoPost PROVE StackStep({}, {})
    OBVIOUS
  <2>1. CASE (Connecting("info") \/ In("box", "info")) /\ GoTo("infoWait")
    <3>1. stack # <<>> /\ Top.slot \in {"one", "all", "form", "box"} /\ Top.at = "info"
      BY <2>1 DEF Connecting, In
    <3>2. "infoWait" \in PlacesOf(Top.slot)
      BY <3>1, Places
    <3> QED
      BY <2>1, <3>1, <3>2, StackGoes
  <2>2. CASE Connecting("change") /\ GoTo("changeWait")
    BY <2>2, ConnectingGoes DEF Connection
  <2> QED
    BY <2>1, <2>2 DEF InfoPost
<1> QED
  BY <1>1, <1>2, <1>3, <1>4, <1>5

\* The log-in fails.
LEMMA LogInFailsStack ==
  ASSUME StackOK(stack), LogInFails
  PROVE  /\ StackStep({}, {"one", "form"})
         /\ Top.slot # "one" => StackStep({}, {"form"})
<1>1. CASE In("one", "login") /\ ReturnOne(FALSE)
  BY <1>1, ReturnOneOK DEF In, StackStep, Follows
<1>2. CASE In("all", "login") /\ GoTo("next")
  <2>1. StackStep({}, {})
    BY <1>2, StackGoes, Places DEF In
  <2> QED
    BY <2>1 DEF StackStep, Follows
<1>3. CASE In("form", "login") /\ stack' = Caller
  <2>1. StackStep({}, {"form"})
    <3>1. stack # <<>> /\ Top.slot = "form" /\ Top.unsent = {}
      BY <1>3, Somewhere
    <3> QED
      BY <1>3, <3>1, StackLeft
  <2> QED
    BY <2>1 DEF StackStep, Follows
<1>4. CASE In("form", "login") /\ GoTo("credit")
  <2>1. StackStep({}, {})
    BY <1>4, StackGoes, Places DEF In
  <2> QED
    BY <2>1 DEF StackStep, Follows
<1> QED
  BY <1>1, <1>2, <1>3, <1>4 DEF LogInFails

\* synchroniseAllAccounts() goes on with an account that has logged in.
LEMMA AllGoesOn ==
  ASSUME StackOK(stack), NEW at \in Connection, In("all", at), enabled \in BOOLEAN,
         stack' = Append([stack EXCEPT ![Len(stack)].at = "next"],
                         Frame("one", "processEvents1", 0, enabled))
  PROVE  StackStep({"one"}, {})
<1> DEFINE n == Len(stack)
           f == [Top EXCEPT !.at = "next"]
           h == Frame("one", "processEvents1", 0, enabled)
<1>1. /\ stack # <<>> /\ Top \in Frames /\ FrameOK(Top) /\ Top = stack[n]
      /\ Top.slot = "all" /\ Top.at = at /\ at # "assign" /\ Top.unsent = {}
  BY TopOK, Somewhere DEF Top, Connection
<1>2. /\ f \in Frames /\ f.slot = "all" /\ f.at = "next" /\ f.form = Top.form
      /\ f.unsent = Top.unsent /\ f.appended = Top.appended
  BY <1>1 DEF Frames
<1>3. [stack EXCEPT ![n].at = "next"] = [stack EXCEPT ![n] = f]
  BY <1>1 DEF StackOK
<1>4. h \in Frames /\ FrameOK(h) /\ h.slot = "one" /\ h.unsent = {}
  <2>1. "processEvents1" \in PlacesOf("one") /\ 0 \in 0 .. NumAccounts
    BY Places, WindowAssumption
  <2> QED
    BY <2>1, FrameMade
<1> HIDE DEF f, h
<1>5. FrameOK(f)
  BY <1>1, <1>2, Places DEF FrameOK
<1> DEFINE t == [stack EXCEPT ![n] = f]
<1>6. /\ StackOK(t) /\ t # <<>> /\ Len(t) = n /\ t[n] = f /\ DOMAIN t = DOMAIN stack
      /\ Follows(stack, t, {}, {}) /\ SameAppended(stack, t)
  BY <1>1, <1>2, <1>5, StackChange
<1>7. stack' = Append(t, h)
  BY <1>3 DEF h
<1> HIDE DEF t
<1>8. /\ StackOK(Append(t, h)) /\ Follows(t, Append(t, h), {"one"}, {})
      /\ SameAppended(t, Append(t, h))
  BY <1>2, <1>4, <1>6, StackCall
<1>9. Follows(stack, Append(t, h), {"one"}, {})
  BY <1>6, <1>8, FollowsTwo
<1>10. SameAppended(stack, Append(t, h))
  BY <1>6, <1>8 DEF SameAppended
<1> QED
  BY <1>7, <1>8, <1>9, <1>10 DEF StackStep

LEMMA AfterLogInStack ==
  ASSUME StackOK(stack), stack # <<>>, Top.slot = "form", AfterLogIn
  PROVE  StackStep({}, {"form"})
<1>1. Top.unsent = {} /\ Top.at # "assign"
  BY TopOK, Places
<1>2. CASE stack' = Caller
  BY <1>1, <1>2, StackLeft
<1>3. CASE GoTo("credit")
  <2>1. StackStep({}, {})
    BY <1>1, <1>3, StackGoes, Places
  <2> QED
    BY <2>1 DEF StackStep, Follows
<1> QED
  BY <1>2, <1>3 DEF AfterLogIn

\* connectToIsds() has returned.
LEMMA ConnectedStack ==
  ASSUME StackOK(stack), NEW at \in Connection, Connected(at), enabled \in BOOLEAN
  PROVE  StackStep({"one"}, {"form"})
<1>1. CASE In("one", at) /\ GoTo("assign1")
  <2>1. StackStep({}, {})
    BY <1>1, StackGoes, Places DEF In, Connection
  <2> QED
    BY <2>1 DEF StackStep, Follows
<1>2. CASE In("all", at)
           /\ stack' = Append([stack EXCEPT ![Len(stack)].at = "next"],
                              Frame("one", "processEvents1", 0, enabled))
  BY <1>2, AllGoesOn DEF StackStep, Follows
<1>3. CASE In("form", at) /\ AfterLogIn
  BY <1>3, AfterLogInStack DEF In, StackStep, Follows
<1> QED
  BY <1>1, <1>2, <1>3 DEF Connected

\* runSingle() has returned, or a dialogue about the password is closed.
LEMMA InfoReturnStack ==
  ASSUME StackOK(stack), InfoReturn \/ ExpiryAnswered, enabled \in BOOLEAN
  PROVE  StackStep({"one"}, {"form"})
<1>1. ASSUME NEW from \in Connection, NEW to \in Connection, Connecting(from), GoTo(to)
      PROVE  StackStep({"one"}, {"form"})
  BY <1>1, ConnectingGoes DEF StackStep, Follows
<1>2. CASE InfoReturn
  BY <1>1, <1>2, ConnectedStack DEF InfoReturn, Connection
<1>3. CASE ExpiryAnswered
  BY <1>1, <1>3, ConnectedStack DEF ExpiryAnswered, Connection
<1> QED
  BY <1>2, <1>3

\* synchroniseSelectedAccount() returns to who called it and tells it that there is
\* a task.
LEMMA OneAssignStack ==
  ASSUME StackOK(stack), OneAssign
  PROVE  StackOK(stack') /\ Follows(stack, stack', {}, {"one"})
<1>1. CASE In("one", "assign1") /\ GoTo("assign2")
  <2>1. StackStep({}, {})
    BY <1>1, StackGoes, Places DEF In
  <2> QED
    BY <2>1 DEF StackStep, Follows
<1>2. CASE In("one", "assign2") /\ ReturnOne(TRUE)
  BY <1>2, ReturnOneOK DEF In
<1> QED
  BY <1>1, <1>2 DEF OneAssign

LEMMA MessageSlots ==
  ASSUME StackOK(stack)
  PROVE  /\ AlivePost => StackStep({}, {})
         /\ AliveReturn => StackStep({}, {"form"})
         /\ CreditPost => StackStep({}, {})
         /\ CreditReturn => StackStep({}, {"form"})
         /\ BoxFound => StackStep({}, {"box"})
         /\ BoxAnswered => StackStep({}, {"box"})
         /\ PaymentRefused => StackStep({}, {"send"})
         /\ PaymentAgreed => StackStep({}, {})
         /\ ToldClosed => StackStep({}, {"told"})
<1> DEFINE Here(slot, at) ==
      stack # <<>> /\ Top.slot = slot /\ Top.at = at /\ Top.unsent = {}
<1>1. ASSUME AlivePost PROVE StackStep({}, {})
  <2>1. Here("form", "alive") /\ GoTo("aliveWait")
    BY <1>1, Somewhere DEF AlivePost
  <2> QED
    BY <2>1, StackGoes, Places
<1>2. ASSUME AliveReturn PROVE StackStep({}, {"form"})
  <2>1. Here("form", "aliveWait")
    BY <1>2, Somewhere DEF AliveReturn
  <2>2. CASE AfterLogIn
    BY <2>1, <2>2, AfterLogInStack
  <2>3. CASE GoTo("login")
    <3>1. StackStep({}, {})
      BY <2>1, <2>3, StackGoes, Places
    <3> QED
      BY <3>1 DEF StackStep, Follows
  <2> QED
    BY <1>2, <2>2, <2>3 DEF AliveReturn
<1>3. ASSUME CreditPost PROVE StackStep({}, {})
  <2>1. Here("form", "credit") /\ GoTo("creditWait")
    BY <1>3, Somewhere DEF CreditPost
  <2> QED
    BY <2>1, StackGoes, Places
<1>4. ASSUME CreditReturn PROVE StackStep({}, {"form"})
  <2>1. Here("form", "creditWait") /\ stack' = Caller
    BY <1>4, Somewhere DEF CreditReturn
  <2> QED
    BY <2>1, StackLeft
<1>5. ASSUME BoxFound PROVE StackStep({}, {"box"})
  <2>1. Here("box", "infoWait")
    BY <1>5, Somewhere DEF BoxFound
  <2>2. CASE stack' = Caller
    BY <2>1, <2>2, StackLeft
  <2>3. CASE GoTo("ask")
    <3>1. StackStep({}, {})
      BY <2>1, <2>3, StackGoes, Places
    <3> QED
      BY <3>1 DEF StackStep, Follows
  <2> QED
    BY <1>5, <2>2, <2>3 DEF BoxFound
<1>6. ASSUME BoxAnswered PROVE StackStep({}, {"box"})
  <2>1. Here("box", "ask") /\ stack' = Caller
    BY <1>6, Somewhere DEF BoxAnswered
  <2> QED
    BY <2>1, StackLeft
<1>7. ASSUME PaymentRefused PROVE StackStep({}, {"send"})
  <2>1. Here("send", "ask") /\ stack' = Caller
    BY <1>7, Somewhere DEF PaymentRefused
  <2> QED
    BY <2>1, StackLeft
<1>8. ASSUME PaymentAgreed PROVE StackStep({}, {})
  <2>1. Here("send", "ask") /\ GoTo("build")
    BY <1>8, Somewhere DEF PaymentAgreed
  <2> QED
    BY <2>1, StackGoes, Places
<1>9. ASSUME ToldClosed PROVE StackStep({}, {"told"})
  <2>1. Here("told", "ask") /\ stack' = Caller
    BY <1>9, Somewhere DEF ToldClosed
  <2> QED
    BY <2>1, StackLeft
<1> QED
  BY <1>1, <1>2, <1>3, <1>4, <1>5, <1>6, <1>7, <1>8, <1>9

LEMMA ImportSlots ==
  ASSUME StackOK(stack)
  PROVE  /\ ImportCancelled => StackStep({}, {"import"})
         /\ \A files \in SUBSET Files : ImportGiven(files) => StackStep({}, {"import"})
         /\ ImportAssign => StackStep({}, {"import"})
         /\ ResultClosed => StackStep({}, {"imported"})
         /\ CloseIgnored => StackStep({}, {"close"})
         /\ CloseStop => StackStep({}, {})
         /\ CloseClear => StackStep({}, {"close"})
<1> DEFINE Here(slot, at) ==
      stack # <<>> /\ Top.slot = slot /\ Top.at = at /\ Top.unsent = {}
<1>1. ASSUME ImportCancelled PROVE StackStep({}, {"import"})
  <2>1. Here("import", "ask") /\ stack' = Caller
    BY <1>1, Somewhere DEF ImportCancelled
  <2> QED
    BY <2>1, StackLeft
<1>2. ASSUME NEW files \in SUBSET Files, ImportGiven(files) PROVE StackStep({}, {"import"})
  <2>1. Here("import", "ask")
    BY <1>2, Somewhere DEF ImportGiven
  <2>2. CASE stack' = Caller
    BY <2>1, <2>2, StackLeft
  <2>3. CASE GoTo("assign")
    <3>1. StackStep({}, {})
      BY <2>1, <2>3, StackGoes, Places
    <3> QED
      BY <3>1 DEF StackStep, Follows
  <2> QED
    BY <1>2, <2>2, <2>3 DEF ImportGiven
<1>3. ASSUME ImportAssign PROVE StackStep({}, {"import"})
  <2>1. Here("import", "assign")
    BY <1>3, Somewhere DEF ImportAssign
  <2>2. CASE stack' = Caller
    BY <2>1, <2>2, StackLeft
  <2>3. CASE stack' = stack
    BY <2>3, FollowsSame DEF StackStep, Follows
  <2> QED
    BY <1>3, <2>2, <2>3 DEF ImportAssign
<1>4. ASSUME ResultClosed PROVE StackStep({}, {"imported"})
  <2>1. Here("imported", "ask") /\ stack' = Caller
    BY <1>4, Somewhere DEF ResultClosed
  <2> QED
    BY <2>1, StackLeft
<1>5. ASSUME CloseIgnored PROVE StackStep({}, {"close"})
  <2>1. Here("close", "ask") /\ stack' = Caller
    BY <1>5, Somewhere DEF CloseIgnored
  <2> QED
    BY <2>1, StackLeft
<1>6. ASSUME CloseStop PROVE StackStep({}, {})
  <2>1. Here("close", "ask") /\ GoTo("join")
    BY <1>6, Somewhere DEF CloseStop
  <2> QED
    BY <2>1, StackGoes, Places
<1>7. ASSUME CloseClear PROVE StackStep({}, {"close"})
  <2>1. Here("close", "join") /\ stack' = Caller
    BY <1>7, Somewhere DEF CloseClear
  <2> QED
    BY <2>1, StackLeft
<1> QED
  BY <1>1, <1>2, <1>3, <1>4, <1>5, <1>6, <1>7

\* The slots below the innermost one are the same, and so is what it is about.
OnlyTop ==
  /\ DOMAIN stack' = DOMAIN stack /\ Len(stack') = Len(stack)
  /\ \A i \in 1 .. Len(stack) - 1 : stack'[i] = stack[i]
  /\ Top'.slot = Top.slot /\ Top'.form = Top.form
  /\ SameAppended(stack, stack')

\* sendMessageISDS() has made the transactions.
LEMMA SendBuildStack ==
  ASSUME StackOK(stack), SendBuild,
         form[Top.form].recipients \in (SUBSET Transactions) \ {{}}
  PROVE  /\ StackOK(stack') /\ OnlyTop
         /\ Top'.at = "assign" /\ Top'.unsent = form[Top.form].recipients
         /\ Top.slot = "send" /\ Top.at = "build" /\ stack # <<>>
<1> DEFINE n == Len(stack)
           f == [Top EXCEPT !.at = "assign", !.unsent = form[Top.form].recipients]
<1>1. /\ stack # <<>> /\ Top \in Frames /\ FrameOK(Top) /\ Top = stack[n]
      /\ Top.slot = "send" /\ Top.at = "build"
  BY TopOK, Somewhere DEF Top, SendBuild
<1>2. /\ f \in Frames /\ f.slot = "send" /\ f.at = "assign" /\ f.form = Top.form
      /\ f.unsent = form[Top.form].recipients /\ f.appended = Top.appended
  BY <1>1 DEF Frames
<1>3. stack' = [stack EXCEPT ![n] = f]
  BY <1>1 DEF StackOK, SendBuild
<1> HIDE DEF f
<1>4. FrameOK(f)
  BY <1>1, <1>2, Places DEF FrameOK, FormSlots
<1>5. /\ StackOK(stack') /\ stack' # <<>> /\ Len(stack') = n /\ DOMAIN stack' = DOMAIN stack
      /\ stack'[n] = f /\ SameAppended(stack, stack')
  BY <1>1, <1>2, <1>3, <1>4, StackChange
<1>6. \A i \in 1 .. n - 1 : stack'[i] = stack[i]
  BY <1>3 DEF StackOK
<1> QED
  BY <1>1, <1>2, <1>5, <1>6 DEF OnlyTop, Top

\* sendMessageISDS() assigns a task.
LEMMA SendAssignStack ==
  ASSUME StackOK(stack), SendAssign
  PROVE  \E t \in Top.unsent :
           /\ PutHi(t, "APPEND") /\ t \in Transactions
           /\ Top.slot = "send" /\ Top.at = "assign" /\ stack # <<>>
           /\ StackOK(stack') /\ SameAppended(stack, stack')
           /\ \/ Top.unsent = {t} /\ stack' = Caller
              \/ OnlyTop /\ Top'.at = "assign" /\ Top'.unsent = Top.unsent \ {t}
<1> DEFINE n == Len(stack)
           t == CHOOSE r \in Top.unsent : TRUE
           f == [Top EXCEPT !.unsent = @ \ {t}]
<1>1. /\ stack # <<>> /\ Top \in Frames /\ FrameOK(Top) /\ Top = stack[n]
      /\ Top.slot = "send" /\ Top.at = "assign" /\ Top.unsent # {}
  BY TopOK, Somewhere DEF Top, SendAssign
<1>2. t \in Top.unsent /\ t \in Transactions
  BY <1>1, FramesNamed
<1>3. /\ PutHi(t, "APPEND")
      /\ stack' = IF Top.unsent = {t} THEN Caller
                  ELSE [stack EXCEPT ![n].unsent = @ \ {t}]
  BY DEF SendAssign
<1> HIDE DEF t
<1>4. CASE Top.unsent = {t}
  <2>1. StackOK(stack') /\ SameAppended(stack, stack')
    BY <1>1, <1>3, <1>4, CallerOK
  <2> QED
    BY <1>1, <1>2, <1>3, <1>4, <2>1
<1>5. CASE Top.unsent # {t}
  <2>1. /\ f \in Frames /\ f.slot = "send" /\ f.at = "assign" /\ f.form = Top.form
        /\ f.unsent = Top.unsent \ {t} /\ f.appended = Top.appended
    BY <1>1 DEF Frames
  <2>2. stack' = [stack EXCEPT ![n] = f]
    BY <1>1, <1>3, <1>5 DEF StackOK
  <2> HIDE DEF f
  <2>3. Top.unsent \ {t} # {}
    BY <1>2, <1>5
  <2>4. FrameOK(f)
    BY <1>1, <2>1, <2>3 DEF FrameOK
  <2>5. /\ StackOK(stack') /\ stack' # <<>> /\ Len(stack') = n /\ DOMAIN stack' = DOMAIN stack
        /\ stack'[n] = f /\ SameAppended(stack, stack')
    BY <1>1, <2>1, <2>2, <2>4, StackChange
  <2>6. \A i \in 1 .. n - 1 : stack'[i] = stack[i]
    BY <2>2 DEF StackOK
  <2>7. OnlyTop /\ Top'.at = "assign" /\ Top'.unsent = Top.unsent \ {t}
    BY <1>1, <2>1, <2>5, <2>6 DEF OnlyTop, Top
  <2> QED
    BY <1>1, <1>2, <1>3, <2>5, <2>7
<1> QED
  BY <1>4, <1>5

-----------------------------------------------------------------------------
(* The queues and the worker keep their types. *)

LEMMA Prepended ==
  ASSUME NEW S, NEW q \in Seq(S), NEW x \in S
  PROVE  /\ <<x>> \o q \in Seq(S)
         /\ Len(<<x>> \o q) = Len(q) + 1
         /\ DOMAIN (<<x>> \o q) = 1 .. Len(q) + 1
         /\ (<<x>> \o q)[1] = x
         /\ \A i \in 1 .. Len(q) : (<<x>> \o q)[i + 1] = q[i]
OBVIOUS

LEMMA PutTyped ==
  ASSUME NEW S, NEW q \in Seq(S), NEW x \in S, NEW order
  PROVE  Put(q, x, order) \in Seq(S) /\ Put(q, x, order) # <<>>
BY Pushed, Prepended DEF Put

LEMMA PoolUnchanged == ASSUME QueuesTyped, UNCHANGED poolVars PROVE QueuesTyped'
BY DEF QueuesTyped, poolVars

LEMMA PoolOps ==
  ASSUME QueuesTyped
  PROVE  /\ \A x \in {"list", "download"} \cup Files : \A order :
              PutLo(x, order) => QueuesTyped'
         /\ \A x \in {"download", "ping"} \cup Transactions : \A order :
              PutHi(x, order) => QueuesTyped'
         /\ PutSingle("info") => QueuesTyped'
         /\ VacateSingle => QueuesTyped'
         /\ \A b \in BOOLEAN : SetTerminating(b) => QueuesTyped'
         /\ ClearQueues => QueuesTyped'
<1>1. ASSUME NEW x \in {"list", "download"} \cup Files, NEW order, PutLo(x, order)
      PROVE  QueuesTyped'
  BY <1>1, PutTyped DEF QueuesTyped, PutLo
<1>2. ASSUME NEW x \in {"download", "ping"} \cup Transactions, NEW order, PutHi(x, order)
      PROVE  QueuesTyped'
  BY <1>2, PutTyped DEF QueuesTyped, PutHi
<1>3. PutSingle("info") => QueuesTyped'
  BY ItemsAssumption DEF QueuesTyped, PutSingle, Tasks
<1>4. VacateSingle => QueuesTyped'
  BY DEF QueuesTyped, VacateSingle
<1>5. ASSUME NEW b \in BOOLEAN, SetTerminating(b) PROVE QueuesTyped'
  BY <1>5 DEF QueuesTyped, SetTerminating
<1>6. ClearQueues => QueuesTyped'
  BY DEF QueuesTyped, ClearQueues
<1> QED
  BY <1>1, <1>2, <1>3, <1>4, <1>5, <1>6

LEMMA TakeTyped == ASSUME QueuesTyped, Take PROVE QueuesTyped'
<1>1. CASE Pending
  BY <1>1, ItemsAssumption DEF Take, Pending, QueuesTyped, Tasks
<1>2. CASE ~Pending /\ hi # <<>>
  <2>1. /\ Head(hi) \in {"download", "ping"} \cup Transactions
        /\ Tail(hi) \in Seq({"download", "ping"} \cup Transactions)
    BY <1>2, HeadTailProperties DEF QueuesTyped
  <2>2. Head(hi) \in Items /\ Head(hi) # "info"
    BY <2>1, ItemsAssumption DEF Tasks
  <2>3. /\ current' = Head(hi) /\ hi' = Tail(hi)
        /\ UNCHANGED <<lo, state, single, terminating, emitted>>
    BY <1>2 DEF Take
  <2> QED
    BY <2>1, <2>2, <2>3 DEF QueuesTyped
<1>3. CASE ~Pending /\ hi = <<>>
  <2>1. lo # <<>>
    BY <1>3 DEF Take
  <2>2. /\ Head(lo) \in {"list", "download"} \cup Files
        /\ Tail(lo) \in Seq({"list", "download"} \cup Files)
    BY <2>1, HeadTailProperties DEF QueuesTyped
  <2>3. Head(lo) \in Items /\ Head(lo) # "info"
    BY <2>2, ItemsAssumption DEF Tasks
  <2>4. /\ current' = Head(lo) /\ lo' = Tail(lo)
        /\ UNCHANGED <<hi, state, single, terminating, emitted>>
    BY <1>3 DEF Take
  <2> QED
    BY <2>2, <2>3, <2>4 DEF QueuesTyped
<1> QED
  BY <1>1, <1>2, <1>3

LEMMA EndTyped == ASSUME QueuesTyped, EndOfTask PROVE QueuesTyped'
<1>1. None # "info"
  BY ItemsAssumption DEF Tasks
<1> QED
  BY <1>1 DEF QueuesTyped, EndOfTask

-----------------------------------------------------------------------------
(* The dialogues. *)

LEMMA SentTyped ==
  ASSUME FormTyped, NEW t \in Transactions, NEW r \in Results, Sent(t, r)
  PROVE  FormTyped'
BY DEF FormTyped, Sent

LEMMA ForgottenTyped ==
  ASSUME FormTyped, NEW ts, Forgotten(ts)
  PROVE  /\ result' \in [Transactions -> Results \cup {None}]
         /\ sent' \in [Transactions -> Nat]
BY DEF FormTyped, Forgotten

LEMMA FormUnchanged == ASSUME FormTyped, UNCHANGED formVars PROVE FormTyped'
BY DEF FormTyped, formVars

\* The slots that neither show a dialogue nor are about one.
Plain == {"all", "one"}

\* Below a slot that the user has entered there is none with a dialogue.
LEMMA PlainBelow ==
  ASSUME StackOK(stack), stack # <<>>, Top.slot \notin {"all", "one", "told", "imported"}
  PROVE  \A i \in DOMAIN stack : i < Len(stack) => stack[i].slot \in Plain
<1> SUFFICES ASSUME NEW i \in DOMAIN stack, i < Len(stack) PROVE stack[i].slot \in Plain
  OBVIOUS
<1>1. stack[i] \in Frames /\ stack[i].at \in PlacesOf(stack[i].slot)
  BY DEF StackOK, FrameOK
<1>2. stack[i].slot # "all" => stack[i].at \in Loops
  BY DEF StackOK, Nested
<1>3. stack[i].at \notin Dialogues
  BY DEF StackOK, Nested, Top
<1>4. stack[i].slot # "all" => stack[i].at \in {"processEvents1", "processEvents2"}
  BY <1>2, <1>3 DEF Loops
<1> QED
  BY <1>1, <1>4, FramesNamed, Places DEF Plain

LEMMA PlainReachable ==
  ASSUME StackOK(stack), WindowReachable
  PROVE  \A i \in DOMAIN stack : stack[i].slot \in Plain
<1> SUFFICES ASSUME NEW i \in DOMAIN stack PROVE stack[i].slot \in Plain
  OBVIOUS
<1>1. stack[i] \in Frames /\ stack[i].at \in PlacesOf(stack[i].slot)
  BY DEF StackOK, FrameOK
<1>2. stack[i].slot # "all" => stack[i].at \in Loops
  <2>1. CASE i < Len(stack)
    BY <2>1 DEF StackOK, Nested
  <2>2. CASE i = Len(stack)
    BY <2>2 DEF WindowReachable, EventLoop, Top, Loops, StackOK
  <2> QED
    BY <2>1, <2>2 DEF StackOK
<1>3. stack[i].at \notin Dialogues
  BY DEF WindowReachable
<1>4. stack[i].slot # "all" => stack[i].at \in {"processEvents1", "processEvents2"}
  BY <1>2, <1>3 DEF Loops
<1> QED
  BY <1>1, <1>4, FramesNamed, Places DEF Plain

\* Steps that leave the dialogues alone.
LEMMA FormsNeutral ==
  ASSUME FormsInv, form' = form, NEW new, NEW gone, new \cap FormSlots = {},
         Follows(stack, stack', new, gone)
  PROVE  FormsInv'
<1>1. DialogsOK'
  BY DEF FormsInv, DialogsOK
<1>2. \A i \in DOMAIN stack' :
        \/ i \in DOMAIN stack /\ stack'[i].slot = stack[i].slot
           /\ stack'[i].form = stack[i].form /\ stack'[i].unsent = stack[i].unsent
        \/ stack'[i].slot \notin FormSlots
  BY DEF Follows
<1>3. \A i \in DOMAIN stack' : FrameFits(stack'[i], form')
  BY <1>2 DEF FormsInv, FrameFits, FormSlots
<1>4. \A i, j \in DOMAIN stack' :
        stack'[i].slot = "told" /\ stack'[j].slot = "told" /\ stack'[i].form = stack'[j].form
        => i = j
  BY <1>2 DEF FormsInv, FormSlots
<1> QED
  BY <1>1, <1>3, <1>4 DEF FormsInv

\* No slot but the innermost is about a dialogue.
LEMMA FormsTop ==
  ASSUME DialogsOK',
         stack' \in Seq(Frames),
         \A i \in DOMAIN stack' : i < Len(stack') => stack'[i].slot \in Plain,
         stack' # <<>> => FrameFits(Top', form')
  PROVE  FormsInv'
<1>1. \A i \in DOMAIN stack' : i # Len(stack') => stack'[i].slot \in Plain
  OBVIOUS
<1>2. \A i \in DOMAIN stack' : stack' # <<>> /\ (i = Len(stack') => stack'[i] = Top')
  BY DEF Top
<1>3. \A i \in DOMAIN stack' : FrameFits(stack'[i], form')
  BY <1>1, <1>2 DEF FrameFits, Plain
<1> QED
  BY <1>1, <1>3 DEF FormsInv, Plain

\* A step of a slot that is about a dialogue, and that the user has entered.
LEMMA FormsStep ==
  ASSUME StackOK(stack), stack # <<>>, Top.slot \in {"form", "box", "send"},
         DialogsOK', StackOK(stack'), NEW gone, Follows(stack, stack', {}, gone),
         FrameFits(Top, form') \/ stack' = Caller
  PROVE  FormsInv'
<1> DEFINE n == Len(stack)
           m == Len(stack')
<1>1. \A i \in DOMAIN stack : i < n => stack[i].slot \in Plain
  BY PlainBelow
<1>2. /\ n \in Nat \ {0} /\ DOMAIN stack = 1 .. n
      /\ m \in Nat /\ DOMAIN stack' = 1 .. m /\ (stack' # <<>> => m \in Nat \ {0})
  BY EmptySeq DEF StackOK
<1>3. m <= n
  BY <1>2 DEF Follows
<1>4. \A i \in DOMAIN stack' : i < n => stack'[i].slot \in Plain
  BY <1>1, <1>2, <1>3 DEF Follows
<1>5. ASSUME stack' # <<>> PROVE FrameFits(Top', form')
  <2>1. CASE m = n
    <3>1. Top'.slot = Top.slot /\ Top'.form = Top.form /\ Top'.unsent = Top.unsent
      BY <1>2, <1>5, <2>1 DEF Follows, Top
    <3>2. stack' # Caller
      <4>1. Len(Caller) = n - 1
        BY Popped DEF Caller, StackOK
      <4> QED
        BY <1>2, <2>1, <4>1
    <3> QED
      BY <3>1, <3>2 DEF FrameFits
  <2>2. CASE m < n
    <3>1. Top'.slot \in Plain
      BY <1>2, <1>4, <1>5, <2>2 DEF Top
    <3> QED
      BY <3>1 DEF FrameFits, Plain
  <2>3. m = n \/ m < n
    <3>1. m \in Nat /\ n \in Nat
      BY <1>2
    <3> HIDE DEF m, n
    <3> QED
      BY <1>3, <3>1
  <2> QED
    BY <2>1, <2>2, <2>3, Zenon
<1>6. \A i \in DOMAIN stack' : i < m => stack'[i].slot \in Plain
  BY <1>2, <1>3, <1>4
<1>7. stack' \in Seq(Frames)
  BY DEF StackOK
<1>8. \A i \in DOMAIN stack' : i < Len(stack') => stack'[i].slot \in Plain
  BY <1>6
<1> HIDE DEF m, n
<1> QED
  BY <1>5, <1>7, <1>8, FormsTop

\* A slot that is about a dialogue is entered from the window.
LEMMA FormsEnter ==
  ASSUME FormsInv, form' = form, StackOK(stack), StackOK(stack'), WindowReachable,
         NEW slot \in {"form", "box", "send"}, NEW at \in PlacesOf(slot), NEW n \in Dialogs,
         ~(slot = "send" /\ at = "assign"),
         stack' = Append(stack, FormFrame(slot, at, n)),
         slot = "form" => form[n].at \in {"unopened", "enabled"},
         slot # "form" => form[n].at = "enabled",
         slot = "send" => form[n].recipients # {}
  PROVE  FormsInv'
<1> DEFINE f == FormFrame(slot, at, n)
<1>1. f.slot = slot /\ f.unsent = {} /\ f.form = n /\ f \in Frames
  BY FormFrameMade DEF FormSlots
<1>2. stack' = Append(stack, f)
  OBVIOUS
<1> HIDE DEF f
<1>3. \A i \in DOMAIN stack : stack[i].slot \in Plain
  BY PlainReachable
<1>4. /\ DOMAIN stack = 1 .. Len(stack) /\ Len(stack) \in Nat
      /\ Len(stack') = Len(stack) + 1 /\ DOMAIN stack' = 1 .. Len(stack) + 1
      /\ \A i \in 1 .. Len(stack) : stack'[i] = stack[i]
      /\ Top' = f
  BY <1>1, <1>2, Pushed DEF StackOK, Top
<1>5. FrameFits(Top', form')
  BY <1>1, <1>4 DEF FrameFits
<1>6. DialogsOK'
  BY DEF FormsInv, DialogsOK
<1>7. \A i \in DOMAIN stack' : i < Len(stack') => stack'[i].slot \in Plain
  BY <1>3, <1>4
<1> QED
  BY <1>5, <1>6, <1>7, FormsTop DEF StackOK
-----------------------------------------------------------------------------
(* Every step keeps the types of the window and of the pool. *)

LEMMA TypedUser ==
  ASSUME WindowInv
  PROVE  /\ SyncAll \/ SyncOne \/ ImportZfo \/ CloseEvent => WindowTyped' /\ QueuesTyped'
         /\ DownloadAttachments => WindowTyped' /\ QueuesTyped'
         /\ \A n \in Dialogs :
              /\ ShowSendMessageDialog(n) \/ SetAccountInfo(n) => WindowTyped' /\ QueuesTyped'
              /\ AddRecipient(n) \/ DeleteRecipientEntries(n) => WindowTyped' /\ QueuesTyped'
              /\ SendMessage(n) \/ CloseSendMessageDialog(n) => WindowTyped' /\ QueuesTyped'
              /\ PingIsdsServer(n) => WindowTyped' /\ QueuesTyped'
<1> USE DEF buttonVars, importVars, windowVars
<1>1. WindowTyped /\ QueuesTyped
  BY DEF WindowInv
<1>2. UserOp => ops' \in 0 .. MaxOps
  BY <1>1, WindowAssumption DEF UserOp, WindowTyped
<1>3. SyncAll \/ SyncOne \/ ImportZfo \/ CloseEvent => WindowTyped' /\ QueuesTyped'
  <2>1. SyncAll => WindowTyped' /\ QueuesTyped'
    BY <1>1, <1>2, PoolUnchanged DEF SyncAll, WindowTyped
  <2>4. SyncOne \/ ImportZfo => WindowTyped' /\ QueuesTyped'
    BY <1>1, <1>2, PoolUnchanged DEF SyncOne, ImportZfo, WindowTyped
  <2>2. ASSUME CloseEvent PROVE WindowTyped'
    <3>1. events' \in Seq(EventSet)
      <4>1. events' = events \/ events' = Append(events, "quit")
        BY <2>2 DEF CloseEvent
      <4>2. events \in Seq(EventSet) /\ "quit" \in EventSet
        BY <1>1 DEF WindowTyped, EventSet
      <4> QED
        BY <4>1, <4>2, Pushed
    <3>2. closed' \in BOOLEAN /\ ops' \in 0 .. MaxOps
      BY <1>1, <1>2, <2>2 DEF CloseEvent, WindowTyped
    <3> QED
      BY <1>1, <2>2, <3>1, <3>2 DEF CloseEvent, WindowTyped
  <2>3. CloseEvent => QueuesTyped'
    BY <1>1, PoolUnchanged DEF CloseEvent
  <2> QED
    BY <2>1, <2>2, <2>3, <2>4
<1>4. DownloadAttachments => WindowTyped' /\ QueuesTyped'
  BY <1>1, <1>2, PoolOps DEF DownloadAttachments, WindowTyped
<1>5. ASSUME NEW n \in Dialogs
      PROVE  /\ ShowSendMessageDialog(n) \/ SetAccountInfo(n) => WindowTyped' /\ QueuesTyped'
             /\ AddRecipient(n) \/ DeleteRecipientEntries(n) => WindowTyped' /\ QueuesTyped'
             /\ SendMessage(n) \/ CloseSendMessageDialog(n) => WindowTyped' /\ QueuesTyped'
             /\ PingIsdsServer(n) => WindowTyped' /\ QueuesTyped'
  <2>1. ShowSendMessageDialog(n) \/ SetAccountInfo(n) => WindowTyped' /\ QueuesTyped'
    BY <1>1, <1>2, PoolUnchanged DEF ShowSendMessageDialog, SetAccountInfo, WindowTyped
  <2>2. AddRecipient(n) \/ DeleteRecipientEntries(n) => WindowTyped' /\ QueuesTyped'
    BY <1>1, PoolUnchanged DEF AddRecipient, DeleteRecipientEntries, WindowTyped
  <2>3. SendMessage(n) \/ CloseSendMessageDialog(n) => WindowTyped' /\ QueuesTyped'
    BY <1>1, PoolUnchanged DEF SendMessage, CloseSendMessageDialog, WindowTyped
  <2>4. PingIsdsServer(n) => WindowTyped' /\ QueuesTyped'
    BY <1>1, <1>2, PoolOps DEF PingIsdsServer, WindowTyped
  <2> QED
    BY <2>1, <2>2, <2>3, <2>4
<1> QED
  BY <1>3, <1>4, <1>5

LEMMA TypedWorker ==
  ASSUME WindowInv, Worker
  PROVE  WindowTyped' /\ QueuesTyped'
<1> USE DEF buttonVars, importVars, windowVars
<1>1. WindowTyped /\ QueuesTyped
  BY DEF WindowInv
<1>2. CASE WorkerTake
  BY <1>1, <1>2, TakeTyped DEF WorkerTake, WindowTyped
<1>3. CASE WorkerReport
  <2>1. events' \in Seq(EventSet)
    BY <1>1, <1>3, Pushed DEF WorkerReport, WindowTyped, EventSet
  <2>2. /\ stage' = "reported"
        /\ UNCHANGED <<buttonVars, timer, stack, closed, mainAt, ops, importVars>>
    BY <1>3 DEF WorkerReport
  <2>3. WindowTyped'
    BY <1>1, <2>1, <2>2 DEF WindowTyped
  <2>4. QueuesTyped'
    BY <1>1, <1>3, PoolOps, PoolUnchanged DEF WorkerReport
  <2> QED
    BY <2>3, <2>4
<1>4. CASE WorkerEnd
  BY <1>1, <1>4, EndTyped, Pushed DEF WorkerEnd, WindowTyped, EventSet
<1> QED
  BY <1>2, <1>3, <1>4 DEF Worker

LEMMA TypedDeliver ==
  ASSUME WindowInv, Deliver
  PROVE  WindowTyped' /\ QueuesTyped'
<1> USE DEF buttonVars, importVars
<1>1. WindowTyped /\ QueuesTyped
  BY DEF WindowInv
<1>2. ASSUME NEW e, Delivered(e) PROVE events' \in Seq(EventSet)
  BY <1>1, <1>2, HeadTailProperties DEF Delivered, WindowTyped
<1>3. CASE BackgroundWorkersFinished
  BY <1>1, <1>2, <1>3, PoolUnchanged DEF BackgroundWorkersFinished, WindowTyped
<1>4. CASE Quit
  BY <1>1, <1>2, <1>4, PoolUnchanged DEF Quit, WindowTyped
<1>5. ASSUME NEW t \in Transactions, CollectSendMessageStatus(t)
      PROVE  WindowTyped' /\ QueuesTyped'
  <2>1. WindowTyped'
    BY <1>1, <1>2, <1>5 DEF CollectSendMessageStatus, WindowTyped
  <2>2. QueuesTyped'
    BY <1>1, <1>5, PoolOps, PoolUnchanged DEF CollectSendMessageStatus
  <2> QED
    BY <2>1, <2>2
<1>6. ASSUME NEW f \in Files, CollectImportZfoStatus(f)
      PROVE  WindowTyped' /\ QueuesTyped'
  BY <1>1, <1>2, <1>6, PoolUnchanged, Pushed DEF CollectImportZfoStatus, WindowTyped
<1> QED
  BY <1>3, <1>4, <1>5, <1>6 DEF Deliver

LEMMA TypedAnswer ==
  ASSUME WindowInv, Answer
  PROVE  WindowTyped' /\ QueuesTyped'
<1> USE DEF buttonVars, importVars
<1>1. WindowTyped /\ QueuesTyped /\ StackOK(stack)
  BY DEF WindowInv
<1>2. CASE LoggedIn \/ ExpiryAnswered
  BY <1>1, <1>2, PoolUnchanged DEF LoggedIn, ExpiryAnswered, WindowTyped
<1>3. CASE LogInFails
  <2>1. In("one", "login") => Top.wasEnabled \in BOOLEAN
    BY <1>1, TopOK, FramesNamed DEF In
  <2>2. enabled' \in BOOLEAN /\ restored' \in BOOLEAN
    BY <1>1, <1>3, <2>1 DEF LogInFails, WindowTyped
  <2>3. UNCHANGED <<poolVars, stage, events, timer, closed, mainAt, ops, importVars>>
    BY <1>3 DEF LogInFails
  <2> QED
    BY <1>1, <2>2, <2>3, PoolUnchanged DEF WindowTyped
<1>4. CASE CloseIgnored \/ ImportCancelled \/ ResultClosed
  <2>1. CASE CloseIgnored
    BY <1>1, <2>1, PoolUnchanged DEF CloseIgnored, WindowTyped
  <2>2. CASE ImportCancelled
    BY <1>1, <2>2, PoolUnchanged DEF ImportCancelled, WindowTyped
  <2>3. CASE ResultClosed
    <3>1. imported' \in Seq(Files) /\ zfoFilesToImport' \in SUBSET Files
      BY <2>3, EmptySeq DEF ResultClosed
    <3> QED
      BY <1>1, <2>3, <3>1, PoolUnchanged DEF ResultClosed, WindowTyped
  <2> QED
    BY <1>4, <2>1, <2>2, <2>3
<1>5. CASE CloseStop
  <2>1. QueuesTyped'
    BY <1>1, <1>5, PoolOps DEF CloseStop
  <2>2. UNCHANGED <<stage, events, buttonVars, timer, closed, mainAt, ops, importVars>>
    BY <1>5 DEF CloseStop
  <2> QED
    BY <1>1, <2>1, <2>2 DEF WindowTyped
<1>6. CASE BoxAnswered \/ PaymentRefused \/ PaymentAgreed \/ ToldClosed
  BY <1>1, <1>6, PoolUnchanged DEF BoxAnswered, PaymentRefused, PaymentAgreed, ToldClosed, WindowTyped
<1>7. ASSUME NEW files \in SUBSET Files, ImportGiven(files)
      PROVE  WindowTyped' /\ QueuesTyped'
  BY <1>1, <1>7, PoolUnchanged, EmptySeq DEF ImportGiven, WindowTyped
<1> QED
  BY <1>2, <1>3, <1>4, <1>5, <1>6, <1>7 DEF Answer

LEMMA TypedContinue ==
  ASSUME WindowInv, Continue
  PROVE  WindowTyped' /\ QueuesTyped'
<1> USE DEF buttonVars, importVars
<1>1. WindowTyped /\ QueuesTyped /\ StackOK(stack)
  BY DEF WindowInv
<1>2. CASE AllNext \/ OneDisable \/ OneConnected
  <2>1. enabled' \in BOOLEAN /\ restored' \in BOOLEAN
    BY <1>1, <1>2 DEF AllNext, OneDisable, OneConnected, WindowTyped
  <2>2. UNCHANGED <<poolVars, stage, events, timer, closed, mainAt, ops, importVars>>
    BY <1>2 DEF AllNext, OneDisable, OneConnected
  <2> QED
    BY <1>1, <2>1, <2>2, PoolUnchanged DEF WindowTyped
<1>3. CASE AllEnd
  BY <1>1, <1>3, PoolUnchanged DEF AllEnd, WindowTyped
<1>4. CASE InfoPost \/ AlivePost \/ CreditPost
  BY <1>1, <1>4, PoolOps DEF InfoPost, AlivePost, CreditPost, WindowTyped
<1>5. CASE InfoReturn \/ AliveReturn \/ CreditReturn \/ BoxFound
  BY <1>1, <1>5, PoolOps DEF InfoReturn, AliveReturn, CreditReturn, BoxFound, WindowTyped
<1>6. CASE OneAssign
  BY <1>1, <1>6, PoolOps DEF OneAssign, WindowTyped
<1>7. CASE ImportAssign
  <2>1. unassigned' \in SUBSET Files
    BY <1>1, <1>7 DEF ImportAssign, WindowTyped
  <2>2. QueuesTyped'
    BY <1>1, <1>7, PoolOps DEF ImportAssign, WindowTyped
  <2> QED
    BY <1>1, <1>7, <2>1, <2>2 DEF ImportAssign, WindowTyped
<1>8. CASE CloseClear
  BY <1>1, <1>8, PoolOps, Pushed DEF CloseClear, WindowTyped, EventSet
<1>9. CASE MainWaited
  BY <1>1, <1>9, PoolOps DEF MainWaited, WindowTyped
<1>10. CASE MainEnd
  BY <1>1, <1>10, PoolUnchanged DEF MainEnd, WindowTyped
<1>11. CASE SendBuild
  BY <1>1, <1>11, PoolUnchanged DEF SendBuild, WindowTyped
<1>12. CASE SendAssign
  <2>1. QueuesTyped'
    BY <1>1, <1>12, SendAssignStack, PoolOps
  <2> QED
    BY <1>1, <1>12, <2>1 DEF SendAssign, WindowTyped
<1> QED
  BY <1>2, <1>3, <1>4, <1>5, <1>6, <1>7, <1>8, <1>9, <1>10, <1>11, <1>12 DEF Continue
-----------------------------------------------------------------------------
(* Every step keeps the types of the dialogues. *)

LEMMA TopForm ==
  ASSUME StackOK(stack), stack # <<>>, Top.slot \in FormSlots
  PROVE  Top.form \in Dialogs
BY TopOK, FramesNamed DEF FrameOK

LEMMA OwnRecipients == ASSUME NEW n \in Dialogs PROVE Recipients[n] \subseteq Transactions
BY DEF Transactions

\* What a report makes of a dialogue.
LEMMA CollectedOf ==
  ASSUME NEW f \in CountedForm, NEW t
  PROVE  LET g == collected(f, t) IN
         /\ g \in CountedForm
         /\ g.recipients = f.recipients
         /\ g.transactIds = f.transactIds \ {t}
         /\ t \notin f.transactIds => g = f
         /\ t \in f.transactIds =>
              /\ g.results = f.results + 1
              /\ g.successes = f.successes + (IF result[t] = "SM_SUCCESS" THEN 1 ELSE 0)
              /\ f.transactIds \ {t} # {} => g.at = "disabled"
              /\ f.transactIds \ {t} = {} =>
                   g.at = IF Cardinality(f.recipients) = g.successes THEN "allSent" ELSE "someNot"
<1> DEFINE successes == f.successes + (IF result[t] = "SM_SUCCESS" THEN 1 ELSE 0)
           left == f.transactIds \ {t}
           at == IF left # {} THEN "disabled"
                 ELSE IF Cardinality(f.recipients) = successes THEN "allSent" ELSE "someNot"
           g == collected(f, t)
<1>1. CASE t \notin f.transactIds
  <2>1. g = f
    BY <1>1 DEF collected
  <2> QED
    BY <1>1, <2>1 DEF CountedForm
<1>2. CASE t \in f.transactIds
  <2>1. g = [f EXCEPT !.transactIds = left, !.results = @ + 1, !.successes = successes, !.at = at]
    BY <1>2 DEF collected
  <2>2. successes \in Nat /\ f.results \in Nat
    BY DEF CountedForm
  <2>3. at \in {"disabled", "allSent", "someNot"}
    OBVIOUS
  <2>4. left \in SUBSET Transactions
    BY DEF CountedForm
  <2> HIDE DEF successes, at, left, g
  <2> DEFINE results == f.results + 1
             h == [f EXCEPT !.transactIds = left, !.results = results]
  <2>5. results \in Nat
    BY <2>2
  <2>6. g = [h EXCEPT !.successes = successes, !.at = at]
    BY <2>1
  <2> HIDE DEF results
  <2>8. /\ h \in CountedForm /\ h.recipients = f.recipients /\ h.transactIds = left
        /\ h.results = results
    BY <2>4, <2>5 DEF CountedForm
  <2> HIDE DEF h
  <2>7. /\ g \in CountedForm /\ g.recipients = f.recipients /\ g.transactIds = left
        /\ g.results = f.results + 1 /\ g.successes = successes /\ g.at = at
    BY <2>2, <2>3, <2>6, <2>8 DEF CountedForm, results
  <2>9. /\ left # {} => at = "disabled"
        /\ left = {} => at = IF Cardinality(f.recipients) = successes THEN "allSent" ELSE "someNot"
    BY DEF at
  <2>10. t \in f.transactIds =>
           /\ g.results = f.results + 1 /\ g.successes = successes
           /\ left # {} => g.at = "disabled"
           /\ left = {} =>
                g.at = IF Cardinality(f.recipients) = g.successes THEN "allSent" ELSE "someNot"
    BY <2>7, <2>9
  <2>11. /\ g \in CountedForm /\ g.recipients = f.recipients
         /\ g.transactIds = left /\ g.results = f.results + 1
         /\ g.successes = successes
         /\ left # {} => g.at = "disabled"
         /\ left = {} =>
              g.at = IF Cardinality(f.recipients) = g.successes THEN "allSent" ELSE "someNot"
    BY <1>2, <2>7, <2>10
  <2> QED
    BY <1>2, <2>11, Zenon DEF g, successes, left
<1> QED
  BY <1>1, <1>2

LEMMA AccountSetOf ==
  ASSUME FormTyped, NEW n \in Dialogs, NEW b \in BOOLEAN, AccountSet(n, b)
  PROVE  \E f \in CountedForm :
           /\ form' = [form EXCEPT ![n] = f]
           /\ f.at = "enabled" /\ f.recipients = {} /\ f.transactIds = form[n].transactIds
           /\ f.results = form[n].results /\ f.successes = form[n].successes
<1> DEFINE g == form[n]
           f == [g EXCEPT !.at = "enabled", !.loggedIn = b, !.recipients = {}]
<1>1. g \in CountedForm
  BY DEF FormTyped
<1>2. form' = [form EXCEPT ![n] = f]
  BY DEF FormTyped, AccountSet
<1> HIDE DEF g
<1>3. /\ f \in CountedForm
      /\ f.at = "enabled" /\ f.recipients = {} /\ f.transactIds = g.transactIds
      /\ f.results = g.results /\ f.successes = g.successes
  BY <1>1 DEF CountedForm
<1> QED
  BY <1>2, <1>3 DEF g

LEMMA PressedOf ==
  ASSUME FormTyped, NEW n \in Dialogs, Pressed(n)
  PROVE  \E f \in CountedForm :
           /\ form' = [form EXCEPT ![n] = f]
           /\ f.at = "disabled" /\ f.recipients = form[n].recipients
           /\ f.transactIds = form[n].recipients /\ f.results = 0 /\ f.successes = 0
<1> DEFINE g == form[n]
           h == [g EXCEPT !.at = "disabled", !.transactIds = g.recipients]
           f == [h EXCEPT !.results = 0, !.successes = 0]
<1>1. g \in CountedForm
  BY DEF FormTyped
<1>2. form' = [form EXCEPT ![n] = f]
  BY DEF FormTyped, Pressed
<1> HIDE DEF g
<1>3. /\ h \in CountedForm /\ h.at = "disabled" /\ h.recipients = g.recipients
      /\ h.transactIds = g.recipients
  BY <1>1 DEF CountedForm
<1> HIDE DEF h
<1>4. /\ f \in CountedForm /\ f.at = "disabled" /\ f.recipients = g.recipients
      /\ f.transactIds = g.recipients /\ f.results = 0 /\ f.successes = 0
  BY <1>3 DEF CountedForm
<1> QED
  BY <1>2, <1>4 DEF g

LEMMA FormOps ==
  ASSUME FormTyped, NEW n \in Dialogs
  PROVE  /\ \A b \in BOOLEAN : AccountSet(n, b) => FormTyped'
         /\ \A recipients : RecipientsSet(n, recipients) => FormTyped'
         /\ Pressed(n) => FormTyped'
         /\ \A at \in {"closed", "enabled"} : Answered(n, at) => FormTyped'
         /\ Closed(n) => FormTyped'
<1>1. form[n] \in CountedForm
  BY DEF FormTyped
<1>2. ASSUME NEW b \in BOOLEAN, AccountSet(n, b) PROVE FormTyped'
  <2>1. PICK f \in CountedForm : form' = [form EXCEPT ![n] = f]
    BY <1>2, AccountSetOf
  <2>2. UNCHANGED <<result, sent>>
    BY <1>2 DEF AccountSet
  <2> QED
    BY <2>1, <2>2 DEF FormTyped
<1>3. ASSUME NEW recipients, RecipientsSet(n, recipients) PROVE FormTyped'
  BY <1>3, OwnRecipients DEF FormTyped, RecipientsSet, CountedForm
<1>4. ASSUME Pressed(n) PROVE FormTyped'
  <2>1. PICK f \in CountedForm : form' = [form EXCEPT ![n] = f]
    BY <1>4, PressedOf
  <2>2. UNCHANGED <<result, sent>>
    BY <1>4 DEF Pressed
  <2> QED
    BY <2>1, <2>2 DEF FormTyped
<1>5. \A at \in {"closed", "enabled"} : NoForm(at) \in CountedForm
  BY DEF NoForm, CountedForm
<1>6. ASSUME NEW at \in {"closed", "enabled"}, Answered(n, at) PROVE FormTyped'
  <2>1. [form[n] EXCEPT !.at = at, !.results = 0, !.successes = 0] \in CountedForm
    BY <1>1 DEF CountedForm
  <2>2. form' \in [Dialogs -> CountedForm]
    BY <1>5, <1>6, <2>1 DEF FormTyped, Answered
  <2> QED
    BY <1>6, <2>2, ForgottenTyped DEF Answered, FormTyped
<1>7. ASSUME Closed(n) PROVE FormTyped'
  <2>1. form' \in [Dialogs -> CountedForm]
    BY <1>5, <1>7 DEF FormTyped, Closed
  <2> QED
    BY <1>7, <2>1, ForgottenTyped DEF Closed, FormTyped
<1> QED
  BY <1>2, <1>3, <1>4, <1>6, <1>7

LEMMA CollectTyped == ASSUME FormTyped, NEW t, Collect(t) PROVE FormTyped'
<1>1. form' \in [Dialogs -> CountedForm]
  BY CollectedOf DEF FormTyped, Collect
<1> QED
  BY <1>1, ForgottenTyped DEF Collect, FormTyped

\* The steps of the dialogues.
FormTopStep ==
  /\ stack # <<>> /\ StackOK(stack')
  /\ \E gone : Follows(stack, stack', {}, gone)
  /\ \/ Top.slot = "form" /\ \E b \in BOOLEAN : AccountSet(Top.form, b)
     \/ Top.slot = "box" /\ stack' = Caller /\ \E recipients : RecipientsSet(Top.form, recipients)

FormStep ==
  \/ FormTopStep
  \/ SendBuild \/ ToldClosed
  \/ \E t \in Transactions, r \in Results : WorkerReport /\ current = t /\ Sent(t, r)
  \/ \E t \in Transactions : CollectSendMessageStatus(t)
  \/ \E n \in Dialogs : DeleteRecipientEntries(n) \/ CloseSendMessageDialog(n)

\* All the others leave them alone.
LEMMA FormKinds ==
  ASSUME WindowInv, Next
  PROVE  UNCHANGED formVars \/ FormStep
<1>1. StackOK(stack)
  BY DEF WindowInv
<1>2. CASE Worker
  BY <1>2 DEF Worker, WorkerTake, WorkerReport, WorkerEnd, FormStep
<1>3. CASE Deliver
  BY <1>3 DEF Deliver, BackgroundWorkersFinished, Quit, CollectImportZfoStatus, FormStep
<1>4. CASE User
  BY <1>4 DEF User, SyncAll, SyncOne, DownloadAttachments, ImportZfo, CloseEvent,
     ShowSendMessageDialog, SetAccountInfo, AddRecipient, SendMessage, PingIsdsServer, FormStep
<1>7. ASSUME NEW at, Connected(at) PROVE UNCHANGED formVars \/ FormTopStep
  <2>1. CASE In("form", at) /\ AfterLogIn
    BY <1>1, <2>1, AfterLogInStack DEF In, AfterLogIn, FormTopStep, StackStep
  <2> QED
    BY <1>7, <2>1 DEF Connected
<1>5. CASE Continue
  <2>1. ASSUME InfoReturn PROVE UNCHANGED formVars \/ FormTopStep
    BY <1>7, <2>1 DEF InfoReturn
  <2>2. ASSUME AliveReturn PROVE UNCHANGED formVars \/ FormTopStep
    <3>1. CASE AfterLogIn
      BY <1>1, <2>2, <3>1, AfterLogInStack DEF AliveReturn, In, AfterLogIn, FormTopStep, StackStep
    <3> QED
      BY <2>2, <3>1 DEF AliveReturn
  <2>3. ASSUME BoxFound PROVE UNCHANGED formVars \/ FormTopStep
    BY <1>1, <2>3, MessageSlots DEF BoxFound, In, FormTopStep, StackStep
  <2> QED
    BY <1>5, <2>1, <2>2, <2>3 DEF Continue, AllNext, AllEnd, OneDisable, OneConnected, InfoPost,
       OneAssign, ImportAssign, CloseClear, MainWaited, MainEnd, AlivePost, CreditPost,
       CreditReturn, SendAssign, FormStep
<1>6. CASE Answer
  <2>1. ASSUME LogInFails PROVE UNCHANGED formVars \/ FormTopStep
    <3>1. CASE In("form", "login") /\ AccountSet(Top.form, FALSE)
      <4>1. StackStep({}, {"form"})
        BY <1>1, <2>1, <3>1, LogInFailsStack DEF In
      <4> QED
        BY <3>1, <4>1 DEF In, FormTopStep, StackStep
    <3> QED
      BY <2>1, <3>1 DEF LogInFails
  <2>2. ASSUME BoxAnswered PROVE UNCHANGED formVars \/ FormTopStep
    BY <1>1, <2>2, MessageSlots DEF BoxAnswered, In, FormTopStep, StackStep
  <2>3. ASSUME ExpiryAnswered PROVE UNCHANGED formVars \/ FormTopStep
    BY <1>7, <2>3 DEF ExpiryAnswered
  <2> QED
    BY <1>6, <2>1, <2>2, <2>3 DEF Answer, LoggedIn, CloseIgnored, CloseStop, ImportCancelled,
       ResultClosed, PaymentRefused, PaymentAgreed, ImportGiven, FormStep
<1> QED
  BY <1>2, <1>3, <1>4, <1>5, <1>6 DEF Next

LEMMA FormTypedStep ==
  ASSUME WindowInv, FormStep
  PROVE  FormTyped'
<1>1. FormTyped /\ StackOK(stack)
  BY DEF WindowInv
<1>2. CASE FormTopStep
  BY <1>1, <1>2, TopForm, FormOps DEF FormTopStep, FormSlots
<1>3. CASE SendBuild
  BY <1>1, <1>3, TopForm, FormOps DEF SendBuild, In, FormSlots
<1>4. CASE ToldClosed
  BY <1>1, <1>4, TopForm, FormOps DEF ToldClosed, In, FormSlots
<1>5. CASE \E t \in Transactions, r \in Results : WorkerReport /\ current = t /\ Sent(t, r)
  BY <1>1, <1>5, SentTyped
<1>6. CASE \E t \in Transactions : CollectSendMessageStatus(t)
  BY <1>1, <1>6, CollectTyped DEF CollectSendMessageStatus
<1>7. CASE \E n \in Dialogs : DeleteRecipientEntries(n) \/ CloseSendMessageDialog(n)
  BY <1>1, <1>7, FormOps DEF DeleteRecipientEntries, CloseSendMessageDialog
<1> QED
  BY <1>2, <1>3, <1>4, <1>5, <1>6, <1>7 DEF FormStep
-----------------------------------------------------------------------------
(* The slots and the end of main(). *)

LEMMA MainStep == ASSUME WindowInv, Next PROVE MainInv'
<1>1. MainInv
  BY DEF WindowInv
<1>2. \A slot, at : In(slot, at) => mainAt = "exec"
  BY <1>1 DEF MainInv, In
<1>3. ASSUME mainAt = "exec", mainAt' = mainAt PROVE MainInv'
  BY <1>3 DEF MainInv
<1>4. CASE Worker
  <2>1. mainAt' = mainAt /\ stack' = stack
    BY <1>4 DEF Worker, WorkerTake, WorkerReport, WorkerEnd, windowVars
  <2>2. ASSUME mainAt \in {"stop", "end"} PROVE FALSE
    <3>1. ~Working
      BY <1>1, <2>2 DEF MainInv
    <3>2. None \notin {"list"} \cup Files \cup Transactions
      BY ItemsAssumption DEF Tasks
    <3>3. ~WorkerTake
      BY <3>1 DEF WorkerTake, Take, Pending, Working
    <3>4. ~WorkerEnd
      BY <3>1 DEF WorkerEnd, EndOfTask, Working
    <3>5. ~WorkerReport
      BY <3>1, <3>2 DEF WorkerReport, Working
    <3> QED
      BY <1>4, <3>3, <3>4, <3>5 DEF Worker
  <2> QED
    BY <1>1, <2>1, <2>2 DEF MainInv
<1>5. CASE Deliver
  BY <1>3, <1>5 DEF Deliver, BackgroundWorkersFinished, Quit, CollectImportZfoStatus,
     CollectSendMessageStatus, Delivered, EventLoop, MainInv
<1>6. CASE User
  BY <1>3, <1>6 DEF User, SyncAll, SyncOne, DownloadAttachments, ImportZfo, CloseEvent,
     ShowSendMessageDialog, SetAccountInfo, AddRecipient, SendMessage, PingIsdsServer,
     DeleteRecipientEntries, CloseSendMessageDialog, WindowReachable, EventLoop, windowVars
<1>7. CASE Answer
  BY <1>2, <1>3, <1>7 DEF Answer, LoggedIn, LogInFails, ExpiryAnswered, Connected, Connecting,
     CloseIgnored, CloseStop, ImportCancelled, ResultClosed, BoxAnswered, PaymentRefused, PaymentAgreed, ToldClosed, ImportGiven
<1>8. CASE Continue
  <2>1. CASE MainWaited
    BY <1>1, <2>1 DEF MainWaited, MainInv, Working, SetTerminating
  <2>2. CASE MainEnd
    BY <1>1, <2>2 DEF MainEnd, MainInv, Working, poolVars
  <2>3. CASE AllNext \/ AllEnd \/ OneDisable \/ OneConnected \/ InfoPost \/ InfoReturn
    BY <1>2, <1>3, <2>3 DEF AllNext, AllEnd, OneDisable, OneConnected, InfoPost, InfoReturn,
       Connected, Connecting
  <2>4. CASE OneAssign \/ ImportAssign \/ CloseClear \/ AlivePost \/ AliveReturn
    BY <1>2, <1>3, <2>4 DEF OneAssign, ImportAssign, CloseClear, AlivePost, AliveReturn
  <2>5. CASE CreditPost \/ CreditReturn \/ BoxFound \/ SendBuild \/ SendAssign
    BY <1>2, <1>3, <2>5 DEF CreditPost, CreditReturn, BoxFound, SendBuild, SendAssign
  <2> QED
    BY <1>8, <2>1, <2>2, <2>3, <2>4, <2>5 DEF Continue
<1> QED
  BY <1>4, <1>5, <1>6, <1>7, <1>8 DEF Next

\* The steps that enter no slot about a dialogue.
PlainStep ==
  /\ StackOK(stack')
  /\ \E gone : Follows(stack, stack', {"all", "one", "close", "import", "imported"}, gone)

EnterForm(n) ==
  ShowSendMessageDialog(n) \/ SetAccountInfo(n) \/ AddRecipient(n) \/ SendMessage(n)

LEMMA StepIsPlain ==
  ASSUME NEW new \in SUBSET {"all", "one", "close", "import", "imported"}, NEW gone,
         StackStep(new, gone)
  PROVE  PlainStep
<1>1. Follows(stack, stack', {"all", "one", "close", "import", "imported"}, gone)
  BY DEF StackStep, Follows
<1> QED
  BY <1>1 DEF PlainStep, StackStep

LEMMA StackKinds ==
  ASSUME WindowInv, Next
  PROVE  \/ PlainStep
         \/ SendBuild \/ SendAssign
         \/ \E n \in Dialogs : EnterForm(n)
         \/ \E t \in Transactions : CollectSendMessageStatus(t)
<1> DEFINE new == {"all", "one", "close", "import", "imported"}
<1>1. StackOK(stack) /\ enabled \in BOOLEAN
  BY DEF WindowInv, WindowTyped
<1>2. ASSUME NEW gone, StackStep({}, gone) PROVE PlainStep
  BY <1>2, StepIsPlain
<1>3. ASSUME NEW slot \in new, StackStep({slot}, {}) PROVE PlainStep
  BY <1>3, StepIsPlain
<1>4. ASSUME stack' = stack PROVE PlainStep
  BY <1>1, <1>2, <1>4, StackStays
<1>5. CASE Worker
  BY <1>4, <1>5 DEF Worker, WorkerTake, WorkerReport, WorkerEnd, windowVars
<1>6. CASE Deliver
  BY <1>1, <1>3, <1>4, <1>6, WindowSlots DEF Deliver, BackgroundWorkersFinished, Quit
<1>7. CASE User
  <2>1. SyncAll \/ SyncOne \/ ImportZfo \/ CloseEvent => PlainStep
    BY <1>1, <1>3, WindowSlots
  <2>2. DownloadAttachments => PlainStep
    BY <1>4 DEF DownloadAttachments
  <2>3. ASSUME NEW n \in Dialogs
        PROVE  DeleteRecipientEntries(n) \/ CloseSendMessageDialog(n) \/ PingIsdsServer(n)
               => PlainStep
    BY <1>4 DEF DeleteRecipientEntries, CloseSendMessageDialog, PingIsdsServer, windowVars
  <2> QED
    BY <1>7, <2>1, <2>2, <2>3 DEF User, EnterForm
<1>8. CASE Answer
  <2>1. ExpiryAnswered => PlainStep
    BY <1>1, InfoReturnStack, StepIsPlain
  <2> QED
    BY <1>1, <1>2, <1>8, <2>1, SyncSlots, LogInFailsStack, MessageSlots, ImportSlots DEF Answer
<1>9. CASE Continue
  <2>1. AllNext => PlainStep
    BY <1>1, <1>3, AllNextStack DEF StackStep
  <2>2. InfoReturn => PlainStep
    BY <1>1, InfoReturnStack, StepIsPlain
  <2>3. OneAssign => PlainStep
    <3> SUFFICES ASSUME OneAssign PROVE PlainStep
      OBVIOUS
    <3>1. StackOK(stack') /\ Follows(stack, stack', {}, {"one"})
      BY <1>1, OneAssignStack
    <3>2. Follows(stack, stack', {"all", "one", "close", "import", "imported"}, {"one"})
      BY <3>1 DEF Follows
    <3> QED
      BY <3>1, <3>2 DEF PlainStep
  <2>4. AllEnd \/ OneDisable \/ OneConnected \/ InfoPost => PlainStep
    BY <1>1, <1>2, SyncSlots
  <2>5. ImportAssign \/ CloseClear => PlainStep
    BY <1>1, <1>2, ImportSlots
  <2>6. AlivePost \/ AliveReturn \/ CreditPost \/ CreditReturn \/ BoxFound => PlainStep
    BY <1>1, <1>2, MessageSlots
  <2>7. MainWaited \/ MainEnd => PlainStep
    BY <1>4 DEF MainWaited, MainEnd
  <2> QED
    BY <1>9, <2>1, <2>2, <2>3, <2>4, <2>5, <2>6, <2>7 DEF Continue
<1> QED
  BY <1>5, <1>6, <1>7, <1>8, <1>9 DEF Next
-----------------------------------------------------------------------------
(* Every step keeps the dialogues and the slots in agreement. *)

LEMMA TopStepForms == ASSUME WindowInv, FormTopStep PROVE FormsInv'
<1> DEFINE n == Top.form
<1>1. /\ FormTyped /\ StackOK(stack) /\ DialogsOK
      /\ \A i \in DOMAIN stack : FrameFits(stack[i], form)
  BY DEF WindowInv, FormsInv
<1>2. /\ stack # <<>> /\ Top.slot \in {"form", "box"} /\ n \in Dialogs
      /\ StackOK(stack') /\ \E gone : Follows(stack, stack', {}, gone)
  BY <1>1, TopForm DEF FormTopStep, FormSlots
<1>3. FrameFits(Top, form)
  BY <1>1, <1>2, EmptySeq DEF Top, StackOK
<1>4. CASE Top.slot = "form" /\ \E b \in BOOLEAN : AccountSet(n, b)
  <2>1. PICK f \in CountedForm :
          /\ form' = [form EXCEPT ![n] = f]
          /\ f.at = "enabled" /\ f.recipients = {} /\ f.transactIds = form[n].transactIds
    BY <1>1, <1>2, <1>4, AccountSetOf
  <2>2. form[n].at \in {"unopened", "enabled"}
    BY <1>3, <1>4 DEF FrameFits
  <2>3. DialogsOK'
    BY <1>1, <1>2, <2>1, <2>2 DEF DialogsOK, FormTyped
  <2>4. FrameFits(Top, form')
    BY <1>1, <1>2, <1>4, <2>1 DEF FrameFits, FormTyped
  <2> QED
    BY <1>1, <1>2, <2>3, <2>4, FormsStep
<1>5. CASE Top.slot = "box" /\ stack' = Caller
           /\ \E recipients : RecipientsSet(n, recipients)
  <2>1. PICK recipients : RecipientsSet(n, recipients)
    BY <1>5
  <2>2. form[n].at = "enabled"
    BY <1>3, <1>5 DEF FrameFits
  <2>3. DialogsOK'
    BY <1>1, <1>2, <2>1, <2>2 DEF DialogsOK, FormTyped, RecipientsSet, CountedForm
  <2> QED
    BY <1>1, <1>2, <1>5, <2>3, FormsStep
<1> QED
  BY <1>4, <1>5 DEF FormTopStep

LEMMA DeleteForms ==
  ASSUME WindowInv, NEW n \in Dialogs, DeleteRecipientEntries(n) \/ CloseSendMessageDialog(n)
  PROVE  FormsInv'
<1>1. FormTyped /\ StackOK(stack) /\ DialogsOK /\ WindowReachable /\ stack' = stack
  BY DEF WindowInv, FormsInv, DeleteRecipientEntries, CloseSendMessageDialog, windowVars
<1>2. \A i \in DOMAIN stack' : stack'[i].slot \in Plain
  BY <1>1, PlainReachable
<1>3. CASE DeleteRecipientEntries(n)
  <2>1. PICK recipients : RecipientsSet(n, recipients)
    BY <1>3 DEF DeleteRecipientEntries
  <2>2. form[n].at = "enabled"
    BY <1>3 DEF DeleteRecipientEntries
  <2>3. DialogsOK'
    BY <1>1, <2>1, <2>2 DEF DialogsOK, FormTyped, RecipientsSet, CountedForm
  <2> QED
    BY <1>2, <2>3 DEF FormsInv, FrameFits, Plain
<1>4. CASE CloseSendMessageDialog(n)
  <2>1. form' = [form EXCEPT ![n] = NoForm("closed")]
    BY <1>4 DEF CloseSendMessageDialog, Closed
  <2>2. DialogsOK'
    BY <1>1, <2>1 DEF DialogsOK, FormTyped, NoForm
  <2> QED
    BY <1>2, <2>2 DEF FormsInv, FrameFits, Plain
<1> QED
  BY <1>3, <1>4

LEMMA SendBuildForms == ASSUME WindowInv, SendBuild PROVE StackOK(stack') /\ FormsInv'
<1> DEFINE n == Top.form
<1>1. /\ FormTyped /\ StackOK(stack) /\ DialogsOK
      /\ \A i \in DOMAIN stack : FrameFits(stack[i], form)
  BY DEF WindowInv, FormsInv
<1>2. /\ stack # <<>> /\ Top.slot = "send" /\ Top.unsent = {} /\ n \in Dialogs
  BY <1>1, Somewhere, TopForm DEF SendBuild, FormSlots
<1>3. FrameFits(Top, form)
  BY <1>1, <1>2, EmptySeq DEF Top, StackOK
<1>4. form[n].recipients \in (SUBSET Transactions) \ {{}}
  BY <1>1, <1>2, <1>3 DEF FrameFits, FormTyped, CountedForm
<1>5. /\ StackOK(stack') /\ OnlyTop
      /\ Top'.unsent = form[n].recipients
  BY <1>1, <1>4, SendBuildStack
<1>6. PICK f \in CountedForm :
        /\ form' = [form EXCEPT ![n] = f]
        /\ f.at = "disabled" /\ f.recipients = form[n].recipients
        /\ f.transactIds = form[n].recipients
  BY <1>1, <1>2, PressedOf DEF SendBuild
<1>7. DialogsOK'
  BY <1>1, <1>2, <1>4, <1>6 DEF DialogsOK, FormTyped
<1>8. FrameFits(Top', form')
  BY <1>1, <1>2, <1>4, <1>5, <1>6 DEF FrameFits, FormTyped, OnlyTop
<1>9. \A i \in DOMAIN stack : i < Len(stack) => stack[i].slot \in Plain
  BY <1>1, <1>2, PlainBelow
<1>10. DOMAIN stack = 1 .. Len(stack) /\ Len(stack) \in Nat
  BY <1>1 DEF StackOK
<1>11. \A i \in DOMAIN stack' : i < Len(stack') => stack'[i].slot \in Plain
  BY <1>5, <1>9, <1>10 DEF OnlyTop
<1>12. stack' \in Seq(Frames)
  BY <1>5 DEF StackOK
<1> QED
  BY <1>5, <1>7, <1>8, <1>11, <1>12, FormsTop

LEMMA SendAssignForms == ASSUME WindowInv, SendAssign PROVE StackOK(stack') /\ FormsInv'
<1>1. /\ StackOK(stack) /\ DialogsOK
      /\ \A i \in DOMAIN stack : FrameFits(stack[i], form)
  BY DEF WindowInv, FormsInv
<1>2. form' = form
  BY DEF SendAssign, formVars
<1>3. PICK t \in Top.unsent :
        /\ Top.slot = "send" /\ stack # <<>> /\ StackOK(stack')
        /\ \/ Top.unsent = {t} /\ stack' = Caller
           \/ OnlyTop /\ Top'.unsent = Top.unsent \ {t}
  BY <1>1, SendAssignStack
<1>4. FrameFits(Top, form)
  BY <1>1, <1>3, EmptySeq DEF Top, StackOK
<1>5. \A i \in DOMAIN stack : i < Len(stack) => stack[i].slot \in Plain
  BY <1>1, <1>3, PlainBelow
<1>6. DOMAIN stack = 1 .. Len(stack) /\ Len(stack) \in Nat
  BY <1>1 DEF StackOK
<1>7. DialogsOK'
  BY <1>1, <1>2 DEF DialogsOK
<1>8. stack' \in Seq(Frames)
  BY <1>3 DEF StackOK
<1>9. CASE stack' = Caller
  <2>1. /\ Len(stack') = Len(stack) - 1 /\ DOMAIN stack' = 1 .. Len(stack) - 1
        /\ \A i \in 1 .. Len(stack) - 1 : stack'[i] = stack[i]
    BY <1>1, <1>3, <1>9, Popped DEF Caller, StackOK
  <2>2. \A i \in DOMAIN stack' : stack'[i].slot \in Plain
    BY <1>5, <1>6, <2>1
  <2> QED
    BY <1>3, <1>7, <2>2 DEF FormsInv, FrameFits, Plain
<1>10. CASE OnlyTop /\ Top'.unsent = Top.unsent \ {t} /\ stack' # Caller
  <2>1. \A i \in DOMAIN stack' : i < Len(stack') => stack'[i].slot \in Plain
    BY <1>5, <1>6, <1>10 DEF OnlyTop
  <2>2. Top'.unsent # {}
    <3>1. Top'.slot = "send" /\ Top'.at = "assign" /\ stack' # <<>>
      BY <1>1, <1>3, <1>10, SendAssignStack DEF OnlyTop
    <3>2. stack'[Len(stack')] \in Frames /\ FrameOK(stack'[Len(stack')])
      BY <1>3, <3>1, EmptySeq DEF StackOK
    <3> QED
      BY <3>1, <3>2 DEF FrameOK, Top
  <2>3. FrameFits(Top', form')
    BY <1>2, <1>3, <1>4, <1>10, <2>2 DEF FrameFits, OnlyTop
  <2> QED
    BY <1>3, <1>7, <1>8, <2>1, <2>3, FormsTop
<1> QED
  BY <1>3, <1>9, <1>10

\* The box is closed: no other slot is about its dialogue.
LEMMA ToldForms == ASSUME WindowInv, ToldClosed PROVE FormsInv'
<1> DEFINE n == Top.form
<1>1. /\ FormTyped /\ StackOK(stack) /\ DialogsOK
      /\ \A i \in DOMAIN stack : FrameFits(stack[i], form)
      /\ \A i, j \in DOMAIN stack :
           stack[i].slot = "told" /\ stack[j].slot = "told" /\ stack[i].form = stack[j].form
           => i = j
  BY DEF WindowInv, FormsInv
<1>2. stack # <<>> /\ Top.slot = "told" /\ n \in Dialogs /\ stack' = Caller
  BY <1>1, Somewhere, TopForm DEF ToldClosed, FormSlots
<1>3. /\ DOMAIN stack = 1 .. Len(stack) /\ Len(stack) \in Nat \ {0}
      /\ Len(stack') = Len(stack) - 1 /\ DOMAIN stack' = 1 .. Len(stack) - 1
      /\ \A i \in 1 .. Len(stack) - 1 : stack'[i] = stack[i]
  BY <1>1, <1>2, Popped, EmptySeq DEF Caller, StackOK
<1>4. form[n].at \in {"allSent", "someNot"}
  <2>1. FrameFits(Top, form)
    BY <1>1, <1>2, <1>3 DEF Top
  <2> QED
    BY <1>2, <2>1 DEF FrameFits
<1>5. PICK at \in {"closed", "enabled"} : Answered(n, at)
  BY DEF ToldClosed
<1>6. /\ \A k \in Dialogs \ {n} : form'[k] = form[k]
      /\ form'[n].recipients \in {{}, form[n].recipients}
      /\ form'[n].transactIds \in {{}, form[n].transactIds}
      /\ form'[n].at \in {"closed", "enabled"}
  BY <1>1, <1>2, <1>5 DEF Answered, FormTyped, CountedForm, NoForm
<1>7. DialogsOK'
  BY <1>1, <1>2, <1>4, <1>6 DEF DialogsOK
<1>8. ASSUME NEW i \in 1 .. Len(stack) - 1, stack[i].form = n, stack[i].slot \in FormSlots
      PROVE  FALSE
  <2>1. i \in DOMAIN stack /\ i # Len(stack) /\ Len(stack) \in DOMAIN stack
    BY <1>3
  <2>2. FrameFits(stack[i], form)
    BY <1>1, <2>1
  <2>3. stack[i].slot = "told"
    BY <1>4, <1>8, <2>2 DEF FrameFits, FormSlots
  <2> QED
    BY <1>1, <1>2, <1>8, <2>1, <2>3 DEF Top
<1>9. \A i \in 1 .. Len(stack) - 1 :
        stack[i].slot \in FormSlots => stack[i].form \in Dialogs \ {n}
  <2> SUFFICES ASSUME NEW i \in 1 .. Len(stack) - 1, stack[i].slot \in FormSlots
               PROVE  stack[i].form \in Dialogs \ {n}
    OBVIOUS
  <2>1. stack[i] \in Frames /\ FrameOK(stack[i])
    BY <1>1, <1>3 DEF StackOK
  <2> QED
    BY <1>8, <2>1, FramesNamed DEF FrameOK
<1>10. \A i \in DOMAIN stack' : FrameFits(stack'[i], form')
  <2> SUFFICES ASSUME NEW i \in 1 .. Len(stack) - 1 PROVE FrameFits(stack[i], form')
    BY <1>3
  <2>1. FrameFits(stack[i], form)
    BY <1>1, <1>3
  <2> QED
    BY <1>6, <1>9, <2>1 DEF FrameFits, FormSlots
<1>11. \A i, j \in DOMAIN stack' :
        stack'[i].slot = "told" /\ stack'[j].slot = "told" /\ stack'[i].form = stack'[j].form
        => i = j
  BY <1>1, <1>3
<1> QED
  BY <1>7, <1>10, <1>11 DEF FormsInv

\* A report completes at most one dialogue, which no other box tells of.
LEMMA CollectForms ==
  ASSUME WindowInv, NEW t \in Transactions, CollectSendMessageStatus(t)
  PROVE  StackOK(stack') /\ FormsInv'
<1>1. /\ FormTyped /\ StackOK(stack) /\ DialogsOK
      /\ \A i \in DOMAIN stack : FrameFits(stack[i], form)
      /\ \A i, j \in DOMAIN stack :
           stack[i].slot = "told" /\ stack[j].slot = "told" /\ stack[i].form = stack[j].form
           => i = j
  BY DEF WindowInv, FormsInv
<1>2. EventLoop /\ StackStep({"told"}, {})
  BY <1>1, CollectSendStack DEF CollectSendMessageStatus, Delivered
<1>3. \A n \in Dialogs :
        /\ form'[n].recipients = form[n].recipients
        /\ form'[n].transactIds = form[n].transactIds \ {t}
        /\ t \notin form[n].transactIds => form'[n] = form[n]
        /\ t \in form[n].transactIds =>
             form'[n].at \in {"disabled", "allSent", "someNot"}
             /\ (form'[n].at = "disabled" <=> form[n].transactIds \ {t} # {})
  <2> SUFFICES ASSUME NEW n \in Dialogs
               PROVE  /\ form'[n].recipients = form[n].recipients
                      /\ form'[n].transactIds = form[n].transactIds \ {t}
                      /\ t \notin form[n].transactIds => form'[n] = form[n]
                      /\ t \in form[n].transactIds =>
                           form'[n].at \in {"disabled", "allSent", "someNot"}
                           /\ (form'[n].at = "disabled" <=> form[n].transactIds \ {t} # {})
    OBVIOUS
  <2>1. form'[n] = collected(form[n], t) /\ form[n] \in CountedForm
    BY <1>1 DEF CollectSendMessageStatus, Collect, FormTyped
  <2> QED
    BY <2>1, CollectedOf
<1>4. DialogsOK'
  BY <1>1, <1>3 DEF DialogsOK
<1>5. \A n \in Dialogs : form[n].at # "disabled" => form'[n] = form[n]
  BY <1>1, <1>3 DEF DialogsOK
<1>6. \A i \in DOMAIN stack :
        stack[i].unsent = {} /\ (stack[i].slot \in FormSlots => stack[i].form \in Dialogs)
  <2> SUFFICES ASSUME NEW i \in DOMAIN stack
               PROVE  /\ stack[i].unsent = {}
                      /\ stack[i].slot \in FormSlots => stack[i].form \in Dialogs
    OBVIOUS
  <2>1. stack[i] \in Frames /\ FrameOK(stack[i])
    BY <1>1 DEF StackOK
  <2>2. stack[i].at # "assign"
    <3>1. CASE i < Len(stack)
      BY <1>1, <3>1 DEF StackOK, Nested, Loops, Dialogues
    <3>2. CASE i = Len(stack)
      BY <1>2, <3>2 DEF EventLoop, Top, Dialogues
    <3> QED
      BY <1>1, <3>1, <3>2 DEF StackOK
  <2> QED
    BY <2>1, <2>2, FramesNamed DEF FrameOK
<1>7. \A i \in DOMAIN stack : FrameFits(stack[i], form')
  <2> SUFFICES ASSUME NEW i \in DOMAIN stack PROVE FrameFits(stack[i], form')
    OBVIOUS
  <2>1. FrameFits(stack[i], form) /\ stack[i].unsent = {}
    BY <1>1, <1>6
  <2>2. stack[i].slot \in FormSlots => form'[stack[i].form] = form[stack[i].form]
    BY <1>5, <1>6, <2>1 DEF FrameFits, FormSlots
  <2> QED
    BY <2>1, <2>2 DEF FrameFits, FormSlots
<1>8. CASE Completed = {}
  <2>1. stack' = stack
    BY <1>8 DEF CollectSendMessageStatus
  <2> QED
    BY <1>1, <1>2, <1>4, <1>7, <2>1 DEF FormsInv, StackStep
<1>9. CASE Completed # {}
  <2> DEFINE n == CHOOSE k \in Completed : TRUE
             f == FormFrame("told", "ask", n)
  <2>1. n \in Dialogs /\ form[n].at = "disabled" /\ form'[n].at \in {"allSent", "someNot"}
    BY <1>9 DEF Completed
  <2>2. stack' = Append(stack, f)
    BY <1>9 DEF CollectSendMessageStatus
  <2> HIDE DEF n
  <2>3. f \in Frames /\ f.slot = "told" /\ f.form = n
    BY <2>1, FormFrameMade, Places DEF FormSlots
  <2> HIDE DEF f
  <2>4. /\ DOMAIN stack = 1 .. Len(stack) /\ Len(stack) \in Nat
        /\ DOMAIN stack' = 1 .. Len(stack) + 1
        /\ \A i \in 1 .. Len(stack) : stack'[i] = stack[i]
        /\ stack'[Len(stack) + 1] = f
    BY <1>1, <2>2, <2>3, Pushed DEF StackOK
  <2>5. FrameFits(f, form')
    BY <2>1, <2>3 DEF FrameFits
  <2>6. \A i \in DOMAIN stack' : FrameFits(stack'[i], form')
    BY <1>7, <2>4, <2>5
  <2>7. \A i \in DOMAIN stack : ~(stack[i].slot = "told" /\ stack[i].form = n)
    BY <1>1, <2>1 DEF FrameFits
  <2>8. \A i, j \in DOMAIN stack' :
          stack'[i].slot = "told" /\ stack'[j].slot = "told" /\ stack'[i].form = stack'[j].form
          => i = j
    BY <1>1, <2>3, <2>4, <2>7
  <2> QED
    BY <1>2, <1>4, <2>6, <2>8 DEF FormsInv, StackStep
<1> QED
  BY <1>8, <1>9

LEMMA EnterForms ==
  ASSUME WindowInv, NEW n \in Dialogs, EnterForm(n)
  PROVE  StackOK(stack') /\ FormsInv'
<1>1. FormsInv /\ StackOK(stack) /\ WindowReachable /\ form' = form
  BY DEF WindowInv, EnterForm, ShowSendMessageDialog, SetAccountInfo, AddRecipient, SendMessage,
     formVars
<1>2. StackOK(stack')
  BY <1>1, FormSlotsEntered DEF EnterForm, StackStep
<1>3. CASE ShowSendMessageDialog(n) \/ SetAccountInfo(n)
  <2>1. "alive" \in PlacesOf("form")
    BY Places
  <2>2. /\ stack' = Append(stack, FormFrame("form", "alive", n))
        /\ form[n].at \in {"unopened", "enabled"}
    BY <1>3 DEF ShowSendMessageDialog, SetAccountInfo
  <2> QED
    BY <1>1, <1>2, <2>1, <2>2, FormsEnter
<1>4. CASE AddRecipient(n)
  <2>1. "info" \in PlacesOf("box")
    BY Places
  <2>2. stack' = Append(stack, FormFrame("box", "info", n)) /\ form[n].at = "enabled"
    BY <1>4 DEF AddRecipient
  <2> QED
    BY <1>1, <1>2, <2>1, <2>2, FormsEnter
<1>5. CASE SendMessage(n)
  <2>1. PICK at \in {"ask", "build"} : stack' = Append(stack, FormFrame("send", at, n))
    BY <1>5 DEF SendMessage
  <2>2. at \in PlacesOf("send")
    BY Places
  <2>3. form[n].at = "enabled" /\ form[n].recipients # {}
    BY <1>5 DEF SendMessage, SendEnabled
  <2> QED
    BY <1>1, <1>2, <2>1, <2>2, <2>3, FormsEnter
<1> QED
  BY <1>3, <1>4, <1>5 DEF EnterForm

LEMMA FormsKept == ASSUME WindowInv, Next PROVE StackOK(stack') /\ FormsInv'
<1> DEFINE new == {"all", "one", "close", "import", "imported"}
<1>1. FormsInv
  BY DEF WindowInv
<1>2. \/ SendBuild \/ SendAssign
      \/ \E n \in Dialogs : EnterForm(n)
      \/ \E t \in Transactions : CollectSendMessageStatus(t)
      => StackOK(stack') /\ FormsInv'
  BY SendBuildForms, SendAssignForms, EnterForms, CollectForms
<1>3. ASSUME PlainStep, form' = form PROVE StackOK(stack') /\ FormsInv'
  <2>1. PICK gone : Follows(stack, stack', new, gone)
    BY <1>3 DEF PlainStep
  <2>2. new \cap FormSlots = {}
    BY DEF FormSlots
  <2> HIDE DEF new
  <2> QED
    BY <1>1, <1>3, <2>1, <2>2, FormsNeutral DEF PlainStep
<1>4. ASSUME PlainStep, FormStep PROVE StackOK(stack') /\ FormsInv'
  <2>1. CASE FormTopStep
    BY <1>4, <2>1, TopStepForms DEF PlainStep
  <2>2. CASE ToldClosed
    BY <1>4, <2>2, ToldForms DEF PlainStep
  <2>3. CASE \E t \in Transactions, r \in Results : WorkerReport /\ current = t /\ Sent(t, r)
    BY <1>3, <1>4, <2>3 DEF Sent
  <2>4. CASE \E n \in Dialogs : DeleteRecipientEntries(n) \/ CloseSendMessageDialog(n)
    BY <1>4, <2>4, DeleteForms DEF PlainStep
  <2> QED
    BY <1>2, <1>4, <2>1, <2>2, <2>3, <2>4 DEF FormStep
<1> QED
  BY <1>2, <1>3, <1>4, FormKinds, StackKinds DEF formVars

LEMMA WindowTypedStep == ASSUME WindowInv, Next PROVE WindowTyped' /\ QueuesTyped'
BY TypedUser, TypedWorker, TypedDeliver, TypedAnswer, TypedContinue DEF Next, User

LEMMA WindowInit == ASSUME Init PROVE WindowInv
<1> USE DEF Init, PoolInit, FormInit
<1>1. FormTyped
  BY DEF FormTyped, NoForm, CountedForm, Results
<1>2. WindowTyped
  <2>1. <<>> \in Seq(EventSet) /\ <<>> \in Seq(Files) /\ 0 \in 0 .. MaxOps
    BY WindowAssumption
  <2> QED
    BY <2>1 DEF WindowTyped
<1>3. QueuesTyped
  BY EmptySeq, ItemsAssumption DEF QueuesTyped, Tasks
<1>4. stack = <<>> /\ DOMAIN stack = {} /\ stack \in Seq(Frames)
  BY EmptySeq
<1>5. StackOK(stack) /\ MainInv
  BY <1>4 DEF StackOK, Nested, MainInv
<1>6. FormsInv
  BY <1>4 DEF FormsInv, DialogsOK, NoForm
<1> QED
  BY <1>1, <1>2, <1>3, <1>5, <1>6 DEF WindowInv

LEMMA WindowNext == ASSUME WindowInv, [Next]_vars PROVE WindowInv'
<1>1. CASE Next
  <2>1. FormTyped'
    BY <1>1, FormKinds, FormTypedStep, FormUnchanged DEF WindowInv
  <2>2. StackOK(stack)'
    BY <1>1, FormsKept
  <2> QED
    BY <1>1, <2>1, <2>2, WindowTypedStep, MainStep, FormsKept DEF WindowInv
<1>2. CASE UNCHANGED vars
  <2> USE <1>2 DEF vars, windowVars, importVars, formVars, buttonVars, poolVars
  <2>1. FormTyped' /\ WindowTyped' /\ QueuesTyped' /\ MainInv'
    BY DEF WindowInv, FormTyped, WindowTyped, QueuesTyped, MainInv, Working
  <2>2. StackOK(stack)' /\ FormsInv'
    BY DEF WindowInv, FormsInv, DialogsOK
  <2> QED
    BY <2>1, <2>2 DEF WindowInv
<1> QED
  BY <1>1, <1>2

LEMMA WindowAlways == Spec => []WindowInv
BY WindowInit, WindowNext, PTL DEF Spec

\* However the slots were nested, no queue, no slot and no worker holds a task when
\* main() ends: nothing is assigned after its wait.  What clear() has removed when the
\* window was closed was dropped; the theorem does not speak of it.
THEOREM NothingLost == Spec => []NothingDropped
<1>1. WindowInv => NothingDropped
  BY DEF WindowInv, MainInv, NothingDropped, Working
<1> QED
  BY <1>1, WindowAlways, PTL
-----------------------------------------------------------------------------
(* A quiet window is ready. *)

Occurs(x, q) == \E i \in DOMAIN q : q[i] = x

LEMMA OccursAppend ==
  ASSUME NEW S, NEW q \in Seq(S), NEW y \in S, NEW x
  PROVE  Occurs(x, Append(q, y)) <=> Occurs(x, q) \/ x = y
<1>1. /\ DOMAIN q = 1 .. Len(q) /\ Len(q) \in Nat
      /\ DOMAIN Append(q, y) = 1 .. Len(q) + 1
      /\ \A i \in 1 .. Len(q) : Append(q, y)[i] = q[i]
      /\ Append(q, y)[Len(q) + 1] = y
  BY Pushed
<1> QED
  BY <1>1 DEF Occurs

LEMMA OccursPrepend ==
  ASSUME NEW S, NEW q \in Seq(S), NEW y \in S, NEW x
  PROVE  Occurs(x, <<y>> \o q) <=> Occurs(x, q) \/ x = y
<1> DEFINE r == <<y>> \o q
<1>1. /\ DOMAIN q = 1 .. Len(q) /\ Len(q) \in Nat
      /\ DOMAIN r = 1 .. Len(q) + 1
      /\ \A i \in 1 .. Len(q) : r[i + 1] = q[i]
      /\ r[1] = y
  BY Prepended
<1> HIDE DEF r
<1>2. \A i \in DOMAIN q : i + 1 \in DOMAIN r /\ r[i + 1] = q[i]
  BY <1>1
<1>3. \A i \in DOMAIN r : i = 1 \/ (i - 1 \in DOMAIN q /\ r[i] = q[i - 1])
  BY <1>1
<1>4. 1 \in DOMAIN r
  BY <1>1
<1>5. Occurs(x, r) => Occurs(x, q) \/ x = y
  BY <1>1, <1>3 DEF Occurs
<1>6. Occurs(x, q) \/ x = y => Occurs(x, r)
  BY <1>1, <1>2, <1>4 DEF Occurs
<1> QED
  BY <1>5, <1>6, Zenon DEF r

LEMMA OccursTail ==
  ASSUME NEW S, NEW q \in Seq(S), q # <<>>, NEW x
  PROVE  Occurs(x, q) <=> Occurs(x, Tail(q)) \/ x = Head(q)
<1>1. /\ DOMAIN q = 1 .. Len(q) /\ Len(q) \in Nat \ {0}
      /\ DOMAIN Tail(q) = 1 .. Len(q) - 1
      /\ \A i \in 1 .. Len(q) - 1 : Tail(q)[i] = q[i + 1]
      /\ Head(q) = q[1]
  BY HeadTailProperties
<1>2. \A i \in DOMAIN Tail(q) : i + 1 \in DOMAIN q /\ Tail(q)[i] = q[i + 1]
  BY <1>1
<1>3. \A i \in DOMAIN q : i = 1 \/ (i - 1 \in DOMAIN Tail(q) /\ Tail(q)[i - 1] = q[i])
  BY <1>1
<1>4. 1 \in DOMAIN q
  BY <1>1
<1> QED
  BY <1>1, <1>2, <1>3, <1>4 DEF Occurs

\* Somebody will restart the timer and enable the buttons: a task is there whose
\* batch is going to end, or the end of a batch is to be delivered.
BatchOn ==
  hi # <<>> \/ lo # <<>> \/ current \notin {None, "info"} \/ Occurs("assignedFinished", events)

\* Who stops the timer, disables the buttons or the import has not yet found out
\* whether there is a batch, or there is one.
ReadyInv ==
  ~closed =>
    /\ timer \/ BatchOn
         \/ \E i \in DOMAIN stack : stack[i].slot = "all" /\ ~stack[i].appended
    /\ enabled \/ restored \/ BatchOn
         \/ \E i \in DOMAIN stack : stack[i].slot = "one" /\ stack[i].at # "processEvents1"
    /\ importable \/ fruitless \/ BatchOn
         \/ \E i \in DOMAIN stack : stack[i].slot = "import" /\ stack[i].at = "assign"

LEMMA ReadyBatch == BatchOn' \/ closed' => ReadyInv'
BY DEF ReadyInv

LEMMA ReadyStep ==
  ASSUME ReadyInv, BatchOn => BatchOn', closed => closed', NEW new, NEW gone,
         Follows(stack, stack', new, gone), SameAppended(stack, stack'),
         timer \/ "all" \in gone => timer',
         enabled \/ restored \/ "one" \in gone => enabled' \/ restored',
         importable \/ fruitless \/ "import" \in gone => importable' \/ fruitless'
  PROVE  ReadyInv'
<1> SUFFICES ASSUME ~closed', ~BatchOn' PROVE ReadyInv'
  BY ReadyBatch
<1>1. \A i \in DOMAIN stack : stack[i].slot \notin gone =>
        /\ i \in DOMAIN stack' /\ stack'[i].slot = stack[i].slot
        /\ stack'[i].appended = stack[i].appended
        /\ stack[i].at = "assign" => stack'[i].at = "assign"
        /\ stack[i].at # "processEvents1" => stack'[i].at # "processEvents1"
  BY DEF Follows, SameAppended
<1>2. timer' \/ \E i \in DOMAIN stack' : stack'[i].slot = "all" /\ ~stack'[i].appended
  BY <1>1 DEF ReadyInv
<1>3. enabled' \/ restored'
        \/ \E i \in DOMAIN stack' : stack'[i].slot = "one" /\ stack'[i].at # "processEvents1"
  BY <1>1 DEF ReadyInv
<1>4. importable' \/ fruitless'
        \/ \E i \in DOMAIN stack' : stack'[i].slot = "import" /\ stack'[i].at = "assign"
  BY <1>1 DEF ReadyInv
<1> QED
  BY <1>2, <1>3, <1>4 DEF ReadyInv

\* A batch ends when its end is delivered, or is dropped when the window closes.
LEMMA BatchPut ==
  ASSUME QueuesTyped
  PROVE  /\ \A x \in {"list", "download"} \cup Files : \A order : PutLo(x, order) => BatchOn'
         /\ \A x \in {"download", "ping"} \cup Transactions : \A order : PutHi(x, order) => BatchOn'
<1>1. ASSUME NEW x \in {"list", "download"} \cup Files, NEW order, PutLo(x, order)
      PROVE  BatchOn'
  <2>1. lo' = Put(lo, x, order)
    BY <1>1 DEF PutLo
  <2> QED
    BY <2>1, PutTyped DEF QueuesTyped, BatchOn
<1>2. ASSUME NEW x \in {"download", "ping"} \cup Transactions, NEW order, PutHi(x, order)
      PROVE  BatchOn'
  <2>1. hi' = Put(hi, x, order)
    BY <1>2 DEF PutHi
  <2> QED
    BY <2>1, PutTyped DEF QueuesTyped, BatchOn
<1> QED
  BY <1>1, <1>2

LEMMA BatchSame ==
  BatchOn /\ UNCHANGED <<hi, lo, current, events>> => BatchOn'
BY DEF BatchOn

LEMMA BatchWorker == ASSUME WindowInv, Worker, BatchOn PROVE BatchOn'
<1>1. WindowTyped /\ QueuesTyped
  BY DEF WindowInv
<1>2. None \notin {"list", "download", "info", "ping"} \cup Files \cup Transactions
      /\ "info" \notin Files \cup Transactions
  BY ItemsAssumption DEF Tasks
<1>3. CASE WorkerTake
  <2>1. events' = events /\ Take
    BY <1>3 DEF WorkerTake, windowVars
  <2>2. CASE Pending
    BY <1>1, <2>1, <2>2 DEF Take, Pending, BatchOn, QueuesTyped
  <2>3. CASE ~Pending /\ hi # <<>>
    <3>1. Head(hi) \in {"download", "ping"} \cup Transactions /\ current' = Head(hi)
      BY <1>1, <2>1, <2>3, HeadTailProperties DEF Take, QueuesTyped
    <3> QED
      BY <1>2, <3>1 DEF BatchOn
  <2>4. CASE ~Pending /\ hi = <<>>
    <3>1. Head(lo) \in {"list", "download"} \cup Files /\ current' = Head(lo)
      BY <1>1, <2>1, <2>4, HeadTailProperties DEF Take, QueuesTyped
    <3> QED
      BY <1>2, <3>1 DEF BatchOn
  <2> QED
    BY <2>2, <2>3, <2>4
<1>4. CASE WorkerReport
  <2>1. CASE PutLo("download", "PREPEND")
    BY <1>1, <2>1, BatchPut
  <2>2. CASE /\ UNCHANGED poolVars /\ events' = Append(events, current)
             /\ current \in Files \cup Transactions
    <3>1. current \in EventSet /\ events \in Seq(EventSet)
      BY <1>1, <2>2 DEF EventSet, WindowTyped
    <3>2. Occurs("assignedFinished", events) => Occurs("assignedFinished", events')
      BY <2>2, <3>1, OccursAppend
    <3> QED
      BY <2>2, <3>2 DEF BatchOn, poolVars
  <2> QED
    BY <1>4, <2>1, <2>2 DEF WorkerReport
<1>5. CASE WorkerEnd
  <2>1. /\ EndOfTask /\ hi' = hi /\ lo' = lo
        /\ events' = IF emitted' = "assignedFinished"
                     THEN Append(events, "assignedFinished") ELSE events
    BY <1>5 DEF WorkerEnd, EndOfTask
  <2>2. "assignedFinished" \in EventSet /\ events \in Seq(EventSet)
    BY <1>1 DEF EventSet, WindowTyped
  <2>3. CASE Occurs("assignedFinished", events) \/ hi # <<>> \/ lo # <<>>
    BY <2>1, <2>2, <2>3, OccursAppend DEF BatchOn
  <2>4. CASE hi = <<>> /\ lo = <<>> /\ current \notin {None, "info"}
    <3>1. current # single
      BY <1>1, <2>4 DEF QueuesTyped
    <3>2. emitted' = "assignedFinished"
      BY <2>1, <2>4, <3>1 DEF EndOfTask
    <3> QED
      BY <2>1, <2>2, <3>2, OccursAppend DEF BatchOn
  <2> QED
    BY <2>3, <2>4 DEF BatchOn
<1> QED
  BY <1>3, <1>4, <1>5 DEF Worker

LEMMA BatchDelivered ==
  ASSUME WindowInv, BatchOn, NEW e \in {"quit"} \cup Files \cup Transactions, Delivered(e),
         UNCHANGED poolVars
  PROVE  BatchOn'
<1>1. /\ events \in Seq(EventSet) /\ events # <<>> /\ Head(events) = e
      /\ events' = Tail(events)
  BY DEF WindowInv, WindowTyped, Delivered
<1>2. e # "assignedFinished"
  BY ItemsAssumption
<1>3. Occurs("assignedFinished", events) => Occurs("assignedFinished", events')
  BY <1>1, <1>2, OccursTail
<1> QED
  BY <1>3 DEF BatchOn, poolVars

LEMMA ReadyWorker == ASSUME WindowInv, ReadyInv, Worker PROVE ReadyInv'
<1>1. /\ stack' = stack /\ closed' = closed /\ timer' = timer /\ enabled' = enabled
      /\ restored' = restored /\ importable' = importable /\ fruitless' = fruitless
  BY DEF Worker, WorkerTake, WorkerReport, WorkerEnd, windowVars, buttonVars, importVars
<1>2. Follows(stack, stack', {}, {}) /\ SameAppended(stack, stack')
  BY <1>1, FollowsSame
<1>3. BatchOn => BatchOn'
  BY BatchWorker
<1> QED
  BY <1>1, <1>2, <1>3, ReadyStep

LEMMA ReadyDeliver == ASSUME WindowInv, ReadyInv, Deliver PROVE ReadyInv'
<1>1. StackOK(stack) /\ QueuesTyped /\ enabled \in BOOLEAN
  BY DEF WindowInv, WindowTyped
<1>2. CASE BackgroundWorkersFinished
  BY <1>2 DEF BackgroundWorkersFinished, ReadyInv
<1>3. CASE Quit
  <2>1. BatchOn => BatchOn'
    BY <1>3, BatchDelivered DEF Quit
  <2>2. StackStep({}, {})
    BY <1>1, <1>3, StackStays DEF Quit
  <2> QED
    BY <1>3, <2>1, <2>2, ReadyStep DEF Quit, StackStep, buttonVars, importVars
<1>4. ASSUME NEW t \in Transactions, CollectSendMessageStatus(t) PROVE ReadyInv'
  <2>1. BatchOn => BatchOn'
    BY <1>1, <1>4, BatchDelivered, BatchPut DEF CollectSendMessageStatus
  <2>2. StackStep({"told"}, {})
    BY <1>1, <1>4, CollectSendStack
  <2> QED
    BY <1>4, <2>1, <2>2, ReadyStep
    DEF CollectSendMessageStatus, StackStep, buttonVars, importVars
<1>5. ASSUME NEW f \in Files, CollectImportZfoStatus(f) PROVE ReadyInv'
  <2>1. BatchOn => BatchOn'
    BY <1>5, BatchDelivered DEF CollectImportZfoStatus
  <2>2. StackStep({"imported"}, {})
    BY <1>1, <1>5, WindowSlots
  <2> QED
    BY <1>5, <2>1, <2>2, ReadyStep DEF CollectImportZfoStatus, StackStep, buttonVars
<1> QED
  BY <1>2, <1>3, <1>4, <1>5 DEF Deliver

\* The steps that leave the queues, the timer, the buttons and the import alone.
ReadySame ==
  /\ UNCHANGED <<hi, lo, current, events, timer, enabled, restored, importable, fruitless>>
  /\ closed' = closed

LEMMA ReadyIdle ==
  ASSUME ReadyInv, ReadySame, NEW new, NEW gone, StackStep(new, gone),
         gone \cap {"all", "one", "import"} = {}
  PROVE  ReadyInv'
BY BatchSame, ReadyStep DEF ReadySame, StackStep

LEMMA ReadyUser == ASSUME WindowInv, ReadyInv, User PROVE ReadyInv'
<1>1. StackOK(stack) /\ QueuesTyped /\ WindowTyped /\ enabled \in BOOLEAN
  BY DEF WindowInv, WindowTyped
<1>2. CASE SyncAll
  <2> DEFINE f == Frame("all", "next", NumAccounts, FALSE)
  <2>1. f \in Frames /\ f.slot = "all" /\ ~f.appended
    BY WindowAssumption DEF Frame, Frames
  <2>2. stack' = Append(stack, f)
    BY <1>2 DEF SyncAll
  <2> HIDE DEF f
  <2>3. \E i \in DOMAIN stack' : stack'[i].slot = "all" /\ ~stack'[i].appended
    <3>1. /\ Len(stack) + 1 \in DOMAIN stack' /\ stack'[Len(stack) + 1] = f
      BY <1>1, <2>1, <2>2, Pushed DEF StackOK
    <3> QED
      BY <2>1, <3>1
  <2>4. StackStep({"all"}, {})
    BY <1>1, <1>2, WindowSlots
  <2>5. /\ closed' = closed /\ UNCHANGED <<hi, lo, current, events>>
        /\ UNCHANGED <<enabled, restored, importable, fruitless>>
    BY <1>2 DEF SyncAll, poolVars, buttonVars, importVars
  <2>6. \A i \in DOMAIN stack :
          /\ i \in DOMAIN stack' /\ stack'[i].slot = stack[i].slot
          /\ stack[i].at = "assign" => stack'[i].at = "assign"
          /\ stack[i].at # "processEvents1" => stack'[i].at # "processEvents1"
    BY <2>4 DEF StackStep, Follows
  <2> QED
    BY <2>3, <2>5, <2>6, BatchSame DEF ReadyInv
<1>3. CASE SyncOne \/ ImportZfo
  <2>1. StackStep({"one"}, {}) \/ StackStep({"import"}, {})
    BY <1>1, <1>3, WindowSlots
  <2>2. ReadySame
    BY <1>3 DEF SyncOne, ImportZfo, ReadySame, poolVars, buttonVars, importVars
  <2> QED
    BY <2>1, <2>2, ReadyIdle
<1>4. CASE CloseEvent
  <2>1. CASE closed'
    BY <2>1, ReadyBatch
  <2>2. CASE ~closed'
    <3>1. StackStep({"close"}, {})
      BY <1>1, <1>4, WindowSlots
    <3>2. ReadySame
      BY <1>4, <2>2 DEF CloseEvent, ReadySame, poolVars, buttonVars, importVars
    <3> QED
      BY <3>1, <3>2, ReadyIdle
  <2> QED
    BY <2>1, <2>2
<1>5. CASE DownloadAttachments
  BY <1>1, <1>5, BatchPut, ReadyBatch DEF DownloadAttachments
<1>6. ASSUME NEW n \in Dialogs, EnterForm(n) PROVE ReadyInv'
  <2>1. StackStep({"form"}, {}) \/ StackStep({"box"}, {}) \/ StackStep({"send"}, {})
    BY <1>1, <1>6, FormSlotsEntered DEF EnterForm
  <2>2. ReadySame
    BY <1>6 DEF EnterForm, ShowSendMessageDialog, SetAccountInfo, AddRecipient, SendMessage,
       ReadySame, poolVars, buttonVars, importVars
  <2> QED
    BY <2>1, <2>2, ReadyIdle
<1>7. ASSUME NEW n \in Dialogs, DeleteRecipientEntries(n) \/ CloseSendMessageDialog(n)
      PROVE  ReadyInv'
  <2>1. ReadySame /\ stack' = stack
    BY <1>7 DEF DeleteRecipientEntries, CloseSendMessageDialog, ReadySame, poolVars, buttonVars,
       importVars, windowVars
  <2> QED
    BY <1>1, <2>1, StackStays, ReadyIdle
<1>8. ASSUME NEW n \in Dialogs, PingIsdsServer(n) PROVE ReadyInv'
  BY <1>1, <1>8, BatchPut, ReadyBatch DEF PingIsdsServer
<1> QED
  BY <1>2, <1>3, <1>4, <1>5, <1>6, <1>7, <1>8 DEF User, EnterForm

LEMMA ReadyAnswer == ASSUME WindowInv, ReadyInv, Answer PROVE ReadyInv'
<1>1. StackOK(stack) /\ QueuesTyped /\ WindowTyped /\ enabled \in BOOLEAN
  BY DEF WindowInv, WindowTyped
<1>2. CASE LoggedIn
  <2>1. ReadySame /\ StackStep({}, {})
    BY <1>1, <1>2, SyncSlots DEF LoggedIn, ReadySame, poolVars, buttonVars, importVars
  <2> QED
    BY <2>1, ReadyIdle
<1>3. CASE LogInFails
  <2>1. CASE In("one", "login")
    <3>1. StackStep({}, {"one", "form"})
      BY <1>1, <1>3, LogInFailsStack
    <3>2. /\ UNCHANGED <<hi, lo, current, events, timer, importable, fruitless>>
          /\ closed' = closed /\ restored'
      BY <1>3, <2>1 DEF LogInFails, In, poolVars, importVars
    <3> QED
      BY <3>1, <3>2, BatchSame, ReadyStep DEF StackStep
  <2>2. CASE ~In("one", "login")
    <3>1. StackStep({}, {"form"})
      BY <1>1, <1>3, <2>2, LogInFailsStack DEF LogInFails, In
    <3>2. ReadySame
      BY <1>3, <2>2 DEF LogInFails, ReadySame, poolVars, buttonVars, importVars
    <3> QED
      BY <3>1, <3>2, ReadyIdle
  <2> QED
    BY <2>1, <2>2
<1>4. CASE CloseIgnored \/ CloseStop
  <2>1. StackStep({}, {"close"}) \/ StackStep({}, {})
    BY <1>1, <1>4, ImportSlots
  <2>2. ReadySame
    BY <1>4 DEF CloseIgnored, CloseStop, SetTerminating, ReadySame, poolVars, buttonVars, importVars
  <2> QED
    BY <2>1, <2>2, ReadyIdle
<1>5. CASE BoxAnswered \/ PaymentRefused \/ PaymentAgreed \/ ToldClosed
  <2>1. \/ StackStep({}, {"box"}) \/ StackStep({}, {"send"})
        \/ StackStep({}, {}) \/ StackStep({}, {"told"})
    BY <1>1, <1>5, MessageSlots
  <2>2. ReadySame
    BY <1>5 DEF BoxAnswered, PaymentRefused, PaymentAgreed, ToldClosed, ReadySame, poolVars,
       buttonVars, importVars
  <2> QED
    BY <2>1, <2>2, ReadyIdle
<1>6. CASE ResultClosed
  <2>1. StackStep({}, {"imported"})
    BY <1>1, <1>6, ImportSlots
  <2>2. /\ UNCHANGED <<hi, lo, current, events, timer, enabled, restored>>
        /\ closed' = closed /\ importable'
    BY <1>6 DEF ResultClosed, poolVars, buttonVars
  <2> QED
    BY <2>1, <2>2, BatchSame, ReadyStep DEF StackStep
<1>7. ASSUME In("import", "ask"), stack' = Caller, closed' = closed,
             UNCHANGED <<hi, lo, current, events, timer, enabled, restored>>,
             (importable \/ fruitless => importable' \/ fruitless') \/ fruitless'
      PROVE  ReadyInv'
  <2>1. StackStep({}, {"import"})
    <3>1. stack # <<>> /\ Top.slot = "import" /\ Top.unsent = {}
      BY <1>1, <1>7, Somewhere
    <3> QED
      BY <1>1, <1>7, <3>1, StackLeft
  <2>2. CASE importable' \/ fruitless'
    BY <1>7, <2>1, <2>2, BatchSame, ReadyStep DEF StackStep
  <2>3. CASE ~(importable' \/ fruitless')
    <3>1. /\ stack # <<>> /\ Top.at = "ask" /\ DOMAIN stack = 1 .. Len(stack)
          /\ Len(stack) \in Nat \ {0}
      BY <1>1, <1>7, EmptySeq DEF In, StackOK
    <3>2. /\ DOMAIN stack' = 1 .. Len(stack) - 1
          /\ \A i \in 1 .. Len(stack) - 1 : stack'[i] = stack[i]
      BY <1>1, <1>7, <3>1, Popped DEF Caller, StackOK
    <3>3. \A i \in DOMAIN stack : stack[i].at = "assign" =>
            i \in DOMAIN stack' /\ stack'[i] = stack[i]
      BY <3>1, <3>2 DEF Top
    <3>4. \A i \in DOMAIN stack : stack[i].slot \in {"all", "one"} =>
            i \in DOMAIN stack' /\ stack'[i] = stack[i]
      BY <1>7, <3>1, <3>2 DEF Top, In
    <3> QED
      BY <1>7, <2>3, <3>3, <3>4, BatchSame DEF ReadyInv
  <2> QED
    BY <2>2, <2>3
<1>8. CASE ImportCancelled
  BY <1>7, <1>8 DEF ImportCancelled, poolVars, buttonVars, importVars
<1>9. ASSUME NEW files \in SUBSET Files, ImportGiven(files) PROVE ReadyInv'
  <2>1. /\ In("import", "ask") /\ closed' = closed
        /\ UNCHANGED <<hi, lo, current, events, timer, enabled, restored>>
    BY <1>9 DEF ImportGiven, poolVars, buttonVars
  <2>2. CASE files = {}
    BY <1>7, <1>9, <2>1, <2>2 DEF ImportGiven
  <2>3. CASE files # {}
    <3>1. GoTo("assign")
      BY <1>9, <2>3 DEF ImportGiven
    <3>2. StackStep({}, {})
      BY <1>1, <2>1, <3>1, StackGoes, Places DEF In
    <3>3. Len(stack) \in DOMAIN stack /\ Top.slot = "import"
      BY <1>1, <2>1, EmptySeq DEF In, StackOK
    <3>4. /\ Len(stack) \in DOMAIN stack' /\ stack'[Len(stack)].at = "assign"
          /\ stack'[Len(stack)].slot = "import"
      <4>1. stack[Len(stack)] \in Frames
        BY <1>1, <3>3 DEF StackOK
      <4> QED
        BY <3>1, <3>3, <4>1 DEF GoTo, Top, Frames
    <3>5. \A i \in DOMAIN stack :
            /\ i \in DOMAIN stack' /\ stack'[i].slot = stack[i].slot
            /\ stack'[i].appended = stack[i].appended
            /\ stack[i].at # "processEvents1" => stack'[i].at # "processEvents1"
      BY <3>2 DEF StackStep, Follows, SameAppended
    <3> QED
      BY <2>1, <3>4, <3>5, BatchSame DEF ReadyInv
  <2> QED
    BY <2>2, <2>3
<1>10. CASE ExpiryAnswered
  <2>1. StackStep({"one"}, {"form"})
    BY <1>10, <1>1, InfoReturnStack
  <2>2. ReadySame
    BY <1>10 DEF ExpiryAnswered, ReadySame, poolVars, buttonVars, importVars
  <2> QED
    BY <2>1, <2>2, ReadyIdle
<1> QED
  BY <1>10, <1>2, <1>3, <1>4, <1>5, <1>6, <1>8, <1>9 DEF Answer

LEMMA ReadyContinue == ASSUME WindowInv, ReadyInv, Continue PROVE ReadyInv'
<1>1. StackOK(stack) /\ QueuesTyped /\ WindowTyped /\ enabled \in BOOLEAN
  BY DEF WindowInv, WindowTyped
<1>2. CASE AllNext \/ OneConnected
  <2>1. StackStep({"one"}, {}) \/ StackStep({}, {})
    BY <1>1, <1>2, AllNextStack, SyncSlots DEF StackStep
  <2>2. ReadySame
    BY <1>2 DEF AllNext, OneConnected, ReadySame, poolVars, buttonVars, importVars
  <2> QED
    BY <2>1, <2>2, ReadyIdle
<1>3. CASE AllEnd
  <2>1. CASE timer'
    <3>1. StackStep({}, {"all"})
      BY <1>1, <1>3, SyncSlots
    <3>2. /\ UNCHANGED <<hi, lo, current, events, enabled, restored, importable, fruitless>>
          /\ closed' = closed
      BY <1>3 DEF AllEnd, poolVars, buttonVars, importVars
    <3> QED
      BY <2>1, <3>1, <3>2, BatchSame, ReadyStep DEF StackStep
  <2>2. CASE ~timer'
    <3>1. ~timer /\ Top.appended /\ Top.slot = "all" /\ stack # <<>> /\ stack' = Caller
      BY <1>1, <1>3, <2>2, TopOK, FramesNamed DEF AllEnd, In, WindowTyped
    <3>2. /\ DOMAIN stack = 1 .. Len(stack) /\ Len(stack) \in Nat \ {0}
          /\ DOMAIN stack' = 1 .. Len(stack) - 1
          /\ \A i \in 1 .. Len(stack) - 1 : stack'[i] = stack[i]
      BY <1>1, <3>1, Popped, EmptySeq DEF Caller, StackOK
    <3>3. \A i \in DOMAIN stack : ~(stack[i].slot = "all" /\ stack[i].appended) =>
            i \in DOMAIN stack' /\ stack'[i] = stack[i]
      BY <3>1, <3>2 DEF Top
    <3>4. /\ UNCHANGED <<hi, lo, current, events, timer, enabled, restored, importable, fruitless>>
          /\ closed' = closed
      BY <1>1, <1>3, <2>2 DEF AllEnd, WindowTyped, poolVars, buttonVars, importVars
    <3> QED
      BY <3>3, <3>4, BatchSame DEF ReadyInv
  <2> QED
    BY <2>1, <2>2
<1>4. CASE OneDisable
  <2>1. In("one", "processEvents1") /\ GoTo("processEvents2")
    BY <1>4 DEF OneDisable
  <2>2. StackStep({}, {})
    BY <1>1, <1>4, SyncSlots
  <2>3. Len(stack) \in DOMAIN stack /\ Top.slot = "one"
    BY <1>1, <2>1, EmptySeq DEF In, StackOK
  <2>4. /\ Len(stack) \in DOMAIN stack' /\ stack'[Len(stack)].at = "processEvents2"
        /\ stack'[Len(stack)].slot = "one"
    <3>1. stack[Len(stack)] \in Frames
      BY <1>1, <2>3 DEF StackOK
    <3> QED
      BY <2>1, <2>3, <3>1 DEF GoTo, Top, Frames
  <2>5. \A i \in DOMAIN stack :
          /\ i \in DOMAIN stack' /\ stack'[i].slot = stack[i].slot
          /\ stack'[i].appended = stack[i].appended
          /\ stack[i].at = "assign" => stack'[i].at = "assign"
    BY <2>2 DEF StackStep, Follows, SameAppended
  <2>6. UNCHANGED <<hi, lo, current, events, timer, importable, fruitless>> /\ closed' = closed
    BY <1>4 DEF OneDisable, poolVars, importVars
  <2> QED
    BY <2>4, <2>5, <2>6, BatchSame DEF ReadyInv
<1>5. CASE InfoPost \/ AlivePost \/ CreditPost
  <2>1. StackStep({}, {})
    BY <1>1, <1>5, SyncSlots, MessageSlots
  <2>2. ReadySame
    BY <1>5 DEF InfoPost, AlivePost, CreditPost, PutSingle, ReadySame, buttonVars, importVars
  <2> QED
    BY <2>1, <2>2, ReadyIdle
<1>6. CASE InfoReturn
  <2>1. StackStep({"one"}, {"form"})
    BY <1>1, <1>6, InfoReturnStack
  <2>2. ReadySame
    BY <1>6 DEF InfoReturn, VacateSingle, ReadySame, buttonVars, importVars
  <2> QED
    BY <2>1, <2>2, ReadyIdle
<1>7. CASE AliveReturn \/ CreditReturn \/ BoxFound
  <2>1. StackStep({}, {"form"}) \/ StackStep({}, {"box"})
    BY <1>1, <1>7, MessageSlots
  <2>2. ReadySame
    BY <1>7 DEF AliveReturn, CreditReturn, BoxFound, VacateSingle, ReadySame, buttonVars, importVars
  <2> QED
    BY <2>1, <2>2, ReadyIdle
<1>8. CASE OneAssign
  BY <1>1, <1>8, BatchPut, ReadyBatch DEF OneAssign
<1>9. CASE ImportAssign
  BY <1>1, <1>9, BatchPut, ReadyBatch DEF ImportAssign, WindowTyped
<1>10. CASE CloseClear
  BY <1>10, ReadyBatch DEF CloseClear
<1>11. CASE MainWaited \/ MainEnd
  <2>1. ReadySame /\ stack' = stack
    BY <1>11 DEF MainWaited, MainEnd, SetTerminating, ReadySame, poolVars, buttonVars, importVars
  <2> QED
    BY <1>1, <2>1, StackStays, ReadyIdle
<1>12. CASE SendBuild
  <2>1. ReadySame
    BY <1>12 DEF SendBuild, ReadySame, poolVars, buttonVars, importVars
  <2>2. \A i \in DOMAIN stack : stack[i].slot \in {"all", "one", "import"} =>
          i \in DOMAIN stack' /\ stack'[i] = stack[i]
    <3>1. stack # <<>> /\ Top.slot = "send"
      BY <1>12 DEF SendBuild, In
    <3>2. DOMAIN stack = 1 .. Len(stack) /\ Len(stack) \in Nat
      BY <1>1 DEF StackOK
    <3>3. DOMAIN stack' = DOMAIN stack /\ \A i \in 1 .. Len(stack) - 1 : stack'[i] = stack[i]
      BY <1>1, <1>12, <3>1, <3>2 DEF SendBuild, StackOK
    <3> QED
      BY <3>1, <3>2, <3>3 DEF Top
  <2> QED
    BY <2>1, <2>2, BatchSame DEF ReadyInv, ReadySame
<1>13. CASE SendAssign
  BY <1>1, <1>13, SendAssignStack, BatchPut, ReadyBatch
<1> QED
  BY <1>2, <1>3, <1>4, <1>5, <1>6, <1>7, <1>8, <1>9, <1>10, <1>11, <1>12, <1>13 DEF Continue

LEMMA ReadyAlways == Spec => []ReadyInv
<1>1. Init => ReadyInv
  BY DEF Init, ReadyInv
<1>2. WindowInv /\ ReadyInv /\ [Next]_vars => ReadyInv'
  <2> SUFFICES ASSUME WindowInv, ReadyInv, [Next]_vars PROVE ReadyInv'
    OBVIOUS
  <2>1. CASE Next
    BY <2>1, ReadyWorker, ReadyDeliver, ReadyUser, ReadyAnswer, ReadyContinue DEF Next
  <2>2. CASE UNCHANGED vars
    BY <2>2 DEF vars, windowVars, importVars, buttonVars, poolVars, ReadyInv, BatchOn
  <2> QED
    BY <2>1, <2>2
<1> QED
  BY <1>1, <1>2, WindowAlways, PTL DEF Spec

\* However slots are nested and however log-ins and imports end: when the application
\* is quiet and open, the timer of the synchronisation runs, the buttons are enabled
\* unless a log-in that failed has restored what they were, and an import can be begun
\* unless the last one found nothing.
THEOREM WindowReady == Spec => []ReadyWhenQuiet
<1>1. WindowInv /\ ReadyInv => ReadyWhenQuiet
  <2> SUFFICES ASSUME WindowInv, ReadyInv, Quiet, ~closed
               PROVE  timer /\ (enabled \/ restored) /\ (importable \/ fruitless)
    BY DEF ReadyWhenQuiet, TimerRunsWhenQuiet, ButtonsWhenQuiet, ImportWhenQuiet
  <2>1. ~BatchOn
    BY EmptySeq DEF Quiet, Working, BatchOn, Occurs
  <2>2. DOMAIN stack = {}
    BY EmptySeq DEF Quiet
  <2> QED
    BY <2>1, <2>2 DEF ReadyInv
<1> QED
  BY <1>1, WindowAlways, ReadyAlways, PTL

-----------------------------------------------------------------------------
(* Where a task that is reported is: queued, executed, or in an event.  A  *)
(* task is in one of these places at most, and moves from one to the next. *)

Jobs == Files \cup Transactions

Once(x, q) == \A i, j \in DOMAIN q : q[i] = x /\ q[j] = x => i = j

Executed(x) == current = x /\ stage = "begun"
Waiting(x) == Occurs(x, hi) \/ Occurs(x, lo) \/ Executed(x)
Reported(x) == Occurs(x, events)
Placed(x) == Waiting(x) \/ Reported(x)

OnePlace(x) ==
  /\ Once(x, hi) /\ Once(x, lo) /\ Once(x, events)
  /\ ~(Occurs(x, hi) /\ Occurs(x, lo))
  /\ ~((Occurs(x, hi) \/ Occurs(x, lo)) /\ Executed(x))
  /\ ~(Waiting(x) /\ Reported(x))

\* A task stays where it is, or goes from a queue to the worker.
Kept(x) ==
  /\ OnePlace(x) => OnePlace(x)'
  /\ Waiting(x)' <=> Waiting(x)
  /\ Reported(x)' <=> Reported(x)

\* What a queue says of x.
Same(x, q, r) == (Occurs(x, r) <=> Occurs(x, q)) /\ (Once(x, q) => Once(x, r))

LEMMA SameSame == ASSUME NEW x, NEW q PROVE Same(x, q, q)
BY DEF Same

LEMMA SameAppend ==
  ASSUME NEW S, NEW q \in Seq(S), NEW y \in S, NEW x
  PROVE  /\ x # y => Same(x, q, Append(q, y))
         /\ x = y => Occurs(x, Append(q, y))
         /\ x = y /\ ~Occurs(x, q) => Once(x, Append(q, y))
<1>1. /\ DOMAIN q = 1 .. Len(q) /\ Len(q) \in Nat
      /\ DOMAIN Append(q, y) = 1 .. Len(q) + 1
      /\ \A i \in 1 .. Len(q) : Append(q, y)[i] = q[i]
      /\ Append(q, y)[Len(q) + 1] = y
  BY Pushed
<1>2. \A i \in DOMAIN Append(q, y) :
        i = Len(q) + 1 \/ (i \in DOMAIN q /\ Append(q, y)[i] = q[i])
  BY <1>1
<1>3. Occurs(x, Append(q, y)) <=> Occurs(x, q) \/ x = y
  BY OccursAppend
<1>4. x # y /\ Once(x, q) => Once(x, Append(q, y))
  BY <1>1, <1>2 DEF Once
<1>5. x = y /\ ~Occurs(x, q) => Once(x, Append(q, y))
  BY <1>1, <1>2 DEF Once, Occurs
<1> QED
  BY <1>3, <1>4, <1>5 DEF Same

LEMMA SamePrepend ==
  ASSUME NEW S, NEW q \in Seq(S), NEW y \in S, NEW x, x # y
  PROVE  Same(x, q, <<y>> \o q)
<1> DEFINE r == <<y>> \o q
<1>1. /\ DOMAIN q = 1 .. Len(q) /\ Len(q) \in Nat
      /\ DOMAIN r = 1 .. Len(q) + 1
      /\ \A i \in 1 .. Len(q) : r[i + 1] = q[i]
      /\ r[1] = y
  BY Prepended
<1>2. Occurs(x, r) <=> Occurs(x, q)
  BY OccursPrepend
<1> HIDE DEF r
<1>3. \A i \in DOMAIN r : i \in Nat /\ (i = 1 \/ (i - 1 \in DOMAIN q /\ r[i] = q[i - 1]))
  BY <1>1
<1>4. ASSUME Once(x, q), NEW i \in DOMAIN r, NEW j \in DOMAIN r, r[i] = x, r[j] = x
      PROVE  i = j
  <2>1. /\ i - 1 \in DOMAIN q /\ q[i - 1] = x
        /\ j - 1 \in DOMAIN q /\ q[j - 1] = x
    BY <1>1, <1>3, <1>4
  <2>2. i - 1 = j - 1
    BY <1>4, <2>1 DEF Once
  <2> QED
    BY <1>3, <2>2
<1> QED
  BY <1>2, <1>4 DEF Same, Once, r

LEMMA SameTail ==
  ASSUME NEW S, NEW q \in Seq(S), q # <<>>, NEW x
  PROVE  /\ x # Head(q) => Same(x, q, Tail(q))
         /\ x = Head(q) => Occurs(x, q)
         /\ x = Head(q) /\ Once(x, q) => ~Occurs(x, Tail(q)) /\ Once(x, Tail(q))
<1>1. /\ DOMAIN q = 1 .. Len(q) /\ Len(q) \in Nat \ {0}
      /\ DOMAIN Tail(q) = 1 .. Len(q) - 1
      /\ \A i \in 1 .. Len(q) - 1 : Tail(q)[i] = q[i + 1]
      /\ Head(q) = q[1]
  BY HeadTailProperties
<1>2. \A i \in DOMAIN Tail(q) :
        i \in Nat \ {0} /\ i + 1 \in DOMAIN q /\ Tail(q)[i] = q[i + 1]
  BY <1>1
<1>3. Occurs(x, q) <=> Occurs(x, Tail(q)) \/ x = Head(q)
  BY OccursTail
<1>4. Once(x, q) => Once(x, Tail(q))
  BY <1>2 DEF Once
<1>5. 1 \in DOMAIN q
  BY <1>1
<1>6. x = Head(q) /\ Once(x, q) => ~Occurs(x, Tail(q))
  BY <1>1, <1>2, <1>5 DEF Once, Occurs
<1> QED
  BY <1>3, <1>4, <1>6 DEF Same

LEMMA SamePut ==
  ASSUME NEW S, NEW q \in Seq(S), NEW y \in S, NEW order, NEW x, x # y
  PROVE  Same(x, q, Put(q, y, order))
BY SameAppend, SamePrepend DEF Put

\* A step that leaves the worker alone, and what its queues and the events say of x.
LEMMA KeptSame ==
  ASSUME NEW x, Same(x, hi, hi'), Same(x, lo, lo'), Same(x, events, events'),
         Executed(x)' <=> Executed(x)
  PROVE  Kept(x)
BY DEF Same, Kept, OnePlace, Waiting, Reported

LEMMA JobNames ==
  /\ \A x \in {"list", "download", "info", "ping", "assignedFinished", "quit", None} : x \notin Jobs
  /\ Files \cap Transactions = {}
BY ItemsAssumption DEF Jobs, Tasks

LEMMA KeptIdle ==
  ASSUME UNCHANGED <<hi, lo, current, stage, events>>
  PROVE  \A x \in Jobs : Kept(x)
<1> SUFFICES ASSUME NEW x \in Jobs PROVE Kept(x)
  OBVIOUS
<1> QED
  BY SameSame, KeptSame DEF Executed

\* Other tasks are assigned.
LEMMA KeptPut ==
  ASSUME QueuesTyped, UNCHANGED <<stage, events>>, NEW order
  PROVE  /\ \A y \in {"list", "download"} : PutLo(y, order) => \A x \in Jobs : Kept(x)
         /\ \A y \in {"download", "ping"} : PutHi(y, order) => \A x \in Jobs : Kept(x)
<1>1. ASSUME NEW y \in {"list", "download"}, PutLo(y, order), NEW x \in Jobs PROVE Kept(x)
  <2>1. x # y
    BY JobNames
  <2>2. lo' = Put(lo, y, order) /\ UNCHANGED <<hi, current>>
    BY <1>1 DEF PutLo
  <2>3. Same(x, lo, lo')
    BY <2>1, <2>2, SamePut DEF QueuesTyped
  <2> QED
    BY <2>2, <2>3, SameSame, KeptSame DEF Executed
<1>2. ASSUME NEW y \in {"download", "ping"}, PutHi(y, order), NEW x \in Jobs PROVE Kept(x)
  <2>1. x # y
    BY JobNames
  <2>2. hi' = Put(hi, y, order) /\ UNCHANGED <<lo, current>>
    BY <1>2 DEF PutHi
  <2>3. Same(x, hi, hi')
    BY <2>1, <2>2, SamePut DEF QueuesTyped
  <2> QED
    BY <2>2, <2>3, SameSame, KeptSame DEF Executed
<1> QED
  BY <1>1, <1>2

-----------------------------------------------------------------------------
(* How the steps move tasks. *)

\* The task x is assigned, reported, or its report is delivered.
Assigned(x) ==
  /\ Waiting(x)' /\ (Reported(x)' <=> Reported(x))
  /\ OnePlace(x) /\ ~Placed(x) => OnePlace(x)'
Told(x) ==
  /\ Waiting(x) /\ Reported(x)'
  /\ OnePlace(x) => OnePlace(x)' /\ ~Waiting(x)'
Delivery(x) ==
  /\ Reported(x) /\ (Waiting(x)' <=> Waiting(x))
  /\ OnePlace(x) => OnePlace(x)' /\ ~Placed(x)'

LEMMA TakeMoves == ASSUME WindowInv, WorkerTake PROVE \A x \in Jobs : Kept(x)
<1> SUFFICES ASSUME NEW x \in Jobs PROVE Kept(x)
  OBVIOUS
<1>1. /\ QueuesTyped /\ Take /\ events' = events /\ stage' = "begun" /\ current = None
      /\ x # None /\ x # "info" /\ ~Executed(x)
  BY JobNames DEF WindowInv, WorkerTake, windowVars, Take, Executed
<1>2. CASE Pending
  <2>1. current' = "info" /\ hi' = hi /\ lo' = lo
    BY <1>1, <1>2 DEF Take, Pending, QueuesTyped
  <2> QED
    BY <1>1, <2>1, SameSame, KeptSame DEF Executed
<1>3. CASE ~Pending /\ hi # <<>>
  <2>1. current' = Head(hi) /\ hi' = Tail(hi) /\ lo' = lo
    BY <1>1, <1>3 DEF Take
  <2>2. /\ x # Head(hi) => Same(x, hi, hi')
        /\ x = Head(hi) => Occurs(x, hi)
        /\ x = Head(hi) /\ Once(x, hi) => ~Occurs(x, hi') /\ Once(x, hi')
    BY <1>1, <1>3, <2>1, SameTail DEF QueuesTyped
  <2>3. CASE x # Head(hi)
    BY <1>1, <2>1, <2>2, <2>3, SameSame, KeptSame DEF Executed
  <2>4. CASE x = Head(hi)
    <3>1. Executed(x)' /\ Occurs(x, hi)
      BY <1>1, <2>1, <2>2, <2>4 DEF Executed
    <3>2. OnePlace(x) => ~Occurs(x, hi') /\ Once(x, hi') /\ ~Occurs(x, lo) /\ ~Reported(x)
      BY <2>2, <2>4, <3>1 DEF OnePlace, Waiting
    <3>3. (Occurs(x, lo)' <=> Occurs(x, lo)) /\ (Reported(x)' <=> Reported(x))
          /\ (Once(x, lo)' <=> Once(x, lo)) /\ (Once(x, events)' <=> Once(x, events))
      BY <1>1, <2>1 DEF Reported
    <3> QED
      BY <3>1, <3>2, <3>3 DEF Kept, OnePlace, Waiting
  <2> QED
    BY <2>3, <2>4
<1>4. CASE ~Pending /\ hi = <<>>
  <2>1. current' = Head(lo) /\ lo' = Tail(lo) /\ hi' = hi /\ lo # <<>>
    BY <1>1, <1>4 DEF Take
  <2>2. /\ x # Head(lo) => Same(x, lo, lo')
        /\ x = Head(lo) => Occurs(x, lo)
        /\ x = Head(lo) /\ Once(x, lo) => ~Occurs(x, lo') /\ Once(x, lo')
    BY <1>1, <2>1, SameTail DEF QueuesTyped
  <2>3. CASE x # Head(lo)
    BY <1>1, <2>1, <2>2, <2>3, SameSame, KeptSame DEF Executed
  <2>4. CASE x = Head(lo)
    <3>1. Executed(x)' /\ Occurs(x, lo)
      BY <1>1, <2>1, <2>2, <2>4 DEF Executed
    <3>2. OnePlace(x) => ~Occurs(x, lo') /\ Once(x, lo') /\ ~Occurs(x, hi) /\ ~Reported(x)
      BY <2>2, <2>4, <3>1 DEF OnePlace, Waiting
    <3>3. (Occurs(x, hi)' <=> Occurs(x, hi)) /\ (Reported(x)' <=> Reported(x))
          /\ (Once(x, hi)' <=> Once(x, hi)) /\ (Once(x, events)' <=> Once(x, events))
      BY <1>1, <2>1 DEF Reported
    <3> QED
      BY <3>1, <3>2, <3>3 DEF Kept, OnePlace, Waiting
  <2> QED
    BY <2>3, <2>4
<1> QED
  BY <1>2, <1>3, <1>4

LEMMA ReportMoves ==
  ASSUME WindowInv, WorkerReport
  PROVE  /\ \A x \in Jobs : x # current => Kept(x)
         /\ current \in Jobs => Told(current)
<1>1. /\ QueuesTyped /\ events \in Seq(EventSet) /\ stage = "begun" /\ stage' = "reported"
      /\ Jobs \subseteq EventSet
  BY DEF WindowInv, WindowTyped, WorkerReport, Jobs, EventSet
<1>2. \A x : ~Executed(x)'
  BY <1>1 DEF Executed
<1>3. CASE current = "list" /\ PutLo("download", "PREPEND") /\ UNCHANGED windowVars
  <2>1. current \notin Jobs
    BY <1>3, JobNames
  <2>2. \A x \in Jobs : x # current => Kept(x)
    <3> SUFFICES ASSUME NEW x \in Jobs PROVE Kept(x)
      OBVIOUS
    <3>1. x # "download" /\ ~Executed(x) /\ ~Executed(x)'
      BY <1>2, <2>1, JobNames DEF Executed
    <3>2. lo' = Put(lo, "download", "PREPEND") /\ hi' = hi /\ events' = events
      BY <1>3 DEF PutLo, windowVars
    <3>3. Same(x, lo, lo')
      BY <1>1, <3>1, <3>2, SamePut DEF QueuesTyped
    <3> QED
      BY <3>1, <3>2, <3>3, SameSame, KeptSame
  <2> QED
    BY <2>1, <2>2
<1>4. CASE /\ current \in Jobs /\ events' = Append(events, current)
           /\ UNCHANGED poolVars
  <2>1. current \in EventSet /\ hi' = hi /\ lo' = lo
    BY <1>1, <1>4 DEF poolVars
  <2>2. \A x \in Jobs : x # current => Kept(x)
    <3> SUFFICES ASSUME NEW x \in Jobs, x # current PROVE Kept(x)
      OBVIOUS
    <3>1. ~Executed(x) /\ ~Executed(x)'
      BY <1>2 DEF Executed
    <3>2. Same(x, events, events')
      BY <1>1, <1>4, <2>1, SameAppend
    <3> QED
      BY <2>1, <3>1, <3>2, SameSame, KeptSame
  <2>3. Told(current)
    <3> DEFINE x == current
    <3>1. Executed(x)
      BY <1>1 DEF Executed
    <3>2. Occurs(x, events') /\ (~Occurs(x, events) => Once(x, events'))
      BY <1>1, <1>4, <2>1, SameAppend
    <3>3. x' = x
      BY <1>4 DEF poolVars
    <3>4. OnePlace(x) => /\ ~Occurs(x, hi) /\ ~Occurs(x, lo) /\ ~Occurs(x, events)
                         /\ Once(x, hi) /\ Once(x, lo)
      BY <3>1 DEF OnePlace, Waiting, Reported
    <3> QED
      BY <1>2, <2>1, <3>1, <3>2, <3>3, <3>4 DEF Told, OnePlace, Waiting, Reported
  <2> QED
    BY <2>2, <2>3
<1> QED
  BY <1>3, <1>4 DEF WorkerReport, Jobs

LEMMA EndMoves == ASSUME WindowInv, WorkerEnd PROVE \A x \in Jobs : Kept(x)
<1> SUFFICES ASSUME NEW x \in Jobs PROVE Kept(x)
  OBVIOUS
<1>1. /\ events \in Seq(EventSet) /\ "assignedFinished" \in EventSet
      /\ x # None /\ x # "assignedFinished"
  BY JobNames DEF WindowInv, WindowTyped, EventSet
<1>2. /\ hi' = hi /\ lo' = lo /\ current' = None
      /\ events' = events \/ events' = Append(events, "assignedFinished")
  BY DEF WorkerEnd, EndOfTask
<1>3. ~Executed(x) /\ ~Executed(x)'
  BY <1>1, <1>2 DEF WorkerEnd, Executed, Jobs
<1>4. Same(x, events, events')
  BY <1>1, <1>2, SameAppend, SameSame
<1> QED
  BY <1>2, <1>3, <1>4, SameSame, KeptSame

LEMMA DeliveredMoves ==
  ASSUME WindowInv, NEW e, Delivered(e), stage' = stage,
         \/ UNCHANGED poolVars
         \/ PutHi("download", "PREPEND")
  PROVE  /\ \A x \in Jobs : x # e => Kept(x)
         /\ e \in Jobs => Delivery(e)
<1>1. /\ events \in Seq(EventSet) /\ events # <<>> /\ Head(events) = e /\ events' = Tail(events)
      /\ QueuesTyped
  BY DEF WindowInv, WindowTyped, Delivered
<1>2. /\ lo' = lo /\ current' = current
      /\ \A x \in Jobs : Same(x, hi, hi')
  <2>1. CASE UNCHANGED poolVars
    BY <2>1, SameSame DEF poolVars
  <2>2. CASE PutHi("download", "PREPEND")
    <3>1. hi' = Put(hi, "download", "PREPEND") /\ lo' = lo /\ current' = current
      BY <2>2 DEF PutHi
    <3>2. ASSUME NEW x \in Jobs PROVE Same(x, hi, hi')
      <4>1. x # "download" /\ hi \in Seq({"download", "ping"} \cup Transactions)
        BY <1>1, JobNames DEF QueuesTyped
      <4> QED
        BY <3>1, <4>1, SamePut
    <3> QED
      BY <3>1, <3>2
  <2> QED
    BY <2>1, <2>2
<1>3. \A x : Executed(x)' <=> Executed(x)
  BY <1>2 DEF Executed
<1>4. ASSUME NEW x \in Jobs, x # e PROVE Kept(x)
  <2>1. Same(x, events, events')
    BY <1>1, <1>4, SameTail
  <2> QED
    BY <1>2, <1>3, <2>1, SameSame, KeptSame
<1>5. ASSUME e \in Jobs PROVE Delivery(e)
  <2>1. Reported(e) /\ (Once(e, events) => ~Occurs(e, events') /\ Once(e, events'))
    BY <1>1, SameTail DEF Reported
  <2>2. Same(e, hi, hi') /\ Same(e, lo, lo') /\ (Executed(e)' <=> Executed(e))
    BY <1>2, <1>3, <1>5, SameSame
  <2>3. (Waiting(e)' <=> Waiting(e)) /\ (Reported(e)' <=> Occurs(e, events'))
    BY <2>2 DEF Waiting, Same, Reported
  <2>4. ASSUME OnePlace(e) PROVE OnePlace(e)' /\ ~Placed(e)'
    <3>1. /\ Once(e, hi') /\ Once(e, lo') /\ Once(e, events') /\ ~Waiting(e)' /\ ~Occurs(e, events')
      BY <2>1, <2>2, <2>3, <2>4 DEF OnePlace, Same
    <3> QED
      BY <2>3, <3>1 DEF OnePlace, Placed, Waiting, Reported
  <2> QED
    BY <2>1, <2>3, <2>4 DEF Delivery
<1> QED
  BY <1>4, <1>5

\* A task is assigned by a step that does nothing else to the worker.
LEMMA AssignMoves ==
  ASSUME WindowInv, NEW y \in Jobs, UNCHANGED <<stage, events>>,
         \/ y \in Files /\ PutLo(y, "APPEND")
         \/ y \in Transactions /\ PutHi(y, "APPEND")
  PROVE  /\ \A x \in Jobs : x # y => Kept(x)
         /\ Assigned(y)
<1>1. CASE y \in Files /\ PutLo(y, "APPEND")
  <2>1. /\ lo' = Append(lo, y) /\ hi' = hi /\ current' = current
        /\ lo \in Seq({"list", "download"} \cup Files)
    BY <1>1 DEF WindowInv, QueuesTyped, PutLo, Put
  <2>2. \A x : Executed(x)' <=> Executed(x)
    BY <2>1 DEF Executed
  <2>3. ASSUME NEW x \in Jobs, x # y PROVE Kept(x)
    <3>1. Same(x, lo, lo')
      BY <1>1, <2>1, <2>3, SameAppend
    <3> QED
      BY <2>1, <2>2, <3>1, SameSame, KeptSame
  <2>4. Occurs(y, lo') /\ (~Occurs(y, lo) => Once(y, lo'))
    BY <1>1, <2>1, SameAppend
  <2>5. Waiting(y)' /\ (Reported(y)' <=> Reported(y))
    BY <2>4 DEF Waiting, Reported
  <2>6. ASSUME OnePlace(y), ~Placed(y) PROVE OnePlace(y)'
    BY <2>1, <2>2, <2>4, <2>6 DEF OnePlace, Placed, Waiting, Reported
  <2> QED
    BY <2>3, <2>5, <2>6 DEF Assigned
<1>2. CASE y \in Transactions /\ PutHi(y, "APPEND")
  <2>1. /\ hi' = Append(hi, y) /\ lo' = lo /\ current' = current
        /\ hi \in Seq({"download", "ping"} \cup Transactions)
    BY <1>2 DEF WindowInv, QueuesTyped, PutHi, Put
  <2>2. \A x : Executed(x)' <=> Executed(x)
    BY <2>1 DEF Executed
  <2>3. ASSUME NEW x \in Jobs, x # y PROVE Kept(x)
    <3>1. Same(x, hi, hi')
      BY <1>2, <2>1, <2>3, SameAppend
    <3> QED
      BY <2>1, <2>2, <3>1, SameSame, KeptSame
  <2>4. Occurs(y, hi') /\ (~Occurs(y, hi) => Once(y, hi'))
    BY <1>2, <2>1, SameAppend
  <2>5. Waiting(y)' /\ (Reported(y)' <=> Reported(y))
    BY <2>4 DEF Waiting, Reported
  <2>6. ASSUME OnePlace(y), ~Placed(y) PROVE OnePlace(y)'
    BY <2>1, <2>2, <2>4, <2>6 DEF OnePlace, Placed, Waiting, Reported
  <2> QED
    BY <2>3, <2>5, <2>6 DEF Assigned
<1> QED
  BY <1>1, <1>2

LEMMA ClearMoves ==
  ASSUME WindowInv, CloseClear, NEW x \in Jobs
  PROVE  /\ OnePlace(x) => OnePlace(x)'
         /\ Waiting(x)' => Waiting(x)
         /\ Reported(x)' <=> Reported(x)
<1>1. /\ events \in Seq(EventSet) /\ "quit" \in EventSet /\ x # "quit"
      /\ events' = Append(events, "quit")
  BY JobNames DEF WindowInv, WindowTyped, EventSet, CloseClear
<1>2. hi' = <<>> /\ lo' = <<>> /\ current' = current /\ stage' = stage
  BY DEF CloseClear, ClearQueues
<1>3. Same(x, events, events')
  BY <1>1, SameAppend
<1>4. ~Occurs(x, <<>>) /\ Once(x, <<>>)
  BY EmptySeq DEF Occurs, Once
<1>5. Executed(x)' <=> Executed(x)
  BY <1>2 DEF Executed
<1> QED
  BY <1>2, <1>3, <1>4, <1>5 DEF OnePlace, Waiting, Reported, Same

\* The other steps leave the tasks where they are.
LEMMA OtherMoves ==
  ASSUME WindowInv, Next,
         ~WorkerReport, ~ImportAssign, ~SendAssign, ~CloseClear,
         \A t \in Transactions : ~CollectSendMessageStatus(t),
         \A f \in Files : ~CollectImportZfoStatus(f)
  PROVE  \A x \in Jobs : Kept(x)
<1>1. QueuesTyped
  BY DEF WindowInv
<1>2. CASE Worker
  BY <1>2, TakeMoves, EndMoves DEF Worker
<1>3. CASE Deliver
  <2>1. ASSUME BackgroundWorkersFinished PROVE \A x \in Jobs : Kept(x)
    BY <2>1, DeliveredMoves, JobNames DEF BackgroundWorkersFinished
  <2>2. ASSUME Quit PROVE \A x \in Jobs : Kept(x)
    BY <2>2, DeliveredMoves, JobNames DEF Quit
  <2> QED
    BY <1>3, <2>1, <2>2 DEF Deliver
<1>4. CASE User
  <2>1. ASSUME CloseEvent, ~UNCHANGED events PROVE \A x \in Jobs : Kept(x)
    <3> SUFFICES ASSUME NEW x \in Jobs PROVE Kept(x)
      OBVIOUS
    <3>1. /\ events \in Seq(EventSet) /\ "quit" \in EventSet /\ x # "quit"
          /\ events' = Append(events, "quit")
      BY <2>1, JobNames DEF WindowInv, WindowTyped, EventSet, CloseEvent
    <3>2. hi' = hi /\ lo' = lo /\ current' = current /\ stage' = stage
      BY <2>1 DEF CloseEvent, poolVars
    <3>3. Same(x, events, events')
      BY <3>1, SameAppend
    <3> QED
      BY <3>2, <3>3, SameSame, KeptSame DEF Executed
  <2>2. ASSUME DownloadAttachments PROVE \A x \in Jobs : Kept(x)
    BY <1>1, <2>2, KeptPut DEF DownloadAttachments
  <2>3. ASSUME NEW n \in Dialogs, PingIsdsServer(n) PROVE \A x \in Jobs : Kept(x)
    BY <1>1, <2>3, KeptPut DEF PingIsdsServer
  <2>4. ASSUME NEW n \in Dialogs,
               EnterForm(n) \/ DeleteRecipientEntries(n) \/ CloseSendMessageDialog(n)
        PROVE  \A x \in Jobs : Kept(x)
    BY <2>4, KeptIdle DEF EnterForm, ShowSendMessageDialog, SetAccountInfo, AddRecipient,
       SendMessage, DeleteRecipientEntries, CloseSendMessageDialog, poolVars, windowVars
  <2>5. ASSUME SyncAll \/ SyncOne \/ ImportZfo \/ (CloseEvent /\ UNCHANGED events)
        PROVE  \A x \in Jobs : Kept(x)
    BY <2>5, KeptIdle DEF SyncAll, SyncOne, ImportZfo, CloseEvent, poolVars
  <2> QED
    BY <1>4, <2>1, <2>2, <2>3, <2>4, <2>5 DEF User, EnterForm
<1>5. CASE Answer
  BY <1>5, KeptIdle DEF Answer, LoggedIn, LogInFails, ExpiryAnswered, CloseIgnored, CloseStop, SetTerminating,
     ImportCancelled, ResultClosed, BoxAnswered, PaymentRefused, PaymentAgreed, ToldClosed,
     ImportGiven, poolVars
<1>6. CASE Continue
  <2>1. ASSUME OneAssign PROVE \A x \in Jobs : Kept(x)
    BY <1>1, <2>1, KeptPut DEF OneAssign
  <2>2. ASSUME AllNext \/ AllEnd \/ OneDisable \/ OneConnected \/ SendBuild \/ MainEnd
        PROVE  \A x \in Jobs : Kept(x)
    BY <2>2, KeptIdle DEF AllNext, AllEnd, OneDisable, OneConnected, SendBuild, MainEnd, poolVars
  <2>3. ASSUME InfoPost \/ AlivePost \/ CreditPost \/ MainWaited
        PROVE  \A x \in Jobs : Kept(x)
    BY <2>3, KeptIdle DEF InfoPost, AlivePost, CreditPost, MainWaited, PutSingle, SetTerminating
  <2>4. ASSUME InfoReturn \/ AliveReturn \/ CreditReturn \/ BoxFound
        PROVE  \A x \in Jobs : Kept(x)
    BY <2>4, KeptIdle DEF InfoReturn, AliveReturn, CreditReturn, BoxFound, VacateSingle
  <2> QED
    BY <1>6, <2>1, <2>2, <2>3, <2>4 DEF Continue
<1> QED
  BY <1>2, <1>3, <1>4, <1>5, <1>6 DEF Next

-----------------------------------------------------------------------------
(* What the steps do to an import and to the box with its results. *)

\* An import is assigning its tasks.
Assigning == \E i \in DOMAIN stack : stack[i].slot = "import" /\ stack[i].at = "assign"

\* The slots of the boxes, and of an import that assigns, are where they were.
BoxesKept ==
  /\ \A i \in DOMAIN stack : stack[i].slot = "imported" =>
       i \in DOMAIN stack' /\ stack'[i].slot = "imported"
  /\ \A i \in DOMAIN stack' : stack'[i].slot = "imported" =>
       i \in DOMAIN stack /\ stack[i].slot = "imported"
ImportIdle ==
  /\ BoxesKept
  /\ Assigning => Assigning'
  /\ UNCHANGED <<unassigned, zfoFilesToImport, imported, chosen, mixed>>

LEMMA AssigningOnTop ==
  ASSUME StackOK(stack), Assigning
  PROVE  stack # <<>> /\ Top.slot = "import" /\ Top.at = "assign"
<1>1. PICK i \in DOMAIN stack : stack[i].slot = "import" /\ stack[i].at = "assign"
  BY DEF Assigning
<1>2. ~ i < Len(stack)
  BY <1>1 DEF StackOK, Nested, Loops, Dialogues
<1>3. stack # <<>> /\ i = Len(stack)
  BY <1>1, <1>2, EmptySeq DEF StackOK
<1> QED
  BY <1>1, <1>3 DEF Top

LEMMA BoxesFollow ==
  ASSUME NEW new, NEW gone, Follows(stack, stack', new, gone),
         "imported" \notin new, "imported" \notin gone
  PROVE  /\ BoxesKept
         /\ "import" \notin gone => (Assigning => Assigning')
BY DEF Follows, BoxesKept, Assigning

LEMMA BoxesTop ==
  ASSUME StackOK(stack), StackOK(stack'), stack # <<>>,
         \/ OnlyTop
         \/ Top.slot # "imported" /\ stack' = Caller,
         Top.slot # "import"
  PROVE  BoxesKept /\ (Assigning => Assigning')
<1>1. ~Assigning
  BY AssigningOnTop
<1>2. CASE OnlyTop
  <2>1. /\ DOMAIN stack' = DOMAIN stack /\ DOMAIN stack = 1 .. Len(stack)
        /\ Len(stack) \in Nat /\ Len(stack') = Len(stack)
        /\ stack'[Len(stack)].slot = stack[Len(stack)].slot
        /\ \A i \in 1 .. Len(stack) - 1 : stack'[i] = stack[i]
    BY <1>2 DEF OnlyTop, StackOK, Top
  <2>2. \A i \in DOMAIN stack : stack'[i].slot = stack[i].slot
    BY <2>1
  <2> QED
    BY <1>1, <2>1, <2>2 DEF BoxesKept
<1>3. CASE Top.slot # "imported" /\ stack' = Caller
  <2>1. /\ DOMAIN stack = 1 .. Len(stack) /\ Len(stack) \in Nat
        /\ DOMAIN stack' = 1 .. Len(stack) - 1
        /\ \A i \in 1 .. Len(stack) - 1 : stack'[i] = stack[i]
    BY <1>3, Popped DEF StackOK, Caller
  <2>2. stack[Len(stack)].slot # "imported"
    BY <1>3 DEF Top
  <2> QED
    BY <1>1, <2>1, <2>2 DEF BoxesKept
<1> QED
  BY <1>2, <1>3

LEMMA ImportStep ==
  ASSUME NEW new, NEW gone, StackStep(new, gone), "imported" \notin new,
         gone \cap {"import", "imported"} = {},
         UNCHANGED <<unassigned, zfoFilesToImport, imported, chosen, mixed>>
  PROVE  ImportIdle
BY BoxesFollow DEF StackStep, ImportIdle

LEMMA ImportStays ==
  ASSUME UNCHANGED <<stack, unassigned, zfoFilesToImport, imported, chosen, mixed>>
  PROVE  ImportIdle
BY DEF ImportIdle, BoxesKept, Assigning

\* What sendMessageISDS() finds and leaves.
LEMMA SendBuildNow ==
  ASSUME WindowInv, SendBuild
  PROVE  /\ stack # <<>> /\ Top.slot = "send" /\ Top.form \in Dialogs
         /\ form[Top.form].at = "enabled"
         /\ form[Top.form].recipients \in (SUBSET Transactions) \ {{}}
         /\ StackOK(stack') /\ OnlyTop
         /\ Top.unsent = {} /\ Top'.unsent = form[Top.form].recipients
<1> DEFINE n == Top.form
<1>1. /\ FormTyped /\ StackOK(stack)
      /\ \A i \in DOMAIN stack : FrameFits(stack[i], form)
  BY DEF WindowInv, FormsInv
<1>2. /\ stack # <<>> /\ Top.slot = "send" /\ Top.unsent = {} /\ n \in Dialogs
  BY <1>1, Somewhere, TopForm DEF SendBuild, FormSlots
<1>3. FrameFits(Top, form)
  BY <1>1, <1>2, EmptySeq DEF Top, StackOK
<1>4. form[n].at = "enabled" /\ form[n].recipients \in (SUBSET Transactions) \ {{}}
  BY <1>1, <1>2, <1>3 DEF FrameFits, FormTyped, CountedForm
<1> QED
  BY <1>1, <1>2, <1>4, SendBuildStack

\* The steps of an import; all the others leave it alone.
LEMMA ImportKinds ==
  ASSUME WindowInv, Next
  PROVE  \/ ImportIdle
         \/ ImportCancelled \/ ImportAssign \/ ResultClosed
         \/ \E files \in SUBSET Files : ImportGiven(files)
         \/ \E f \in Files : CollectImportZfoStatus(f)
<1>1. StackOK(stack) /\ enabled \in BOOLEAN /\ FormsInv /\ FormTyped
  BY DEF WindowInv, WindowTyped
<1>2. CASE Worker
  BY <1>2, ImportStays DEF Worker, WorkerTake, WorkerReport, WorkerEnd, windowVars, importVars
<1>3. CASE Deliver
  <2>1. ASSUME NEW t \in Transactions, CollectSendMessageStatus(t) PROVE ImportIdle
    <3>1. StackStep({"told"}, {})
      BY <1>1, <2>1, CollectSendStack
    <3> QED
      BY <2>1, <3>1, ImportStep DEF CollectSendMessageStatus, importVars
  <2>2. BackgroundWorkersFinished \/ Quit => ImportIdle
    BY ImportStays DEF BackgroundWorkersFinished, Quit, importVars
  <2> QED
    BY <1>3, <2>1, <2>2 DEF Deliver
<1>4. CASE User
  <2>1. ASSUME SyncAll \/ SyncOne \/ ImportZfo \/ CloseEvent PROVE ImportIdle
    <3>1. UNCHANGED <<unassigned, zfoFilesToImport, imported, chosen, mixed>>
      BY <2>1 DEF SyncAll, SyncOne, ImportZfo, CloseEvent, importVars
    <3> QED
      BY <1>1, <2>1, <3>1, WindowSlots, ImportStep
  <2>2. DownloadAttachments => ImportIdle
    BY ImportStays DEF DownloadAttachments, importVars
  <2>3. ASSUME NEW n \in Dialogs, EnterForm(n) PROVE ImportIdle
    <3>1. UNCHANGED <<unassigned, zfoFilesToImport, imported, chosen, mixed>>
      BY <2>3 DEF EnterForm, ShowSendMessageDialog, SetAccountInfo, AddRecipient, SendMessage,
         importVars
    <3> QED
      BY <1>1, <2>3, <3>1, FormSlotsEntered, ImportStep DEF EnterForm
  <2>4. ASSUME NEW n \in Dialogs
        PROVE  DeleteRecipientEntries(n) \/ CloseSendMessageDialog(n) \/ PingIsdsServer(n)
               => ImportIdle
    BY ImportStays DEF DeleteRecipientEntries, CloseSendMessageDialog, PingIsdsServer, windowVars,
       importVars
  <2> QED
    BY <1>4, <2>1, <2>2, <2>3, <2>4 DEF User, EnterForm
<1>5. CASE Answer
  <2>1. ASSUME LoggedIn \/ CloseIgnored \/ CloseStop PROVE ImportIdle
    BY <1>1, <2>1, SyncSlots, ImportSlots, ImportStep
       DEF LoggedIn, CloseIgnored, CloseStop, importVars
  <2>2. ASSUME LogInFails PROVE ImportIdle
    BY <1>1, <2>2, LogInFailsStack, ImportStep DEF LogInFails, importVars
  <2>3. ASSUME BoxAnswered \/ PaymentRefused \/ PaymentAgreed \/ ToldClosed PROVE ImportIdle
    BY <1>1, <2>3, MessageSlots, ImportStep
       DEF BoxAnswered, PaymentRefused, PaymentAgreed, ToldClosed, importVars
  <2>4. ASSUME ExpiryAnswered PROVE ImportIdle
    BY <1>1, <2>4, InfoReturnStack, ImportStep DEF ExpiryAnswered, importVars
  <2> QED
    BY <1>5, <2>1, <2>2, <2>3, <2>4 DEF Answer
<1>6. CASE Continue
  <2>1. ASSUME AllNext PROVE ImportIdle
    BY <1>1, <2>1, AllNextStack, ImportStep DEF StackStep, AllNext, importVars
  <2>2. ASSUME AllEnd \/ OneDisable \/ OneConnected \/ InfoPost PROVE ImportIdle
    BY <1>1, <2>2, SyncSlots, ImportStep
       DEF AllEnd, OneDisable, OneConnected, InfoPost, importVars
  <2>3. ASSUME InfoReturn PROVE ImportIdle
    BY <1>1, <2>3, InfoReturnStack, ImportStep DEF InfoReturn, importVars
  <2>4. ASSUME OneAssign PROVE ImportIdle
    <3>1. Follows(stack, stack', {}, {"one"})
      BY <1>1, <2>4, OneAssignStack
    <3>2. BoxesKept /\ (Assigning => Assigning')
      BY <3>1, BoxesFollow
    <3> QED
      BY <2>4, <3>2 DEF OneAssign, importVars, ImportIdle
  <2>5. ASSUME CloseClear PROVE ImportIdle
    BY <1>1, <2>5, ImportSlots, ImportStep DEF CloseClear, importVars
  <2>6. ASSUME MainWaited \/ MainEnd PROVE ImportIdle
    BY <2>6, ImportStays DEF MainWaited, MainEnd, importVars
  <2>7. ASSUME AlivePost \/ AliveReturn \/ CreditPost \/ CreditReturn \/ BoxFound
        PROVE  ImportIdle
    <3>1. UNCHANGED <<unassigned, zfoFilesToImport, imported, chosen, mixed>>
      BY <2>7 DEF AlivePost, AliveReturn, CreditPost, CreditReturn, BoxFound, importVars
    <3> QED
      BY <1>1, <2>7, <3>1, MessageSlots, ImportStep
  <2>8. ASSUME SendBuild PROVE ImportIdle
    <3>1. stack # <<>> /\ Top.slot = "send" /\ Top.at = "build"
      BY <1>1, <2>8, Somewhere DEF SendBuild
    <3>2. StackOK(stack') /\ OnlyTop
      BY <1>1, <2>8, <3>1, SendBuildNow
    <3> QED
      BY <1>1, <2>8, <3>1, <3>2, BoxesTop DEF ImportIdle, SendBuild, importVars
  <2>9. ASSUME SendAssign PROVE ImportIdle
    <3>1. /\ stack # <<>> /\ Top.slot = "send" /\ StackOK(stack')
          /\ OnlyTop \/ stack' = Caller
      BY <1>1, <2>9, SendAssignStack
    <3> QED
      BY <1>1, <2>9, <3>1, BoxesTop DEF ImportIdle, SendAssign, importVars
  <2> QED
    BY <1>6, <2>1, <2>2, <2>3, <2>4, <2>5, <2>6, <2>7, <2>8, <2>9 DEF Continue
<1> QED
  BY <1>2, <1>3, <1>4, <1>5, <1>6 DEF Next

-----------------------------------------------------------------------------
(* Files and transactions stay with the worker until they are reported.    *)

LEMMA ClosedStays == ASSUME Next, closed PROVE closed'
<1>1. CASE Worker
  BY <1>1 DEF Worker, WorkerTake, WorkerReport, WorkerEnd, windowVars
<1>2. CASE Deliver
  BY <1>2 DEF Deliver, BackgroundWorkersFinished, Quit, CollectImportZfoStatus,
     CollectSendMessageStatus
<1>3. CASE User
  BY <1>3 DEF User, UserOp, UserStep, SyncAll, SyncOne, DownloadAttachments, ImportZfo,
     CloseEvent, ShowSendMessageDialog, SetAccountInfo, AddRecipient, SendMessage, PingIsdsServer,
     DeleteRecipientEntries, CloseSendMessageDialog, windowVars
<1>4. CASE Answer
  BY <1>4 DEF Answer, LoggedIn, LogInFails, ExpiryAnswered, CloseIgnored, CloseStop,
     ImportCancelled, ResultClosed, BoxAnswered, PaymentRefused, PaymentAgreed, ToldClosed, ImportGiven
<1>5. CASE Continue
  BY <1>5 DEF Continue, AllNext, AllEnd, OneDisable, OneConnected, InfoPost, InfoReturn,
     OneAssign, ImportAssign, CloseClear, MainWaited, MainEnd, AlivePost, AliveReturn, CreditPost,
     CreditReturn, BoxFound, SendBuild, SendAssign
<1> QED
  BY <1>1, <1>2, <1>3, <1>4, <1>5 DEF Next

\* A task stays in its place or goes on to the next one; only closing drops it.
Keeps(x) ==
  /\ OnePlace(x) => OnePlace(x)'
  /\ Waiting(x)' => Waiting(x)
  /\ Reported(x)' <=> Reported(x)
  /\ ~closed' => (Waiting(x) => Waiting(x)')
Stays(x) ==
  /\ OnePlace(x) => OnePlace(x)'
  /\ Placed(x)' => Placed(x)
  /\ ~closed' => (Placed(x) => Placed(x)')

LEMMA KeptKeeps == ASSUME NEW x, Kept(x) PROVE Keeps(x)
BY DEF Kept, Keeps

LEMMA KeepsStays == ASSUME NEW x, Keeps(x) \/ Told(x) PROVE Stays(x)
BY DEF Keeps, Told, Stays, Placed

LEMMA StepKeeps ==
  ASSUME WindowInv, Next, NEW x \in Jobs
  PROVE  \/ Keeps(x)
         \/ WorkerReport /\ x = current /\ Told(x)
         \/ x \in Files /\ (ImportAssign \/ CollectImportZfoStatus(x))
         \/ x \in Transactions /\ (SendAssign \/ CollectSendMessageStatus(x))
<1> SUFFICES ASSUME x \in Files => ~ImportAssign /\ ~CollectImportZfoStatus(x),
                    x \in Transactions => ~SendAssign /\ ~CollectSendMessageStatus(x)
             PROVE  Keeps(x) \/ (WorkerReport /\ x = current /\ Told(x))
  OBVIOUS
<1>1. Files \cap Transactions = {} /\ StackOK(stack)
  BY JobNames DEF WindowInv
<1>2. CASE WorkerReport
  BY <1>2, ReportMoves, KeptKeeps
<1>3. CASE CloseClear
  BY <1>3, ClearMoves DEF Keeps, CloseClear
<1>4. CASE ImportAssign
  <2>1. PICK f \in unassigned : PutLo(f, "APPEND")
    BY <1>4 DEF ImportAssign
  <2>2. f \in Files /\ f \in Jobs /\ UNCHANGED <<stage, events>> /\ x # f
    BY <1>4, <2>1 DEF ImportAssign, WindowInv, WindowTyped, Jobs
  <2>3. Kept(x)
    BY <2>1, <2>2, AssignMoves
  <2> QED
    BY <2>3, KeptKeeps
<1>5. CASE SendAssign
  <2>1. PICK t \in Transactions : PutHi(t, "APPEND")
    BY <1>1, <1>5, SendAssignStack
  <2>2. t \in Jobs /\ UNCHANGED <<stage, events>> /\ x # t
    BY <1>5, <2>1 DEF SendAssign, Jobs
  <2>3. Kept(x)
    BY <2>1, <2>2, AssignMoves
  <2> QED
    BY <2>3, KeptKeeps
<1>6. CASE \E t \in Transactions : CollectSendMessageStatus(t)
  <2>1. PICK t \in Transactions : CollectSendMessageStatus(t)
    BY <1>6
  <2>2. /\ t # x /\ Delivered(t) /\ stage' = stage
        /\ UNCHANGED poolVars \/ PutHi("download", "PREPEND")
    BY <2>1 DEF CollectSendMessageStatus
  <2>3. Kept(x)
    BY <2>2, DeliveredMoves
  <2> QED
    BY <2>3, KeptKeeps
<1>7. CASE \E f \in Files : CollectImportZfoStatus(f)
  <2>1. PICK f \in Files : CollectImportZfoStatus(f)
    BY <1>7
  <2>2. f # x /\ Delivered(f) /\ stage' = stage /\ UNCHANGED poolVars
    BY <2>1 DEF CollectImportZfoStatus
  <2>3. Kept(x)
    BY <2>2, DeliveredMoves
  <2> QED
    BY <2>3, KeptKeeps
<1> QED
  BY <1>2, <1>3, <1>4, <1>5, <1>6, <1>7, OtherMoves, KeptKeeps

LEMMA StepStays ==
  ASSUME WindowInv, Next, NEW x \in Jobs
  PROVE  \/ Stays(x)
         \/ x \in Files /\ (ImportAssign \/ CollectImportZfoStatus(x))
         \/ x \in Transactions /\ (SendAssign \/ CollectSendMessageStatus(x))
BY StepKeeps, KeepsStays

-----------------------------------------------------------------------------
(* The results of an import are those of all its files.                    *)

BoxAt(i) == stack[i].slot = "imported"

\* A file is awaited as long as it is with the worker or has yet to be assigned.
ImportPlaced == ~closed => \A f \in zfoFilesToImport : f \in unassigned \/ Placed(f)

\* Results are kept until the last file is reported and the box is closed.
ImportOpen ==
  /\ unassigned # {} => Assigning
  /\ imported # <<>> => zfoFilesToImport # {} \/ \E i \in DOMAIN stack : BoxAt(i)

\* In an import that does not mix with another a file is with the worker once, and
\* has no result as long as it is awaited.
ImportOnce ==
  \A f \in Files :
    /\ OnePlace(f) /\ (f \in unassigned => ~Placed(f))
    /\ f \in unassigned \/ Placed(f) => f \in zfoFilesToImport
    /\ Once(f, imported) /\ (f \in zfoFilesToImport => ~Occurs(f, imported))

\* The files of such an import are awaited or have results; none is awaited when the
\* one box with the results is open.
ImportCounted ==
  /\ \/ zfoFilesToImport = {} /\ imported = <<>>
     \/ \A f \in Files : f \in chosen <=> f \in zfoFilesToImport \/ Occurs(f, imported)
  /\ \A i \in DOMAIN stack : BoxAt(i) =>
       zfoFilesToImport = {} /\ \A f \in Files : f \in chosen <=> Occurs(f, imported)
  /\ \A i, j \in DOMAIN stack : BoxAt(i) /\ BoxAt(j) => i = j

ImportInv == ImportPlaced /\ ImportOpen /\ (~mixed => ImportOnce /\ ImportCounted)

LEMMA IdleImports ==
  ASSUME WindowInv, ImportInv, ImportIdle, closed => closed', \A f \in Files : Stays(f)
  PROVE  ImportInv'
<1>1. zfoFilesToImport \subseteq Files /\ unassigned \subseteq Files
  BY DEF WindowInv, WindowTyped
<1>2. UNCHANGED <<unassigned, zfoFilesToImport, imported, chosen, mixed>>
  BY DEF ImportIdle
<1>3. ImportPlaced'
  BY <1>1, <1>2 DEF ImportInv, ImportPlaced, Stays
<1>4. ImportOpen'
  BY <1>2 DEF ImportInv, ImportOpen, ImportIdle, BoxesKept, BoxAt
<1>5. ASSUME ~mixed PROVE ImportOnce'
  BY <1>2, <1>5 DEF ImportInv, ImportOnce, Stays
<1>6. ASSUME ~mixed PROVE ImportCounted'
  BY <1>2, <1>6 DEF ImportInv, ImportCounted, ImportIdle, BoxesKept, BoxAt
<1> QED
  BY <1>2, <1>3, <1>4, <1>5, <1>6 DEF ImportInv

LEMMA CancelImports == ASSUME WindowInv, ImportInv, ImportCancelled PROVE ImportIdle
<1>1. StackOK(stack)
  BY DEF WindowInv
<1>2. ~Assigning
  BY <1>1, AssigningOnTop DEF ImportCancelled, In
<1>3. StackStep({}, {"import"})
  BY <1>1, ImportSlots
<1> QED
  BY <1>2, <1>3, BoxesFollow DEF StackStep, ImportIdle, ImportCancelled, importVars

\* No box of an import is open below the dialogues of the next one.
LEMMA GivenImports ==
  ASSUME WindowInv, ImportInv, NEW files \in SUBSET Files, ImportGiven(files)
  PROVE  ImportInv'
<1>1. /\ StackOK(stack) /\ QueuesTyped /\ stack # <<>> /\ Top.slot = "import" /\ Top.at = "ask"
      /\ Top.unsent = {}
  BY Somewhere DEF WindowInv, ImportGiven
<1>2. /\ zfoFilesToImport' = files /\ imported' = <<>> /\ unassigned' = files
      /\ chosen' = files /\ mixed' = (Outstanding # {})
      /\ UNCHANGED <<hi, lo, current, stage, events>>
  BY DEF ImportGiven, poolVars
<1>3. \A f : ~Occurs(f, <<>>) /\ Once(f, <<>>)
  BY EmptySeq DEF Occurs, Once
<1>4. \A i \in DOMAIN stack' : ~BoxAt(i)'
  <2>1. StackStep({}, {"import"})
    BY <1>1, ImportSlots
  <2>2. \A i \in DOMAIN stack : i < Len(stack) => stack[i].slot \in Plain
    BY <1>1, PlainBelow
  <2>3. \A i \in DOMAIN stack : ~BoxAt(i)
    BY <1>1, <2>2 DEF Top, StackOK, BoxAt, Plain
  <2> QED
    BY <2>1, <2>3 DEF StackStep, Follows, BoxAt
<1>5. ImportPlaced'
  BY <1>2 DEF ImportPlaced
<1>6. ImportOpen'
  <2>1. CASE files = {}
    BY <1>2, <2>1 DEF ImportOpen
  <2>2. CASE files # {}
    <3>1. GoTo("assign")
      BY <2>2 DEF ImportGiven
    <3>2. Len(stack) \in DOMAIN stack' /\ stack'[Len(stack)].slot = "import"
          /\ stack'[Len(stack)].at = "assign"
      BY <1>1, <3>1 DEF GoTo, StackOK, Top, Frames
    <3> QED
      BY <1>2, <3>2 DEF ImportOpen, Assigning
  <2> QED
    BY <2>1, <2>2
<1>7. ASSUME ~mixed' PROVE ImportOnce'
  <2> SUFFICES ASSUME NEW f \in Files
               PROVE  /\ OnePlace(f)' /\ ~Placed(f)'
                      /\ Once(f, imported') /\ ~Occurs(f, imported')
    BY <1>2 DEF ImportOnce
  <2>1. ~Occurs(f, lo) /\ ~Occurs(f, events) /\ current # f
    BY <1>2, <1>7 DEF Outstanding, Occurs
  <2>2. ~Occurs(f, hi)
    BY <1>1, ItemsAssumption DEF QueuesTyped, Occurs
  <2>3. \A q : ~Occurs(f, q) => Once(f, q)
    BY DEF Occurs, Once
  <2>4. OnePlace(f) /\ ~Placed(f)
    BY <2>1, <2>2, <2>3 DEF OnePlace, Placed, Waiting, Reported, Executed
  <2> QED
    BY <1>2, <1>3, <2>4 DEF OnePlace, Placed, Waiting, Reported, Executed
<1>8. ImportCounted'
  BY <1>2, <1>3, <1>4 DEF ImportCounted
<1> QED
  BY <1>5, <1>6, <1>7, <1>8 DEF ImportInv

LEMMA AssignImports == ASSUME WindowInv, ImportInv, ImportAssign PROVE ImportInv'
<1>1. PICK f \in unassigned : PutLo(f, "APPEND") /\ unassigned' = unassigned \ {f}
  BY DEF ImportAssign
<1>2. /\ unassigned \in SUBSET Files /\ StackOK(stack) /\ f \in Files
      /\ UNCHANGED <<stage, events, closed, zfoFilesToImport, imported, chosen, mixed>>
      /\ zfoFilesToImport \subseteq Files
  BY <1>1 DEF WindowInv, WindowTyped, ImportAssign
<1>3. Assigned(f) /\ \A x \in Files : x # f => Kept(x)
  BY <1>1, <1>2, AssignMoves DEF Jobs
<1>4. BoxesKept
  BY <1>2, ImportSlots, BoxesFollow DEF StackStep
<1>5. ImportPlaced'
  BY <1>1, <1>2, <1>3 DEF ImportInv, ImportPlaced, Kept, Assigned, Placed
<1>6. ImportOpen'
  <2>1. ASSUME unassigned' # {} PROVE Assigning'
    <3>1. stack' = stack
      BY <2>1 DEF ImportAssign
    <3> QED
      BY <1>1, <3>1 DEF ImportInv, ImportOpen, Assigning
  <2> QED
    BY <1>2, <1>4, <2>1 DEF ImportInv, ImportOpen, BoxesKept, BoxAt
<1>7. ASSUME ~mixed PROVE ImportOnce'
  <2> SUFFICES ASSUME NEW x \in Files
               PROVE  /\ OnePlace(x)' /\ (x \in unassigned' => ~Placed(x)')
                      /\ x \in unassigned' \/ Placed(x)' => x \in zfoFilesToImport
    BY <1>2, <1>7 DEF ImportInv, ImportOnce
  <2>1. /\ OnePlace(x) /\ (x \in unassigned => ~Placed(x))
        /\ x \in unassigned \/ Placed(x) => x \in zfoFilesToImport
    BY <1>7 DEF ImportInv, ImportOnce
  <2>2. CASE x = f
    BY <1>1, <1>3, <2>1, <2>2 DEF Assigned
  <2>3. CASE x # f
    BY <1>1, <1>3, <2>1, <2>3 DEF Kept, Placed
  <2> QED
    BY <2>2, <2>3
<1>8. ASSUME ~mixed PROVE ImportCounted'
  BY <1>2, <1>4, <1>8 DEF ImportInv, ImportCounted, BoxesKept, BoxAt
<1> QED
  BY <1>2, <1>5, <1>6, <1>7, <1>8 DEF ImportInv

LEMMA CloseImports == ASSUME WindowInv, ImportInv, ResultClosed PROVE ImportInv'
<1>1. /\ StackOK(stack) /\ stack # <<>> /\ Top.slot = "imported" /\ stack' = Caller
      /\ zfoFilesToImport' = {} /\ imported' = <<>>
      /\ UNCHANGED <<hi, lo, current, stage, events, unassigned, chosen, mixed>>
  BY DEF WindowInv, ResultClosed, In, poolVars
<1>2. ~Assigning
  BY <1>1, AssigningOnTop
<1>3. \A f : ~Occurs(f, <<>>) /\ Once(f, <<>>)
  BY EmptySeq DEF Occurs, Once
<1>4. /\ DOMAIN stack = 1 .. Len(stack) /\ Len(stack) \in DOMAIN stack
      /\ DOMAIN stack' = 1 .. Len(stack) - 1
      /\ \A i \in 1 .. Len(stack) - 1 : stack'[i] = stack[i]
      /\ BoxAt(Len(stack))
  BY <1>1, Popped DEF StackOK, Caller, Top, BoxAt
<1>5. ImportPlaced' /\ ImportOpen'
  BY <1>1, <1>2 DEF ImportInv, ImportPlaced, ImportOpen
<1>6. ASSUME ~mixed PROVE ImportOnce' /\ ImportCounted'
  <2>1. zfoFilesToImport = {}
    BY <1>4, <1>6 DEF ImportInv, ImportCounted
  <2>2. \A f \in Files : OnePlace(f) /\ f \notin unassigned /\ ~Placed(f)
    BY <1>6, <2>1 DEF ImportInv, ImportOnce
  <2>3. \A f \in Files : OnePlace(f)' /\ ~Placed(f)'
    BY <1>1, <2>2 DEF OnePlace, Placed, Waiting, Reported, Executed
  <2>4. ImportOnce'
    BY <1>1, <1>3, <2>2, <2>3 DEF ImportOnce
  <2>5. \A i \in DOMAIN stack' : ~BoxAt(i)'
    BY <1>4, <1>6 DEF ImportInv, ImportCounted, BoxAt
  <2>6. ImportCounted'
    BY <1>1, <2>5 DEF ImportCounted
  <2> QED
    BY <2>4, <2>6
<1> QED
  BY <1>1, <1>5, <1>6 DEF ImportInv

\* The report of a file; the last one opens the box.
LEMMA CollectImports ==
  ASSUME WindowInv, ImportInv, NEW f \in Files, CollectImportZfoStatus(f)
  PROVE  ImportInv'
<1>1. /\ StackOK(stack) /\ unassigned \subseteq Files /\ zfoFilesToImport \subseteq Files
      /\ imported \in Seq(Files) /\ f \in Jobs
  BY DEF WindowInv, WindowTyped, Jobs
<1>2. /\ Delivered(f) /\ imported' = Append(imported, f)
      /\ zfoFilesToImport' = zfoFilesToImport \ {f}
      /\ stack' = IF zfoFilesToImport' = {}
                  THEN Append(stack, Frame("imported", "ask", 0, FALSE)) ELSE stack
      /\ UNCHANGED <<stage, closed, unassigned, chosen, mixed>> /\ UNCHANGED poolVars
  BY DEF CollectImportZfoStatus
<1>3. Delivery(f) /\ \A x \in Files : x # f => Kept(x)
  BY <1>1, <1>2, DeliveredMoves DEF Jobs
<1>4. /\ \A x : Occurs(x, imported') <=> Occurs(x, imported) \/ x = f
      /\ \A x : x # f \/ ~Occurs(f, imported) => (Once(x, imported) => Once(x, imported'))
  BY <1>1, <1>2, OccursAppend, SameAppend DEF Same
<1>5. StackStep({"imported"}, {})
  BY <1>1, WindowSlots DEF WindowInv, WindowTyped
<1>6. ~Assigning
  BY <1>1, <1>2, AssigningOnTop DEF Delivered, EventLoop, Dialogues
<1>7. ImportPlaced'
  BY <1>1, <1>2, <1>3 DEF ImportInv, ImportPlaced, Kept, Placed
<1>8. /\ DOMAIN stack = 1 .. Len(stack) /\ Len(stack) \in Nat
      /\ zfoFilesToImport' # {} => stack' = stack
      /\ zfoFilesToImport' = {} =>
           /\ DOMAIN stack' = 1 .. Len(stack) + 1
           /\ \A i \in 1 .. Len(stack) : stack'[i] = stack[i]
           /\ stack'[Len(stack) + 1].slot = "imported"
  <2> DEFINE b == Frame("imported", "ask", 0, FALSE)
  <2>1. b \in Frames /\ b.slot = "imported"
    BY WindowAssumption DEF Frame, Frames
  <2> HIDE DEF b
  <2>2. stack' = IF zfoFilesToImport' = {} THEN Append(stack, b) ELSE stack
    BY <1>2 DEF b
  <2> QED
    BY <1>1, <2>1, <2>2, Pushed DEF StackOK
<1>9. ImportOpen'
  <2>1. unassigned' = {}
    BY <1>2, <1>6 DEF ImportInv, ImportOpen
  <2>2. zfoFilesToImport' = {} => \E i \in DOMAIN stack' : BoxAt(i)'
    <3>1. zfoFilesToImport' = {} => Len(stack) + 1 \in DOMAIN stack'
      BY <1>8
    <3> QED
      BY <1>8, <3>1 DEF BoxAt
  <2> QED
    BY <2>1, <2>2 DEF ImportOpen
<1>10. ASSUME ~mixed
       PROVE  /\ \A x \in Files :
                   /\ OnePlace(x) /\ (x \in unassigned => ~Placed(x))
                   /\ x \in unassigned \/ Placed(x) => x \in zfoFilesToImport
                   /\ Once(x, imported) /\ (x \in zfoFilesToImport => ~Occurs(x, imported))
              /\ f \in zfoFilesToImport /\ f \notin unassigned
              /\ ~Placed(f)' /\ OnePlace(f)'
              /\ \A i \in DOMAIN stack : ~BoxAt(i)
              /\ \A x \in Files : x \in chosen <=> x \in zfoFilesToImport \/ Occurs(x, imported)
  <2>1. \A x \in Files :
          /\ OnePlace(x) /\ (x \in unassigned => ~Placed(x))
          /\ x \in unassigned \/ Placed(x) => x \in zfoFilesToImport
          /\ Once(x, imported) /\ (x \in zfoFilesToImport => ~Occurs(x, imported))
    BY <1>10 DEF ImportInv, ImportOnce
  <2>2. /\ f \in zfoFilesToImport /\ f \notin unassigned
        /\ ~Placed(f)' /\ OnePlace(f)'
    BY <1>3, <2>1 DEF Delivery, Placed
  <2> QED
    BY <1>10, <2>1, <2>2 DEF ImportInv, ImportCounted
<1>11. ASSUME ~mixed PROVE ImportOnce'
  <2> SUFFICES ASSUME NEW x \in Files
               PROVE  /\ OnePlace(x)' /\ (x \in unassigned' => ~Placed(x)')
                      /\ x \in unassigned' \/ Placed(x)' => x \in zfoFilesToImport'
                      /\ Once(x, imported') /\ (x \in zfoFilesToImport' => ~Occurs(x, imported'))
    BY DEF ImportOnce
  <2>1. CASE x = f
    BY <1>2, <1>4, <1>10, <1>11, <2>1
  <2>2. CASE x # f
    <3>1. Kept(x)
      BY <1>3, <2>2
    <3>2. OnePlace(x)' /\ (Placed(x)' <=> Placed(x))
      BY <1>10, <1>11, <3>1 DEF Kept, Placed
    <3> QED
      BY <1>2, <1>4, <1>10, <1>11, <2>2, <3>2
  <2> QED
    BY <2>1, <2>2
<1>12. ASSUME ~mixed PROVE ImportCounted'
  <2>1. \A x \in Files : x \in chosen' <=> x \in zfoFilesToImport' \/ Occurs(x, imported')
    BY <1>2, <1>4, <1>10, <1>12
  <2>2. CASE zfoFilesToImport' # {}
    BY <1>8, <1>10, <1>12, <2>1, <2>2 DEF ImportCounted, BoxAt
  <2>3. CASE zfoFilesToImport' = {}
    <3>1. \A i \in DOMAIN stack' : BoxAt(i)' => i = Len(stack) + 1
      BY <1>8, <1>10, <1>12, <2>3 DEF BoxAt
    <3> QED
      BY <2>1, <2>3, <3>1 DEF ImportCounted
  <2> QED
    BY <2>2, <2>3
<1> QED
  BY <1>2, <1>7, <1>9, <1>11, <1>12 DEF ImportInv

LEMMA ImportNext == ASSUME WindowInv, ImportInv, [Next]_vars PROVE ImportInv'
<1>1. CASE Next
  <2>1. CASE ImportCancelled \/ ImportIdle
    <3>1. ImportIdle
      BY <2>1, CancelImports
    <3>2. CASE \E f \in Files : CollectImportZfoStatus(f)
      BY <3>2, CollectImports
    <3>3. CASE ImportAssign
      BY <3>3, AssignImports
    <3>4. CASE ~ImportAssign /\ \A f \in Files : ~CollectImportZfoStatus(f)
      <4>1. \A f \in Files : Stays(f)
        BY <1>1, <3>4, StepStays, JobNames DEF Jobs
      <4>2. closed => closed'
        BY <1>1, ClosedStays
      <4> QED
        BY <3>1, <4>1, <4>2, IdleImports
    <3> QED
      BY <3>2, <3>3, <3>4
  <2> QED
    BY <1>1, <2>1, ImportKinds, AssignImports, CloseImports, GivenImports, CollectImports
<1>2. CASE UNCHANGED vars
  <2>1. ImportIdle
    BY <1>2, ImportStays DEF vars, windowVars, importVars
  <2>2. \A f \in Files : Stays(f)
    BY <1>2, KeptIdle, KeptKeeps, KeepsStays DEF vars, windowVars, poolVars, Jobs
  <2>3. closed' = closed
    BY <1>2 DEF vars, windowVars
  <2> QED
    BY <2>1, <2>2, <2>3, IdleImports
<1> QED
  BY <1>1, <1>2

LEMMA ImportAlways == Spec => []ImportInv
<1>1. Init => ImportInv
  <2> SUFFICES ASSUME Init PROVE ImportInv
    OBVIOUS
  <2>1. /\ hi = <<>> /\ lo = <<>> /\ current = None /\ events = <<>> /\ stack = <<>>
        /\ unassigned = {} /\ zfoFilesToImport = {} /\ imported = <<>>
    BY DEF Init, PoolInit
  <2>2. \A f : ~Occurs(f, <<>>) /\ Once(f, <<>>)
    BY EmptySeq DEF Occurs, Once
  <2>3. \A f \in Files : f # None
    BY JobNames DEF Jobs
  <2>4. \A f \in Files : OnePlace(f) /\ ~Placed(f)
    BY <2>1, <2>2, <2>3 DEF OnePlace, Placed, Waiting, Reported, Executed
  <2>5. DOMAIN stack = {}
    BY <2>1, EmptySeq
  <2>6. ImportPlaced /\ ImportOpen
    BY <2>1 DEF ImportPlaced, ImportOpen
  <2>7. ImportOnce /\ ImportCounted
    BY <2>1, <2>2, <2>4, <2>5 DEF ImportOnce, ImportCounted
  <2> QED
    BY <2>6, <2>7 DEF ImportInv
<1> QED
  BY <1>1, ImportNext, WindowAlways, PTL DEF Spec

\* A sequence in which each member of a set occurs once is as long as the set is large.
LEMMA OnceCounted ==
  ASSUME NEW S, NEW q \in Seq(S), NEW T \in SUBSET S,
         \A x \in S : Once(x, q) /\ (x \in T <=> Occurs(x, q))
  PROVE  Len(q) = Cardinality(T) /\ IsFiniteSet(T) /\ {q[i] : i \in DOMAIN q} = T
<1>1. DOMAIN q = 1 .. Len(q) /\ Len(q) \in Nat /\ \A i \in 1 .. Len(q) : q[i] \in S
  OBVIOUS
<1>2. {q[i] : i \in DOMAIN q} = T
  BY <1>1 DEF Occurs
<1> DEFINE g == [i \in 1 .. Len(q) |-> q[i]]
<1>3. g \in Bijection(1 .. Len(q), T)
  <2>1. \A i \in 1 .. Len(q) : q[i] \in T
    BY <1>1, <1>2
  <2>2. g \in [1 .. Len(q) -> T]
    BY <2>1
  <2>3. \A x \in T : \E i \in 1 .. Len(q) : g[i] = x
    BY <1>1 DEF Occurs
  <2>4. \A i, j \in 1 .. Len(q) : g[i] = g[j] => i = j
    BY <1>1 DEF Once
  <2> HIDE DEF g
  <2> QED
    BY <2>2, <2>3, <2>4 DEF Bijection, Injection, Surjection, IsInjective
<1>4. IsFiniteSet(1 .. Len(q)) /\ Cardinality(1 .. Len(q)) = Len(q)
  <2>1. 1 \in Int /\ Len(q) \in Int
    BY <1>1
  <2>2. /\ IsFiniteSet(1 .. Len(q))
        /\ Cardinality(1 .. Len(q)) = IF 1 > Len(q) THEN 0 ELSE Len(q) - 1 + 1
    BY <2>1, FS_Interval, Zenon
  <2> QED
    BY <1>1, <2>2
<1> HIDE DEF g
<1>5. IsFiniteSet(T) /\ Cardinality(T) = Cardinality(1 .. Len(q))
  <2>1. ExistsBijection(1 .. Len(q), T)
    BY <1>3 DEF ExistsBijection
  <2> QED
    BY <1>4, <2>1, FS_Bijection
<1> QED
  BY <1>2, <1>4, <1>5

LEMMA ImportsTold == ASSUME WindowInv, ImportInv PROVE ImportTold
<1>1. ASSUME In("imported", "ask"), ~mixed
      PROVE  Len(imported) = Cardinality(chosen) /\ {imported[i] : i \in DOMAIN imported} = chosen
  <2>1. Len(stack) \in DOMAIN stack /\ BoxAt(Len(stack))
    BY <1>1, EmptySeq DEF WindowInv, StackOK, In, Top, BoxAt
  <2>2. \A f \in Files : f \in chosen <=> Occurs(f, imported)
    BY <1>1, <2>1 DEF ImportInv, ImportCounted
  <2>3. \A f \in Files : Once(f, imported)
    BY <1>1 DEF ImportInv, ImportOnce
  <2>4. imported \in Seq(Files) /\ chosen \in SUBSET Files
    BY DEF WindowInv, WindowTyped
  <2> QED
    BY <2>2, <2>3, <2>4, OnceCounted
<1>2. ASSUME Quiet, ~closed PROVE zfoFilesToImport = {} /\ imported = <<>>
  <2>1. /\ DOMAIN stack = {} /\ hi = <<>> /\ lo = <<>> /\ current = None /\ events = <<>>
    BY <1>2, EmptySeq DEF Quiet, Working
  <2>2. unassigned = {}
    BY <2>1 DEF ImportInv, ImportOpen, Assigning
  <2>3. \A f \in Files : ~Placed(f)
    BY <2>1, JobNames, EmptySeq DEF Placed, Waiting, Reported, Executed, Occurs, Jobs
  <2>4. zfoFilesToImport = {}
    BY <1>2, <2>2, <2>3 DEF ImportInv, ImportPlaced, WindowInv, WindowTyped
  <2> QED
    BY <2>1, <2>4 DEF ImportInv, ImportOpen
<1> QED
  BY <1>1, <1>2 DEF ImportTold

-----------------------------------------------------------------------------
(* A message is sent once, and the dialogue that waits for it is told.     *)

\* A slot has yet to assign the task.
Unsent(t) == \E i \in DOMAIN stack : t \in stack[i].unsent

\* What is not executed yet is not sent; what is reported as sent is sent, once.
TaskOK(t) ==
  /\ OnePlace(t) /\ (Unsent(t) => ~Placed(t))
  /\ Unsent(t) \/ Waiting(t) => sent[t] = 0
  /\ Reported(t) /\ result[t] = "SM_SUCCESS" => sent[t] = 1
  /\ sent[t] \in {0, 1}

\* A dialogue waits for what is with the worker, and for nothing else.
AwaitOK(n) ==
  /\ ~closed => \A t \in form[n].transactIds : Placed(t) \/ Unsent(t)
  /\ form[n].at # "closed" =>
       \A t \in Recipients[n] : Placed(t) \/ Unsent(t) => t \in form[n].transactIds

\* A dialogue f with these recipients counts what it was told of; the other
\* recipients have no message yet.
Succeeded(ts, res) == {t \in ts : res[t] = "SM_SUCCESS"}
Tells(boxes, f, res, messages) ==
  /\ f.at \in {"unopened", "enabled"} => \A t \in boxes : messages[t] = 0
  /\ f.at \in {"unopened", "enabled", "closed"} => f.results = 0 /\ f.successes = 0
  /\ f.at \in {"disabled", "allSent", "someNot"} =>
       /\ \A t \in boxes \ f.recipients : messages[t] = 0
       /\ f.results = Cardinality(f.recipients \ f.transactIds)
       /\ f.successes = Cardinality(Succeeded(f.recipients \ f.transactIds, res))
       /\ \A t \in Succeeded(f.recipients \ f.transactIds, res) : messages[t] = 1
  /\ f.at = "allSent" => f.successes = Cardinality(f.recipients)
  /\ f.at = "someNot" => f.successes # Cardinality(f.recipients)

DialogOK(n) == AwaitOK(n) /\ Tells(Recipients[n], form[n], result, sent)

SendInv ==
  /\ \A t \in Transactions : TaskOK(t)
  /\ \A n \in Dialogs : DialogOK(n)

\* Recipients of two dialogues differ.
LEMMA OneDialog ==
  /\ \A n, k \in Dialogs : n # k => Recipients[n] \cap Recipients[k] = {}
  /\ \A t \in Transactions : \E n \in Dialogs : t \in Recipients[n]
BY RecipientsAssumption DEF Dialogs, Transactions

LEMMA TellsSame ==
  ASSUME NEW boxes, NEW f, f.recipients \subseteq boxes, NEW res, NEW res2, NEW mes, NEW mes2,
         \A t \in boxes : res2[t] = res[t] /\ mes2[t] = mes[t],
         Tells(boxes, f, res, mes)
  PROVE  Tells(boxes, f, res2, mes2)
<1>1. Succeeded(f.recipients \ f.transactIds, res2) = Succeeded(f.recipients \ f.transactIds, res)
  BY DEF Succeeded
<1>2. Succeeded(f.recipients \ f.transactIds, res) \subseteq boxes
  BY DEF Succeeded
<1> QED
  BY <1>1, <1>2 DEF Tells

LEMMA TransactionsFinite ==
  /\ IsFiniteSet(Transactions) /\ Cardinality(Transactions) \in Nat
  /\ \A ts \in SUBSET Transactions :
       /\ IsFiniteSet(ts) /\ Cardinality(ts) \in Nat
       /\ Cardinality(ts) <= Cardinality(Transactions)
<1>1. IsFiniteSet(Transactions)
  BY RecipientsAssumption DEF Transactions, Dialogs
<1>2. Cardinality(Transactions) \in Nat
  BY <1>1, FS_CardinalityType
<1>3. ASSUME NEW ts \in SUBSET Transactions
      PROVE  /\ IsFiniteSet(ts) /\ Cardinality(ts) \in Nat
             /\ Cardinality(ts) <= Cardinality(Transactions)
  BY <1>1, FS_Subset, FS_CardinalityType
<1> QED
  BY <1>1, <1>2, <1>3

\* One more is told of.
LEMMA OneMore ==
  ASSUME NEW ts \in SUBSET Transactions, NEW t \in Transactions, t \notin ts, NEW res
  PROVE  /\ Cardinality(ts \cup {t}) = Cardinality(ts) + 1
         /\ res[t] = "SM_SUCCESS" =>
              Cardinality(Succeeded(ts \cup {t}, res)) = Cardinality(Succeeded(ts, res)) + 1
         /\ res[t] # "SM_SUCCESS" => Succeeded(ts \cup {t}, res) = Succeeded(ts, res)
<1>1. IsFiniteSet(ts) /\ Succeeded(ts, res) \subseteq ts /\ t \notin Succeeded(ts, res)
  BY TransactionsFinite DEF Succeeded
<1>2. IsFiniteSet(Succeeded(ts, res))
  BY <1>1, FS_Subset
<1>3. Cardinality(ts \cup {t}) = Cardinality(ts) + 1
  BY <1>1, FS_AddElement
<1>4. Cardinality(Succeeded(ts, res) \cup {t}) = Cardinality(Succeeded(ts, res)) + 1
  BY <1>1, <1>2, FS_AddElement
<1>5. Succeeded(ts \cup {t}, res) =
        IF res[t] = "SM_SUCCESS" THEN Succeeded(ts, res) \cup {t} ELSE Succeeded(ts, res)
  BY DEF Succeeded
<1> QED
  BY <1>3, <1>4, <1>5

\* Only sendMessageISDS() makes transactions and assigns their tasks.
LEMMA UnsentKept ==
  ASSUME WindowInv, Next, ~SendBuild, ~SendAssign
  PROVE  \A t : Unsent(t)' <=> Unsent(t)
<1>1. StackOK(stack)
  BY DEF WindowInv
<1>2. ASSUME NEW new, NEW gone, Follows(stack, stack', new, gone)
      PROVE  \A t : Unsent(t)' <=> Unsent(t)
  BY <1>2 DEF Follows, Unsent
<1>3. CASE PlainStep
  BY <1>2, <1>3 DEF PlainStep
<1>4. CASE \E n \in Dialogs : EnterForm(n)
  BY <1>1, <1>2, <1>4, FormSlotsEntered DEF EnterForm, StackStep
<1>5. CASE \E t \in Transactions : CollectSendMessageStatus(t)
  BY <1>1, <1>2, <1>5, CollectSendStack DEF StackStep
<1> QED
  BY <1>3, <1>4, <1>5, StackKinds

\* A task that stays where it is.
LEMMA TaskKept ==
  ASSUME NEW t, TaskOK(t), Keeps(t), Unsent(t)' <=> Unsent(t),
         \/ sent'[t] = sent[t] /\ result'[t] = result[t]
         \/ sent'[t] = 0 /\ ~Reported(t)
  PROVE  TaskOK(t)'
<1>1. OnePlace(t)' /\ (Unsent(t)' => ~Placed(t)')
  BY DEF TaskOK, Keeps, Placed
<1>2. Unsent(t)' \/ Waiting(t)' => sent'[t] = 0
  BY DEF TaskOK, Keeps
<1>3. Reported(t)' /\ result'[t] = "SM_SUCCESS" => sent'[t] = 1
  BY DEF TaskOK, Keeps
<1>4. sent'[t] \in {0, 1}
  BY DEF TaskOK
<1> QED
  BY <1>1, <1>2, <1>3, <1>4 DEF TaskOK

\* A dialogue that waits for what it has waited for.
Awaited(t) == Placed(t) \/ Unsent(t)
AwaitedStays(t) ==
  /\ Awaited(t)' => Awaited(t)
  /\ ~closed' => (Awaited(t) => Awaited(t)')

LEMMA AwaitKept ==
  ASSUME NEW n \in Dialogs, AwaitOK(n), form'[n].transactIds = form[n].transactIds,
         form[n].at = "closed" => form'[n].at = "closed",
         form[n].transactIds \subseteq Transactions,
         \A t \in Transactions : AwaitedStays(t),
         closed => closed'
  PROVE  AwaitOK(n)'
<1>1. Recipients[n] \subseteq Transactions
  BY OwnRecipients
<1>2. ~closed' => \A t \in form'[n].transactIds : Placed(t)' \/ Unsent(t)'
  BY DEF AwaitOK, AwaitedStays, Awaited
<1>3. form'[n].at # "closed" =>
        \A t \in Recipients[n] : Placed(t)' \/ Unsent(t)' => t \in form'[n].transactIds
  BY <1>1 DEF AwaitOK, AwaitedStays, Awaited
<1> QED
  BY <1>2, <1>3 DEF AwaitOK

\* The steps that leave the tasks of a dialogue where they are.
TasksStay ==
  /\ \A t \in Transactions : Keeps(t) /\ (Unsent(t)' <=> Unsent(t))
  /\ closed => closed'

LEMMA StayAwaited == ASSUME TasksStay PROVE \A t \in Transactions : AwaitedStays(t)
BY KeepsStays DEF TasksStay, AwaitedStays, Awaited, Stays

LEMMA SendIdle ==
  ASSUME WindowInv, SendInv, TasksStay, UNCHANGED formVars
  PROVE  SendInv'
<1>1. form' = form /\ result' = result /\ sent' = sent
  BY DEF formVars
<1>2. \A t \in Transactions : TaskOK(t)'
  BY <1>1, TaskKept DEF SendInv, TasksStay
<1>3. ASSUME NEW n \in Dialogs PROVE DialogOK(n)'
  <2>1. form[n].transactIds \subseteq Transactions
    BY DEF WindowInv, FormTyped, CountedForm
  <2>2. \A t \in Transactions : AwaitedStays(t)
    BY StayAwaited
  <2>3. AwaitOK(n)'
    BY <1>1, <2>1, <2>2, AwaitKept DEF SendInv, DialogOK, TasksStay
  <2> QED
    BY <1>1, <2>3 DEF SendInv, DialogOK
<1> QED
  BY <1>2, <1>3 DEF SendInv

\* One dialogue changes, and what is kept about its own recipients.
LEMMA OneChanges ==
  ASSUME WindowInv, SendInv, TasksStay, NEW n \in Dialogs, NEW f,
         form' = [form EXCEPT ![n] = f],
         \A t \in Transactions :
           \/ sent'[t] = sent[t] /\ result'[t] = result[t]
           \/ t \in Recipients[n] /\ sent'[t] = 0 /\ ~Reported(t),
         f.transactIds = form[n].transactIds \/ (f.transactIds = {} /\ f.at = "closed"),
         form[n].at = "closed" => f.at = "closed",
         Tells(Recipients[n], f, result', sent')
  PROVE  SendInv'
<1>1. /\ form \in [Dialogs -> CountedForm] /\ DialogsOK
      /\ \A k \in Dialogs : form[k].transactIds \subseteq Transactions
  BY DEF WindowInv, FormsInv, FormTyped, CountedForm
<1>2. form'[n] = f /\ \A k \in Dialogs : k # n => form'[k] = form[k]
  BY <1>1
<1>3. \A t \in Transactions : TaskOK(t)'
  BY TaskKept DEF SendInv, TasksStay
<1>4. \A t \in Transactions : AwaitedStays(t)
  BY StayAwaited
<1>5. AwaitOK(n)'
  <2>1. CASE f.transactIds = form[n].transactIds
    BY <1>1, <1>2, <1>4, <2>1, AwaitKept DEF SendInv, DialogOK, TasksStay
  <2>2. CASE f.transactIds = {} /\ f.at = "closed"
    BY <1>2, <2>2 DEF AwaitOK
  <2> QED
    BY <2>1, <2>2
<1>6. ASSUME NEW k \in Dialogs, k # n PROVE DialogOK(k)'
  <2>1. AwaitOK(k)'
    BY <1>1, <1>2, <1>4, <1>6, AwaitKept DEF SendInv, DialogOK, TasksStay
  <2>2. \A t \in Recipients[k] : sent'[t] = sent[t] /\ result'[t] = result[t]
    BY <1>6, OneDialog, OwnRecipients
  <2>3. form[k].recipients \subseteq Recipients[k] /\ Tells(Recipients[k], form[k], result, sent)
    BY <1>1 DEF DialogsOK, SendInv, DialogOK
  <2>4. Tells(Recipients[k], form[k], result', sent')
    BY <2>2, <2>3, TellsSame
  <2> QED
    BY <1>2, <1>6, <2>1, <2>4 DEF DialogOK
<1>7. DialogOK(n)'
  BY <1>2, <1>5 DEF DialogOK
<1> QED
  BY <1>3, <1>6, <1>7 DEF SendInv

LEMMA RecipientsSends ==
  ASSUME WindowInv, SendInv, TasksStay, NEW n \in Dialogs, NEW recipients,
         RecipientsSet(n, recipients), form[n].at = "enabled"
  PROVE  SendInv'
<1> DEFINE f == [form[n] EXCEPT !.recipients = recipients]
<1>1. form[n] \in CountedForm /\ Tells(Recipients[n], form[n], result, sent)
  BY DEF WindowInv, FormTyped, SendInv, DialogOK
<1>2. form' = [form EXCEPT ![n] = f] /\ result' = result /\ sent' = sent
  BY DEF RecipientsSet, WindowInv, FormTyped
<1>3. /\ f.at = "enabled" /\ f.transactIds = form[n].transactIds
      /\ f.results = form[n].results /\ f.successes = form[n].successes
  BY <1>1 DEF CountedForm
<1> HIDE DEF f
<1>4. Tells(Recipients[n], f, result', sent')
  BY <1>1, <1>2, <1>3 DEF Tells
<1> QED
  BY <1>2, <1>3, <1>4, OneChanges

\* The account of a form and its recipients change.
LEMMA FormSends ==
  ASSUME WindowInv, SendInv, TasksStay, FormTopStep
  PROVE  SendInv'
<1> DEFINE n == Top.form
<1>1. /\ FormTyped /\ StackOK(stack) /\ DialogsOK /\ stack # <<>>
      /\ \A i \in DOMAIN stack : FrameFits(stack[i], form)
  BY DEF WindowInv, FormsInv, FormTopStep
<1>2. FrameFits(Top, form)
  BY <1>1, EmptySeq DEF Top, StackOK
<1>3. n \in Dialogs
  BY <1>1, TopForm DEF FormTopStep, FormSlots
<1>4. Tells(Recipients[n], form[n], result, sent)
  BY <1>3 DEF SendInv, DialogOK
<1>5. CASE Top.slot = "form" /\ \E b \in BOOLEAN : AccountSet(n, b)
  <2>1. PICK b \in BOOLEAN : AccountSet(n, b)
    BY <1>5
  <2>2. PICK f \in CountedForm :
          /\ form' = [form EXCEPT ![n] = f]
          /\ f.at = "enabled" /\ f.recipients = {} /\ f.transactIds = form[n].transactIds
          /\ f.results = form[n].results /\ f.successes = form[n].successes
    BY <1>1, <1>3, <2>1, AccountSetOf
  <2>3. result' = result /\ sent' = sent
    BY <2>1 DEF AccountSet
  <2>4. form[n].at \in {"unopened", "enabled"}
    BY <1>2, <1>5 DEF FrameFits
  <2>5. Tells(Recipients[n], f, result', sent')
    BY <1>4, <2>2, <2>3, <2>4 DEF Tells
  <2> HIDE DEF n
  <2> QED
    BY <1>3, <2>2, <2>3, <2>4, <2>5, OneChanges
<1>6. CASE Top.slot = "box" /\ \E recipients : RecipientsSet(n, recipients)
  <2>1. PICK recipients : RecipientsSet(n, recipients)
    BY <1>6
  <2>2. form[n].at = "enabled"
    BY <1>2, <1>6 DEF FrameFits
  <2> HIDE DEF n
  <2> QED
    BY <1>3, <1>4, <2>1, <2>2, RecipientsSends
<1> QED
  BY <1>5, <1>6 DEF FormTopStep

\* The reports of a dialogue are forgotten with it, or with the box that told of them.
LEMMA ForgottenHere ==
  ASSUME WindowInv, SendInv, NEW n \in Dialogs, form[n].at # "closed",
         NEW ts \in SUBSET Recipients[n], ts \cap form[n].transactIds = {}, Forgotten(ts)
  PROVE  \A t \in Transactions :
           \/ t \notin ts /\ sent'[t] = sent[t] /\ result'[t] = result[t]
           \/ t \in ts /\ sent'[t] = 0 /\ ~Reported(t)
<1> SUFFICES ASSUME NEW t \in Transactions
             PROVE  \/ t \notin ts /\ sent'[t] = sent[t] /\ result'[t] = result[t]
                    \/ t \in ts /\ sent'[t] = 0 /\ ~Reported(t)
  OBVIOUS
<1>1. /\ sent'[t] = IF t \in ts THEN 0 ELSE sent[t]
      /\ result'[t] = IF t \in ts THEN None ELSE result[t]
  BY DEF Forgotten
<1>2. AwaitOK(n)
  BY DEF SendInv, DialogOK
<1>3. t \in ts => ~Reported(t)
  BY <1>2 DEF AwaitOK, Placed
<1> QED
  BY <1>1, <1>3

LEMMA CloseSends ==
  ASSUME WindowInv, SendInv, TasksStay, NEW n \in Dialogs, CloseSendMessageDialog(n)
  PROVE  SendInv'
<1> DEFINE f == NoForm("closed")
           ts == {t \in form[n].recipients : t \notin form[n].transactIds}
<1>1. /\ form[n].at # "closed" /\ form' = [form EXCEPT ![n] = f] /\ Forgotten(ts)
  BY DEF CloseSendMessageDialog, Closed
<1>2. ts \subseteq Recipients[n] /\ ts \cap form[n].transactIds = {}
  BY DEF WindowInv, FormsInv, DialogsOK
<1>3. f.at = "closed" /\ f.transactIds = {} /\ f.results = 0 /\ f.successes = 0
  BY DEF NoForm
<1> HIDE DEF f, ts
<1>4. \A t \in Transactions :
        \/ t \notin ts /\ sent'[t] = sent[t] /\ result'[t] = result[t]
        \/ t \in ts /\ sent'[t] = 0 /\ ~Reported(t)
  BY <1>1, <1>2, ForgottenHere
<1>5. Tells(Recipients[n], f, result', sent')
  BY <1>3 DEF Tells
<1> QED
  BY <1>1, <1>2, <1>3, <1>4, <1>5, OneChanges

LEMMA ToldSends ==
  ASSUME WindowInv, SendInv, TasksStay, ToldClosed
  PROVE  SendInv'
<1> DEFINE n == Top.form
           ts == form[n].recipients
<1>1. /\ FormTyped /\ StackOK(stack) /\ DialogsOK /\ stack # <<>> /\ Top.slot = "told"
      /\ \A i \in DOMAIN stack : FrameFits(stack[i], form)
  BY DEF WindowInv, FormsInv, ToldClosed, In
<1>2. FrameFits(Top, form)
  BY <1>1, EmptySeq DEF Top, StackOK
<1>3. n \in Dialogs
  BY <1>1, TopForm DEF FormSlots
<1>4. /\ form[n].at \in {"allSent", "someNot"} /\ form[n].transactIds = {}
      /\ ts \subseteq Recipients[n]
  BY <1>1, <1>2, <1>3 DEF FrameFits, DialogsOK
<1>5. Tells(Recipients[n], form[n], result, sent) /\ form[n] \in CountedForm
  BY <1>1, <1>3 DEF SendInv, DialogOK, FormTyped
<1>6. PICK at \in {"closed", "enabled"} : Answered(n, at)
  BY DEF ToldClosed
<1> DEFINE g == [form[n] EXCEPT !.at = at, !.results = 0, !.successes = 0]
           f == IF at = "closed" THEN NoForm(at) ELSE g
<1>7. form' = [form EXCEPT ![n] = f] /\ Forgotten(ts)
  BY <1>6 DEF Answered
<1>8. g.at = at /\ g.transactIds = {} /\ g.results = 0 /\ g.successes = 0
  BY <1>4, <1>5 DEF CountedForm
<1>9. f.at = at /\ f.transactIds = {} /\ f.results = 0 /\ f.successes = 0
  BY <1>8 DEF NoForm
<1> HIDE DEF f, g
<1>10. \A t \in Transactions :
         \/ t \notin ts /\ sent'[t] = sent[t] /\ result'[t] = result[t]
         \/ t \in ts /\ sent'[t] = 0 /\ ~Reported(t)
  BY <1>3, <1>4, <1>7, ForgottenHere
<1>11. \A t \in Recipients[n] : sent'[t] = 0
  <2>1. \A t \in Recipients[n] : t \in Transactions /\ (t \notin ts => sent[t] = 0)
    BY <1>3, <1>4, <1>5, OwnRecipients DEF Tells
  <2> QED
    BY <1>10, <2>1
<1>12. Tells(Recipients[n], f, result', sent')
  BY <1>6, <1>9, <1>11 DEF Tells
<1> QED
  <2> HIDE DEF n
  <2> QED
    BY <1>3, <1>4, <1>7, <1>9, <1>10, <1>12, OneChanges

\* The worker has sent a message, or failed to.
LEMMA ReportSends ==
  ASSUME WindowInv, SendInv, WorkerReport
  PROVE  SendInv'
<1>1. /\ FormTyped /\ DialogsOK
      /\ \A t \in Transactions : t # current => Keeps(t)
      /\ \A t \in Transactions : Unsent(t)' <=> Unsent(t)
      /\ closed' = closed
  <2>1. stack' = stack /\ closed' = closed
    BY DEF WorkerReport, windowVars
  <2> QED
    BY <2>1, ReportMoves, KeptKeeps DEF WindowInv, FormsInv, Jobs, Unsent
<1>2. CASE current \notin Transactions
  <2>1. UNCHANGED formVars
    BY <1>2 DEF WorkerReport
  <2> QED
    BY <1>1, <1>2, <2>1, SendIdle DEF TasksStay
<1>3. ASSUME NEW t \in Transactions, current = t PROVE SendInv'
  <2>1. PICK r \in Results : Sent(t, r)
    <3>1. current \in Transactions /\ current \notin Files /\ current # "list"
      BY <1>3, ItemsAssumption
    <3>2. \E r \in Results : Sent(current, r)
      BY <3>1 DEF WorkerReport
    <3> QED
      BY <1>3, <3>2
  <2>2. /\ form' = form
        /\ result' = [result EXCEPT ![t] = r]
        /\ sent' = IF r = "SM_ISDS_ERROR" THEN sent ELSE [sent EXCEPT ![t] = @ + 1]
    BY <2>1 DEF Sent
  <2>3. /\ result \in [Transactions -> Results \cup {None}] /\ sent \in [Transactions -> Nat]
    BY <1>1 DEF FormTyped
  <2>4. Told(t) /\ TaskOK(t)
    <3>1. current \in Transactions /\ current # "list"
      BY <1>3, ItemsAssumption
    <3>2. current' = t
      BY <1>3, <3>1 DEF WorkerReport, poolVars
    <3>3. Told(current)
      BY <3>1, ReportMoves DEF Jobs
    <3>4. /\ Waiting(t) /\ Reported(t)'
          /\ OnePlace(t) => OnePlace(t)' /\ ~Waiting(t)'
      BY <1>3, <3>2, <3>3 DEF Told, Waiting, Reported, OnePlace, Executed
    <3> QED
      BY <3>4 DEF Told, SendInv
  <2>5. \A x \in Transactions : x # t => sent'[x] = sent[x] /\ result'[x] = result[x]
    BY <1>3, <2>2, <2>3
  <2>6. OnePlace(t)' /\ ~Waiting(t)' /\ ~Unsent(t)' /\ Placed(t) /\ sent[t] = 0
    BY <1>1, <1>3, <2>4 DEF Told, TaskOK, Placed
  <2>7. sent'[t] \in {0, 1} /\ (result'[t] = "SM_SUCCESS" => sent'[t] = 1)
    BY <1>3, <2>2, <2>3, <2>6
  <2>9. \A x \in Transactions : TaskOK(x)'
    <3> SUFFICES ASSUME NEW x \in Transactions PROVE TaskOK(x)'
      OBVIOUS
    <3>1. CASE x = t
      BY <2>6, <2>7, <3>1 DEF TaskOK
    <3>2. CASE x # t
      BY <1>1, <1>3, <2>5, <3>2, TaskKept DEF SendInv
    <3> QED
      BY <3>1, <3>2
  <2>10. \A x \in Transactions : AwaitedStays(x)
    <3> SUFFICES ASSUME NEW x \in Transactions PROVE AwaitedStays(x)
      OBVIOUS
    <3>1. Stays(x)
      BY <1>1, <1>3, <2>4, KeepsStays
    <3> QED
      BY <1>1, <3>1 DEF Stays, AwaitedStays, Awaited
  <2>11. ASSUME NEW n \in Dialogs PROVE DialogOK(n)'
    <3>1. /\ form[n] \in CountedForm /\ form[n].recipients \subseteq Recipients[n]
          /\ form[n].transactIds \subseteq form[n].recipients
          /\ form[n].at = "disabled" <=> form[n].transactIds # {}
          /\ Tells(Recipients[n], form[n], result, sent) /\ AwaitOK(n)
          /\ Recipients[n] \subseteq Transactions
      BY <1>1, OwnRecipients DEF FormTyped, DialogsOK, SendInv, DialogOK
    <3>2. AwaitOK(n)'
      BY <1>1, <2>2, <2>10, <3>1, AwaitKept DEF CountedForm
    <3>3. CASE t \notin Recipients[n]
      <4>1. \A x \in Recipients[n] : sent'[x] = sent[x] /\ result'[x] = result[x]
        BY <2>5, <3>1, <3>3
      <4>2. Tells(Recipients[n], form[n], result', sent')
        BY <3>1, <4>1, TellsSame
      <4> QED
        BY <2>2, <3>2, <4>2 DEF DialogOK
    <3>4. CASE t \in Recipients[n] /\ form[n].at = "closed"
      BY <2>2, <3>1, <3>2, <3>4 DEF DialogOK, Tells
    <3>5. CASE t \in Recipients[n] /\ form[n].at # "closed"
      <4> DEFINE told == form[n].recipients \ form[n].transactIds
      <4>1. t \in form[n].transactIds /\ form[n].at = "disabled" /\ t \notin told
        BY <2>6, <3>1, <3>5 DEF AwaitOK
      <4>2. \A x \in told : x \in Transactions /\ x # t
        BY <3>1, <4>1
      <4>3. Succeeded(told, result') = Succeeded(told, result)
            /\ \A x \in Succeeded(told, result) : sent'[x] = sent[x]
        BY <2>5, <4>2 DEF Succeeded
      <4>4. \A x \in Recipients[n] \ form[n].recipients : sent'[x] = sent[x]
        BY <2>5, <3>1, <4>1
      <4>5. Tells(Recipients[n], form[n], result', sent')
        BY <3>1, <4>1, <4>3, <4>4 DEF Tells
      <4> QED
        BY <2>2, <3>2, <4>5 DEF DialogOK
    <3> QED
      BY <3>3, <3>4, <3>5
  <2> QED
    BY <2>9, <2>11 DEF SendInv
<1> QED
  BY <1>2, <1>3

\* Only the innermost slot has tasks to assign.
LEMMA UnsentOnTop ==
  ASSUME NEW s, StackOK(s), NEW i \in DOMAIN s, s[i].unsent # {}
  PROVE  i = Len(s)
<1>1. FrameOK(s[i]) /\ s[i].slot = "send" /\ s[i].at = "assign"
  BY DEF StackOK, FrameOK
<1>2. ~ i < Len(s)
  BY <1>1 DEF StackOK, Nested, Loops, Dialogues
<1> QED
  BY <1>2 DEF StackOK

LEMMA UnsentTop ==
  ASSUME StackOK(stack), StackOK(stack')
  PROVE  /\ \A t : Unsent(t) <=> stack # <<>> /\ t \in Top.unsent
         /\ \A t : Unsent(t)' <=> stack' # <<>> /\ t \in Top'.unsent
<1>1. /\ stack # <<>> => Len(stack) \in DOMAIN stack
      /\ stack' # <<>> => Len(stack') \in DOMAIN stack'
      /\ stack = <<>> => DOMAIN stack = {}
      /\ stack' = <<>> => DOMAIN stack' = {}
  BY EmptySeq DEF StackOK
<1>2. \A i \in DOMAIN stack : stack[i].unsent # {} => i = Len(stack)
  BY UnsentOnTop
<1>3. \A i \in DOMAIN stack' : stack'[i].unsent # {} => i = Len(stack')
  BY UnsentOnTop
<1>4. \A t : Unsent(t) <=> stack # <<>> /\ t \in Top.unsent
  BY <1>1, <1>2 DEF Unsent, Top
<1>5. \A t : Unsent(t)' <=> stack' # <<>> /\ t \in Top'.unsent
  BY <1>1, <1>3 DEF Unsent, Top
<1> QED
  BY <1>4, <1>5

LEMMA BuildSends == ASSUME WindowInv, SendInv, SendBuild PROVE SendInv'
<1>0. PICK n \in Dialogs : n = Top.form
  BY SendBuildNow
<1> DEFINE ts == form[n].recipients
<1>1. /\ FormTyped /\ DialogsOK /\ StackOK(stack) /\ StackOK(stack')
      /\ stack # <<>> /\ stack' # <<>> /\ Top.unsent = {} /\ Top'.unsent = ts
      /\ n \in Dialogs /\ form[n].at = "enabled"
  <2>1. /\ stack # <<>> /\ n \in Dialogs /\ form[n].at = "enabled"
        /\ StackOK(stack') /\ OnlyTop /\ Top.unsent = {} /\ Top'.unsent = ts
    BY <1>0, SendBuildNow
  <2>2. stack' # <<>>
    BY <2>1, EmptySeq DEF OnlyTop, WindowInv, StackOK
  <2> QED
    BY <2>1, <2>2 DEF WindowInv, FormsInv
<1>2. \A t : ~Unsent(t) /\ (Unsent(t)' <=> t \in ts)
  BY <1>1, UnsentTop
<1>3. PICK f \in CountedForm :
        /\ form' = [form EXCEPT ![n] = f]
        /\ f.at = "disabled" /\ f.recipients = ts
        /\ f.transactIds = ts /\ f.results = 0 /\ f.successes = 0
  BY <1>0, <1>1, PressedOf DEF SendBuild
<1>4. result' = result /\ sent' = sent /\ closed' = closed
  BY DEF SendBuild, Pressed
<1>5. \A t \in Transactions : Kept(t)
  BY KeptIdle DEF SendBuild, poolVars, Jobs
<1>6. /\ ts \subseteq Recipients[n] /\ Recipients[n] \subseteq Transactions
      /\ form[n].transactIds = {}
      /\ AwaitOK(n) /\ Tells(Recipients[n], form[n], result, sent)
  BY <1>1, OwnRecipients DEF DialogsOK, SendInv, DialogOK
<1>7. \A t \in Recipients[n] : ~Placed(t) /\ sent[t] = 0
  BY <1>1, <1>6 DEF AwaitOK, Tells
<1> HIDE DEF ts
<1>8. ASSUME NEW t \in Transactions PROVE TaskOK(t)'
  <2>1. TaskOK(t) /\ Kept(t)
    BY <1>5 DEF SendInv
  <2>2. CASE t \in ts
    BY <1>2, <1>4, <1>6, <1>7, <2>1, <2>2 DEF TaskOK, Kept, Placed
  <2>3. CASE t \notin ts
    BY <1>2, <1>4, <2>1, <2>3 DEF TaskOK, Kept, Placed
  <2> QED
    BY <2>2, <2>3
<1>9. \A t \in Transactions : Placed(t)' <=> Placed(t)
  BY <1>5 DEF Kept, Placed
<1>10. form'[n] = f /\ \A k \in Dialogs : k # n => form'[k] = form[k]
  BY <1>1, <1>3 DEF FormTyped
<1>11. DialogOK(n)'
  <2>1. AwaitOK(n)'
    BY <1>2, <1>3, <1>6, <1>7, <1>9, <1>10 DEF AwaitOK
  <2>2. f.recipients \ f.transactIds = {} /\ Succeeded({}, result') = {} /\ Cardinality({}) = 0
    BY <1>3, FS_EmptySet DEF Succeeded
  <2>3. Tells(Recipients[n], f, result', sent')
    BY <1>3, <1>4, <1>6, <1>7, <2>2 DEF Tells
  <2> QED
    BY <1>10, <2>1, <2>3 DEF DialogOK
<1>12. ASSUME NEW k \in Dialogs, k # n PROVE DialogOK(k)'
  <2>1. DialogOK(k) /\ form'[k] = form[k] /\ form[k].transactIds \subseteq Transactions
    BY <1>1, <1>10, <1>12 DEF SendInv, FormTyped, CountedForm
  <2>2. \A t \in Recipients[k] : t \in Transactions /\ t \notin ts
    BY <1>1, <1>6, <1>12, OneDialog, OwnRecipients
  <2>3. AwaitOK(k)'
    BY <1>2, <1>4, <1>9, <2>1, <2>2 DEF DialogOK, AwaitOK
  <2> QED
    BY <1>4, <2>1, <2>3 DEF DialogOK
<1> QED
  BY <1>8, <1>11, <1>12 DEF SendInv

LEMMA AssignSends == ASSUME WindowInv, SendInv, SendAssign PROVE SendInv'
<1>1. StackOK(stack) /\ FormTyped
  BY DEF WindowInv
<1>2. PICK t \in Top.unsent :
        /\ PutHi(t, "APPEND") /\ t \in Transactions
        /\ stack # <<>> /\ StackOK(stack')
        /\ \/ Top.unsent = {t} /\ stack' = Caller
           \/ OnlyTop /\ Top'.unsent = Top.unsent \ {t}
  BY <1>1, SendAssignStack
<1>3. UNCHANGED <<stage, events, closed>> /\ UNCHANGED formVars
  BY DEF SendAssign
<1>4. Assigned(t) /\ \A x \in Transactions : x # t => Kept(x)
  BY <1>2, <1>3, AssignMoves DEF Jobs
<1>5. \A x : Unsent(x)' <=> Unsent(x) /\ x # t
  <2>1. CASE Top.unsent = {t} /\ stack' = Caller
    <3>1. \A i \in DOMAIN stack' : i \in DOMAIN stack /\ i # Len(stack) /\ stack'[i] = stack[i]
      BY <1>1, <1>2, <2>1, Popped DEF Caller, StackOK
    <3>2. \A x : ~Unsent(x)'
      BY <1>1, <3>1, UnsentOnTop DEF Unsent
    <3> QED
      BY <1>1, <1>2, <2>1, <3>2, UnsentTop
  <2>2. CASE OnlyTop /\ Top'.unsent = Top.unsent \ {t}
    <3>1. stack' # <<>>
      BY <1>1, <1>2, <2>2, EmptySeq DEF OnlyTop, StackOK
    <3> QED
      BY <1>1, <1>2, <2>2, <3>1, UnsentTop
  <2> QED
    BY <1>2, <2>1, <2>2
<1>6. Unsent(t)
  BY <1>1, <1>2, UnsentTop
<1>7. ASSUME NEW x \in Transactions PROVE TaskOK(x)' /\ AwaitedStays(x)
  <2>1. TaskOK(x) /\ sent' = sent /\ result' = result
    BY <1>3 DEF SendInv, formVars
  <2>2. CASE x = t
    <3>1. /\ Waiting(t)' /\ ~Reported(t)' /\ OnePlace(t)' /\ ~Unsent(t)' /\ sent[t] = 0
      BY <1>4, <1>5, <1>6, <2>1, <2>2 DEF TaskOK, Assigned, Placed
    <3> QED
      BY <1>6, <2>1, <2>2, <3>1 DEF TaskOK, AwaitedStays, Awaited, Placed
  <2>3. CASE x # t
    <3>1. Kept(x) /\ (Unsent(x)' <=> Unsent(x))
      BY <1>4, <1>5, <2>3
    <3>2. TaskOK(x)'
      BY <2>1, <3>1, KeptKeeps, TaskKept
    <3> QED
      BY <3>1, <3>2 DEF Kept, AwaitedStays, Awaited, Placed
  <2> QED
    BY <2>2, <2>3
<1>8. ASSUME NEW n \in Dialogs PROVE DialogOK(n)'
  <2>1. form' = form /\ result' = result /\ sent' = sent
    BY <1>3 DEF formVars
  <2>2. form[n].transactIds \subseteq Transactions /\ DialogOK(n)
    BY <1>1 DEF FormTyped, CountedForm, SendInv
  <2>3. AwaitOK(n)'
    BY <1>3, <1>7, <2>1, <2>2, AwaitKept DEF DialogOK
  <2> QED
    BY <2>1, <2>2, <2>3 DEF DialogOK
<1> QED
  BY <1>7, <1>8 DEF SendInv

\* A report is delivered to the dialogue that waits for it, if it is still there.
LEMMA CollectSends ==
  ASSUME WindowInv, SendInv, NEW t \in Transactions, CollectSendMessageStatus(t)
  PROVE  SendInv'
<1>1. /\ FormTyped /\ DialogsOK /\ StackOK(stack)
  BY DEF WindowInv, FormsInv
<1>2. /\ Delivered(t) /\ Collect(t) /\ stage' = stage /\ closed' = closed
      /\ UNCHANGED poolVars \/ PutHi("download", "PREPEND")
  BY DEF CollectSendMessageStatus
<1>3. Delivery(t) /\ \A x \in Transactions : x # t => Kept(x)
  BY <1>2, DeliveredMoves DEF Jobs
<1>4. \A x : Unsent(x)' <=> Unsent(x)
  <2>1. Follows(stack, stack', {"told"}, {})
    BY <1>1, CollectSendStack DEF StackStep
  <2> QED
    BY <2>1 DEF Follows, Unsent
<1>5. TaskOK(t) /\ Placed(t) /\ ~Unsent(t) /\ ~Placed(t)' /\ OnePlace(t)'
      /\ (result[t] = "SM_SUCCESS" => sent[t] = 1)
  BY <1>3 DEF SendInv, Delivery, TaskOK, Placed
<1>6. PICK m \in Dialogs : t \in Recipients[m]
  BY OneDialog
<1>7. \A k \in Dialogs : k # m => t \notin Recipients[k] /\ t \notin form[k].transactIds
  BY <1>1, <1>6, OneDialog DEF DialogsOK
<1>8. IF form[m].at = "closed" THEN t \notin form[m].transactIds ELSE t \in form[m].transactIds
  BY <1>1, <1>5, <1>6 DEF SendInv, DialogOK, AwaitOK, DialogsOK
<1>9. \A k \in Dialogs : form'[k] = collected(form[k], t) /\ form[k] \in CountedForm
  BY <1>1, <1>2 DEF Collect, FormTyped
<1>10. /\ \A x \in Transactions : x # t => sent'[x] = sent[x] /\ result'[x] = result[x]
       /\ sent'[t] \in {0, sent[t]}
       /\ form[m].at # "closed" => sent'[t] = sent[t] /\ result'[t] = result[t]
  <2>1. PICK ts : ts \subseteq {t} /\ (form[m].at # "closed" => ts = {}) /\ Forgotten(ts)
    BY <1>2, <1>8 DEF Collect
  <2> QED
    BY <2>1 DEF Forgotten
<1>11. \A x \in Transactions : TaskOK(x)'
  <2> SUFFICES ASSUME NEW x \in Transactions PROVE TaskOK(x)'
    OBVIOUS
  <2>1. CASE x = t
    BY <1>4, <1>5, <1>10, <2>1 DEF TaskOK, Placed
  <2>2. CASE x # t
    BY <1>3, <1>4, <1>10, <2>2, KeptKeeps, TaskKept DEF SendInv
  <2> QED
    BY <2>1, <2>2
<1>12. \A x \in Transactions : x # t => (Awaited(x)' <=> Awaited(x))
  BY <1>3, <1>4 DEF Kept, Awaited, Placed
<1>13. ASSUME NEW k \in Dialogs, k # m PROVE DialogOK(k)'
  <2>1. form'[k] = form[k]
    BY <1>7, <1>9, <1>13 DEF collected
  <2>2. /\ DialogOK(k) /\ form[k].transactIds \subseteq Recipients[k]
        /\ form[k].recipients \subseteq Recipients[k] /\ Recipients[k] \subseteq Transactions
    BY <1>1, OwnRecipients DEF SendInv, DialogsOK
  <2>3. \A x \in Recipients[k] : x # t /\ x \in Transactions
    BY <1>7, <1>13, <2>2
  <2>4. AwaitOK(k)'
    BY <1>2, <1>12, <2>1, <2>2, <2>3 DEF DialogOK, AwaitOK, Awaited
  <2>5. \A x \in Recipients[k] : sent'[x] = sent[x] /\ result'[x] = result[x]
    BY <1>10, <2>3
  <2>6. Tells(Recipients[k], form[k], result', sent')
    BY <2>2, <2>5, TellsSame DEF DialogOK
  <2> QED
    BY <2>1, <2>4, <2>6 DEF DialogOK
<1>14. DialogOK(m)'
  <2> DEFINE f == form[m]
             g == form'[m]
             told == f.recipients \ f.transactIds
  <2>1. /\ AwaitOK(m) /\ Tells(Recipients[m], f, result, sent) /\ f \in CountedForm
        /\ f.transactIds \subseteq f.recipients /\ f.recipients \subseteq Recipients[m]
        /\ f.at = "disabled" <=> f.transactIds # {}
        /\ Recipients[m] \subseteq Transactions
    BY <1>1, OwnRecipients DEF SendInv, DialogOK, DialogsOK, FormTyped
  <2>2. CASE f.at = "closed"
    <3>1. g = f
      BY <1>8, <1>9, <2>2 DEF collected
    <3> QED
      BY <2>1, <2>2, <3>1 DEF DialogOK, AwaitOK, Tells
  <2>3. CASE f.at # "closed"
    <3>1. t \in f.transactIds /\ f.at = "disabled" /\ t \notin told
      BY <1>8, <2>1, <2>3
    <3>2. /\ g \in CountedForm /\ g.recipients = f.recipients
          /\ g.transactIds = f.transactIds \ {t} /\ g.results = f.results + 1
          /\ g.successes = f.successes + (IF result[t] = "SM_SUCCESS" THEN 1 ELSE 0)
          /\ f.transactIds \ {t} # {} => g.at = "disabled"
          /\ f.transactIds \ {t} = {} =>
               g.at = IF Cardinality(f.recipients) = g.successes THEN "allSent" ELSE "someNot"
      BY <1>9, <3>1, CollectedOf
    <3>3. g.at \in {"disabled", "allSent", "someNot"}
          /\ (g.at = "allSent" => g.successes = Cardinality(g.recipients))
          /\ (g.at = "someNot" => g.successes # Cardinality(g.recipients))
      BY <3>2
    <3>4. /\ told \in SUBSET Transactions /\ g.recipients \ g.transactIds = told \cup {t}
      BY <2>1, <3>1, <3>2
    <3>5. \A x \in Recipients[m] : x \in Transactions /\ sent'[x] = sent[x] /\ result'[x] = result[x]
      BY <1>10, <2>1, <2>3
    <3> HIDE DEF f, g, told
    <3>6. /\ Succeeded(told \cup {t}, result') = Succeeded(told \cup {t}, result)
      BY <1>6, <2>1, <3>4, <3>5 DEF Succeeded, told
    <3>7. /\ Cardinality(told \cup {t}) = Cardinality(told) + 1
          /\ Cardinality(Succeeded(told \cup {t}, result)) =
               Cardinality(Succeeded(told, result)) + (IF result[t] = "SM_SUCCESS" THEN 1 ELSE 0)
      <4>1. Succeeded(told, result) \in SUBSET Transactions
        BY <3>4 DEF Succeeded
      <4>2. Cardinality(Succeeded(told, result)) \in Nat
        BY <4>1, TransactionsFinite
      <4>3. /\ Cardinality(told \cup {t}) = Cardinality(told) + 1
            /\ result[t] = "SM_SUCCESS" =>
                 Cardinality(Succeeded(told \cup {t}, result)) = Cardinality(Succeeded(told, result)) + 1
            /\ result[t] # "SM_SUCCESS" =>
                 Succeeded(told \cup {t}, result) = Succeeded(told, result)
        BY <3>1, <3>4, OneMore
      <4>4. CASE result[t] = "SM_SUCCESS"
        BY <4>3, <4>4
      <4>5. CASE result[t] # "SM_SUCCESS"
        BY <4>2, <4>3, <4>5
      <4> QED
        BY <4>4, <4>5
    <3>8. /\ \A x \in Recipients[m] \ f.recipients : sent[x] = 0
          /\ f.results = Cardinality(told) /\ f.successes = Cardinality(Succeeded(told, result))
          /\ \A x \in Succeeded(told, result) : sent[x] = 1
      BY <2>1, <3>1 DEF Tells, told
    <3>9. \A x \in Succeeded(told \cup {t}, result') : sent'[x] = 1
      <4>1. \A x \in Succeeded(told \cup {t}, result) : sent[x] = 1 /\ x \in Recipients[m]
        BY <1>5, <1>6, <2>1, <3>8 DEF Succeeded, told
      <4> QED
        BY <3>5, <3>6, <4>1
    <3>10. Tells(Recipients[m], g, result', sent')
      BY <3>2, <3>3, <3>4, <3>5, <3>6, <3>7, <3>8, <3>9 DEF Tells
    <3>11. AwaitOK(m)'
      <4>1. /\ \A x \in f.transactIds \ {t} : x \in Transactions /\ x # t
            /\ ~closed => \A x \in f.transactIds : Awaited(x)
            /\ \A x \in Recipients[m] : Awaited(x) => x \in f.transactIds
        BY <2>1, <2>3 DEF AwaitOK, Awaited, f
      <4>2. ~Awaited(t)'
        BY <1>4, <1>5 DEF Awaited
      <4>3. form'[m].transactIds = f.transactIds \ {t}
        BY <3>2 DEF g
      <4>4. ~closed' => \A x \in form'[m].transactIds : Awaited(x)'
        BY <1>2, <1>12, <4>1, <4>3
      <4>5. \A x \in Recipients[m] : Awaited(x)' => x \in form'[m].transactIds
        BY <1>12, <2>1, <4>1, <4>2, <4>3
      <4> QED
        BY <4>4, <4>5 DEF AwaitOK, Awaited
    <3> QED
      BY <3>10, <3>11 DEF DialogOK, g
  <2> QED
    BY <2>2, <2>3
<1> QED
  BY <1>11, <1>13, <1>14 DEF SendInv
LEMMA SendNext == ASSUME WindowInv, SendInv, [Next]_vars PROVE SendInv'
<1>1. CASE Next
  <2>1. CASE WorkerReport
    BY <2>1, ReportSends
  <2>2. CASE SendBuild
    BY <2>2, BuildSends
  <2>3. CASE SendAssign
    BY <2>3, AssignSends
  <2>4. CASE \E t \in Transactions : CollectSendMessageStatus(t)
    BY <2>4, CollectSends
  <2>5. CASE /\ ~WorkerReport /\ ~SendBuild /\ ~SendAssign
             /\ \A t \in Transactions : ~CollectSendMessageStatus(t)
    <3>1. ASSUME NEW t \in Transactions PROVE Keeps(t) /\ (Unsent(t)' <=> Unsent(t))
      <4>1. t \in Jobs /\ t \notin Files
        BY JobNames DEF Jobs
      <4>2. Keeps(t)
        BY <1>1, <2>5, <4>1, StepKeeps
      <4> QED
        BY <1>1, <2>5, <4>2, UnsentKept
    <3>2. TasksStay
      BY <1>1, <3>1, ClosedStays DEF TasksStay
    <3>3. CASE UNCHANGED formVars
      BY <3>2, <3>3, SendIdle
    <3>4. CASE FormTopStep
      BY <3>2, <3>4, FormSends
    <3>5. CASE ToldClosed
      BY <3>2, <3>5, ToldSends
    <3>6. ASSUME NEW n \in Dialogs, CloseSendMessageDialog(n) PROVE SendInv'
      BY <3>2, <3>6, CloseSends
    <3>7. ASSUME NEW n \in Dialogs, DeleteRecipientEntries(n) PROVE SendInv'
      <4>1. PICK recipients : RecipientsSet(n, recipients) /\ form[n].at = "enabled"
        BY <3>7 DEF DeleteRecipientEntries
      <4> QED
        BY <3>2, <4>1, RecipientsSends
    <3> QED
      BY <1>1, <2>5, <3>3, <3>4, <3>5, <3>6, <3>7, FormKinds DEF FormStep
  <2> QED
    BY <2>1, <2>2, <2>3, <2>4, <2>5
<1>2. CASE UNCHANGED vars
  <2>1. \A t \in Transactions : Keeps(t)
    BY <1>2, KeptIdle, KeptKeeps DEF vars, windowVars, poolVars, Jobs
  <2>2. TasksStay
    BY <1>2, <2>1 DEF vars, windowVars, TasksStay, Unsent
  <2> QED
    BY <1>2, <2>2, SendIdle DEF vars
<1> QED
  BY <1>1, <1>2

LEMMA SendAlways == Spec => []SendInv
<1>1. Init => SendInv
  <2> SUFFICES ASSUME Init PROVE SendInv
    OBVIOUS
  <2>1. /\ hi = <<>> /\ lo = <<>> /\ current = None /\ events = <<>> /\ stack = <<>>
        /\ form = [n \in Dialogs |-> NoForm("unopened")]
        /\ sent = [t \in Transactions |-> 0]
    BY DEF Init, PoolInit, FormInit
  <2>2. \A t : ~Occurs(t, <<>>) /\ Once(t, <<>>)
    BY EmptySeq DEF Occurs, Once
  <2>3. \A t \in Transactions : t # None
    BY JobNames DEF Jobs
  <2>4. DOMAIN stack = {}
    BY <2>1, EmptySeq
  <2>5. \A t \in Transactions : OnePlace(t) /\ ~Placed(t) /\ ~Waiting(t) /\ ~Reported(t) /\ ~Unsent(t)
    BY <2>1, <2>2, <2>3, <2>4 DEF OnePlace, Placed, Waiting, Reported, Executed, Unsent
  <2>6. \A t \in Transactions : TaskOK(t)
    BY <2>1, <2>5 DEF TaskOK
  <2>7. ASSUME NEW n \in Dialogs PROVE DialogOK(n)
    <3>1. Recipients[n] \subseteq Transactions
      BY OwnRecipients
    <3>2. /\ form[n].at = "unopened" /\ form[n].transactIds = {}
          /\ form[n].results = 0 /\ form[n].successes = 0
      BY <2>1 DEF NoForm
    <3> QED
      BY <2>1, <2>5, <3>1, <3>2 DEF DialogOK, AwaitOK, Tells
  <2> QED
    BY <2>6, <2>7 DEF SendInv
<1> QED
  BY <1>1, SendNext, WindowAlways, PTL DEF Spec

LEMMA SendsTold == ASSUME WindowInv, SendInv PROVE SendTold
<1>1. FormTyped /\ DialogsOK
  BY DEF WindowInv, FormsInv
<1>2. \A t \in Transactions : sent[t] <= 1
  BY DEF SendInv, TaskOK
<1>3. ASSUME NEW n \in Dialogs, form[n].at \in {"allSent", "someNot"}
      PROVE  /\ form[n].results = Cardinality(form[n].recipients)
             /\ form[n].at = "allSent" => \A r \in form[n].recipients : sent[r] = 1
             /\ form[n].at = "someNot" => \E r \in form[n].recipients : result[r] # "SM_SUCCESS"
  <2> DEFINE ts == form[n].recipients
             good == Succeeded(ts, result)
  <2>1. form[n].transactIds = {} /\ ts \subseteq Transactions
    BY <1>1, <1>3 DEF DialogsOK, FormTyped, CountedForm
  <2>2. ts \ form[n].transactIds = ts
    BY <2>1
  <2>3. Tells(Recipients[n], form[n], result, sent)
    BY DEF SendInv, DialogOK
  <2>4. /\ form[n].results = Cardinality(ts) /\ form[n].successes = Cardinality(good)
        /\ \A t \in good : sent[t] = 1
        /\ form[n].at = "allSent" => Cardinality(good) = Cardinality(ts)
        /\ form[n].at = "someNot" => Cardinality(good) # Cardinality(ts)
    BY <1>3, <2>2, <2>3 DEF Tells
  <2>5. good \subseteq ts /\ IsFiniteSet(ts)
    BY <2>1, TransactionsFinite DEF Succeeded
  <2> HIDE DEF good
  <2>6. Cardinality(good) = Cardinality(ts) <=> good = ts
    BY <2>5, FS_Subset
  <2>7. good # ts => \E r \in ts : result[r] # "SM_SUCCESS"
    BY DEF good, Succeeded
  <2> QED
    BY <2>4, <2>6, <2>7
<1>4. ASSUME Quiet, ~closed, NEW n \in Dialogs PROVE form[n].at # "disabled"
  <2>1. DOMAIN stack = {} /\ hi = <<>> /\ lo = <<>> /\ current = None /\ events = <<>>
    BY <1>4, EmptySeq DEF Quiet, Working
  <2>2. \A t \in Transactions : ~Placed(t) /\ ~Unsent(t)
    BY <2>1, JobNames, EmptySeq DEF Placed, Waiting, Reported, Executed, Occurs, Jobs, Unsent
  <2>3. form[n].transactIds \subseteq Transactions
    BY <1>1 DEF FormTyped, CountedForm
  <2>4. form[n].transactIds = {}
    BY <1>4, <2>2, <2>3 DEF SendInv, DialogOK, AwaitOK
  <2> QED
    BY <1>1, <2>4 DEF DialogsOK
<1> QED
  BY <1>2, <1>3, <1>4 DEF SendTold, BoxTrue

-----------------------------------------------------------------------------
(* What the runs check of it. *)

\* Imports and sending: what was asked of the worker is reported to who asked, all
\* of it and once, also when slots nest and several dialogues wait; no import and
\* no dialogue is left waiting for a report that never comes.  A box that tells of
\* all messages as sent is true; one that tells of some as not sent is true of one of
\* the reports, but the server may have the message (see NotSentIsNot).
THEOREM AllReported == Spec => []AllTold
<1>1. WindowInv /\ ImportInv /\ SendInv => AllTold
  BY ImportsTold, SendsTold DEF AllTold
<1> QED
  BY <1>1, WindowAlways, ImportAlways, SendAlways, PTL

\* Every variable keeps its type; the counters of a dialogue are bounded by what
\* there is to send, whatever the order of the reports.
THEOREM TypeCorrect == Spec => []TypeOK
<1>1. ASSUME WindowInv, SendInv PROVE FormTypeOK
  <2>1. ASSUME NEW n \in Dialogs
        PROVE  form[n] \in Form
    <3> DEFINE f == form[n]
               told == f.recipients \ f.transactIds
    <3>1. f \in CountedForm /\ Tells(Recipients[n], f, result, sent)
      BY <1>1 DEF WindowInv, FormTyped, SendInv, DialogOK
    <3>2. told \in SUBSET Transactions /\ Succeeded(told, result) \in SUBSET Transactions
      BY <3>1 DEF CountedForm, Succeeded
    <3>3. /\ Cardinality(told) \in 0 .. Cardinality(Transactions)
          /\ Cardinality(Succeeded(told, result)) \in 0 .. Cardinality(Transactions)
          /\ 0 \in 0 .. Cardinality(Transactions)
      BY <3>2, TransactionsFinite
    <3>4. /\ f.results \in {0, Cardinality(told)}
          /\ f.successes \in {0, Cardinality(Succeeded(told, result))}
      BY <3>1 DEF Tells, CountedForm
    <3> QED
      BY <3>1, <3>3, <3>4 DEF CountedForm, Form
  <2> QED
    BY <1>1, <2>1 DEF WindowInv, FormTyped, FormTypeOK
<1>2. ASSUME WindowInv PROVE PoolTypeOK
  <2>1. /\ {"download", "ping"} \cup Transactions \subseteq Items
        /\ {"list", "download"} \cup Files \subseteq Items /\ "info" \in Items
    BY ItemsAssumption DEF Tasks
  <2>2. /\ hi \in Seq({"download", "ping"} \cup Transactions)
        /\ lo \in Seq({"list", "download"} \cup Files)
    BY <1>2 DEF WindowInv, QueuesTyped
  <2>3. hi \in Seq(Items) /\ lo \in Seq(Items)
    BY <2>1, <2>2
  <2> QED
    BY <1>2, <2>1, <2>3 DEF WindowInv, QueuesTyped, PoolTypeOK
<1>3. ASSUME WindowInv, SendInv PROVE TypeOK
  <2>1. /\ {importable, mixed, fruitless} \subseteq BOOLEAN
        /\ {unassigned, zfoFilesToImport, chosen} \subseteq SUBSET Files
    BY <1>3 DEF WindowInv, WindowTyped
  <2>2. stack \in Seq(Frames)
    BY <1>3 DEF WindowInv, StackOK
  <2> QED
    BY <1>1, <1>2, <1>3, <2>1, <2>2 DEF WindowInv, WindowTyped, EventSet, TypeOK
<1> QED
  BY <1>3, WindowAlways, SendAlways, PTL
=============================================================================
