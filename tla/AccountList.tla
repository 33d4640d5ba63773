----------------------------- MODULE AccountList -----------------------------
(***************************************************************************)
(* The list of accounts and the message list of the main window.           *)
(*                                                                         *)
(* Workers store messages and post reports; the window answers a report    *)
(* with refreshAccountList(), which counts the years anew and then draws   *)
(* the message list with accountItemCurrentChanged().  That function runs  *)
(* the event loop before it reads anything of the selected entry, so the   *)
(* user and other reports come in between: frames is the stack of its      *)
(* unfinished calls, the innermost last.                                   *)
(*                                                                         *)
(* Of the messages of a year only one is told apart, in the Slots of an    *)
(* account.  There is one database file per account.                       *)
(***************************************************************************)
EXTENDS AccountModel

LOCAL INSTANCE SequencesExt
LOCAL INSTANCE FiniteSetsExt

CONSTANTS
  Slots,      \* [user, type, year] of messages that may exist
  Recent,     \* the years whose messages count as recent
  Starting,   \* the accounts and the files the program may start with
  MaxOps,     \* bound on the actions of the user and on messages stored
  MaxDepth,   \* bound on the number of unfinished calls
  MaxReports  \* bound on the number of posted reports

Slot(user, type, year) == [user |-> user, type |-> type, year |-> year]
Stores == {db \in [Slots -> {"none", "unread", "read"}] :
             \A s \in Slots : s.type = "sent" => db[s] # "unread"}

ASSUME AccountListAssumption ==
  /\ Slots \subseteq [user : Users, type : Types, year : Groups]
  /\ Recent \subseteq Years
  /\ Starting \subseteq [accounts : Seq(Users), stored : Stores]
  /\ {MaxOps, MaxDepth, MaxReports} \subseteq Nat

VARIABLES
  model,     \* m_accountModel and the current index of the list
  frames,    \* unfinished calls of accountItemCurrentChanged()
  table,     \* the entry whose messages the message list shows, or None
  stored,    \* of a slot: the message is not there, unread or read
  working,   \* accounts whose running task has stored something
  reports,   \* accounts in the posted reports, the oldest first
  unasked,   \* accounts created from files whose years nothing has counted
  ops

vars == <<model, frames, table, stored, working, reports, unasked, ops>>

Window == [model |-> model, frames |-> frames, table |-> table]
Becomes(w) == model' = w.model /\ frames' = w.frames /\ table' = w.table

Entry(user, type, year) == [user |-> user, type |-> type, year |-> year]

\* The entry an index stands for, as data() reads it.
EntryOf(m, i) ==
  Entry(userName(m, i), i.type, IF i.type \in YearTypes THEN groupName(m, i) ELSE None)

-----------------------------------------------------------------------------
(* Counting. *)

(* db is what is stored. *)
Messages(db, u, t) == {s \in Slots : s.user = u /\ s.type = t /\ db[s] # "none"}
Unread(db, u, ys) ==
  Cardinality({s \in Messages(db, u, "received") : s.year \in ys /\ db[s] = "unread"})

msgsYears(db, u, t) ==
  LET ys == {s.year : s \in Messages(db, u, t)}
  IN SetToSortSeq(ys \ {InvalidYear}, LAMBDA a, b : a > b)
     \o (IF InvalidYear \in ys THEN <<InvalidYear>> ELSE <<>>)

\* Only received messages are counted.
yearlyUnreadList(db, u, t) ==
  LET Pair(y) == [year |-> y,
                  counter |-> YearCounter(TRUE, IF t = "received" THEN Unread(db, u, {y})
                                                ELSE 0)]
  IN [i \in DOMAIN msgsYears(db, u, t) |-> Pair(msgsYears(db, u, t)[i])]

regenerateAccountModelYears(db, m, u, prohibited) ==
  LET recent == updateRecentUnread(m, u, Unread(db, u, Recent))
      received == updateYearNodes(recent, u, "received",
                                  yearlyUnreadList(db, u, "received"), prohibited)
  IN updateYearNodes(received, u, "sent", yearlyUnreadList(db, u, "sent"), prohibited)

\* MUTANT of updateExistingAccountModelUnread: the recent messages are not counted.
updateYearsOnly(db, m, u) ==
  FoldLeft(LAMBDA x, pair : updateYear(x, u, "received", pair), m,
           yearlyUnreadList(db, u, "received"))

\* The years that have a node; the loop over the sent ones changes nothing else.
updateExistingAccountModelUnread(db, m, u) ==
  LET received == FoldLeft(LAMBDA x, pair : updateYear(x, u, "received", pair),
                           updateRecentUnread(m, u, Unread(db, u, Recent)),
                           yearlyUnreadList(db, u, "received"))
  IN FoldLeft(LAMBDA x, pair : updateYear(x, u, "sent", pair), received,
              yearlyUnreadList(db, u, "sent"))

-----------------------------------------------------------------------------
(* Drawing. *)

\* What a caller of accountItemCurrentChanged() does after the call.
Then(do, user, idx) == [do |-> do, user |-> user, idx |-> idx]
Return == Then("return", None, NoIndex)

Named(m, i) == i # NoIndex /\ userName(m, i) # None

\* accountItemCurrentChanged() up to the event loop.
Called(w, i, then) ==
  [w EXCEPT !.frames = Append(@, [idx |-> i, user |-> userName(w.model, i),
                                  then |-> then])]
accountItemCurrentChanged(w, i) ==
  IF i = NoIndex THEN [w EXCEPT !.table = None]
  ELSE IF ~Named(w.model, i) THEN w
  ELSE Called(w, i, Return)

\* setCurrentIndex() of the list, which signals a change.
setCurrentIndex(w, i) ==
  IF w.model.view = i THEN w
  ELSE accountItemCurrentChanged([w EXCEPT !.model.view = i], i)

\* MUTANT of prohibitYearRemoval: an empty year goes, selected or not.
alwaysRemove(m, u) == FALSE

\* A selected year must not vanish under the user.
prohibitYearRemoval(m, u) == userName(m, m.view) = u /\ m.view.type \in YearTypes

\* The part of refreshAccountList() in front of the drawing.
Regenerated(m, u) ==
  IF topAcntIndex(m, u) = NoIndex THEN m
  ELSE regenerateAccountModelYears(stored, m, u, prohibitYearRemoval(m, u))

\* The index was taken before the years were counted: it is drawn as it was.
refreshAccountList(w, u) ==
  accountItemCurrentChanged([w EXCEPT !.model = Regenerated(@, u)], w.model.view)

\* Qt: the current index goes to the neighbour before the current row goes.
Neighbour(m, row) ==
  IF row < Len(m.row2UserNameIdx) THEN index(m, row + 1, RootIndex)
  ELSE IF row > 1 THEN index(m, row - 1, RootIndex)
  ELSE NoIndex

\* deleteAccount() of the window after the model was told to remove the row.
Removal(w, u) ==
  LET m == deleteAccount(w.model, u)
      gone == [w EXCEPT !.model = m]
  IN IF m.row2UserNameIdx = <<>> THEN accountItemCurrentChanged(gone, NoIndex) ELSE gone

Continue(w, then) ==
  CASE then.do = "return" -> w
    [] then.do = "refresh" -> refreshAccountList(w, then.user)
    [] then.do = "select" -> setCurrentIndex(w, then.idx)
    [] then.do = "draw" -> accountItemCurrentChanged(w, then.idx)
    [] then.do = "remove" -> Removal(w, then.user)

-----------------------------------------------------------------------------
(* The main thread. *)

\* accountItemCurrentChanged() from the event loop on.
FinishDrawing ==
  /\ frames # <<>>
  /\ LET call == Last(frames)
         drawn == [Window EXCEPT !.frames = Front(@), !.table = EntryOf(model, call.idx)]
     IN Becomes(Continue(drawn, call.then))
  /\ UNCHANGED <<stored, working, reports, unasked, ops>>

Room == Len(frames) < MaxDepth
Idle == frames = <<>>
Op == ops < MaxOps /\ ops' = ops + 1

\* collectDownloadMessageListStatus() and the like.
TakeReport ==
  /\ reports # <<>> /\ Room
  /\ Becomes(refreshAccountList(Window, Head(reports)))
  /\ reports' = Tail(reports)
  /\ unasked' = unasked \ {Head(reports)}
  /\ UNCHANGED <<stored, working, ops>>

Select ==
  /\ Room /\ Op
  /\ \E i \in Nodes(model) \ {model.view} : Becomes(setCurrentIndex(Window, i))
  /\ UNCHANGED <<stored, working, reports, unasked>>

\* messageItemFromSearchSelection(): the entry is drawn twice.
Search ==
  /\ Idle /\ Op /\ MaxDepth > 0
  /\ \E u \in Accounts(model), t \in Types :
       \E row \in 1 .. rowCount(model, YearsIndex(model, u, t)) :
         LET i == index(model, row, YearsIndex(model, u, t))
             selected == [Window EXCEPT !.model.view = i]
         IN Becomes(IF model.view = i THEN Called(Window, i, Return)
                    ELSE Called(selected, i, Then("draw", None, i)))
  /\ UNCHANGED <<stored, working, reports, unasked>>

\* The account is that of the list, the message that of the message list.
mayMark(s) == s.user = userName(model, model.view) /\ stored[s] # "none"

\* The slot the message list shows; for recent messages any of the account.
Shown ==
  IF table = None THEN {}
  ELSE {s \in Slots :
          /\ s.user = table.user
          /\ \/ table.type = "RecentReceived" /\ s.type = "received" /\ s.year \in Recent
             \/ table.type = "RecentSent" /\ s.type = "sent" /\ s.year \in Recent
             \/ table.type \in YearTypes /\ s.type = TypeOfYears(table.type)
                                         /\ s.year = table.year}

\* messageItemClicked(), msgSetSelectedMessageRead() and the timer that marks a
\* message shown for a while.
Mark ==
  /\ Op
  /\ \E s \in Shown, read \in {"unread", "read"} :
       /\ s.type = "received" /\ mayMark(s)
       /\ stored' = [stored EXCEPT ![s] = read]
  /\ model' = updateExistingAccountModelUnread(stored', model, userName(model, model.view))
  /\ UNCHANGED <<frames, table, working, reports, unasked>>

\* accountMarkReceivedLocallyRead(), accountMarkReceivedYearLocallyRead() and
\* accountMarkRecentReceivedLocallyRead().
MarkMany ==
  /\ Idle /\ Op /\ Named(model, model.view)
  /\ LET u == userName(model, model.view)
         Received == {s \in Messages(stored, u, "received") :
                        CASE model.view.type = "ReceivedYear" ->
                               s.year = groupName(model, model.view)
                          [] model.view.type = "RecentReceived" -> s.year \in Recent
                          [] OTHER -> TRUE}
     IN /\ \E read \in {"unread", "read"} :
             stored' = [s \in Slots |-> IF s \in Received THEN read ELSE stored[s]]
        /\ Becomes(Called([Window EXCEPT !.model =
                             updateExistingAccountModelUnread(stored', @, u)],
                          model.view, Return))
  /\ UNCHANGED <<working, reports, unasked>>

\* deleteMessage() of one message, the erasure itself aside.
Erase ==
  /\ Idle /\ Op /\ Named(model, model.view)
  /\ \E s \in Shown :
       /\ mayMark(s)
       /\ stored' = [stored EXCEPT ![s] = "none"]
       /\ Becomes(Called(Window, model.view, Then("refresh", s.user, NoIndex)))
  /\ UNCHANGED <<working, reports, unasked>>

NewUsers == Users \ Accounts(model)

\* getAccountUserDataboxInfo() once the account is connected.
AddAccount ==
  /\ Idle /\ Op
  /\ \E u \in NewUsers :
       LET added == Regenerated(addAccount(model, u), u)
           selection == topAcntIndex(added, u)
           w == [Window EXCEPT !.model = added]
       IN Becomes(IF Named(model, model.view)
                  THEN Called(w, model.view, Then("select", u, selection))
                  ELSE setCurrentIndex(accountItemCurrentChanged(w, model.view), selection))
  /\ UNCHANGED <<stored, working, reports, unasked>>

\* showImportDatabaseDialog(): only the last account is refreshed.
ImportAccounts ==
  /\ Idle /\ Op
  /\ \E us \in SetToSeqs(NewUsers) \cup {<<u>> : u \in NewUsers} :
       /\ us # <<>>
       /\ Becomes(refreshAccountList(
                    [Window EXCEPT !.model = FoldLeft(addAccount, @, us)], Last(us)))
       /\ unasked' = unasked \cup {us[i] : i \in 1 .. Len(us) - 1}
  /\ UNCHANGED <<stored, working, reports>>

\* deleteAccount(); the database files stay.
DeleteAccount ==
  /\ Idle /\ Op /\ Named(model, model.view)
  /\ LET u == userName(model, model.view)
         next == Neighbour(model, topAcntIndex(model, u).row)
         moved == [Window EXCEPT !.model.view = next]
     IN /\ Becomes(IF model.view.type # "AccountTop" \/ next = NoIndex
                   THEN Removal(Window, u)
                   ELSE Called(moved, next, Then("remove", u, NoIndex)))
        /\ unasked' = unasked \ {u}
  /\ UNCHANGED <<stored, working, reports>>

\* moveSelectedAccountUp() and moveSelectedAccountDown().
MoveAccount ==
  /\ Idle /\ Op /\ Named(model, model.view)
  /\ \E shunt \in {-1, 1} :
       model' = changePosition(model, userName(model, model.view), shunt)
  /\ UNCHANGED <<frames, table, stored, working, reports, unasked>>

\* dropMimeData(): an account is dropped in front of a row or behind the last.
Drop ==
  /\ Idle /\ Op
  /\ \E row \in DOMAIN model.row2UserNameIdx :
       \E dest \in 1 .. Len(model.row2UserNameIdx) + 1 :
         model' = moveRows(model, row, dest)
  /\ UNCHANGED <<frames, table, stored, working, reports, unasked>>

-----------------------------------------------------------------------------
(* Workers. *)

\* A task stores a new message.
Store ==
  /\ Op
  /\ \E s \in Slots :
       /\ s.user \in Accounts(model) /\ stored[s] = "none"
       /\ stored' = [stored EXCEPT ![s] = IF s.type = "received" THEN "unread" ELSE "read"]
       /\ working' = working \cup {s.user}
  /\ UNCHANGED <<model, frames, table, reports, unasked>>

\* The task ends and posts its report to the main thread.
Report ==
  /\ Len(reports) < MaxReports
  /\ \E u \in working :
       working' = working \ {u} /\ reports' = Append(reports, u)
  /\ UNCHANGED <<model, frames, table, stored, unasked, ops>>

-----------------------------------------------------------------------------

\* loadSettings() with any files: the years are counted, and the recent messages
\* of a default account, if there is one, are selected and drawn.
Init ==
  /\ \E start \in Starting :
       LET m == FoldLeft(LAMBDA x, u : regenerateAccountModelYears(start.stored, x, u, FALSE),
                         loaded(start.accounts), start.accounts)
       IN /\ stored = start.stored
          /\ \E default \in {None} \cup Accounts(m) :
               /\ model = (IF default = None THEN m
                           ELSE [m EXCEPT !.view = index(m, 1, topAcntIndex(m, default))])
               /\ table = (IF default = None THEN None
                           ELSE Entry(default, "RecentReceived", None))
  /\ frames = <<>> /\ working = {} /\ reports = <<>> /\ unasked = {} /\ ops = 0

Next ==
  \/ FinishDrawing \/ TakeReport \/ Select \/ Search \/ Mark \/ MarkMany \/ Erase
  \/ AddAccount \/ ImportAccounts \/ DeleteAccount \/ MoveAccount \/ Drop
  \/ Store \/ Report

Spec == Init /\ [][Next]_vars

-----------------------------------------------------------------------------
(* Properties. *)

\* The data members fit together: an account of the list has a name and counters,
\* and the rows are a permutation of the names in use.
TypeOK ==
  /\ \A row, other \in DOMAIN model.row2UserNameIdx :
       /\ model.row2UserNameIdx[row] \in DOMAIN model.userNames
       /\ model.row2UserNameIdx[row] = model.row2UserNameIdx[other] => row = other
  /\ Accounts(model) = {model.userNames[model.row2UserNameIdx[row]] :
                          row \in DOMAIN model.row2UserNameIdx}
  /\ Accounts(model) \subseteq Users
  /\ stored \in Stores
  /\ working \subseteq Users /\ unasked \subseteq Users
  /\ reports \in Seq(Users) /\ Len(frames) <= MaxDepth
  /\ \A u \in Accounts(model), t \in Types :
       DOMAIN model.counters[u].unread[t] = {model.counters[u].groups[t][i] :
                                               i \in DOMAIN model.counters[u].groups[t]}

\* Years are listed once, the latest first and messages without a time last,
\* although they are inserted and removed one at a time.
YearsOrdered ==
  \A u \in Accounts(model), t \in Types :
    LET groups == model.counters[u].groups[t]
    IN \A i, j \in DOMAIN groups : i < j => groups[i] > groups[j]

\* index() and parent() agree on every node, and the current index that the list
\* keeps is one of the nodes (or none), whatever was inserted, removed or moved.
TreeSound ==
  /\ YearsOrdered
  /\ \A i \in Nodes(model) :
       /\ userName(model, i) \in Accounts(model)
       /\ parentOf(model, i) \in Nodes(model) \cup {RootIndex}
       /\ index(model, i.row, parentOf(model, i)) = i
  /\ model.view \in Nodes(model) \cup {NoIndex}

Quiet == Idle /\ working = {} /\ reports = <<>>

\* Once everything stored was reported and drawn, every year that has messages is
\* listed and the numbers of unread messages are those of the database: of each
\* year, of the years kept although they are empty, and of the recent messages.
CountsShown ==
  Quiet =>
    \A u \in Accounts(model) \ unasked :
      LET counters == model.counters[u]
      IN /\ counters.recent = Unread(stored, u, Recent)
         /\ \A t \in Types :
              {s.year : s \in Messages(stored, u, t)} \subseteq DOMAIN counters.unread[t]
         /\ \A y \in DOMAIN counters.unread["received"] :
              counters.unread["received"][y].unread = Unread(stored, u, {y})

\* The list as it is specified: its order, its years, and an entry that stays
\* selected while rows change around it.
Listing ==
  INSTANCE AccountTree WITH
    order <- [row \in DOMAIN model.row2UserNameIdx |->
                model.userNames[model.row2UserNameIdx[row]]],
    years <- [u \in Accounts(model) |->
                [t \in Types |-> {model.counters[u].groups[t][i] :
                                     i \in DOMAIN model.counters[u].groups[t]}]],
    selected <- IF model.view = NoIndex THEN None
                ELSE LET e == EntryOf(model, model.view)
                     IN [user |-> e.user, kind |-> e.type, year |-> e.year]
ImplementsTree == Listing!Spec

\* accountItemCurrentChanged() "Redraws widgets according to selected account
\* item": with no call of it unfinished, the message list belongs to that item.
TableShowsSelection ==
  Idle /\ model.view # NoIndex => table = EntryOf(model, model.view)
=============================================================================
