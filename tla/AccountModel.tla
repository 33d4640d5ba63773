---------------------------- MODULE AccountModel ----------------------------
(***************************************************************************)
(* AccountModel, the tree of accounts and years that the list of accounts  *)
(* shows.                                                                  *)
(*                                                                         *)
(* A model is a record of the data members and of view, the current index  *)
(* of the list: a persistent index, which Qt corrects by what the begin... *)
(* functions announce, whatever is then really done to the data.  Every    *)
(* member function is an operator on models.  Rows count from 1 here, from *)
(* 0 in the code.  Labels, icons and fonts are left out.                   *)
(***************************************************************************)
EXTENDS Integers, Sequences, FiniteSets

LOCAL INSTANCE SequencesExt
LOCAL INSTANCE FiniteSetsExt

CONSTANTS
  Users,   \* user names of accounts
  Years,   \* years of messages
  None

ASSUME AccountModelAssumption ==
  /\ Years \subseteq Nat \ {0}
  /\ None \notin Users /\ None \notin Years \cup {0}

\* INVALID_YEAR is not a year and comes last.
InvalidYear == 0
Groups == Years \cup {InvalidYear}
Types == {"received", "sent"}

NodeTypes == {"AccountTop", "RecentReceived", "RecentSent", "All", "Received",
              "Sent", "ReceivedYear", "SentYear"}

\* user is the internal identifier: a position in m_userNames.
Index(row, type, user) == [row |-> row, type |-> type, user |-> user]
NoIndex == Index(0, "Unknown", 0)
RootIndex == Index(0, "Root", 0)

YearCounter(opened, unread) == [dbOpened |-> opened, unread |-> unread]
AccountCounters ==
  [recent |-> 0,
   groups |-> [t \in Types |-> <<>>],
   unread |-> [t \in Types |-> <<>>]]

Model(userNames, row2UserNameIdx, counters, view) ==
  [userNames |-> userNames, row2UserNameIdx |-> row2UserNameIdx,
   counters |-> counters, view |-> view]

Accounts(m) == DOMAIN m.counters

-----------------------------------------------------------------------------
(* Indexes. *)

userName(m, i) == IF i.user \in DOMAIN m.userNames THEN m.userNames[i.user] ELSE None

TypeOfYears(type) == IF type = "ReceivedYear" THEN "received" ELSE "sent"
YearTypes == {"ReceivedYear", "SentYear"}

childNodeType(type, row) ==
  CASE type = "Root" -> "AccountTop"
    [] type = "AccountTop" -> <<"RecentReceived", "RecentSent", "All">>[row]
    [] type = "All" -> <<"Received", "Sent">>[row]
    [] type = "Received" -> "ReceivedYear"
    [] type = "Sent" -> "SentYear"

rowCount(m, parent) ==
  CASE parent.type = "Root" -> Len(m.row2UserNameIdx)
    [] parent.type = "AccountTop" -> 3
    [] parent.type = "All" -> 2
    [] parent.type = "Received" ->
         Len(m.counters[userName(m, parent)].groups["received"])
    [] parent.type = "Sent" -> Len(m.counters[userName(m, parent)].groups["sent"])
    [] OTHER -> 0

index(m, row, parent) ==
  IF row \notin 1 .. rowCount(m, parent) THEN NoIndex
  ELSE Index(row, childNodeType(parent.type, row),
             IF parent.type = "Root" THEN m.row2UserNameIdx[row] ELSE parent.user)

\* The row of an account in the list, of the name at the given position.
topRow(m, user) ==
  CHOOSE row \in DOMAIN m.row2UserNameIdx : m.row2UserNameIdx[row] = user

parentOf(m, i) ==
  CASE i.type = "AccountTop" -> RootIndex
    [] i.type \in {"RecentReceived", "RecentSent", "All"} ->
         Index(topRow(m, i.user), "AccountTop", i.user)
    [] i.type \in {"Received", "Sent"} -> Index(3, "All", i.user)
    [] i.type = "ReceivedYear" -> Index(1, "Received", i.user)
    [] i.type = "SentYear" -> Index(2, "Sent", i.user)

topAcntIndex(m, u) ==
  LET rows == {row \in DOMAIN m.row2UserNameIdx :
                 m.userNames[m.row2UserNameIdx[row]] = u}
  IN IF rows = {} THEN NoIndex ELSE index(m, Min(rows), RootIndex)

\* data() of a year node for ROLE_PLAIN_DISPLAY; the row of an index kept by
\* the caller may lie outside of the list.
groupName(m, i) ==
  LET groups == m.counters[userName(m, i)].groups[TypeOfYears(i.type)]
  IN IF i.row \in DOMAIN groups THEN groups[i.row] ELSE "outside"

\* All nodes: the tree has four levels below its root.
Children(m, parents) ==
  {index(m, pair[1], pair[2]) :
     pair \in UNION {(1 .. rowCount(m, p)) \X {p} : p \in parents}}
Nodes(m) ==
  LET accounts == Children(m, {RootIndex})
      below == Children(m, accounts)
      types == Children(m, below)
  IN accounts \cup below \cup types \cup Children(m, types)

-----------------------------------------------------------------------------
(* What Qt does to a persistent index. *)

\* endInsertRows(), endRemoveRows() and endMoveRows() of one row; where is the
\* parent's index.
Inserted(m, where, row) ==
  LET i == m.view
  IN IF i # NoIndex /\ parentOf(m, i) = where /\ i.row >= row
     THEN [i EXCEPT !.row = @ + 1] ELSE i

Removed(m, where, row) ==
  LET i == m.view
  IN IF i = NoIndex THEN i
     ELSE IF where = RootIndex /\ i.user = m.row2UserNameIdx[row] THEN NoIndex
     ELSE IF parentOf(m, i) # where \/ i.row < row THEN i
     ELSE IF i.row = row THEN NoIndex ELSE [i EXCEPT !.row = @ - 1]

\* dest is the row, before the move, in front of which the row is put.
Moved(m, row, dest) ==
  LET i == m.view
      to == IF dest > row THEN dest - 1 ELSE dest
  IN IF i.type # "AccountTop" THEN i
     ELSE IF i.row = row THEN [i EXCEPT !.row = to]
     ELSE IF row < i.row /\ i.row <= to THEN [i EXCEPT !.row = @ - 1]
     ELSE IF to <= i.row /\ i.row < row THEN [i EXCEPT !.row = @ + 1]
     ELSE i

-----------------------------------------------------------------------------
(* Accounts. *)

loaded(us) ==
  Model(us, [row \in DOMAIN us |-> row],
        [u \in {us[i] : i \in DOMAIN us} |-> AccountCounters], NoIndex)

addAccount(m, u) ==
  Model(Append(m.userNames, u),
        Append(m.row2UserNameIdx, Len(m.userNames) + 1),
        [v \in Accounts(m) \cup {u} |->
           IF v = u THEN AccountCounters ELSE m.counters[v]],
        Inserted(m, RootIndex, rowCount(m, RootIndex) + 1))

\* The name stays as a gap: the positions of the others are in indexes.
deleteAccount(m, u) ==
  LET row == topAcntIndex(m, u).row
  IN Model([m.userNames EXCEPT ![m.row2UserNameIdx[row]] = None],
           RemoveAt(m.row2UserNameIdx, row),
           [v \in Accounts(m) \ {u} |-> m.counters[v]],
           Removed(m, RootIndex, row))

\* MUTANT of changePosition: the destination is announced as the row itself.
changePositionAnnounced(m, u, shunt) ==
  LET row == topAcntIndex(m, u).row
      newRow == row + shunt
  IN IF newRow \notin DOMAIN m.row2UserNameIdx THEN m
     ELSE [m EXCEPT !.row2UserNameIdx =
                      [@ EXCEPT ![row] = m.row2UserNameIdx[newRow],
                                ![newRow] = m.row2UserNameIdx[row]],
                    !.view = Moved(m, row, newRow)]

\* Two rows are exchanged; a move is announced.
changePosition(m, u, shunt) ==
  LET row == topAcntIndex(m, u).row
      newRow == row + shunt
  IN IF newRow \notin DOMAIN m.row2UserNameIdx THEN m
     ELSE [m EXCEPT !.row2UserNameIdx =
                      [@ EXCEPT ![row] = m.row2UserNameIdx[newRow],
                                ![newRow] = m.row2UserNameIdx[row]],
                    !.view = Moved(m, row, IF shunt > 0 THEN newRow + 1 ELSE newRow)]

\* moveRows() of one row, which dropMimeData() calls.
moveRows(m, row, dest) ==
  IF dest \in {row, row + 1} THEN m
  ELSE LET to == IF dest < row THEN dest ELSE dest - 1
       IN [m EXCEPT !.row2UserNameIdx = InsertAt(RemoveAt(@, row), to, @[row]),
                    !.view = Moved(m, row, dest)]

-----------------------------------------------------------------------------
(* Years. *)

\* Only the descending order is used.
addedYearPosition(groups, year) ==
  LET smaller == {pos \in DOMAIN groups : year > groups[pos]}
  IN IF smaller = {} THEN Len(groups) + 1 ELSE Min(smaller)

WithGroups(m, u, t, groups, unread, view) ==
  [m EXCEPT !.counters = [@ EXCEPT ![u].groups[t] = groups, ![u].unread[t] = unread],
            !.view = view]

YearsIndex(m, u, t) ==
  index(m, IF t = "received" THEN 1 ELSE 2,
        index(m, 3, topAcntIndex(m, u)))

Keys(list) == {list[i].year : i \in DOMAIN list}
CounterIn(list, year) == list[CHOOSE i \in DOMAIN list : list[i].year = year].counter

\* One turn of the loop over the rows that exist.
UpdateRow(m, u, t, list, prohibitYearRemoval, row) ==
  LET groups == m.counters[u].groups[t]
      unread == m.counters[u].unread[t]
      year == groups[row]
      found == year \in Keys(list)
      yCounter == IF found THEN CounterIn(list, year) ELSE YearCounter(FALSE, 0)
  IN IF ~prohibitYearRemoval /\ ~found
     THEN WithGroups(m, u, t, RemoveAt(groups, row),
                     [y \in DOMAIN unread \ {year} |-> unread[y]],
                     Removed(m, YearsIndex(m, u, t), row))
     ELSE WithGroups(m, u, t, groups, [unread EXCEPT ![year] = yCounter], m.view)

\* One turn of the loop over the years to be added.
AddYear(m, u, t, pair) ==
  LET groups == m.counters[u].groups[t]
      unread == m.counters[u].unread[t]
      newRow == addedYearPosition(groups, pair.year)
  IN IF Contains(groups, pair.year) THEN m
     ELSE WithGroups(m, u, t, InsertAt(groups, newRow, pair.year),
                     [y \in DOMAIN unread \cup {pair.year} |->
                        IF y = pair.year THEN pair.counter ELSE unread[y]],
                     Inserted(m, YearsIndex(m, u, t), newRow))

\* list pairs years with their counters.
updateYearNodes(m, u, t, list, prohibitYearRemoval) ==
  LET rows == Len(m.counters[u].groups[t])
      updated == FoldLeft(LAMBDA x, row : UpdateRow(x, u, t, list, prohibitYearRemoval,
                                                    row),
                          m, [i \in 1 .. rows |-> rows + 1 - i])
  IN FoldLeft(LAMBDA x, pair : AddYear(x, u, t, pair), updated, list)

updateYear(m, u, t, pair) ==
  IF Contains(m.counters[u].groups[t], pair.year)
  THEN [m EXCEPT !.counters[u].unread[t][pair.year] = pair.counter]
  ELSE m

updateRecentUnread(m, u, unread) == [m EXCEPT !.counters[u].recent = unread]

=============================================================================
