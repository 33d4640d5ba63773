----------------------------- MODULE AccountTree -----------------------------
(***************************************************************************)
(* What the list of accounts promises: a sequence of accounts, the years   *)
(* under each, and a selected entry that stays the one the user selected   *)
(* whatever is inserted, removed or moved around it.                       *)
(***************************************************************************)
EXTENDS Naturals, Sequences, FiniteSets

CONSTANTS Users, Groups, Types, None

VARIABLES
  order,     \* the accounts, without repetition, as they are listed
  years,     \* of an account and a type, the years shown
  selected   \* None or the entry: its account, its kind and, of a year, its name

vars == <<order, years, selected>>

Listed == {order[i] : i \in DOMAIN order}

Init ==
  /\ order \in Seq(Users)
  /\ \A i, j \in DOMAIN order : order[i] = order[j] => i = j
  /\ DOMAIN years = Listed

\* Another entry is selected.
Select == selected' # None /\ selected'.user \in Listed /\ UNCHANGED <<order, years>>

\* Accounts are put at the end; the last of them may be selected.
Add ==
  /\ Len(order') > Len(order)
  /\ SubSeq(order', 1, Len(order)) = order
  /\ \A i, j \in DOMAIN order' : order'[i] = order'[j] => i = j
  /\ DOMAIN years' = Listed'
  /\ \A u \in Listed : years'[u] = years[u]
  /\ selected' # selected => selected'.user = order'[Len(order')]

\* The account leaves the list; nothing selected is in it afterwards.
Remove(u) ==
  /\ u \in Listed
  /\ order' = SelectSeq(order, LAMBDA v : v # u)
  /\ years' = [v \in Listed \ {u} |-> years[v]]
  /\ selected' = (IF selected # None /\ selected.user = u THEN None ELSE selected)

\* The same accounts in another order.
Move ==
  /\ Len(order') = Len(order) /\ Listed' = Listed
  /\ UNCHANGED <<years, selected>>

\* The years of one account change, but a selected year stays.
Refresh(u) ==
  /\ u \in Listed
  /\ years'[u] \in [Types -> SUBSET Groups]
  /\ years' = [years EXCEPT ![u] = years'[u]]
  /\ UNCHANGED <<order, selected>>
  /\ selected # None /\ selected.user = u /\ selected.year # None =>
       selected.year \in years'[u][IF selected.kind = "ReceivedYear" THEN "received" ELSE "sent"]

Next ==
  \/ Select
  \/ Add
  \/ Move
  \/ \E u \in Users : Remove(u) \/ Refresh(u)

Spec == Init /\ [][Next]_vars
=============================================================================
