-------------------------- MODULE MessageDbQueries --------------------------
(***************************************************************************)
(* What one message database file answers: the SELECT statements of        *)
(* MessageDb as operators on a set of rows.  A row joins what the tables   *)
(* messages, supplementary_message_data, process_state and                 *)
(* raw_message_data hold of a message.                                     *)
(*                                                                         *)
(* Days are numbered; NoDay is the null of a message without a time, which *)
(* no comparison finds.  What is shown of a row is left out.               *)
(***************************************************************************)
EXTENDS Integers, Sequences, FiniteSets

LOCAL INSTANCE SequencesExt

CONSTANTS
  DaysInYear,  \* days of a year
  Span,        \* the past days that count as recent, 90 in the code
  NoDay

Types == {"received", "sent"}
InvalidYear == 0
YearOf(day) == IF day = NoDay THEN InvalidYear ELSE day \div DaysInYear

\* The address is that of the sender or recipient, and may be null.
Row(m, day) ==
  [id |-> m.id, day |-> day, type |-> m.type, box |-> m.box, address |-> m.address,
   read |-> FALSE, state |-> "unsettled", whole |-> FALSE]

OfType(file, type) == {r \in file : r.type = type}
OfYear(file, type, year) == {r \in OfType(file, type) : YearOf(r.day) = year}

\* Nothing is too recent: a message may be dated after now.
Within90Days(file, type, now) ==
  {r \in OfType(file, type) : r.day # NoDay /\ r.day >= now - Span}

\* The years from the latest, messages without a time last.
Descending(years) == SetToSortSeq(years, LAMBDA a, b : a > b)

msgsRcvdEntriesInYear(file, year) == OfYear(file, "received", year)
msgsSntEntriesInYear(file, year) == OfYear(file, "sent", year)
msgsYears(file, type) == Descending({YearOf(r.day) : r \in OfType(file, type)})
msgsYearlyCounts(file, type) ==
  LET years == msgsYears(file, type)
  IN [i \in DOMAIN years |->
        [year |-> years[i], count |-> Cardinality(OfYear(file, type, years[i]))]]
msgsRcvdWithin90DaysQuery(file, now) == Within90Days(file, "received", now)
msgsSntWithin90DaysQuery(file, now) == Within90Days(file, "sent", now)
msgsUnreadWithin90Days(file, type, now) ==
  Cardinality({r \in Within90Days(file, type, now) : ~r.read})
msgsUnreadInYear(file, type, year) ==
  Cardinality({r \in OfYear(file, type, year) : ~r.read})

msgsMsgId(file, id) == {[id |-> r.id, day |-> r.day] : r \in {q \in file : q.id = id}}
msgsGetMsgDataFromId(file, id) == {r \in file : r.id = id}
getAllMessageIDsFromDB(file) == {[id |-> r.id, day |-> r.day] : r \in file}
getAllMessageIDs(file, type) == {r.id : r \in OfType(file, type)}
getAllMessageIDsWithoutAttach(file) == {r.id : r \in {q \in file : ~q.whole}}

\* Of each box the sender or recipient in the latest message with an address.
uniqueContacts(file) ==
  LET known == {r \in file : r.address}
  IN {[box |-> r.box, id |-> r.id] :
        r \in {q \in known : \A p \in known : p.box = q.box => p.id <= q.id}}

msgsDateInterval(file, from, to, type) ==
  {[id |-> r.id, day |-> r.day] :
     r \in {q \in OfType(file, type) : q.day # NoDay /\ from <= q.day /\ q.day <= to}}

\* The type is one of the alternatives when any criterion suffices.
msgsSearch(file, type, box, logicalAnd) ==
  {r \in file : IF logicalAnd THEN r.type = type /\ r.box = box
                ELSE r.type = type \/ r.box = box}

\* UPDATE and INSERT OR REPLACE of the marks of received messages: those of any
\* year, of one, or of the recent ones.
Scope(kind, year) == [kind |-> kind, year |-> year]
InScope(r, scope, now) ==
  /\ r.type = "received"
  /\ CASE scope.kind = "all" -> TRUE
       [] scope.kind = "year" -> YearOf(r.day) = scope.year
       [] scope.kind = "recent" -> r.day # NoDay /\ r.day >= now - Span

smsgdtSetLocallyRead(file, scope, read, now) ==
  {IF InScope(r, scope, now) THEN [r EXCEPT !.read = read] ELSE r : r \in file}
setReceivedProcessState(file, scope, state, now) ==
  {IF InScope(r, scope, now) THEN [r EXCEPT !.state = state] ELSE r : r \in file}
=============================================================================
