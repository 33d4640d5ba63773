------------------------ MODULE MessageDbSetQueries ------------------------
(***************************************************************************)
(* Questions to a set of message databases.                                *)
(*                                                                         *)
(* A set is one file or one file per year, and its functions pass a        *)
(* question to the file or put the answers of several files together.  A   *)
(* set by years picks the files by their names and avoids opening files,   *)
(* so its answers may differ from those of one file with the same          *)
(* messages: that file is what the answers are compared with.              *)
(***************************************************************************)
EXTENDS Integers, Sequences, FiniteSets

LOCAL INSTANCE SequencesExt
LOCAL INSTANCE FiniteSetsExt

CONSTANTS
  Messages,    \* [id, type, box, address] of the messages there may be
  Days,        \* days on which messages are delivered
  Todays,      \* days on which the program runs
  Lags,        \* days by which UTC may be behind the local time
  DaysInYear, Span, NoDay, None,
  MaxOps,      \* bound on what workers and the user do
  MaxFailures  \* bound on statements that fail

Db == INSTANCE MessageDbQueries

ASSUME QueriesAssumption ==
  /\ Messages \subseteq [id : Nat, type : Db!Types, box : STRING, address : BOOLEAN]
  /\ \A m, n \in Messages : m.id = n.id => m = n
  /\ Days \subseteq Nat /\ \A day \in Days : day >= DaysInYear
  /\ Todays \subseteq Nat /\ \A day \in Todays : day >= DaysInYear + Span
  /\ Lags \subseteq {0, 1}
  /\ DaysInYear \in Nat \ {0} /\ Span \in 0 .. DaysInYear - 1
  /\ NoDay \notin Nat
  /\ {MaxOps, MaxFailures} \subseteq Nat

VARIABLES
  files,     \* of the set by years: the rows of the files that exist
  opened,    \* years whose files have been opened
  today,     \* the local date
  utc,       \* the date of SQL's 'now'
  answer,    \* None, or what the marking of many messages that just ended
             \* set and returned
  undeleted, \* messages that a failed statement left in the file without time
  imported,  \* messages that were imported while that file had them
  ops, failures

vars == <<files, opened, today, utc, answer, undeleted, imported, ops, failures>>

-----------------------------------------------------------------------------
(* The set. *)

\* Files are named by years, that of the messages without a time by InvalidYear;
\* the name of a single file means nothing.
DbSet(organisation, contents, open) ==
  [organisation |-> organisation, files |-> contents, opened |-> open]
Single == 0
Yearly == DbSet("yearly", files, opened)

\* One file with the same messages.
Content == UNION {files[y] : y \in DOMAIN files}
Merged == DbSet("single", [k \in {Single} |-> Content], {Single})

\* The files a question is passed to: the one, or those of the years.
Asked(s, years) ==
  IF s.organisation = "single" THEN DOMAIN s.files ELSE years \cap DOMAIN s.files
All(s) == Asked(s, DOMAIN s.files)
Gather(s, keys, Query(_)) == UNION {Query(s.files[k]) : k \in keys}
Total(s, keys, Count(_)) == MapThenSumSet(LAMBDA k : Count(s.files[k]), keys)

yearsInPast90Days == {Db!YearOf(today), Db!YearOf(today - Span)}

\* MUTANT of _yrly_secKeysIn90Days: only this year's file is asked.
thisYearsKey(s) == Asked(s, {Db!YearOf(today)})

_yrly_secKeysIn90Days(s) == Asked(s, yearsInPast90Days)

-----------------------------------------------------------------------------
(* Questions. *)

msgsRcvdEntriesWithin90Days(s) ==
  Gather(s, _yrly_secKeysIn90Days(s), LAMBDA f : Db!msgsRcvdWithin90DaysQuery(f, utc))
msgsSntEntriesWithin90Days(s) ==
  Gather(s, _yrly_secKeysIn90Days(s), LAMBDA f : Db!msgsSntWithin90DaysQuery(f, utc))
msgsUnreadWithin90Days(s, type) ==
  Total(s, _yrly_secKeysIn90Days(s), LAMBDA f : Db!msgsUnreadWithin90Days(f, type, utc))

msgsRcvdEntriesInYear(s, year) ==
  Gather(s, Asked(s, {year}), LAMBDA f : Db!msgsRcvdEntriesInYear(f, year))
msgsSntEntriesInYear(s, year) ==
  Gather(s, Asked(s, {year}), LAMBDA f : Db!msgsSntEntriesInYear(f, year))

\* MUTANT of msgsYears: only files that are open are asked.
msgsYearsOpened(s, type) ==
  Db!Descending(UNION {ToSet(Db!msgsYears(s.files[k], type)) : k \in s.opened})

\* A file that is not open is taken to hold messages of its year, and only sent
\* ones to be without a time.
msgsYears(s, type) ==
  Db!Descending(
    UNION {ToSet(Db!msgsYears(s.files[k], type)) : k \in s.opened}
    \cup {k \in DOMAIN s.files \ s.opened : type = "sent" \/ k # Db!InvalidYear})

\* -2 of a file that is not open; the single file does not count sent messages.
msgsUnreadInYear(s, type, year) ==
  IF s.organisation = "yearly" /\ year \in DOMAIN s.files \ s.opened THEN -2
  ELSE IF s.organisation = "single" /\ type = "sent" THEN 0
  ELSE Total(s, Asked(s, {year}), LAMBDA f : Db!msgsUnreadInYear(f, type, year))

CountOf(counts, year) ==
  SumSet({counts[i].count : i \in {j \in DOMAIN counts : counts[j].year = year}})
msgsYearlyCounts(s, type) ==
  LET Of(k) == Db!msgsYearlyCounts(s.files[k], type)
      years == Db!Descending(UNION {{Of(k)[i].year : i \in DOMAIN Of(k)} : k \in All(s)})
  IN [i \in DOMAIN years |->
        [year |-> years[i],
         count |-> MapThenSumSet(LAMBDA k : CountOf(Of(k), years[i]), All(s))]]

\* The order of the loops over the files: ascending years, then the invalid one.
InOrder(keys) ==
  Reverse(Db!Descending(keys \ {Db!InvalidYear}))
  \o (IF Db!InvalidYear \in keys THEN <<Db!InvalidYear>> ELSE <<>>)

\* The last file that has the message, and the first.
msgsMsgId(s, id) ==
  FoldLeft(LAMBDA soFar, k : LET found == Db!msgsMsgId(s.files[k], id)
                             IN IF found # {} THEN found ELSE soFar,
           {}, InOrder(All(s)))
msgsGetMsgDataFromId(s, id) ==
  FoldLeft(LAMBDA soFar, k : IF soFar # {} THEN soFar
                             ELSE Db!msgsGetMsgDataFromId(s.files[k], id),
           {}, InOrder(All(s)))

\* MUTANT of mergeUniqueContacts: the entry of the first file is kept.
mergeFirstContacts(tgt, src) ==
  tgt \cup {e \in src : \A f \in tgt : f.box # e.box}

\* Of a box the entry with the larger message identifier.
mergeUniqueContacts(tgt, src) ==
  {f \in tgt : \A e \in src : e.box = f.box => e.id <= f.id}
  \cup {e \in src : \A f \in tgt : f.box = e.box => f.id < e.id}

uniqueContacts(s) ==
  FoldLeft(LAMBDA tgt, k : mergeUniqueContacts(tgt, Db!uniqueContacts(s.files[k])),
           {}, InOrder(All(s)))

getAllMessageIDsFromDB(s) == Gather(s, All(s), Db!getAllMessageIDsFromDB)
getAllMessageIDs(s, type) == Gather(s, All(s), LAMBDA f : Db!getAllMessageIDs(f, type))
getAllMessageIDsWithoutAttach(s) == Gather(s, All(s), Db!getAllMessageIDsWithoutAttach)
msgsSearch(s, type, box, logicalAnd) ==
  Gather(s, All(s), LAMBDA f : Db!msgsSearch(f, type, box, logicalAnd))

\* Files of other years are not opened.
secondaryKeyWithinLimits(key, from, to) ==
  key # Db!InvalidYear /\ Db!YearOf(from) <= key /\ key <= Db!YearOf(to)
msgsDateInterval(s, from, to, type) ==
  Gather(s, IF s.organisation = "single" THEN All(s)
            ELSE {k \in All(s) : secondaryKeyWithinLimits(k, from, to)},
         LAMBDA f : Db!msgsDateInterval(f, from, to, type))

-----------------------------------------------------------------------------
(* What changes the files. *)

Op == ops < MaxOps /\ ops' = ops + 1
Quietly == answer' = None /\ UNCHANGED <<today, utc>>
NoFailure == UNCHANGED failures
Failure == failures < MaxFailures /\ failures' = failures + 1

Has(year, id) == year \in DOMAIN files /\ \E r \in files[year] : r.id = id
Without(file, id) == {r \in file : r.id # id}

\* accessMessageDb() for writing: a missing file is created.
With(contents, year, row) ==
  [y \in DOMAIN contents \cup {year} |->
     IF y = year THEN (IF y \in DOMAIN contents THEN contents[y] ELSE {}) \cup {row}
     ELSE contents[y]]

\* Messages are delivered before now, by clocks that differ by less than a day.
Delivered == {day \in Days : day <= today + 1}

\* TaskSendMessage: a message that is sent has no time yet.
SendMessage ==
  /\ Op /\ Quietly /\ NoFailure
  /\ \E m \in Messages :
       /\ m.type = "sent" /\ \A y \in DOMAIN files : ~Has(y, m.id)
       /\ files' = With(files, Db!InvalidYear, Db!Row(m, NoDay))
  /\ opened' = opened \cup {Db!InvalidYear}
  /\ UNCHANGED <<undeleted, imported>>

\* The list erases the message in the file of messages without time, if there is one.
FromInvalid(contents, id) ==
  [y \in DOMAIN contents |->
     IF y = Db!InvalidYear THEN Without(contents[y], id) ELSE contents[y]]

\* TaskDownloadMessageList, for one message that no file has under this time.
\* The result of the erasure is not looked at.
ListMessage ==
  /\ Op /\ Quietly
  /\ \E m \in Messages, day \in Delivered \cup {NoDay} :
       LET year == Db!YearOf(day)
           row == Db!Row(m, day)
       IN /\ \A y \in DOMAIN files \ {Db!InvalidYear} : ~Has(y, m.id)
          /\ day = NoDay => ~Has(Db!InvalidYear, m.id)
          /\ \/ /\ files' = With(IF day = NoDay THEN files ELSE FromInvalid(files, m.id),
                                year, row)
                /\ NoFailure /\ UNCHANGED undeleted
             \/ /\ day # NoDay /\ Has(Db!InvalidYear, m.id) /\ Failure
                /\ files' = With(files, year, row)
                /\ undeleted' = undeleted \cup {m.id}
          /\ opened' = opened \cup {year} \cup
               (IF day = NoDay THEN {} ELSE {Db!InvalidYear} \cap DOMAIN files)
  /\ UNCHANGED imported

\* The server's time of a message: the one it is stored under, if any.
TimeOf(m) ==
  LET known == {r.day : r \in {q \in Content : q.id = m.id /\ q.day # NoDay}}
  IN IF known = {} THEN Delivered ELSE known

MadeWhole(file, id) == {IF r.id = id THEN [r EXCEPT !.whole = TRUE] ELSE r : r \in file}

\* TaskDownloadMessage, for the file of the message's time.  When the server's
\* time belongs to another file, the message is erased here and stored there;
\* neither result is looked at.  What is there already is kept.
Download ==
  /\ Op /\ Quietly
  /\ \E m \in Messages, before \in DOMAIN files : \E day \in TimeOf(m) :
       LET after == Db!YearOf(day)
           moved == IF Has(after, m.id) THEN files ELSE With(files, after, Db!Row(m, day))
           fetched(contents) == [contents EXCEPT ![after] = MadeWhole(@, m.id)]
       IN /\ \E r \in files[before] : r.id = m.id /\ ~r.whole
          /\ \/ /\ before = after /\ files' = fetched(files)
                /\ NoFailure /\ UNCHANGED <<undeleted, imported>>
             \/ /\ before # after /\ NoFailure
                /\ files' = fetched(FromInvalid(moved, m.id))
                /\ undeleted' = undeleted \ {m.id} /\ imported' = imported \ {m.id}
             \/ /\ before # after /\ Failure
                /\ files' = fetched(moved)
                /\ undeleted' = undeleted \cup {m.id} /\ UNCHANGED imported
             \/ /\ before # after /\ ~Has(after, m.id) /\ Failure
                /\ files' = [y \in DOMAIN moved |-> Without(moved[y], m.id)]
                /\ UNCHANGED <<undeleted, imported>>
          /\ opened' = opened \cup {before, after}

\* TaskImportZfo: only the file of the delivery time is looked into, which is
\* created for that.
ImportZfo ==
  /\ Op /\ Quietly
  /\ \E m \in Messages : \E day \in TimeOf(m) :
       LET year == Db!YearOf(day)
           row == Db!Row(m, day)
       IN /\ ~Has(year, m.id)
          /\ \/ files' = With(files, year, [row EXCEPT !.whole = TRUE]) /\ NoFailure
             \/ files' = With(files, year, row) /\ Failure
          /\ opened' = opened \cup {year}
          /\ imported' = IF Has(Db!InvalidYear, m.id) THEN imported \cup {m.id}
                         ELSE imported
  /\ UNCHANGED undeleted

\* TaskEraseMessage, in the file of the message's time.
EraseMessage ==
  /\ Op /\ Quietly /\ NoFailure
  /\ \E year \in DOMAIN files : \E r \in files[year] :
       /\ files' = [files EXCEPT ![year] = @ \ {r}]
       /\ opened' = opened \cup {year}
       /\ undeleted' = undeleted \ {r.id} /\ imported' = imported \ {r.id}

Scopes == {Db!Scope("all", 0), Db!Scope("recent", 0)}
          \cup {Db!Scope("year", y) : y \in DOMAIN files}

MarkedFiles(s, scope) ==
  InOrder(CASE scope.kind = "all" -> All(s)
            [] scope.kind = "year" -> Asked(s, {scope.year})
            [] scope.kind = "recent" -> _yrly_secKeysIn90Days(s))

\* MUTANT of returned: the last file decides.
returnedLast(keys, done, scope) == keys = <<>> \/ done # <<>>

\* True for no file at all when all messages are to be marked.
returned(keys, done, scope) == done = keys /\ (keys # <<>> \/ scope.kind = "all")

\* smsgdtSet...LocallyRead() and set...ProcessState(): the first statement that
\* fails is the last.
MarkMany(scope, mark, Update(_)) ==
  LET keys == MarkedFiles(Yearly, scope)
  IN \E n \in 0 .. Len(keys) :
       LET done == SubSeq(keys, 1, n)
       IN /\ IF done = keys THEN NoFailure ELSE Failure
          /\ files' = [y \in DOMAIN files |->
                         IF y \in ToSet(done) THEN Update(files[y]) ELSE files[y]]
          /\ opened' = opened \cup {keys[i] : i \in {j \in DOMAIN keys : j <= n + 1}}
          /\ answer' = [scope |-> scope, mark |-> mark, ret |-> returned(keys, done, scope)]

MarkRead ==
  /\ Op /\ UNCHANGED <<today, utc, undeleted, imported>>
  /\ \E scope \in Scopes :
       MarkMany(scope, "read", LAMBDA f : Db!smsgdtSetLocallyRead(f, scope, TRUE, utc))
SetProcessState ==
  /\ Op /\ UNCHANGED <<today, utc, undeleted, imported>>
  /\ \E scope \in Scopes :
       MarkMany(scope, "state", LAMBDA f : Db!setReceivedProcessState(f, scope, "settled", utc))

\* Any question to a file opens it.
Look ==
  /\ Quietly
  /\ \E keys \in {{y} : y \in DOMAIN files} \cup {DOMAIN files} :
       keys \ opened # {} /\ opened' = opened \cup keys
  /\ UNCHANGED <<files, undeleted, imported, ops, failures>>

\* The program is started again; files are opened when they are needed.
Restart ==
  /\ opened # {} /\ Op /\ Quietly
  /\ opened' = {}
  /\ UNCHANGED <<files, undeleted, imported, failures>>

\* Midnight, local or of UTC.
Clock ==
  /\ \E day \in {d \in Todays : d >= today}, lag \in Lags :
       today' = day /\ utc' = day - lag /\ utc' >= utc /\ <<today', utc'>> # <<today, utc>>
  /\ answer' = None
  /\ UNCHANGED <<files, opened, undeleted, imported, ops, failures>>

Init ==
  /\ files = [y \in {} |-> {}] /\ opened = {}
  /\ today \in Todays /\ utc \in {today - lag : lag \in Lags}
  /\ answer = None /\ undeleted = {} /\ imported = {} /\ ops = 0 /\ failures = 0

Next ==
  \/ SendMessage \/ ListMessage \/ Download \/ ImportZfo \/ EraseMessage
  \/ MarkRead \/ SetProcessState \/ Look \/ Restart \/ Clock

Spec == Init /\ [][Next]_vars

-----------------------------------------------------------------------------
(* Properties. *)

Twice ==
  {r.id : r \in {q \in Content : Cardinality({y \in DOMAIN files : Has(y, q.id)}) > 1}}

\* msgsMsgId() asserts that no other file has the message; TLC finds this violated.
NeverTwice == Twice = {}

\* A message is in two files only while a failed erasure left it where it had no
\* time, or after it was imported while it was there, which no import looks at; and
\* then in that file and one other.
OneFile ==
  /\ Twice \subseteq undeleted \cup imported
  /\ \A id \in Twice : Has(Db!InvalidYear, id)
                      /\ Cardinality({y \in DOMAIN files : Has(y, id)}) = 2

Distinct == Twice = {}

\* The years of the files that were not opened are guessed from their names: no
\* year with messages is missing, unless messages were received without a time,
\* and with all files open the list is that of a single file.  What a file that
\* is not open is said to hold is marked as unknown.
YearsListed ==
  \A type \in Db!Types :
    LET listed == ToSet(msgsYears(Yearly, type))
        real == ToSet(msgsYears(Merged, type))
    IN /\ real \ listed \subseteq (IF type = "received" THEN {Db!InvalidYear} ELSE {})
       /\ \A y \in real \ listed : y \notin opened
       /\ \A y \in listed \ real : msgsUnreadInYear(Yearly, type, y) = -2
       /\ DOMAIN files = opened => msgsYears(Yearly, type) = msgsYears(Merged, type)

\* Days of the last days by the local date.
LocallyRecent(r) == r.day # NoDay /\ today - Span <= r.day /\ r.day <= today

\* Every recent message is found although at most two files are asked, and no
\* message is found that one file would not show: at the turn of a year, and
\* while SQL's date is still yesterday's.
RecentFound ==
  LET Answers(type, answers, reference, unread, unreadReference) ==
        /\ {r \in Db!OfType(Content, type) : LocallyRecent(r)} \subseteq answers
        /\ answers \subseteq reference
        /\ unread <= unreadReference
        /\ Cardinality({r \in Db!OfType(Content, type) : LocallyRecent(r) /\ ~r.read})
             <= unread
  IN Distinct =>
       /\ Answers("received", msgsRcvdEntriesWithin90Days(Yearly),
                  msgsRcvdEntriesWithin90Days(Merged),
                  msgsUnreadWithin90Days(Yearly, "received"),
                  msgsUnreadWithin90Days(Merged, "received"))
       /\ Answers("sent", msgsSntEntriesWithin90Days(Yearly),
                  msgsSntEntriesWithin90Days(Merged),
                  msgsUnreadWithin90Days(Yearly, "sent"),
                  msgsUnreadWithin90Days(Merged, "sent"))

\* The files that are not asked are not missed: in the list of years and among the
\* messages of the last days.
NothingMissed == YearsListed /\ RecentFound

\* The other questions have the same answer as if all messages were in one file,
\* in which each message is once.
AnswersAgree ==
  /\ OneFile
  /\ Distinct =>
       /\ uniqueContacts(Yearly) = uniqueContacts(Merged)
       /\ getAllMessageIDsFromDB(Yearly) = getAllMessageIDsFromDB(Merged)
       /\ getAllMessageIDsWithoutAttach(Yearly) = getAllMessageIDsWithoutAttach(Merged)
       /\ \A m \in Messages :
            /\ msgsMsgId(Yearly, m.id) = msgsMsgId(Merged, m.id)
            /\ msgsGetMsgDataFromId(Yearly, m.id) = msgsGetMsgDataFromId(Merged, m.id)
       /\ \A type \in Db!Types :
            /\ msgsYearlyCounts(Yearly, type) = msgsYearlyCounts(Merged, type)
            /\ getAllMessageIDs(Yearly, type) = getAllMessageIDs(Merged, type)
            /\ \A from, to \in Days :
                 msgsDateInterval(Yearly, from, to, type) = msgsDateInterval(Merged, from, to, type)
            /\ \A box \in {m.box : m \in Messages}, logicalAnd \in BOOLEAN :
                 msgsSearch(Yearly, type, box, logicalAnd) =
                   msgsSearch(Merged, type, box, logicalAnd)
       /\ \A year \in {Db!YearOf(day) : day \in Days \cup {NoDay}} :
            /\ msgsRcvdEntriesInYear(Yearly, year) = msgsRcvdEntriesInYear(Merged, year)
            /\ msgsSntEntriesInYear(Yearly, year) = msgsSntEntriesInYear(Merged, year)
            /\ year \in opened => msgsUnreadInYear(Yearly, "received", year) =
                                    msgsUnreadInYear(Merged, "received", year)

\* When the marking of many messages reports success, every received message it
\* was asked to mark is marked: for the last days those of the local date, of
\* whichever file, although the scope is decided by two calendars.
MarkTold ==
  answer # None /\ answer.ret =>
    \A r \in Db!OfType(Content, "received") :
      \/ IF answer.scope.kind = "recent" THEN ~LocallyRecent(r)
         ELSE ~Db!InScope(r, answer.scope, utc)
      \/ IF answer.mark = "read" THEN r.read ELSE r.state = "settled"
=============================================================================
