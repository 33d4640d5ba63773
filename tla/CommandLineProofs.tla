------------------------- MODULE CommandLineProofs -------------------------
(***************************************************************************)
(* What a run of the command line interface tells of what it has done,     *)
(* proved for any messages, recipients, requests, texts and failures.      *)
(***************************************************************************)
EXTENDS CommandLine, FiniteSetTheorems, TLAPS

-----------------------------------------------------------------------------
(* The parts of the inductive invariant. *)

FileNames == {"none", "invalid", "year"}
Rows == [file : FileNames, whole : BOOLEAN, info : FileNames, read : BOOLEAN]

Downloads == {Task("download", m) : m \in Messages}

ReadingStages == {"typing", "handedOver", "accepted", "accessed"}
ListStages == {"list", "listing", "failed", "stopping", "waiting"}
SendStages == {"send", "sending"}
GetStages == {"download", "local"}
EndStages == {"closing", "joining", "ended"}

\* The messages, the server and what the main thread reads of them.
Typed ==
  /\ target \in [Messages -> {"invalid", "year"}]
  /\ store \in [Messages -> Rows] /\ initially \in [Messages -> Rows]
  /\ sent \in Seq([box : Recipients, stored : BOOLEAN])
  /\ done \in BOOLEAN
  /\ result = Outcome(result.ok, result.new)
  /\ result.ok \in BOOLEAN
  /\ uninserted \subseteq Messages

\* The worker downloads, or has the task of the single slot.
PoolKept ==
  /\ hi = <<>> /\ lo \in Seq(Downloads)
  /\ current \in Downloads \cup {None, single}
  /\ state \in {"PENDING", "EXECUTING", "FINISHED"}
  /\ state = "EXECUTING" <=> single # None /\ current = single
  /\ single = None => state = "FINISHED"
  /\ single # None <=> at \in {"listing", "sending"}
  /\ at = "listing" => single \in {Task("list", t) : t \in {"received", "sent"}}
  /\ at = "sending" => single = Task("send", todo[1])
  /\ at \notin ListStages => lo = <<>> /\ current \in {None, single}

\* What the main thread is in fits the request.
Stages ==
  /\ request = None => at \in ReadingStages \cup EndStages
  /\ request # None =>
       /\ request \in Requests
       /\ at \in EndStages \cup
            CASE request.service = "getmessagelist" -> ListStages
              [] request.service = "sendmessage" -> SendStages
              [] OTHER -> GetStages
  /\ at \in EndStages => code \in BOOLEAN
  /\ at \in {"list", "listing", "send", "sending"} =>
       /\ todo # <<>>
       /\ todo \in IF at \in SendStages THEN Seq(Recipients) ELSE Seq({"received", "sent"})

\* Nothing has been done as long as there is no request.
Untouched ==
  request = None =>
    /\ new = {} /\ printed = {} /\ sent = <<>> /\ tried = {} /\ output = {}
    /\ store = initially /\ uninserted = {}

\* The task of the single slot has been run and runSingle() has not returned.
Ran == single # None /\ (state = "FINISHED" \/ (state = "EXECUTING" /\ done))

\* What the lists have to print.
Listed == Added \cup uninserted

Awaited(m) ==
  \/ \E i \in DOMAIN lo : lo[i] = Task("download", m)
  \/ current = Task("download", m) /\ ~done

\* In its file, or in none after a failed insertion.
AtHome(m) == store[m].file \in {target[m], "none"}

\* What has been added is where it belongs, and what waits to be downloaded is there
\* or nowhere: a download of the worker does not move a message.
Settled ==
  /\ \A m \in Added : store[m].file = target[m]
  /\ \A m \in Messages : initially[m].file = target[m] => store[m].file = target[m]
  /\ \A i \in DOMAIN lo : AtHome(lo[i].arg)
  /\ current \in Downloads => AtHome(current.arg)

\* What the lists have added or failed to insert is known, and downloaded or waiting for it.
Lists ==
  request # None /\ request.service = "getmessagelist" =>
    /\ at \in {"list", "listing", "waiting"} =>
         /\ Listed = new \cup (IF Ran /\ result.ok THEN result.new ELSE {})
         /\ request.complete => \A m \in Listed : (m \in tried \/ Awaited(m))
    /\ at \in ListStages => printed = {}
    /\ at \in EndStages =>
         IF code THEN printed = Listed /\ (request.complete => Listed \subseteq tried)
         ELSE printed = {}

\* The messages sent that are stored.
StoredSent == {i \in DOMAIN sent : sent[i].stored}

\* How many mentions of a recipient have been dealt with.
Reached ==
  IF at \in SendStages
  THEN Len(request.recipients) - Len(todo) + (IF Ran THEN 1 ELSE 0)
  ELSE Len(request.recipients)

\* Each message is for a mention of its recipient among the first n ones.
Serves(f, n) ==
  /\ f \in [DOMAIN sent -> 1 .. n]
  /\ \A i \in DOMAIN sent : sent[i].box = request.recipients[f[i]]
  /\ \A i, j \in DOMAIN sent : i < j => f[i] < f[j]

\* Whether there is a stored message for the last of the first n mentions.
LastStored(f, n) == \E i \in StoredSent : f[i] = n

\* The mentions that remain are the last ones, and what has been sent is for the others.
Sends ==
  request # None /\ request.service = "sendmessage" =>
    /\ at \in SendStages =>
         /\ Len(todo) <= Len(request.recipients)
         /\ \A i \in DOMAIN todo :
              todo[i] = request.recipients[Len(request.recipients) - Len(todo) + i]
    /\ StoredSent = printed \cup (IF Ran /\ result.ok THEN result.new ELSE {})
    /\ \E f : /\ Serves(f, Reached)
              /\ Ran => (result.ok <=> LastStored(f, Reached))
              /\ at \in EndStages => (code <=> LastStored(f, Reached))

\* The file that was looked up first is the one that is exported from.
Gets ==
  request # None /\ request.service = "getmessage" =>
    /\ at \in GetStages => where = initially[request.msg].file
    /\ at \in EndStages /\ code =>
         /\ "zfoFile" \in request.files => "zfoFile" \in output /\ store[request.msg].whole
         /\ store[request.msg].file = initially[request.msg].file =>
              /\ "markDownload" \in request.files => store[request.msg].read \/ unmarked
              /\ "attachmentDir" \in request.files /\ store[request.msg].whole =>
                   "attachmentDir" \in output

\* The inductive invariant.
IInv == Typed /\ PoolKept /\ Stages /\ Untouched /\ Settled /\ Lists /\ Sends /\ Gets

-----------------------------------------------------------------------------
(* Requests, tasks and queues. *)

\* What a request has, by its service.
LEMMA RequestFacts ==
  ASSUME NEW r \in Requests
  PROVE  /\ r.service = "getmessagelist" =>
              r.types \in Seq({"received", "sent"}) /\ r.types # <<>>
         /\ r.service = "sendmessage" =>
              r.recipients \in Seq(Recipients) /\ r.recipients # <<>>
         /\ r.service \in {"getmessage", "getdeliveryinfo"} => r.msg \in Messages
         /\ r # None
<1>1. r \in Services
  BY CommandLineAssumption
<1> QED BY <1>1, CommandLineAssumption DEF Services

\* Tasks are told apart by what they do and to what.
LEMMA TaskFacts ==
  /\ \A k, a : Task(k, a).kind = k /\ Task(k, a).arg = a
  /\ \A x \in Downloads : x.kind = "download" /\ x.arg \in Messages /\ x = Task("download", x.arg)
  /\ None \notin Downloads
  /\ \A t \in {"received", "sent"} : Task("list", t) # None /\ Task("list", t) \notin Downloads
  /\ \A r \in Recipients : Task("send", r) # None /\ Task("send", r) \notin Downloads
<1>1. \A k, a : Task(k, a).kind = k /\ Task(k, a).arg = a
  BY DEF Task
<1>2. \A x \in Tasks : x # None
  BY CommandLineAssumption
<1> QED BY <1>1, <1>2 DEF Downloads, Tasks

\* Some downloads in an order.
IsOrder(s, X) ==
  /\ s \in Seq(Downloads)
  /\ \A i \in DOMAIN s : s[i].arg \in X
  /\ \A m \in X : \E i \in DOMAIN s : s[i] = Task("download", m)

\* There are finitely many downloads to put in order.
LEMMA OrderFacts ==
  ASSUME NEW X \in SUBSET Messages, NEW D, D = {Task("download", m) : m \in X},
         NEW s \in Bijection(1 .. Cardinality(D), D)
  PROVE  IsOrder(s, X)
<1>1. IsFiniteSet(X)
  BY CommandLineAssumption, FS_Subset
<1>2. IsFiniteSet(D)
  <2> DEFINE f == [m \in X |-> Task("download", m)]
  <2>1. f \in Surjection(X, D)
    BY DEF Surjection
  <2> HIDE DEF f
  <2> QED BY <1>1, <2>1, FS_Surjection
<1>3. Cardinality(D) \in Nat
  BY <1>2, FS_CardinalityType
<1>4. s \in [1 .. Cardinality(D) -> D] /\ \A d \in D : \E i \in 1 .. Cardinality(D) : s[i] = d
  BY DEF Bijection, Surjection, Injection
<1>5. D \subseteq Downloads /\ \A d \in D : d.arg \in X
  BY TaskFacts DEF Downloads
<1>6. DOMAIN s = 1 .. Cardinality(D) /\ s \in Seq(Downloads)
  <2>1. s \in [1 .. Cardinality(D) -> Downloads] /\ DOMAIN s = 1 .. Cardinality(D)
    BY <1>4, <1>5
  <2> QED BY ONLY <1>3, <2>1
<1>7. \A m \in X : \E i \in DOMAIN s : s[i] = Task("download", m)
  BY <1>4, <1>6
<1>8. \A i \in DOMAIN s : s[i].arg \in X
  BY <1>4, <1>5, <1>6
<1> QED BY <1>6, <1>7, <1>8 DEF IsOrder

-----------------------------------------------------------------------------
(* The user writes, and the request begins. *)

\* Without a request only the files of the database can change.
LEMMA NoRequest ==
  ASSUME IInv, request = None, request' = None,
         at' \in ReadingStages \cup EndStages, at' \in EndStages => code' \in BOOLEAN,
         target' \in [Messages -> {"invalid", "year"}], store' \in [Messages -> Rows],
         initially' = store',
         UNCHANGED <<poolVars, new, printed, output, done, result, serverVars>>
  PROVE  IInv'
<1>1. Typed' /\ Untouched' /\ Lists' /\ Sends' /\ Gets'
  BY DEF IInv, Typed, Untouched, Lists, Sends, Gets, serverVars
<1>2. Stages'
  BY DEF Stages, ReadingStages, EndStages
<1>3. at \in ReadingStages \cup EndStages
  BY DEF IInv, Stages
<1>4. PoolKept'
  BY <1>3 DEF IInv, PoolKept, ReadingStages, EndStages, ListStages, poolVars
<1>5. Settled'
  <2>1. Added' = {}
    BY DEF Added
  <2>2. lo = <<>> /\ current = None
    BY <1>3 DEF IInv, PoolKept, ReadingStages, EndStages, ListStages
  <2> QED BY <2>1, <2>2, TaskFacts DEF Settled, AtHome, poolVars
<1> QED BY <1>1, <1>2, <1>4, <1>5 DEF IInv

\* As long as the text is read there is no request.
LEMMA ReadingHasNone == ASSUME IInv, at \in ReadingStages PROVE request = None
BY DEF IInv, Stages, ReadingStages, EndStages, ListStages, SendStages, GetStages

\* What happens before the request.
LEMMA ReadingPreserves ==
  ASSUME IInv,
         \/ \E name \in Known : BeginOption(name)
         \/ \E ch \in Characters : WriteValue(ch)
         \/ EndOption
         \/ \E s \in Scraps : WriteScrap(s)
         \/ Compose \/ Refuse \/ Accept
  PROVE  IInv'
<1>1. /\ at = "typing" /\ at' \in {"typing", "handedOver", "accepted", "closing"}
      /\ at' = "closing" => code' = FALSE
      /\ UNCHANGED <<poolVars, request, new, printed, output, done, result, storeVars, serverVars>>
  <2>1. CASE \/ \E name \in Known : BeginOption(name)
             \/ \E ch \in Characters : WriteValue(ch)
             \/ EndOption
             \/ \E s \in Scraps : WriteScrap(s)
    BY <2>1 DEF BeginOption, WriteValue, EndOption, WriteScrap, Writes, mainVars
  <2>2. CASE Compose \/ Refuse \/ Accept
    BY <2>2 DEF Compose, Refuse, Accept, Close
  <2> QED BY <2>1, <2>2
<1>2. request = None /\ store = initially
  BY <1>1, ReadingHasNone DEF ReadingStages, IInv, Untouched
<1>3. /\ target' \in [Messages -> {"invalid", "year"}] /\ store' \in [Messages -> Rows]
      /\ initially' = store' /\ request' = None
  BY <1>1, <1>2 DEF IInv, Typed, storeVars
<1> QED BY <1>1, <1>2, <1>3, NoRequest DEF ReadingStages, EndStages

\* The database is opened.
LEMMA AccessDbSetPreserves == ASSUME IInv, AccessDbSet PROVE IInv'
<1>1. /\ at = "accepted" /\ at' = "accessed" /\ initially' = store'
      /\ target' \in [Messages -> {"invalid", "year"}]
      /\ UNCHANGED <<poolVars, request, new, printed, output, done, result, serverVars>>
  BY DEF AccessDbSet
<1>2. store' \in [Messages -> Rows]
  <2>1. {Nowhere, Stored("invalid", FALSE)} \cup {Stored("year", w) : w \in BOOLEAN} \subseteq Rows
    <3>1. \A f \in FileNames, w \in BOOLEAN : Stored(f, w) \in Rows
      BY DEF Rows, Stored, FileNames
    <3> QED BY <3>1 DEF Nowhere, FileNames
  <2> QED BY <2>1 DEF AccessDbSet
<1>3. request = None
  BY <1>1, ReadingHasNone DEF ReadingStages
<1> QED BY <1>1, <1>2, <1>3, NoRequest DEF ReadingStages, EndStages

\* The pool is idle and nothing has been done when the request begins.
LEMMA AccessedFacts ==
  ASSUME IInv, at = "accessed"
  PROVE  /\ hi = <<>> /\ lo = <<>> /\ single = None /\ current = None /\ ~Ran
         /\ new = {} /\ printed = {} /\ sent = <<>> /\ Listed = {} /\ Added = {} /\ StoredSent = {}
         /\ request = None /\ store = initially
<1>1. request = None
  BY ReadingHasNone DEF ReadingStages
<1> QED BY <1>1 DEF IInv, PoolKept, Untouched, Ran, Listed, Added, StoredSent, ListStages

\* A request begins, or is refused.
LEMMA StartPreserves == ASSUME IInv, NEW r \in Requests, Start(r) PROVE IInv'
<1>1. /\ at = "accessed" /\ request' = r
      /\ UNCHANGED <<poolVars, new, printed, output, done, result, storeVars, sent, tried, uninserted, unmarked>>
  BY DEF Start
<1>2. (at' = "closing" /\ code' = FALSE) \/ Proceed(r)
  BY DEF Start, Close
<1>3. Typed'
  BY <1>1 DEF IInv, Typed, storeVars
<1>4. Untouched'
  BY <1>1, RequestFacts DEF Untouched
<1>5. /\ Added' = {} /\ Listed' = {} /\ StoredSent' = {} /\ ~Ran' /\ sent' = <<>> /\ printed' = {} /\ new' = {}
      /\ store' = initially'
  BY <1>1, AccessedFacts DEF Listed, Added, StoredSent, Ran, storeVars, poolVars
<1> DEFINE f == <<>>
<1>11. ASSUME r.service = "sendmessage", NEW n PROVE (Serves(f, n) /\ ~LastStored(f, n))'
  BY <1>5 DEF Serves, LastStored
<1>6. at' # "listing" /\ at' # "sending"
  BY <1>2 DEF Proceed
<1>7. PoolKept'
  BY <1>1, <1>6, AccessedFacts DEF PoolKept, poolVars, IInv
<1>8. Settled'
  BY <1>1, <1>5, AccessedFacts, TaskFacts DEF Settled, AtHome, poolVars
<1>9. CASE at' = "closing" /\ code' = FALSE
  <2>1. Stages'
    BY <1>1, <1>9 DEF Stages, EndStages, SendStages
  <2>2. Lists' /\ Gets'
    BY <1>5, <1>9 DEF Lists, Gets, EndStages, ListStages, GetStages
  <2>3. Sends'
    BY <1>1, <1>5, <1>9, <1>11 DEF Sends, SendStages
  <2> QED BY <1>3, <1>4, <1>7, <1>8, <2>1, <2>2, <2>3 DEF IInv
<1>10. CASE Proceed(r)
  <2>1. CASE r.service = "getmessagelist"
    <3>1. at' = "list" /\ todo' = r.types
      BY <1>10, <2>1 DEF Proceed
    <3>2. Stages'
      BY <1>1, <2>1, <3>1, RequestFacts DEF Stages, EndStages, SendStages, ListStages
    <3>3. Lists' /\ Sends' /\ Gets'
      BY <1>1, <1>5, <2>1, <3>1 DEF Lists, Sends, Gets, EndStages, ListStages, SendStages, GetStages
    <3> QED BY <1>3, <1>4, <1>7, <1>8, <3>2, <3>3 DEF IInv
  <2>2. CASE r.service = "sendmessage"
    <3>1. at' = "send" /\ todo' = r.recipients
      BY <1>10, <2>2 DEF Proceed
    <3>2. Stages'
      BY <1>1, <2>2, <3>1, RequestFacts DEF Stages, EndStages, SendStages, ListStages
    <3>3. Lists' /\ Gets'
      BY <1>1, <1>5, <2>2, <3>1 DEF Lists, Gets
    <3>4. Sends'
      <4>1. /\ r.recipients \in Seq(Recipients) /\ Len(r.recipients) \in Nat
            /\ \A n, i \in Nat : n - n + i = i
        BY <2>2, RequestFacts
      <4>2. \A i \in DOMAIN r.recipients :
              r.recipients[i] = r.recipients[Len(r.recipients) - Len(r.recipients) + i]
        BY <4>1
      <4>3. Serves(f, Reached)' /\ ~LastStored(f, Reached)'
        BY <1>11, <2>2
      <4>4. at' \in SendStages /\ at' \notin EndStages
        BY <3>1 DEF SendStages, EndStages
      <4> QED BY <1>1, <1>5, <3>1, <4>1, <4>2, <4>3, <4>4 DEF Sends
    <3> QED BY <1>3, <1>4, <1>7, <1>8, <3>2, <3>3, <3>4 DEF IInv
  <2>3. CASE r.service \notin {"getmessagelist", "sendmessage"}
    <3>1. /\ at' \in GetStages
          /\ r.service = "getmessage" => where' = store[r.msg].file
      BY <1>10, <2>3 DEF Proceed, GetStages
    <3>2. Stages'
      <4>1. GetStages = CASE r.service = "getmessagelist" -> ListStages
                          [] r.service = "sendmessage" -> SendStages
                          [] OTHER -> GetStages
        BY <2>3
      <4>2. at' \in {"download", "local"}
        BY <3>1 DEF GetStages
      <4>3. at' \notin EndStages /\ at' \notin {"list", "listing", "send", "sending"}
        BY <4>2 DEF EndStages
      <4>4. request' = r /\ r # None
        BY <1>1, RequestFacts
      <4> QED BY <3>1, <4>1, <4>3, <4>4 DEF Stages
    <3>3. Lists' /\ Sends'
      BY <1>1, <1>5, <2>3, <3>1 DEF Lists, Sends
    <3>4. Gets'
      BY <1>1, <1>5, <3>1, AccessedFacts DEF Gets, GetStages, EndStages, storeVars
    <3> QED BY <1>3, <1>4, <1>7, <1>8, <3>2, <3>3, <3>4 DEF IInv
  <2> QED BY <2>1, <2>2, <2>3
<1> QED BY <1>2, <1>9, <1>10

-----------------------------------------------------------------------------
(* Lists and sendings are handed to the pool and collected. *)

\* The main thread tells what the request is.
LEMMA ServiceOf ==
  ASSUME IInv
  PROVE  /\ at \in ListStages \cup SendStages \cup GetStages =>
              request # None /\ request \in Requests
         /\ at \in ListStages => request.service = "getmessagelist"
         /\ at \in SendStages => request.service = "sendmessage"
         /\ at \in GetStages => request.service \notin {"getmessagelist", "sendmessage"}
BY DEF IInv, Stages, ReadingStages, EndStages, ListStages, SendStages, GetStages

\* What changes nothing of it leaves the promise about sendings.
LEMMA SendsKept ==
  ASSUME Sends, Ran' <=> Ran, UNCHANGED <<request, todo, printed, code, result, sent>>,
         \/ at' = at
         \/ at \in SendStages /\ at' \in SendStages
         \/ at \in EndStages /\ at' \in EndStages
  PROVE  Sends'
<1> SUFFICES ASSUME request # None, request.service = "sendmessage" PROVE Sends'
  BY DEF Sends
<1>1. Reached' = Reached /\ StoredSent' = StoredSent
  BY DEF Reached, StoredSent, SendStages, EndStages
<1>2. \A f, n : Serves(f, n)' = Serves(f, n) /\ LastStored(f, n)' = LastStored(f, n)
  BY <1>1 DEF Serves, LastStored
<1> QED BY <1>1, <1>2 DEF Sends, SendStages, EndStages

\* runSingle() is entered.
LEMMA SubmitPreserves == ASSUME IInv, Submit PROVE IInv'
<1> USE DEF IInv
<1>1. /\ at \in {"list", "send"} /\ at' = IF at = "list" THEN "listing" ELSE "sending"
      /\ single = None /\ single' = Task(at, Head(todo)) /\ state' = "PENDING"
      /\ UNCHANGED <<hi, lo, current, request, todo, where, new, printed, output, code, done,
                     result, target, store, initially, sent, tried, uninserted, unmarked, faults>>
  BY DEF Submit, PutSingle, storeVars, serverVars
<1>2. /\ todo # <<>> /\ todo[1] = Head(todo)
      /\ at = "list" => Head(todo) \in {"received", "sent"}
      /\ at = "send" => Head(todo) \in Recipients
  BY <1>1 DEF Stages, SendStages
<1>3. current \in Downloads \cup {None}
  BY <1>1 DEF PoolKept
<1>4. /\ single' # None /\ current # single'
      /\ at = "list" => single' \in {Task("list", t) : t \in {"received", "sent"}}
      /\ at = "send" => single' = Task("send", todo[1])
  BY <1>1, <1>2, <1>3, TaskFacts
<1>5. ~Ran /\ ~Ran'
  BY <1>1 DEF Ran
<1>6. Typed' /\ Untouched' /\ Settled'
  BY <1>1 DEF Typed, Untouched, Settled, AtHome, Listed, Added
<1>7. PoolKept'
  BY <1>1, <1>3, <1>4 DEF PoolKept, ListStages
<1>8. Stages'
  BY <1>1, <1>2 DEF Stages, ReadingStages, EndStages, ListStages, SendStages, GetStages
<1>9. Lists' /\ Gets'
  BY <1>1, <1>5, ServiceOf DEF Lists, Gets, Listed, Added, Awaited, ListStages, EndStages, SendStages, GetStages
<1>10. Sends'
  <2>1. CASE at = "list"
    BY <1>1, <2>1, ServiceOf DEF Sends, ListStages
  <2>2. CASE at = "send"
    BY <1>1, <1>5, <2>2, SendsKept DEF SendStages
  <2> QED BY <1>1, <2>1, <2>2
<1> QED BY <1>6, <1>7, <1>8, <1>9, <1>10

\* runSingle() returns from a list.
LEMMA ListReturnsPreserves == ASSUME IInv, ListReturns PROVE IInv'
<1> USE DEF IInv
<1>1. /\ at = "listing" /\ single # None /\ state = "FINISHED" /\ single' = None
      /\ todo' = Tail(todo)
      /\ new' = IF result.ok THEN new \cup result.new ELSE new
      /\ at' = IF ~result.ok THEN "failed" ELSE IF todo' = <<>> THEN "waiting" ELSE "list"
      /\ UNCHANGED <<hi, lo, state, current, request, where, printed, output, code, done,
                     result, target, store, initially, sent, tried, uninserted, unmarked, faults>>
  BY DEF ListReturns, VacateSingle, storeVars, serverVars
<1>2. Ran /\ ~Ran' /\ request # None /\ request.service = "getmessagelist"
  BY <1>1, ServiceOf DEF Ran, ListStages
<1>3. Typed' /\ Untouched' /\ Settled'
  BY <1>1, <1>2 DEF Typed, Untouched, Settled, AtHome, Listed, Added
<1>4. PoolKept'
  BY <1>1 DEF PoolKept, ListStages
<1>5. Stages'
  <2>1. todo \in Seq({"received", "sent"}) /\ todo # <<>>
    BY <1>1 DEF Stages, SendStages
  <2>2. Tail(todo) \in Seq({"received", "sent"})
    BY <2>1
  <2> QED BY <1>1, <1>2, <2>2 DEF Stages, ReadingStages, EndStages, ListStages, SendStages
<1>6. Added' = Added /\ Listed' = Listed /\ \A m : Awaited(m)' <=> Awaited(m)
  BY <1>1 DEF Listed, Added, Awaited
<1>7. Lists'
  BY <1>1, <1>2, <1>6 DEF Lists, ListStages, EndStages
<1>8. Sends' /\ Gets'
  BY <1>1, <1>2 DEF Sends, Gets
<1> QED BY <1>3, <1>4, <1>5, <1>7, <1>8

\* A list has failed: what waits is dropped.
LEMMA FailurePreserves == ASSUME IInv, StopPending \/ ClearPending PROVE IInv'
<1> USE DEF IInv
<1>1. CASE StopPending
  <2>1. /\ at = "failed" /\ at' = "stopping"
        /\ UNCHANGED <<hi, lo, single, state, current, request, todo, where, new, printed, output,
                       code, done, result, target, store, initially, sent, tried, uninserted, unmarked, faults>>
    BY <1>1 DEF StopPending, SetTerminating, storeVars, serverVars
  <2>2. Ran' <=> Ran
    BY <2>1 DEF Ran
  <2>3. Typed' /\ Untouched' /\ Settled' /\ PoolKept'
    BY <2>1 DEF Typed, Untouched, Settled, AtHome, Listed, Added, PoolKept, ListStages
  <2>4. Stages' /\ Gets'
    BY <2>1 DEF Stages, ReadingStages, EndStages, ListStages, SendStages, GetStages, Gets
  <2>5. Lists' /\ Sends'
    BY <2>1, <2>2, ServiceOf DEF Lists, Sends, ListStages, EndStages
  <2> QED BY <2>3, <2>4, <2>5
<1>2. CASE ClearPending
  <2>1. /\ at = "stopping" /\ current = None /\ hi' = <<>> /\ lo' = <<>>
        /\ at' = "closing" /\ code' = FALSE
        /\ UNCHANGED <<single, state, current, request, todo, where, new, printed, output,
                       done, result, target, store, initially, sent, tried, uninserted, unmarked, faults>>
    BY <1>2 DEF ClearPending, ClearQueues, Close, storeVars, serverVars
  <2>2. Typed' /\ Untouched' /\ PoolKept'
    BY <2>1 DEF Typed, Untouched, PoolKept, ListStages
  <2>3. Settled'
    BY <2>1, TaskFacts DEF Settled, AtHome, Listed, Added
  <2>4. Stages' /\ Gets'
    BY <2>1, ServiceOf DEF Stages, ReadingStages, EndStages, ListStages, SendStages, GetStages, Gets
  <2>5. Lists' /\ Sends'
    BY <2>1, ServiceOf DEF Lists, Sends, ListStages, EndStages
  <2> QED BY <2>2, <2>3, <2>4, <2>5
<1> QED BY <1>1, <1>2

\* wait() returns: what was listed and downloaded is printed.
LEMMA PrintNewPreserves == ASSUME IInv, PrintNew PROVE IInv'
<1> USE DEF IInv
<1>1. /\ at = "waiting" /\ hi = <<>> /\ lo = <<>> /\ single = None /\ current = None
      /\ printed' = new /\ at' = "closing" /\ code' = TRUE
      /\ UNCHANGED <<hi, lo, single, state, current, request, todo, where, new, output,
                     done, result, target, store, initially, sent, tried, uninserted, unmarked, faults>>
  BY DEF PrintNew, Close, Working, poolVars, storeVars, serverVars
<1>2. request # None /\ request.service = "getmessagelist" /\ ~Ran
  BY <1>1, ServiceOf DEF ListStages, Ran
<1>3. Typed' /\ Untouched' /\ PoolKept' /\ Settled'
  BY <1>1, <1>2 DEF Typed, Untouched, PoolKept, ListStages, Settled, AtHome, Listed, Added
<1>4. Stages' /\ Sends' /\ Gets'
  BY <1>1, <1>2 DEF Stages, ReadingStages, EndStages, ListStages, SendStages, GetStages, Sends, Gets
<1>5. \A m \in Messages : ~Awaited(m)
  BY <1>1, TaskFacts DEF Awaited, Downloads
<1>6. Lists'
  BY <1>1, <1>2, <1>5 DEF Lists, Listed, Added, Typed, ListStages, EndStages
<1> QED BY <1>3, <1>4, <1>6

\* runSingle() returns from the sending of a message.
LEMMA SendReturnsPreserves == ASSUME IInv, SendReturns PROVE IInv'
<1> USE DEF IInv
<1>1. /\ at = "sending" /\ single # None /\ state = "FINISHED" /\ single' = None
      /\ todo' = Tail(todo)
      /\ printed' = IF result.ok THEN printed \cup result.new ELSE printed
      /\ IF todo' = <<>> THEN at' = "closing" /\ code' = result.ok ELSE at' = "send"
      /\ UNCHANGED <<hi, lo, state, current, request, where, new, output, done, result,
                     target, store, initially, sent, tried, uninserted, unmarked, faults>>
  BY DEF SendReturns, VacateSingle, Close, storeVars, serverVars
<1>2. Ran /\ ~Ran' /\ request # None /\ request.service = "sendmessage"
  BY <1>1, ServiceOf DEF Ran, SendStages
<1>3. Typed' /\ Untouched' /\ Settled'
  BY <1>1, <1>2 DEF Typed, Untouched, Settled, AtHome, Listed, Added
<1>4. PoolKept'
  BY <1>1 DEF PoolKept, ListStages
<1>5. todo \in Seq(Recipients) /\ todo # <<>>
  BY <1>1 DEF Stages, SendStages
<1>6. /\ Head(todo) = todo[1] /\ Len(todo) \in Nat \ {0} /\ DOMAIN todo = 1 .. Len(todo)
      /\ todo' \in Seq(Recipients) /\ Len(todo') = Len(todo) - 1
      /\ DOMAIN todo' = 1 .. Len(todo) - 1
      /\ \A i \in DOMAIN todo' : i + 1 \in DOMAIN todo /\ i + 1 # 1 /\ todo'[i] = todo[i + 1]
  BY <1>1, <1>5
<1>7. todo' = <<>> <=> Len(todo) = 1
  BY <1>6
<1>8. Stages'
  BY <1>1, <1>2, <1>6 DEF Stages, ReadingStages, EndStages, ListStages, SendStages, Typed
<1>9. Lists' /\ Gets'
  BY <1>1, <1>2 DEF Lists, Gets
<1>10. PICK f : Serves(f, Reached) /\ (result.ok <=> LastStored(f, Reached))
  BY <1>1, <1>2 DEF Sends
<1>11. /\ StoredSent = printed' /\ StoredSent' = StoredSent
       /\ Len(todo) <= Len(request.recipients) /\ Len(request.recipients) \in Nat
       /\ \A i \in DOMAIN todo :
            todo[i] = request.recipients[Len(request.recipients) - Len(todo) + i]
  <2>1. request.recipients \in Seq(Recipients)
    BY <1>1, <1>2, ServiceOf, RequestFacts DEF SendStages
  <2> QED BY <1>1, <1>2, <2>1 DEF Sends, SendStages, StoredSent
<1>12. Reached' = Reached
  BY <1>1, <1>2, <1>6, <1>7, <1>11 DEF Reached, SendStages
<1>13. Serves(f, Reached)' /\ (LastStored(f, Reached)' <=> LastStored(f, Reached))
  BY <1>1, <1>10, <1>11, <1>12 DEF Serves, LastStored
<1>14. at' \in SendStages =>
         /\ Len(todo') <= Len(request'.recipients)
         /\ \A i \in DOMAIN todo' :
              todo'[i] = request'.recipients[Len(request'.recipients) - Len(todo') + i]
  <2>1. request' = request /\ Len(todo') <= Len(request.recipients)
    BY <1>1, <1>6, <1>11
  <2>2. ASSUME NEW i \in DOMAIN todo'
        PROVE  todo'[i] = request.recipients[Len(request.recipients) - Len(todo') + i]
    <3>1. i \in Nat /\ i + 1 \in DOMAIN todo /\ todo'[i] = todo[i + 1]
      BY <1>6
    <3>2. todo[i + 1] = request.recipients[Len(request.recipients) - Len(todo) + (i + 1)]
      BY <1>11, <3>1
    <3>3. Len(request.recipients) - Len(todo) + (i + 1) = Len(request.recipients) - Len(todo') + i
      <4>1. \A a, b, c \in Int : a - b + (c + 1) = a - (b - 1) + c
        OBVIOUS
      <4>2. Len(todo) \in Int /\ Len(request.recipients) \in Int /\ i \in Int
        BY <1>6, <1>11, <3>1
      <4>3. Len(todo') = Len(todo) - 1
        BY <1>6
      <4> QED BY ONLY <4>1, <4>2, <4>3
    <3> QED BY <3>1, <3>2, <3>3
  <2> QED BY <2>1, <2>2
<1>15. at' \in EndStages => (code' <=> LastStored(f, Reached)')
  BY <1>1, <1>10, <1>13 DEF EndStages
<1>16. Sends'
  BY <1>2, <1>11, <1>13, <1>14, <1>15 DEF Sends
<1> QED BY <1>3, <1>4, <1>8, <1>9, <1>16

-----------------------------------------------------------------------------
(* What the command line interface does itself. *)

\* The entry of a message after a request for it.
IsFetched(new_, old, m, f) ==
  /\ new_ \in [Messages -> Rows]
  /\ \A x \in Messages : x # m => new_[x] = old[x]
  /\ \A x \in Messages : new_[x].file \in {old[x].file, f[x], "none"}
  /\ \A x \in Messages : old[x].file \in {f[x], "none"} => new_[x].file = old[x].file

\* A download that succeeds stores the message where it belongs or loses it when it
\* moves it, and moves no other one, and none that is where it belongs or nowhere.
LEMMA FetchedFacts ==
  ASSUME Typed, NEW m, NEW message \in BOOLEAN, NEW ok \in BOOLEAN, Fetched(m, message, ok)
  PROVE  IsFetched(store', store, m, target)
<1>1. CASE store' = store
  BY <1>1 DEF Typed, IsFetched
<1>2. ASSUME m \in Messages, NEW row \in Rows, store' = [store EXCEPT ![m] = row],
             \/ row = store[m]
             \/ row.file = target[m] /\ store[m].file # "none"
             \/ row.file = "none" /\ store[m].file # target[m]
             \/ row.file = store[m].file
      PROVE  IsFetched(store', store, m, target)
  <2>1. target[m] # "none"
    BY <1>2 DEF Typed
  <2> QED BY <1>2, <2>1 DEF Typed, IsFetched
<1>3. ASSUME m \in Messages, store' = [store EXCEPT ![m].info = target[m]]
      PROVE  IsFetched(store', store, m, target)
  <2>1. /\ store[m] \in Rows /\ target[m] \in FileNames
        /\ store' = [store EXCEPT ![m] = [store[m] EXCEPT !.info = target[m]]]
    BY <1>3 DEF Typed, FileNames
  <2>2. /\ [store[m] EXCEPT !.info = target[m]] \in Rows
        /\ [store[m] EXCEPT !.info = target[m]].file = store[m].file
    BY <2>1 DEF Rows
  <2> QED BY <1>2, <1>3, <2>1, <2>2
<1>4. ASSUME m \in Messages, StoreMessage(m)
      PROVE  IsFetched(store', store, m, target)
  <2>1. CASE ~In(target[m], m) /\ store' = [store EXCEPT ![m] = Nowhere]
    <3>1. Nowhere \in Rows /\ Nowhere.file = "none"
      BY DEF Nowhere, Stored, Rows, FileNames
    <3> QED BY <1>2, <1>4, <2>1, <3>1 DEF In
  <2>2. ASSUME NEW whole \in BOOLEAN, NEW informed \in BOOLEAN,
               store' = [store EXCEPT ![m] = IF In("none", m) THEN @
                                             ELSE Downloaded(m, whole, informed)]
        PROVE  IsFetched(store', store, m, target)
    <3>1. CASE In("none", m)
      <4>1. store[m] \in Rows /\ store' = [store EXCEPT ![m] = store[m]]
        BY <1>4, <2>2, <3>1 DEF Typed
      <4> QED BY <1>2, <1>4, <4>1
    <3>2. CASE ~In("none", m)
      <4>1. Downloaded(m, whole, informed) \in Rows
        BY <1>4 DEF Downloaded, Rows, Typed, FileNames, In
      <4>2. Downloaded(m, whole, informed).file = target[m]
        BY DEF Downloaded
      <4>3. store' = [store EXCEPT ![m] = Downloaded(m, whole, informed)]
        BY <2>2, <3>2
      <4> QED BY <1>2, <1>4, <3>2, <4>1, <4>2, <4>3 DEF In
    <3> QED BY <3>1, <3>2
  <2> QED BY <1>4, <2>1, <2>2 DEF StoreMessage
<1>5. CASE m \notin Messages
  <2>1. \A row : [store EXCEPT ![m] = row] = store
    BY <1>5 DEF Typed
  <2>2. [store EXCEPT ![m].info = target[m]] = store
    BY <1>5 DEF Typed
  <2> QED BY <1>1, <2>1, <2>2 DEF Fetched, StoreMessage
<1> QED BY <1>1, <1>3, <1>4, <1>5 DEF Fetched

\* The download of the message asked for does not change the file looked up before it.
LEMMA DownloadPreserves ==
  ASSUME IInv, NEW ok \in BOOLEAN, DownloadMessage(ok) PROVE IInv'
<1> USE DEF IInv
<1>1. /\ at = "download" /\ IF ok THEN at' = "local" ELSE at' = "closing" /\ code' = FALSE
      /\ Fetched(request.msg, request.service = "getmessage", ok)
      /\ UNCHANGED <<hi, lo, single, state, current, request, todo, where, new, printed, output,
                     done, result, target, initially, sent, tried, uninserted, unmarked>>
  BY DEF DownloadMessage, Close, poolVars
<1>2. IsFetched(store', store, request.msg, target)
  BY <1>1, FetchedFacts
<1>3. request # None /\ request.service \notin {"getmessagelist", "sendmessage"}
  BY <1>1, ServiceOf DEF GetStages
<1>4. lo = <<>> /\ current = None /\ single = None
  BY <1>1 DEF PoolKept, ListStages
<1>5. Typed' /\ Untouched' /\ PoolKept'
  BY <1>1, <1>2, <1>3 DEF Typed, Untouched, PoolKept, ListStages, IsFetched
<1>6. Settled'
  <2>1. \A m \in Added' : store'[m].file = target'[m]
    BY <1>1, <1>2 DEF Settled, AtHome, Listed, Added, IsFetched
  <2>2. \A m \in Messages : initially'[m].file = target'[m] => store'[m].file = target'[m]
    BY <1>1, <1>2 DEF Settled, IsFetched
  <2> QED BY <1>1, <1>4, <2>1, <2>2, TaskFacts DEF Settled
<1>7. Stages'
  BY <1>1, <1>3 DEF Stages, ReadingStages, EndStages, ListStages, SendStages, GetStages
<1>8. Lists' /\ Sends' /\ Gets'
  BY <1>1, <1>3 DEF Lists, Sends, Gets, Ran, EndStages, GetStages
<1> QED BY <1>5, <1>6, <1>7, <1>8

\* Success of an export stands for the files written and the mark set.
LEMMA ExportPreserves == ASSUME IInv, Export PROVE IInv'
<1> USE DEF IInv
<1> DEFINE asked(x) == x \in request.files
           attachments == IF asked("attachmentDir") /\ request.service = "getmessage"
                          THEN Attachments ELSE {}
           failed == asked("zfoFile") /\ ~ZfoFile
           marks == asked("markDownload") /\ request.service = "getmessage" /\ ~failed
<1> PICK ok \in BOOLEAN :
      /\ unmarked' = ~ok
      /\ store' = IF marks /\ ok /\ In(where, request.msg)
                  THEN [store EXCEPT ![request.msg].read = TRUE] ELSE store
  BY DEF Export
<1>1. /\ at = "local" /\ request.service \in {"getmessage", "getdeliveryinfo"}
      /\ at' = "closing" /\ code' = ~failed
      /\ output' = attachments \cup (IF asked("zfoFile") /\ ~failed THEN {"zfoFile"} ELSE {})
      /\ unmarked' = ~ok
      /\ store' = IF marks /\ ok /\ In(where, request.msg)
                  THEN [store EXCEPT ![request.msg].read = TRUE] ELSE store
      /\ UNCHANGED <<hi, lo, single, state, current, request, todo, where, new, printed,
                     done, result, target, initially, sent, tried, uninserted>>
  BY DEF Export, Close, poolVars
<1>2. request # None /\ request.msg \in Messages
  BY <1>1, ServiceOf, RequestFacts DEF GetStages
<1>3. /\ store' \in [Messages -> Rows]
      /\ \A m \in Messages : /\ store'[m].file = store[m].file
                             /\ store'[m].whole = store[m].whole
      /\ marks /\ ok /\ In(where, request.msg) => store'[request.msg].read
  <2>1. CASE marks /\ ok /\ In(where, request.msg)
    <3> DEFINE row == [store[request.msg] EXCEPT !.read = TRUE]
    <3>1. store' = [store EXCEPT ![request.msg] = row]
      BY <1>1, <2>1
    <3>2. store[request.msg] \in Rows
      BY <1>2 DEF Typed
    <3>3. /\ row \in Rows /\ row.file = store[request.msg].file
          /\ row.whole = store[request.msg].whole /\ row.read
      BY <3>2 DEF Rows
    <3> HIDE DEF row
    <3> QED BY <1>2, <3>1, <3>3 DEF Typed
  <2>2. CASE ~(marks /\ ok /\ In(where, request.msg))
    BY <1>1, <2>2 DEF Typed
  <2> QED BY <2>1, <2>2
<1>4. lo = <<>> /\ current = None /\ single = None
  BY <1>1 DEF PoolKept, ListStages
<1>5. Typed' /\ Untouched' /\ PoolKept'
  BY <1>1, <1>2, <1>3 DEF Typed, Untouched, PoolKept, ListStages
<1>6. Settled'
  <2>1. Added' = Added /\ Listed' = Listed
    BY <1>1, <1>3 DEF Listed, Added
  <2> QED BY <1>1, <1>3, <1>4, <2>1, TaskFacts DEF Settled, AtHome, Listed, Added
<1>7. Stages'
  BY <1>1, <1>2 DEF Stages, EndStages, SendStages
<1>8. Lists' /\ Sends'
  BY <1>1, <1>2 DEF Lists, Sends
<1>9. Gets'
  <2> SUFFICES ASSUME request.service = "getmessage", ~failed
               PROVE  /\ "zfoFile" \in request.files =>
                           "zfoFile" \in output' /\ store'[request.msg].whole
                      /\ store'[request.msg].file = initially[request.msg].file =>
                           /\ "markDownload" \in request.files => store'[request.msg].read \/ unmarked'
                           /\ "attachmentDir" \in request.files /\ store'[request.msg].whole =>
                                "attachmentDir" \in output'
    BY <1>1 DEF Gets, GetStages
  <2>1. where = initially[request.msg].file
    BY <1>1, <1>2 DEF Gets, GetStages
  <2>2. "zfoFile" \in request.files => ZfoFile
    OBVIOUS
  <2>3. "zfoFile" \in request.files => "zfoFile" \in output' /\ store'[request.msg].whole
    BY <1>1, <1>2, <1>3, <2>2 DEF ZfoFile
  <2>4. ASSUME store'[request.msg].file = initially[request.msg].file
        PROVE  In(where, request.msg)
    BY <1>2, <1>3, <2>1, <2>4 DEF In
  <2>5. ASSUME In(where, request.msg), "attachmentDir" \in request.files, store'[request.msg].whole
        PROVE  "attachmentDir" \in output'
    BY <1>1, <1>2, <1>3, <2>5 DEF Attachments
  <2> HIDE DEF attachments
  <2> QED BY <1>3, <2>3, <2>4, <2>5
<1> QED BY <1>5, <1>6, <1>7, <1>8, <1>9

\* The services that only read leave the messages alone.
LEMMA AnswerLocallyPreserves == ASSUME IInv, AnswerLocally PROVE IInv'
<1> USE DEF IInv
<1>1. /\ at = "local" /\ request.service \in {"login", "getmessageids", "checkattachment"}
      /\ at' = "closing" /\ code' = TRUE
      /\ UNCHANGED <<hi, lo, single, state, current, request, todo, where, new, output,
                     done, result, target, store, initially, sent, tried, uninserted, unmarked, faults>>
  BY DEF AnswerLocally, Close, poolVars, storeVars, serverVars
<1>2. request # None /\ request.service \notin {"getmessagelist", "sendmessage"}
  BY <1>1, ServiceOf DEF GetStages
<1>3. Typed' /\ Untouched' /\ PoolKept' /\ Settled'
  BY <1>1, <1>2 DEF Typed, Untouched, PoolKept, ListStages, Settled, AtHome, Listed, Added
<1>4. Stages'
  BY <1>1, <1>2 DEF Stages, EndStages, SendStages
<1>5. Lists' /\ Sends' /\ Gets'
  BY <1>1, <1>2 DEF Lists, Sends, Gets
<1> QED BY <1>3, <1>4, <1>5

\* The end of main() changes nothing that was told.
LEMMA EndPreserves == ASSUME IInv, Drained \/ Exit PROVE IInv'
<1> USE DEF IInv
<1>1. /\ at \in EndStages /\ at' \in EndStages
      /\ UNCHANGED <<hi, lo, single, state, current, request, todo, where, new, printed, output,
                     code, done, result, target, store, initially, sent, tried, uninserted, unmarked, faults>>
  BY DEF Drained, Exit, SetTerminating, EndStages, poolVars, storeVars, serverVars
<1>2. Typed' /\ Untouched' /\ PoolKept' /\ Settled'
  BY <1>1 DEF Typed, Untouched, PoolKept, ListStages, EndStages, Settled, AtHome, Listed, Added
<1>3. Stages'
  BY <1>1 DEF Stages, EndStages, SendStages
<1>4. (Ran' <=> Ran) /\ Added' = Added /\ Listed' = Listed
  BY <1>1 DEF Ran, Listed, Added
<1>5. Lists' /\ Sends' /\ Gets'
  BY <1>1, <1>4, SendsKept DEF Lists, Gets, EndStages, ListStages, GetStages
<1> QED BY <1>2, <1>3, <1>5

-----------------------------------------------------------------------------
(* The worker. *)

\* The worker takes the single task before the downloads.
LEMMA TakePreserves == ASSUME IInv, WorkerTake PROVE IInv'
<1> USE DEF IInv
<1>1. /\ current = None /\ ~done' /\ done' \in BOOLEAN
      /\ UNCHANGED <<hi, single, terminating, emitted, at, request, todo, where, new, printed, output,
                     code, result, target, store, initially, sent, tried, uninserted, unmarked, faults>>
      /\ \/ single # None /\ state = "PENDING" /\ current' = single /\ state' = "EXECUTING" /\ lo' = lo
         \/ state # "PENDING" /\ lo # <<>> /\ current' = Head(lo) /\ lo' = Tail(lo) /\ state' = state
  <2>1. single # None <=> ~(single = None)
    OBVIOUS
  <2>2. state = "PENDING" => single # None
    BY DEF PoolKept
  <2> QED BY <2>2 DEF WorkerTake, Take, Pending, PoolKept, mainVars, storeVars, serverVars
<1>2. state # "EXECUTING"
  BY <1>1 DEF PoolKept
<1>3. Ran' <=> Ran
  BY <1>1, <1>2 DEF Ran
<1>4. Added' = Added /\ Listed' = Listed
  BY <1>1 DEF Listed, Added
<1>5. Typed' /\ Untouched' /\ Stages' /\ Gets'
  BY <1>1 DEF Typed, Untouched, Stages, Gets
<1>6. Sends'
  BY <1>1, <1>3, SendsKept
<1>7. CASE single # None /\ state = "PENDING" /\ current' = single /\ state' = "EXECUTING" /\ lo' = lo
  <2>1. single \notin Downloads
    <3>1. at = "listing" \/ at = "sending"
      BY <1>7 DEF PoolKept
    <3>2. at = "sending" => todo[1] \in Recipients
      BY DEF Stages, SendStages
    <3> QED BY <3>1, <3>2, TaskFacts DEF PoolKept
  <2>2. PoolKept'
    BY <1>1, <1>7 DEF PoolKept
  <2>3. Settled'
    BY <1>1, <1>4, <1>7, <2>1 DEF Settled, AtHome
  <2>4. \A m \in Messages : Awaited(m) => Awaited(m)'
    BY <1>1, <1>7, TaskFacts DEF Awaited, Downloads
  <2>5. Lists'
    BY <1>1, <1>3, <1>4, <2>4 DEF Lists, Listed, Added, Typed
  <2> QED BY <1>5, <1>6, <2>2, <2>3, <2>5
<1>8. CASE state # "PENDING" /\ lo # <<>> /\ current' = Head(lo) /\ lo' = Tail(lo) /\ state' = state
  <2>1. lo \in Seq(Downloads) /\ lo # <<>>
    BY <1>8 DEF PoolKept
  <2>2. /\ Head(lo) = lo[1] /\ lo[1] \in Downloads /\ 1 \in DOMAIN lo
        /\ lo' \in Seq(Downloads)
        /\ \A i \in DOMAIN lo' : i + 1 \in DOMAIN lo /\ lo'[i] = lo[i + 1]
        /\ \A i \in DOMAIN lo : i = 1 \/ (i - 1 \in DOMAIN lo' /\ lo'[i - 1] = lo[i])
    BY <1>8, <2>1
  <2>3. at \in ListStages
    BY <1>8 DEF PoolKept
  <2>4. single # None => single \notin Downloads
    <3>1. single # None => at = "listing"
      BY <2>3 DEF PoolKept, ListStages
    <3> QED BY <3>1, TaskFacts DEF PoolKept
  <2>5. PoolKept'
    BY <1>1, <1>2, <1>8, <2>2, <2>3, <2>4 DEF PoolKept
  <2>6. Settled'
    BY <1>1, <1>4, <1>8, <2>2 DEF Settled, AtHome
  <2>7. \A m \in Messages : Awaited(m) => Awaited(m)'
    <3> SUFFICES ASSUME NEW m \in Messages, Awaited(m) PROVE Awaited(m)'
      OBVIOUS
    <3>1. PICK i \in DOMAIN lo : lo[i] = Task("download", m)
      BY <1>1, TaskFacts DEF Awaited, Downloads
    <3>2. CASE i = 1
      BY <1>1, <1>8, <2>2, <3>1, <3>2 DEF Awaited
    <3>3. CASE i # 1
      BY <2>2, <3>1, <3>3 DEF Awaited
    <3> QED BY <3>2, <3>3
  <2>8. Lists'
    BY <1>1, <1>3, <1>4, <2>7 DEF Lists, Listed, Added, Typed
  <2> QED BY <1>5, <1>6, <2>5, <2>6, <2>8
<1> QED BY <1>1, <1>7, <1>8

\* The task that ends leaves the slot as finished, or the pool.
LEMMA WorkerEndPreserves == ASSUME IInv, WorkerEnd PROVE IInv'
<1> USE DEF IInv
<1>1. /\ done /\ current # None /\ current' = None
      /\ state' = IF current = single THEN "FINISHED" ELSE state
      /\ UNCHANGED <<hi, lo, single, at, request, todo, where, new, printed, output, code, done,
                     result, target, store, initially, sent, tried, uninserted, unmarked, faults>>
  BY DEF WorkerEnd, EndOfTask, mainVars, storeVars, serverVars
<1>2. Ran' <=> Ran
  BY <1>1 DEF Ran, PoolKept
<1>3. \A m : Awaited(m) => Awaited(m)'
  BY <1>1 DEF Awaited
<1>4. Added' = Added /\ Listed' = Listed
  BY <1>1 DEF Listed, Added
<1>5. Typed' /\ Untouched' /\ Stages' /\ Gets'
  BY <1>1 DEF Typed, Untouched, Stages, Gets
<1>6. PoolKept'
  BY <1>1 DEF PoolKept
<1>7. Settled'
  BY <1>1, <1>4, TaskFacts DEF Settled, AtHome
<1>8. Lists'
  BY <1>1, <1>2, <1>3, <1>4 DEF Lists
<1>9. Sends'
  BY <1>1, <1>2, SendsKept
<1> QED BY <1>5, <1>6, <1>7, <1>8, <1>9

\* What kind of task runs.
LEMMA CurrentFacts ==
  ASSUME IInv, current # None
  PROVE  /\ current.kind = "download" =>
              current \in Downloads /\ state # "EXECUTING" /\ at \in ListStages
         /\ current.kind \in {"list", "send"} =>
              /\ current = single /\ single # None /\ state = "EXECUTING"
              /\ at = IF current.kind = "list" THEN "listing" ELSE "sending"
              /\ current.kind = "send" => current = Task("send", todo[1])
<1>1. CASE current \in Downloads
  <2>1. current.kind = "download"
    BY <1>1, TaskFacts
  <2>2. single # None => single \notin Downloads
    <3>1. at = "sending" => todo[1] \in Recipients
      BY DEF IInv, Stages, SendStages
    <3> QED BY <3>1, TaskFacts DEF IInv, PoolKept
  <2> QED BY <1>1, <2>1, <2>2 DEF IInv, PoolKept
<1>2. CASE current = single
  <2>1. state = "EXECUTING" /\ (at = "listing" \/ at = "sending")
    BY <1>2 DEF IInv, PoolKept
  <2>2. at = "listing" => single.kind = "list"
    BY TaskFacts DEF IInv, PoolKept
  <2>3. at = "sending" => single.kind = "send" /\ single = Task("send", todo[1])
    BY TaskFacts DEF IInv, PoolKept
  <2> QED BY <1>2, <2>1, <2>2, <2>3
<1> QED BY <1>1, <1>2 DEF IInv, PoolKept

\* A list stores new messages in their files and has them downloaded.
LEMMA RunListPreserves ==
  ASSUME IInv, NEW ok \in BOOLEAN, NEW changed \in SUBSET Messages,
         NEW refused \in SUBSET Messages, RunList(ok, changed, refused)
  PROVE  IInv'
<1> USE DEF IInv
<1> DEFINE listed == {m \in Messages : Type[m] = current.arg}
           fresh == {m \in listed : ~In(target[m], m)}
           again == {m \in (changed \cap listed) \ fresh : request.complete \/ store[m].whole}
           X == again \cup (IF request.complete THEN fresh ELSE {})
           downloads == {Task("download", m) : m \in X}
<1>1. /\ current # None /\ ~done /\ current.kind = "list" /\ done'
      /\ result' = Outcome(ok, IF ok THEN fresh ELSE {})
      /\ refused \subseteq fresh /\ (refused # {} => ok) /\ uninserted' = uninserted \cup refused
      /\ store' = [m \in Messages |->
                     IF ok /\ m \in fresh
                     THEN IF m \in refused THEN Nowhere ELSE Stored(target[m], FALSE)
                     ELSE store[m]]
      /\ \E order \in Bijection(1 .. Cardinality(downloads), downloads) :
           lo' = (IF ok THEN order ELSE <<>>) \o lo
      /\ UNCHANGED <<hi, single, state, current, at, request, todo, where, new, printed, output,
                     code, target, initially, sent, tried, unmarked>>
  BY DEF RunList, Runs, mainVars
<1>2. /\ current = single /\ single # None /\ state = "EXECUTING" /\ at = "listing"
      /\ request # None /\ request.service = "getmessagelist"
  BY <1>1, CurrentFacts, ServiceOf DEF ListStages
<1>3. ~Ran /\ Ran'
  BY <1>1, <1>2 DEF Ran
<1>4. done' \in BOOLEAN /\ result'.ok = ok /\ result'.new = (IF ok THEN fresh ELSE {})
      /\ result' = Outcome(result'.ok, result'.new)
  <2>1. done' \in BOOLEAN
    BY DEF RunList, Runs
  <2> QED BY <1>1, <2>1 DEF Outcome
<1>5. /\ store' \in [Messages -> Rows]
      /\ \A m \in Messages :
           store'[m].file = IF ok /\ m \in fresh THEN IF m \in refused THEN "none" ELSE target[m]
                            ELSE store[m].file
  <2>1. \A m \in Messages : Stored(target[m], FALSE) \in Rows /\ Stored(target[m], FALSE).file = target[m]
    BY DEF Stored, Rows, FileNames, Typed
  <2>2. Nowhere \in Rows /\ Nowhere.file = "none"
    BY DEF Nowhere, Stored, Rows, FileNames
  <2> QED BY <1>1, <2>1, <2>2 DEF Typed
<1>6. X \subseteq Messages /\ \A m \in X : m \in fresh \/ store[m].file = target[m]
  BY DEF In
<1>7. PICK order \in Seq(Downloads) :
        /\ lo' = order \o lo
        /\ \A i \in DOMAIN order : ok /\ order[i].arg \in X
        /\ ok => \A m \in X : \E i \in DOMAIN order : order[i] = Task("download", m)
  <2> HIDE DEF X
  <2>1. PICK s \in Bijection(1 .. Cardinality(downloads), downloads) :
          lo' = (IF ok THEN s ELSE <<>>) \o lo
    BY <1>1
  <2>2. IsOrder(s, X)
    BY <1>6, OrderFacts
  <2>3. CASE ok
    BY <2>1, <2>2, <2>3 DEF IsOrder
  <2>4. CASE ~ok
    <3>1. <<>> \in Seq(Downloads) /\ DOMAIN <<>> = {}
      OBVIOUS
    <3> QED BY <2>1, <2>4, <3>1
  <2> QED BY <2>3, <2>4
<1>8. /\ lo \in Seq(Downloads) /\ lo' \in Seq(Downloads)
      /\ \A i \in DOMAIN order : i \in DOMAIN lo' /\ lo'[i] = order[i]
      /\ \A i \in DOMAIN lo : Len(order) + i \in DOMAIN lo' /\ lo'[Len(order) + i] = lo[i]
      /\ \A i \in DOMAIN lo' : (i \in DOMAIN order /\ lo'[i] = order[i])
                               \/ \E j \in DOMAIN lo : lo'[i] = lo[j]
  <2>1. lo \in Seq(Downloads)
    BY DEF PoolKept
  <2>2. \A i \in DOMAIN lo' : i \in DOMAIN order \/ i - Len(order) \in DOMAIN lo
    BY <1>7, <2>1
  <2>3. \A i \in DOMAIN lo' : i \notin DOMAIN order => lo'[i] = lo[i - Len(order)]
    BY <1>7, <2>1
  <2> QED BY <1>7, <2>1, <2>2, <2>3
<1>9. /\ Added' = Added \cup (IF ok THEN fresh \ refused ELSE {})
      /\ Listed' = Listed \cup (IF ok THEN fresh ELSE {})
  <2>1. \A m \in fresh : /\ m \in Messages /\ store[m].file # target[m]
                         /\ target[m] # "none" /\ initially[m].file # target[m]
    BY DEF In, Typed, Settled
  <2>2. \A m \in fresh : m \notin Added
    BY <2>1 DEF Settled
  <2>3. \A m \in Messages : m \in Added' <=> m \in Added \/ (ok /\ m \in fresh \ refused)
    <3> TAKE m \in Messages
    <3>1. CASE ok /\ m \in fresh /\ m \notin refused
      BY <1>1, <1>5, <2>1, <3>1 DEF Added
    <3>2. CASE ok /\ m \in fresh /\ m \in refused
      BY <1>1, <1>5, <2>2, <3>2 DEF Added
    <3>3. CASE ~ok \/ m \notin fresh
      BY <1>1, <1>5, <3>3 DEF Added
    <3> QED BY <3>1, <3>2, <3>3
  <2>4. Added' = Added \cup (IF ok THEN fresh \ refused ELSE {})
    <3>1. Added \subseteq Messages /\ Added' \subseteq Messages /\ fresh \subseteq Messages
      BY DEF Added
    <3> QED BY <2>3, <3>1
  <2> QED BY <1>1, <2>4 DEF Listed
<1>10. Typed'
  BY <1>1, <1>4, <1>5 DEF Typed
<1>11. PoolKept'
  BY <1>1, <1>2, <1>8 DEF PoolKept, ListStages
<1>12. Stages' /\ Untouched' /\ Sends' /\ Gets'
  BY <1>1, <1>2 DEF Stages, Untouched, Sends, Gets
<1>13. Settled'
  <2>1. \A m \in Added' : store'[m].file = target[m]
    BY <1>5, <1>9 DEF Settled, Added
  <2>2. \A m \in Messages : AtHome(m) => AtHome(m)'
    BY <1>1, <1>5 DEF AtHome
  <2>5. \A m \in fresh : ok => AtHome(m)'
    BY <1>1, <1>5 DEF AtHome
  <2>6. \A m \in Messages : initially[m].file = target[m] => store'[m].file = target[m]
    BY <1>5 DEF Settled, In
  <2>3. \A i \in DOMAIN lo' : store'[lo'[i].arg].file \in {target[lo'[i].arg], "none"}
    <3> TAKE i \in DOMAIN lo'
    <3>1. CASE i \in DOMAIN order /\ lo'[i] = order[i]
      <4>1. ok /\ order[i].arg \in X
        BY <1>7, <3>1
      <4>2. order[i].arg \in Messages
            /\ (order[i].arg \in fresh \/ store[order[i].arg].file = target[order[i].arg])
        BY <1>6, <4>1
      <4>3. AtHome(order[i].arg)'
        BY <2>2, <2>5, <4>1, <4>2 DEF AtHome
      <4> QED BY <1>1, <3>1, <4>3 DEF AtHome
    <3>2. CASE \E j \in DOMAIN lo : lo'[i] = lo[j]
      <4>1. PICK j \in DOMAIN lo : lo'[i] = lo[j]
        BY <3>2
      <4>2. lo[j].arg \in Messages
        BY <1>8, TaskFacts
      <4>3. AtHome(lo[j].arg)
        BY DEF Settled
      <4> QED BY <1>1, <2>2, <4>1, <4>2, <4>3 DEF AtHome
    <3> QED BY <1>8, <3>1, <3>2
  <2>4. current \notin Downloads
    BY <1>1, TaskFacts
  <2> QED BY <1>1, <2>1, <2>3, <2>4, <2>6 DEF Settled, AtHome
<1>14. Lists'
  <2>1. Listed = new
    BY <1>2, <1>3 DEF Lists
  <2>2. request.complete => \A m \in Listed : m \in tried \/ Awaited(m)'
    <3> SUFFICES ASSUME request.complete, NEW m \in Listed, m \notin tried PROVE Awaited(m)'
      OBVIOUS
    <3>1. Awaited(m)
      BY <1>2 DEF Lists
    <3>2. current # Task("download", m)
      BY <1>1, TaskFacts
    <3>3. PICK i \in DOMAIN lo : lo[i] = Task("download", m)
      BY <3>1, <3>2 DEF Awaited
    <3> QED BY <1>8, <3>3 DEF Awaited
  <2>3. ok /\ request.complete => \A m \in fresh : Awaited(m)'
    <3> SUFFICES ASSUME ok, request.complete, NEW m \in fresh PROVE Awaited(m)'
      OBVIOUS
    <3>1. m \in X
      OBVIOUS
    <3>2. PICK i \in DOMAIN order : order[i] = Task("download", m)
      BY <1>7, <3>1
    <3> QED BY <1>8, <3>2 DEF Awaited
  <2>4. Listed' = new' \cup (IF Ran' /\ result'.ok THEN result'.new ELSE {})
    BY <1>1, <1>3, <1>4, <1>9, <2>1
  <2>5. request.complete => \A m \in Listed' : m \in tried \/ Awaited(m)'
    BY <1>9, <2>2, <2>3
  <2>6. printed = {}
    BY <1>2 DEF Lists, ListStages
  <2> HIDE DEF fresh, again, X, downloads
  <2> QED BY <1>1, <1>2, <2>4, <2>5, <2>6 DEF Lists, ListStages, EndStages
<1> QED BY <1>10, <1>11, <1>12, <1>13, <1>14

\* A download leaves a message that is in its file there.
LEMMA RunDownloadPreserves ==
  ASSUME IInv, NEW ok \in BOOLEAN, RunDownload(ok) PROVE IInv'
<1> USE DEF IInv
<1>1. /\ current # None /\ ~done /\ current.kind = "download" /\ done' /\ done' \in BOOLEAN
      /\ Fetched(current.arg, TRUE, ok) /\ tried' = tried \cup {current.arg}
      /\ UNCHANGED <<hi, lo, single, state, current, at, request, todo, where, new, printed, output,
                     code, result, target, initially, sent, uninserted, unmarked>>
  BY DEF RunDownload, Runs, mainVars, poolVars
<1>2. current \in Downloads /\ state # "EXECUTING" /\ at \in ListStages
  BY <1>1, CurrentFacts
<1>3. /\ current = Task("download", current.arg) /\ current.arg \in Messages
      /\ AtHome(current.arg)
  BY <1>2, TaskFacts DEF Settled, AtHome
<1>4. request # None /\ request.service = "getmessagelist"
  BY <1>2, ServiceOf
<1>5. store' \in [Messages -> Rows] /\ \A m \in Messages : store'[m].file = store[m].file
  <2>1. IsFetched(store', store, current.arg, target)
    BY <1>1, FetchedFacts
  <2> QED BY <1>3, <2>1 DEF IsFetched, AtHome
<1>6. Added' = Added /\ Listed' = Listed
  BY <1>1, <1>5 DEF Listed, Added
<1>7. Ran' <=> Ran
  BY <1>1, <1>2 DEF Ran
<1>8. Typed' /\ PoolKept' /\ Stages' /\ Untouched' /\ Sends' /\ Gets'
  BY <1>1, <1>4, <1>5, <1>7 DEF Typed, PoolKept, Stages, Untouched, Sends, Gets
<1>9. Settled'
  <2>1. \A i \in DOMAIN lo : lo[i].arg \in Messages
    BY TaskFacts DEF PoolKept
  <2> QED BY <1>1, <1>3, <1>5, <1>6, <2>1 DEF Settled, AtHome, Listed, Added
<1>10. \A m \in Messages : m \in tried \/ Awaited(m) => m \in tried' \/ Awaited(m)'
  BY <1>1, <1>3, TaskFacts DEF Awaited
<1>11. Lists'
  BY <1>1, <1>2, <1>4, <1>6, <1>7, <1>10 DEF Lists, Listed, Added, Typed, ListStages, EndStages
<1> QED BY <1>8, <1>9, <1>11

\* What Append does.
LEMMA Appended ==
  ASSUME NEW S, NEW s \in Seq(S), NEW y \in S
  PROVE  /\ Append(s, y) \in Seq(S) /\ Len(s) \in Nat /\ DOMAIN s = 1 .. Len(s)
         /\ Len(Append(s, y)) = Len(s) + 1 /\ DOMAIN Append(s, y) = 1 .. Len(s) + 1
         /\ Append(s, y)[Len(s) + 1] = y
         /\ \A i \in DOMAIN s : Append(s, y)[i] = s[i]
OBVIOUS

\* What the server has accepted is for the next mention of a recipient.
LEMMA RunSendPreserves ==
  ASSUME IInv, NEW accepted \in BOOLEAN, NEW stored \in BOOLEAN, RunSend(accepted, stored)
  PROVE  IInv'
<1> USE DEF IInv
<1> DEFINE x == [box |-> current.arg, stored |-> stored]
<1> PICK n : n = Len(request.recipients) - Len(todo) + 1
  OBVIOUS
<1>1. /\ current # None /\ ~done /\ current.kind = "send" /\ done' /\ done' \in BOOLEAN
      /\ sent' = IF accepted THEN Append(sent, x) ELSE sent
      /\ result' = Outcome(accepted /\ stored, IF accepted THEN {Len(sent')} ELSE {})
      /\ UNCHANGED <<hi, lo, single, state, current, at, request, todo, where, new, printed, output,
                     code, target, store, initially, tried, uninserted, unmarked>>
  BY DEF RunSend, Runs, mainVars, poolVars, storeVars
<1>2. /\ current = single /\ single # None /\ state = "EXECUTING" /\ at = "sending"
      /\ current.arg = todo[1]
      /\ request # None /\ request.service = "sendmessage"
  BY <1>1, CurrentFacts, ServiceOf, TaskFacts DEF SendStages
<1>3. ~Ran /\ Ran'
  BY <1>1, <1>2 DEF Ran
<1>4. /\ result'.ok = (accepted /\ stored) /\ result' = Outcome(result'.ok, result'.new)
      /\ result'.new = IF accepted THEN {Len(sent')} ELSE {}
  BY <1>1 DEF Outcome
<1>5. /\ todo \in Seq(Recipients) /\ todo # <<>> /\ Len(todo) \in Nat \ {0} /\ 1 \in DOMAIN todo
      /\ request.recipients \in Seq(Recipients) /\ Len(request.recipients) \in Nat
  BY <1>2, ServiceOf, RequestFacts DEF Stages, SendStages
<1>6. /\ sent \in Seq([box : Recipients, stored : BOOLEAN]) /\ sent' \in Seq([box : Recipients, stored : BOOLEAN])
      /\ Len(sent) \in Nat /\ DOMAIN sent = 1 .. Len(sent)
      /\ accepted => /\ Len(sent') = Len(sent) + 1 /\ DOMAIN sent' = 1 .. Len(sent) + 1
                     /\ sent'[Len(sent) + 1] = x
                     /\ \A i \in DOMAIN sent : sent'[i] = sent[i]
  <2>1. x \in [box : Recipients, stored : BOOLEAN]
    BY <1>2, <1>5
  <2>2. sent \in Seq([box : Recipients, stored : BOOLEAN])
    BY DEF Typed
  <2> HIDE DEF x
  <2>3. /\ Append(sent, x) \in Seq([box : Recipients, stored : BOOLEAN])
        /\ Len(sent) \in Nat /\ DOMAIN sent = 1 .. Len(sent)
        /\ Len(Append(sent, x)) = Len(sent) + 1 /\ DOMAIN Append(sent, x) = 1 .. Len(sent) + 1
        /\ Append(sent, x)[Len(sent) + 1] = x
        /\ \A i \in DOMAIN sent : Append(sent, x)[i] = sent[i]
    BY ONLY <2>1, <2>2, Appended
  <2>4. CASE accepted
    BY ONLY <1>1, <2>2, <2>3, <2>4
  <2>5. CASE ~accepted
    BY ONLY <1>1, <2>2, <2>3, <2>5
  <2> QED BY <2>4, <2>5
<1>7. Typed'
  BY <1>1, <1>4, <1>6 DEF Typed
<1>8. PoolKept' /\ Stages' /\ Untouched' /\ Gets' /\ Lists'
  BY <1>1, <1>2 DEF PoolKept, Stages, Untouched, Gets, Lists
<1>9. Settled'
  BY <1>1 DEF Settled, AtHome, Listed, Added
<1>10. /\ Len(todo) <= Len(request.recipients) /\ todo[1] = request.recipients[n]
       /\ \A i \in DOMAIN todo :
            todo[i] = request.recipients[Len(request.recipients) - Len(todo) + i]
  BY <1>2, <1>5 DEF Sends, SendStages
<1>11. Reached = n - 1 /\ Reached' = n /\ n \in Nat \ {0}
  BY <1>1, <1>2, <1>3, <1>5, <1>10 DEF Reached, SendStages
<1>12. PICK f : Serves(f, n - 1)
  BY <1>2, <1>11 DEF Sends
<1>13. StoredSent' = printed' \cup (IF result'.ok THEN result'.new ELSE {})
  <2>1. StoredSent = printed
    BY <1>2, <1>3 DEF Sends
  <2>2. CASE accepted
    <3>1. \A i : i \in StoredSent' <=> i \in StoredSent \/ (i = Len(sent) + 1 /\ stored)
      BY <1>6, <2>2 DEF StoredSent
    <3> QED BY <1>1, <1>4, <1>6, <2>1, <2>2, <3>1
  <2>3. CASE ~accepted
    BY <1>1, <1>4, <2>1, <2>3 DEF StoredSent
  <2> QED BY <2>2, <2>3
<1>14. \E g : Serves(g, n)' /\ (result'.ok <=> LastStored(g, n)')
  <2>1. CASE accepted
    <3> DEFINE g == [i \in DOMAIN sent' |-> IF i \in DOMAIN sent THEN f[i] ELSE n]
    <3>1. f \in [DOMAIN sent -> 1 .. n - 1]
      BY <1>12 DEF Serves
    <3>2. g \in [DOMAIN sent' -> 1 .. n]
      BY <1>6, <1>11, <2>1, <3>1
    <3>3. \A i \in DOMAIN sent : g[i] = f[i] /\ g[i] < n
      BY <1>6, <1>11, <2>1, <3>1
    <3>4. g[Len(sent) + 1] = n
      BY <1>6, <2>1
    <3>9. PICK h : h = g
      OBVIOUS
    <3> HIDE DEF g
    <3>5. \A i \in DOMAIN sent' : sent'[i].box = request'.recipients[h[i]]
      BY <1>1, <1>2, <1>6, <1>10, <1>12, <2>1, <3>3, <3>4, <3>9 DEF Serves
    <3>6. \A i, j \in DOMAIN sent' : i < j => h[i] < h[j]
      <4>1. \A i, j \in DOMAIN sent : i < j => h[i] < h[j]
        BY <1>12, <3>3, <3>9 DEF Serves
      <4>2. \A i \in DOMAIN sent' : i \in DOMAIN sent \/ i = Len(sent) + 1
        BY <1>6, <2>1
      <4>3. \A i \in DOMAIN sent : h[i] < n /\ i < Len(sent) + 1
        BY <1>6, <3>3, <3>9
      <4>4. h[Len(sent) + 1] = n
        BY <3>4, <3>9
      <4> QED BY <1>6, <4>1, <4>2, <4>3, <4>4
    <3>7. Serves(h, n)'
      BY <1>1, <3>2, <3>9, <3>5, <3>6 DEF Serves
    <3>8. LastStored(h, n)' <=> stored
      BY <1>6, <1>11, <2>1, <3>3, <3>4, <3>9, <1>1 DEF LastStored, StoredSent
    <3> QED BY <1>4, <2>1, <3>7, <3>8
  <2>2. CASE ~accepted
    <3>1. Serves(f, n)'
      BY <1>1, <1>11, <1>12, <2>2 DEF Serves
    <3>2. ~LastStored(f, n)'
      BY <1>1, <1>11, <1>12, <2>2 DEF Serves, LastStored, StoredSent
    <3> QED BY <1>4, <2>2, <3>1, <3>2
  <2> QED BY <2>1, <2>2
<1> HIDE DEF x
<1>15. Sends'
  BY <1>1, <1>2, <1>3, <1>10, <1>11, <1>13, <1>14 DEF Sends, SendStages, EndStages
<1> QED BY <1>7, <1>8, <1>9, <1>15

-----------------------------------------------------------------------------
(* The whole. *)

\* The invariant holds at the start ...
LEMMA InitInvariant == Init => IInv
<1> SUFFICES ASSUME Init PROVE IInv
  OBVIOUS
<1>1. /\ hi = <<>> /\ lo = <<>> /\ single = None /\ current = None /\ state = "FINISHED"
      /\ at = "typing" /\ request = None /\ new = {} /\ printed = {} /\ output = {} /\ sent = <<>>
      /\ tried = {} /\ uninserted = {} /\ done = FALSE /\ result = Outcome(FALSE, {})
      /\ target = [m \in Messages |-> "year"]
      /\ store = [m \in Messages |-> Nowhere] /\ initially = store
  BY DEF Init, PoolInit
<1>2. Nowhere \in Rows
  BY DEF Nowhere, Stored, Rows, FileNames
<1>3. Typed
  <2>1. sent \in Seq([box : Recipients, stored : BOOLEAN])
    BY <1>1
  <2> QED BY <1>1, <1>2, <2>1 DEF Typed, Outcome
<1>4. PoolKept /\ Stages /\ Untouched /\ Lists /\ Sends /\ Gets
  BY <1>1 DEF PoolKept, Stages, Untouched, Lists, Sends, Gets, ReadingStages, SendStages, EndStages
<1>5. Settled
  BY <1>1, TaskFacts DEF Settled, AtHome, Listed, Added
<1> QED BY <1>3, <1>4, <1>5 DEF IInv

\* ... every step preserves it ...
LEMMA StepPreserves == ASSUME IInv, [Next]_vars PROVE IInv'
<1>1. CASE UNCHANGED vars
  <2>1. UNCHANGED <<hi, lo, single, state, current, at, request, todo, where, new, printed, output,
                    code, done, result, target, store, initially, sent, tried, uninserted, unmarked>>
    BY <1>1 DEF vars, poolVars, mainVars, storeVars, serverVars
  <2>2. Added' = Added /\ Listed' = Listed /\ (Ran' <=> Ran)
        /\ \A m \in Messages : Awaited(m) => Awaited(m)'
    BY <2>1 DEF Listed, Added, Ran, Awaited
  <2>3. Typed' /\ PoolKept' /\ Settled'
    BY <2>1, <2>2 DEF IInv, Typed, PoolKept, Settled, AtHome
  <2>4. Stages' /\ Untouched'
    BY <2>1 DEF IInv, Stages, Untouched
  <2>5. Lists'
    BY <2>1, <2>2 DEF IInv, Lists, Listed, Added, Typed
  <2>6. Sends'
    BY <2>1, <2>2, SendsKept DEF IInv
  <2>7. Gets'
    BY <2>1 DEF IInv, Gets
  <2> QED BY <2>3, <2>4, <2>5, <2>6, <2>7 DEF IInv
<1>2. CASE Main
  BY <1>2, SubmitPreserves, ListReturnsPreserves, FailurePreserves, PrintNewPreserves,
     SendReturnsPreserves, DownloadPreserves, ExportPreserves, AnswerLocallyPreserves,
     EndPreserves DEF Main
<1>3. CASE Worker
  BY <1>3, TakePreserves, RunListPreserves, RunDownloadPreserves, RunSendPreserves,
     WorkerEndPreserves DEF Worker
<1> QED BY <1>1, <1>2, <1>3, ReadingPreserves, AccessDbSetPreserves, StartPreserves DEF Next

\* ... and so it always holds.
LEMMA Invariant == Spec => []IInv
<1>1. Init => IInv
  BY InitInvariant
<1>2. IInv /\ [Next]_vars => IInv'
  BY StepPreserves
<1> QED BY <1>1, <1>2, PTL DEF Spec

\* For any messages, recipients, requests and failures: a run that ends with success
\* after lists has printed every message it has added to a file and, of the others, just
\* those whose insertion failed, and has tried to download each when it was to, and a
\* run that fails prints none; a sending prints
\* those of its messages that were accepted and stored, has sent at most one for each
\* mention of a recipient, in order, and succeeds if the last one was stored.
THEOREM AllPrinted == Spec => []PrintedTold
<1>1. IInv => PrintedTold
  <2> SUFFICES ASSUME IInv PROVE ListTells /\ SendTells
    BY DEF PrintedTold
  <2>1. ListTells
    BY DEF IInv, Lists, ListTells, EndStages, Listed, Added, Stages
  <2>2. SendTells
    <3> SUFFICES ASSUME at = "ended", request # None, request.service = "sendmessage"
                 PROVE  /\ printed = StoredSent
                        /\ \E f : /\ Serves(f, Len(request.recipients))
                                  /\ code <=> \E i \in printed : f[i] = Len(request.recipients)
      <4>1. DOMAIN request.recipients = 1 .. Len(request.recipients)
        BY RequestFacts DEF IInv, Stages
      <4> QED BY <4>1 DEF SendTells, StoredSent, Serves
    <3>1. ~Ran /\ at \in EndStages /\ Reached = Len(request.recipients)
      BY DEF IInv, PoolKept, Ran, EndStages, Reached, SendStages
    <3> QED BY <3>1 DEF IInv, Sends, LastStored
  <2> QED BY <2>1, <2>2
<1> QED BY <1>1, Invariant, PTL

\* For any messages, requests and failures: a run that ends with success has written
\* the files it was asked for and marked the message as read, but for a marking that
\* failed and for what a message that the download has moved or lost leaves unsure; a
\* ZFO file is never missing.
THEOREM AllWritten == Spec => []FilesTell
<1>1. IInv => FilesTell
  BY DEF IInv, Gets, FilesTell, EndStages
<1> QED BY <1>1, Invariant, PTL
=============================================================================
