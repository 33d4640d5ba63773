------------------------- MODULE MessageTasksProofs -------------------------
(***************************************************************************)
(* What the tasks of the worker do to the messages of an account, proved   *)
(* for any messages, settings, failures, crashes and actions of the user.  *)
(***************************************************************************)
EXTENDS MessageTasks, FiniteSetTheorems, TLAPS

-----------------------------------------------------------------------------
(* The parts of the inductive invariant: the work that waits. *)

\* The file of the messages with a delivery time, and of those without.
Dated == secondaryKey(TRUE)
Undated == secondaryKey(FALSE)

Imports == {"importMessage", "importDelivery"}

TaskFits(t, dated, undated) ==
  /\ t \in Tasks
  /\ t.kind \in {"download", "erase"} =>
       t.msg \in Messages /\ t.key \in {dated, undated}
  /\ t.kind = "send" => t.msg \in Sent
  /\ t.kind \in Imports => t.msg \in Messages

\* Messages are sent from one queue and erased from the single slot; while a
\* message waits for its erasure the user reads nothing.
QueuesFit ==
  /\ \A i \in DOMAIN hi :
       TaskFits(hi[i], Dated, Undated) /\ hi[i].kind \in {"send", "download"}
  /\ \A i \in DOMAIN lo :
       TaskFits(lo[i], Dated, Undated) /\ lo[i].kind \notin {"send", "erase"}
  /\ single # None =>
       /\ TaskFits(single, Dated, Undated)
       /\ single.kind = "erase" /\ single.msg \notin marked

CurrentFits ==
  /\ current = None => prog = <<>>
  /\ current # None =>
       /\ TaskFits(current, Dated, Undated)
       /\ current.kind = "erase" => current = single /\ state = "EXECUTING"

\* One message at a time is sent, and the server has not seen it before.
SendsOnce ==
  /\ \A i, j \in DOMAIN hi : hi[i].kind = "send" /\ hi[j].kind = "send" => i = j
  /\ \A i \in DOMAIN hi : hi[i].kind = "send" =>
       /\ isds[hi[i].msg] = "absent"
       /\ current # None => current.kind # "send"

-----------------------------------------------------------------------------
(* What a task has still to do. *)

\* The message the statements of the running task are about.
Subject == IF current.kind = "list" THEN entry.msg ELSE current.msg

Has(body, verb, table) ==
  \E i \in DOMAIN body : body[i].verb = verb /\ body[i].table = table

\* An envelope is inserted just before its supplementary data, and these are
\* deleted only by a call that ends with the deletion of the envelope and does
\* nothing but delete.
Body(body, m) ==
  /\ body \in Seq(Statements) /\ body # <<>>
  /\ \A i \in DOMAIN body :
       /\ body[i].msg = m
       /\ body[i].value = NoRow <=> body[i].verb = "DELETE"
       /\ body[i].table = "messages" => body[i].verb # "REPLACE"
       /\ body[i].table = "supplementary" => body[i].verb \in {"INSERT", "DELETE"}
       /\ body[i].table = "messages" /\ body[i].verb = "INSERT" =>
            /\ i + 1 \in DOMAIN body
            /\ body[i + 1].table = "supplementary" /\ body[i + 1].verb = "INSERT"
       /\ body[i].table = "supplementary" /\ body[i].verb = "DELETE" =>
            body[Len(body)].table = "messages" /\ body[Len(body)].verb = "DELETE"
       /\ body[Len(body)].table = "messages" /\ body[Len(body)].verb = "DELETE" =>
            body[i].verb = "DELETE"

Kept == {"messages", "supplementary", "raw"}

\* Only an erasure deletes in the file of the dated messages; the content and
\* the envelopes of received messages are stored nowhere else.
CallFits(body, key, kind, m, dated, undated) ==
  /\ key \in {dated, undated}
  /\ Body(body, m)
  /\ key = dated /\ kind # "erase" =>
       \A i \in DOMAIN body : body[i].table \in Kept => body[i].verb # "DELETE"
  /\ key # dated =>
       \A i \in DOMAIN body :
          /\ body[i].table = "raw" => body[i].verb = "DELETE"
          /\ body[i].table = "messages" /\ m \notin Sent => body[i].verb # "INSERT"
  /\ kind \in {"erase", "importDelivery"} => ~Has(body, "INSERT", "messages")

Codes(kind) ==
  IF kind = "list"
  THEN {"getMessageList", "nextEntry", "entry", "schedule", "getState", "commit"}
  ELSE IF kind = "download" THEN {"getMessage", "getDelivery", "mark"}
  ELSE IF kind = "send" THEN {"create", "created"}
  ELSE IF kind = "erase" THEN {"erase", "erasedIsds", "erasedLocal"}
  ELSE {"import", "imported"}

StepFits(x, kind, m, dated, undated) ==
  /\ x \in Steps
  /\ x.at = "sql" => CallFits(x.body, x.key, kind, m, dated, undated)
  /\ x.at = "begin" => kind = "list" /\ x.key \in Keys
  /\ x.at \notin {"sql", "begin"} => x.at \in Codes(kind)

AllFit(p, kind, m, dated, undated) ==
  /\ p \in Seq(Steps)
  /\ \A i \in DOMAIN p : StepFits(p[i], kind, m, dated, undated)

ProgFits ==
  current # None => AllFit(prog, current.kind, Subject, Dated, Undated)

-----------------------------------------------------------------------------
(* How far the running task is. *)

\* An entry of the list of a message that the server still has.
EntryFits(e) ==
  /\ e \in Entries
  /\ e.msg \in Messages /\ e.status \in Statuses
  /\ Listed(e.msg)
  /\ e.msg \notin Sent => e.status # "posted"

ListPhase ==
  \/ prog \in {<<>>, Code("getMessageList")}
  \/ /\ todo \in Seq(Entries)
     /\ \A i \in DOMAIN todo : todo[i].msg = None \/ EntryFits(todo[i])
     /\ Head(prog).at \in {"nextEntry", "commit"} \/ EntryFits(entry)

DownloadPhase == prog \in {<<>>, Code("getMessage")} \/ Listed(current.msg)

ImportPhase ==
  \/ current.kind = "importDelivery"
  \/ prog \in {<<>>, Code("import")}
  \/ \A k \in Keys : <<current.msg, k>> \notin erased

\* A call about the message m: what it has not done yet is still in its body.
SendCall(body, content, m) ==
  /\ \A i \in DOMAIN body : body[i].verb # "DELETE"
  /\ \A t \in {"messages", "supplementary"} :
       content[t][m] # NoRow \/ Has(body, "INSERT", t)

EraseCall(body, content, m) ==
  /\ \A i \in DOMAIN body : body[i].verb = "DELETE"
  /\ \A t \in Tables : content[t][m] = NoRow \/ Has(body, "DELETE", t)

Erased(content, m) == \A t \in Tables : content[t][m] = NoRow

\* A step at the end of prog that follows a call.
Then(at) ==
  /\ Len(prog) = 2 /\ Head(prog).at = "sql"
  /\ Tail(prog) = Code(at)

SendPhase ==
  LET m == current.msg
      shown == Shown(db[Undated], m)
  IN \/ prog = Code("create") /\ isds[m] = "absent"
     \/ prog = <<>> /\ result # "SM_SUCCESS"
     \/ /\ Listed(m)
        /\ \/ /\ Then("created") /\ Head(prog).key = Undated
              /\ SendCall(Head(prog).body, db[Undated], m)
           \/ prog = Code("created") /\ (ok => shown)
           \/ /\ Len(prog) = 1 /\ Head(prog).at = "sql"
              /\ \A i \in DOMAIN Head(prog).body : Head(prog).body[i].verb # "DELETE"
              /\ shown
           \/ prog = <<>> /\ shown

ErasePhase ==
  LET m == current.msg
      k == current.key
  IN \/ prog \in {<<>>, Code("erase")}
     \/ \E at \in {"erasedIsds", "erasedLocal"} :
          /\ at = "erasedIsds" => isds[m] = "gone"
          /\ \/ /\ Then(at) /\ Head(prog).key = k
                /\ EraseCall(Head(prog).body, db[k], m)
             \/ prog = Code(at) /\ (ok => Erased(db[k], m))

Phase ==
  /\ current # None =>
       /\ current.kind = "list" => ListPhase
       /\ current.kind = "download" => DownloadPhase
       /\ current.kind \in Imports => ImportPhase
       /\ current.kind = "send" => SendPhase
       /\ current.kind = "erase" => ErasePhase

-----------------------------------------------------------------------------
(* The server and the files. *)

\* A received message is never without its delivery time.
ServerFits == \A m \in Messages \ Sent : isds[m] # "posted"

Connected == \A k \in Keys \ open : db[k] = disk[k]

HomeIn(content, k, m) ==
  /\ content["messages"][m] # NoRow => k = Dated \/ (k = Undated /\ m \in Sent)
  /\ content["raw"][m] # NoRow => k = Dated

AtHome ==
  \A k \in Keys, m \in Messages : HomeIn(db[k], k, m) /\ HomeIn(disk[k], k, m)

MarksBoth ==
  \A m \in marked : /\ db[Dated]["supplementary"][m] = "seen"
                    /\ disk[Dated]["supplementary"][m] = "seen"

ErasedGone == \A x \in erased : isds[x[1]] = "gone"

\* What a call under way puts right.
Mends(body) ==
  \/ Head(body).table = "supplementary" /\ Head(body).verb = "INSERT"
  \/ body[Len(body)].table = "messages" /\ body[Len(body)].verb = "DELETE"

VisibleIn(content, m) ==
  content["messages"][m] # NoRow => content["supplementary"][m] # NoRow

VisibleBoth ==
  \A m \in Messages \ torn, k \in Keys :
    /\ \/ VisibleIn(db[k], m)
       \/ /\ At("sql") /\ Head(prog).key = k /\ Head(Head(prog).body).msg = m
          /\ Mends(Head(prog).body)
    /\ k \in open => VisibleIn(disk[k], m)

IInv ==
  /\ TypeOK
  /\ QueuesFit /\ CurrentFits /\ SendsOnce
  /\ ProgFits /\ Phase
  /\ ServerFits /\ Connected /\ AtHome
  /\ MarksBoth /\ ErasedGone /\ ErasedStaysErased
  /\ VisibleBoth
-----------------------------------------------------------------------------
(* The calls of MessageDb. *)

\* The two files a task may write to.
LEMMA KeysFit ==
  ASSUME setting \in Settings
  PROVE  /\ Dated \in Keys /\ Undated \in Keys
         /\ \A status : KeyOf(status) = IF status = "posted" THEN Undated ELSE Dated
         /\ SeparateInvalid <=> Undated # Dated
BY DEF Dated, Undated, secondaryKey, Keys, KeyOf, Valid, SeparateInvalid

\* The rest of a sequence.
LEMMA TailFacts ==
  ASSUME NEW S, NEW q \in Seq(S), q # <<>>
  PROVE  /\ Head(q) \in S /\ Head(q) = q[1] /\ Len(q) \in Nat \ {0}
         /\ Tail(q) \in Seq(S) /\ Len(Tail(q)) = Len(q) - 1
         /\ DOMAIN q = 1 .. Len(q)
         /\ \A i \in DOMAIN Tail(q) : i + 1 \in DOMAIN q /\ Tail(q)[i] = q[i + 1]
         /\ \A i \in DOMAIN Tail(q) : i + 2 \in DOMAIN q => i + 1 \in DOMAIN Tail(q)
         /\ \A i \in DOMAIN q : i # 1 => i - 1 \in DOMAIN Tail(q) /\ Tail(q)[i - 1] = q[i]
OBVIOUS

\* Nothing is left of a sequence of one element.
LEMMA TailOfOne ==
  ASSUME NEW S, NEW q \in Seq(S), Len(q) = 1
  PROVE  Tail(q) = <<>>
<1>1. Tail(q) \in Seq(S) /\ Len(Tail(q)) = 0
  OBVIOUS
<1>2. \A r \in Seq(S) : Len(r) = 0 => r = <<>>
  OBVIOUS
<1> QED BY <1>1, <1>2

\* What is left of a call fits like the call.
LEMMA BodyTail ==
  ASSUME NEW m, NEW b, Body(b, m), Len(b) # 1
  PROVE  Body(Tail(b), m)
<1> DEFINE c == Tail(b)
<1>1. /\ b \in Seq(Statements) /\ b # <<>> /\ Len(b) # 1
  BY DEF Body
<1>2. /\ c \in Seq(Statements) /\ Len(c) = Len(b) - 1 /\ Len(b) \in Nat \ {0}
      /\ DOMAIN b = 1 .. Len(b)
      /\ \A i \in DOMAIN c : i + 1 \in DOMAIN b /\ c[i] = b[i + 1]
      /\ \A i \in DOMAIN c : i + 2 \in DOMAIN b => i + 1 \in DOMAIN c
  BY <1>1, TailFacts
<1> HIDE DEF c
<1>3. c # <<>> /\ Len(c) \in DOMAIN c /\ c[Len(c)] = b[Len(b)]
  BY <1>1, <1>2
<1>4. ASSUME NEW i \in DOMAIN c
      PROVE  /\ c[i] = b[i + 1] /\ i + 1 \in DOMAIN b
             /\ i + 1 + 1 \in DOMAIN b => i + 1 \in DOMAIN c /\ c[i + 1] = b[i + 1 + 1]
  BY <1>2
<1>5. Body(c, m)
  BY <1>2, <1>3, <1>4 DEF Body
<1> QED BY <1>5 DEF c

\* What is left of a call may be made where the call may be made.
LEMMA CallTail ==
  ASSUME NEW m, NEW b, NEW key, NEW kind, NEW dated, NEW undated,
         CallFits(b, key, kind, m, dated, undated), Len(b) # 1
  PROVE  CallFits(Tail(b), key, kind, m, dated, undated)
<1> DEFINE c == Tail(b)
<1>1. \A i \in DOMAIN c : i + 1 \in DOMAIN b /\ c[i] = b[i + 1]
  BY TailFacts DEF CallFits, Body
<1>2. Body(c, m)
  BY BodyTail DEF CallFits
<1> HIDE DEF c
<1>3. CallFits(c, key, kind, m, dated, undated)
  BY <1>1, <1>2 DEF CallFits, Has
<1> QED BY <1>3 DEF c

\* The functions that insert and delete envelopes.
LEMMA InsertBody ==
  ASSUME NEW m \in Messages, NEW status \in Statuses, NEW seen \in {"seen", "unseen"}
  PROVE  Body(insertMessageEnvelope(m, status, seen), m)
BY NoRowAssumption DEF Body, insertMessageEnvelope, Insert, Replace, Statements, Values,
   Statuses, Tables

\* The statements of msgsDeleteMessageData() are those of a call.
LEMMA DeleteBody ==
  ASSUME NEW m \in Messages
  PROVE  Body(msgsDeleteMessageData(m), m)
<1> DEFINE b == msgsDeleteMessageData(m)
<1>1. \A t \in Tables : /\ Delete(t, m) \in Statements
                        /\ Delete(t, m).msg = m /\ Delete(t, m).verb = "DELETE"
                        /\ Delete(t, m).value = NoRow /\ Delete(t, m).table = t
  BY DEF Delete, Statements
<1>2. /\ b \in Seq(Statements) /\ DOMAIN b = 1 .. 8 /\ Len(b) = 8 /\ b # <<>>
      /\ b[8] = Delete("messages", m)
  BY <1>1 DEF msgsDeleteMessageData, Tables
<1>3. \A i \in 1 .. 8 : \E t \in Tables : b[i] = Delete(t, m)
  <2>1. \A i \in 1 .. 8 : i = 1 \/ i = 2 \/ i = 3 \/ i = 4 \/ i = 5 \/ i = 6 \/ i = 7 \/ i = 8
    OBVIOUS
  <2> QED BY <2>1 DEF msgsDeleteMessageData, Tables
<1> HIDE DEF b
<1>4. Body(b, m)
  BY <1>1, <1>2, <1>3 DEF Body, Tables
<1> QED BY <1>4 DEF b

\* A function of one statement on another table.
LEMMA OneBody ==
  ASSUME NEW m \in Messages, NEW verb \in {"REPLACE", "DELETE"},
         NEW table \in Tables \ {"messages", "supplementary"},
         NEW value \in Values \cup {NoRow}, value = NoRow <=> verb = "DELETE"
  PROVE  Body(<<[verb |-> verb, table |-> table, msg |-> m, value |-> value]>>, m)
BY DEF Body, Statements

\* An update of an envelope is a call of one statement.
LEMMA UpdateBody ==
  ASSUME NEW m \in Messages, NEW status \in Statuses
  PROVE  Body(<<Update("messages", m, status)>>, m)
BY NoRowAssumption DEF Body, Update, Statements, Values, Tables, Statuses

\* Which task may call which function on which file.
LEMMA InsertFits ==
  ASSUME NEW m \in Messages, NEW status \in Statuses, NEW seen \in {"seen", "unseen"},
         NEW dated, NEW undated, NEW key \in {dated, undated},
         NEW kind, kind \notin {"erase", "importDelivery"},
         m \in Sent \/ key = dated
  PROVE  CallFits(insertMessageEnvelope(m, status, seen), key, kind, m, dated, undated)
<1> DEFINE b == insertMessageEnvelope(m, status, seen)
<1>1. Body(b, m)
  BY InsertBody
<1>2. \A i \in DOMAIN b : b[i].verb # "DELETE" /\ b[i].table # "raw"
  BY DEF insertMessageEnvelope, Insert, Replace
<1> HIDE DEF b
<1>3. CallFits(b, key, kind, m, dated, undated)
  BY <1>1, <1>2 DEF CallFits
<1> QED BY <1>3 DEF b

\* A message is deleted from the file of the dated messages by an erasure only.
LEMMA DeleteFits ==
  ASSUME NEW m \in Messages, NEW dated, NEW undated, NEW key \in {dated, undated},
         NEW kind, key # dated \/ kind = "erase"
  PROVE  CallFits(msgsDeleteMessageData(m), key, kind, m, dated, undated)
<1> DEFINE b == msgsDeleteMessageData(m)
<1>1. Body(b, m)
  BY DeleteBody
<1>2. \A i \in DOMAIN b : b[i].verb = "DELETE"
  <2>1. DOMAIN b = 1 .. 8
    BY DEF msgsDeleteMessageData
  <2>2. \A i \in 1 .. 8 : i = 1 \/ i = 2 \/ i = 3 \/ i = 4 \/ i = 5 \/ i = 6 \/ i = 7 \/ i = 8
    OBVIOUS
  <2> QED BY <2>1, <2>2 DEF msgsDeleteMessageData, Delete
<1> HIDE DEF b
<1>3. CallFits(b, key, kind, m, dated, undated)
  BY <1>1, <1>2 DEF CallFits, Has
<1> QED BY <1>3 DEF b

\* Every task may update the envelope in either file.
LEMMA UpdateFits ==
  ASSUME NEW m \in Messages, NEW status \in Statuses,
         NEW dated, NEW undated, NEW key \in {dated, undated}, NEW kind
  PROVE  /\ CallFits(updateMessageEnvelope(m, status), key, kind, m, dated, undated)
         /\ CallFits(msgsUpdateMessageState(m, status), key, kind, m, dated, undated)
BY UpdateBody
   DEF CallFits, Has, updateMessageEnvelope, msgsUpdateMessageState, Update

\* The functions of one statement on the other tables; the raw message is
\* stored in the file of the dated messages.
LEMMA OtherFits ==
  ASSUME NEW m \in Messages, NEW dated, NEW undated, NEW key \in {dated, undated}, NEW kind
  PROVE  /\ CallFits(insertOrUpdateMessageAttachment(m), key, kind, m, dated, undated)
         /\ CallFits(deleteMessageAttachments(m), key, kind, m, dated, undated)
         /\ CallFits(insertOrUpdateMessageHash(m), key, kind, m, dated, undated)
         /\ CallFits(insertOrUpdateMessageEvent(m), key, kind, m, dated, undated)
         /\ CallFits(insertOrReplaceDeliveryInfoRaw(m), key, kind, m, dated, undated)
         /\ key = dated =>
              CallFits(insertOrReplaceCompleteMessageRaw(m), key, kind, m, dated, undated)
<1> DEFINE one(verb, table, value) ==
      <<[verb |-> verb, table |-> table, msg |-> m, value |-> value]>>
<1>1. ASSUME NEW table \in Tables \ {"messages", "supplementary"},
             table # "raw" \/ key = dated
      PROVE  CallFits(one("REPLACE", table, "data"), key, kind, m, dated, undated)
  <2>1. Body(one("REPLACE", table, "data"), m)
    BY OneBody, NoRowAssumption DEF Values
  <2> QED BY <1>1, <2>1 DEF CallFits, Has
<1>2. CallFits(one("DELETE", "files", NoRow), key, kind, m, dated, undated)
  <2>1. Body(one("DELETE", "files", NoRow), m)
    BY OneBody DEF Tables
  <2> QED BY <2>1 DEF CallFits, Has, Kept
<1> QED
  BY <1>1, <1>2
     DEF Tables, Replace, Delete, insertOrUpdateMessageAttachment, deleteMessageAttachments,
         insertOrUpdateMessageHash, insertOrUpdateMessageEvent,
         insertOrReplaceDeliveryInfoRaw, insertOrReplaceCompleteMessageRaw

-----------------------------------------------------------------------------
(* What is put together for a task to do. *)

\* A task may be left with nothing to do.
LEMMA NothingToDo ==
  ASSUME NEW kind, NEW m, NEW dated, NEW undated
  PROVE  AllFit(<<>>, kind, m, dated, undated)
BY DEF AllFit

\* A task may be left with one step of its own code.
LEMMA CodeFits ==
  ASSUME NEW kind, NEW m, NEW dated, NEW undated, NEW at \in Codes(kind)
  PROVE  AllFit(Code(at), kind, m, dated, undated)
<1>1. Codes(kind) \subseteq
        {"getMessageList", "nextEntry", "entry", "schedule", "getState", "getMessage",
         "getDelivery", "mark", "create", "created", "erase", "erasedIsds",
         "erasedLocal", "import", "imported", "commit"}
  BY DEF Codes
<1> DEFINE x == [at |-> at, key |-> None, body |-> <<>>]
<1>2. <<>> \in Seq(Statements)
  OBVIOUS
<1>3. x \in Steps
  BY <1>1, <1>2 DEF Steps
<1>4. x.at = at /\ at \notin {"sql", "begin"}
  BY <1>1
<1>5. StepFits(x, kind, m, dated, undated)
  BY <1>3, <1>4 DEF StepFits
<1>6. Code(at) = <<x>>
  BY DEF Code
<1> HIDE DEF x
<1> QED BY <1>3, <1>5, <1>6 DEF AllFit

\* A list may begin a transaction on any file.
LEMMA BeginFits ==
  ASSUME NEW m, NEW dated, NEW undated, NEW key \in Keys
  PROVE  AllFit(Begin(key), "list", m, dated, undated)
<1> DEFINE x == [at |-> "begin", key |-> key, body |-> <<>>]
<1>1. <<>> \in Seq(Statements)
  OBVIOUS
<1>2. x \in Steps
  BY <1>1 DEF Steps
<1>3. StepFits(x, "list", m, dated, undated)
  BY <1>2 DEF StepFits
<1>4. Begin(key) = <<x>>
  BY DEF Begin
<1> HIDE DEF x
<1> QED BY <1>2, <1>3, <1>4 DEF AllFit

\* A call that may be made may be what a task has to do.
LEMMA CallsFit ==
  ASSUME NEW kind, NEW m, NEW dated \in Keys, NEW undated \in Keys, NEW body, NEW key,
         CallFits(body, key, kind, m, dated, undated)
  PROVE  AllFit(Call(key, body), kind, m, dated, undated)
BY DEF AllFit, Call, StepFits, Steps, CallFits, Body

\* What may be done may be done after what may be done.
LEMMA BothFit ==
  ASSUME NEW kind, NEW m, NEW dated, NEW undated, NEW p, NEW q,
         AllFit(p, kind, m, dated, undated), AllFit(q, kind, m, dated, undated)
  PROVE  AllFit(p \o q, kind, m, dated, undated)
<1>1. p \in Seq(Steps) /\ q \in Seq(Steps) /\ p \o q \in Seq(Steps)
  BY DEF AllFit
<1>2. ASSUME NEW i \in DOMAIN (p \o q)
      PROVE  (\E j \in DOMAIN p : (p \o q)[i] = p[j]) \/ \E j \in DOMAIN q : (p \o q)[i] = q[j]
  <2>1. CASE i <= Len(p)
    BY <1>1, <2>1
  <2>2. CASE ~(i <= Len(p))
    <3>1. i - Len(p) \in DOMAIN q /\ (p \o q)[i] = q[i - Len(p)]
      BY <1>1, <2>2
    <3> QED BY <3>1
  <2> QED BY <2>1, <2>2
<1> QED BY <1>1, <1>2 DEF AllFit

\* The first step of what a task has to do, and the rest.
LEMMA RestFits ==
  ASSUME NEW kind, NEW m, NEW dated, NEW undated, NEW p, p # <<>>,
         AllFit(p, kind, m, dated, undated)
  PROVE  /\ StepFits(Head(p), kind, m, dated, undated)
         /\ AllFit(Tail(p), kind, m, dated, undated)
BY TailFacts DEF AllFit

-----------------------------------------------------------------------------
(* What a step leaves alone. *)

\* The steps of the main thread that only queue work or take it back.
MainStep ==
  \/ Synchronise \/ EraseReturns
  \/ \E m \in Messages, k \in Keys :
        \/ DownloadSelected(m, k)
        \/ \E where \in {"isds", "local"} : EraseMessage(m, k, where)
  \/ \E m \in Sent : SendMessage(m) \/ CollectSendMessageStatus(m)
  \/ \E m \in Files, kind \in Imports : ImportZfo(m, kind)

ReadStep == \E m \in Messages \ Sent, k \in Keys : ReadMessage(m, k)

ServerStep ==
  \E m \in Messages : Arrive(m) \/ Deliver(m) \/ ReadByRecipient(m) \/ Expire(m)

\* The steps of a task between its begin and its end.
TaskStep ==
  \/ Statement \/ BeginTransaction \/ CommitTransactions
  \/ GetMessageList \/ NextEntry \/ Entry \/ Schedule \/ GetState
  \/ GetMessage \/ GetDelivery \/ MarkAsDownloaded
  \/ CreateMessage \/ Created
  \/ EraseFromIsds \/ EraseEnds
  \/ ImportSingle \/ Imported

\* Every step is one of these.
LEMMA NextSteps ==
  Next => TaskBegins \/ TaskStep \/ TaskEnds \/ MainStep \/ ReadStep \/ ServerStep
          \/ Crash \/ Restart
BY DEF Next, WorkerStep, TaskStep, MainStep, ReadStep, ServerStep, Imports

\* The main thread, when it queues work or takes it back, leaves the task, the
\* server and the files alone.
LEMMA MainFrame ==
  MainStep => UNCHANGED <<setting, isds, db, disk, open, prog, ok, todo, entry, used,
                          erased, torn, result, faults, current>>
BY DEF MainStep, Synchronise, EraseReturns, DownloadSelected, EraseMessage, SendMessage,
       CollectSendMessageStatus, ImportZfo, MainSays, UserOp, PutLo, PutHi, PutSingle,
       VacateSingle, fileVars, taskVars, historyVars, poolVars

\* The user's look at a message writes to a file and marks the message.
LEMMA ReadFrame ==
  ReadStep => UNCHANGED <<poolVars, setting, isds, open, taskVars, erased, torn, result,
                          reported, faults>>
BY DEF ReadStep, ReadMessage, Written

\* The server changes only what it has.
LEMMA ServerFrame ==
  ServerStep => UNCHANGED <<poolVars, setting, fileVars, taskVars, historyVars, mainVars,
                            faults>>
BY DEF ServerStep, Arrive, Deliver, ReadByRecipient, Expire, Becomes

\* A running task changes neither the pool nor what the user has done, but it may
\* schedule a download.
LEMMA TaskFrame ==
  TaskStep => /\ current # None /\ prog # <<>>
              /\ UNCHANGED <<hi, single, state, current, terminating, emitted, setting,
                             marked, reported, ops>>
              /\ lo' = lo \/ Schedule
BY DEF TaskStep, Statement, BeginTransaction, CommitTransactions, GetMessageList,
       NextEntry, Entry, Schedule, GetState, GetMessage, GetDelivery, MarkAsDownloaded,
       CreateMessage, Created, EraseFromIsds, EraseEnds, ImportSingle, Imported, At,
       UnchangedButProg, PutLo, poolVars, mainVars

\* The begin and the end of a task touch neither the server nor the files.
LEMMA StartFrame ==
  TaskBegins \/ TaskEnds =>
    UNCHANGED <<single, setting, isds, fileVars, ok, todo, entry, used, historyVars,
                result, ops, faults>>
BY DEF TaskBegins, TaskEnds, Take, EndOfTask, taskVars, mainVars

\* The settings, and so the files that a task may write to, never change.
LEMMA SettingKept == Next => UNCHANGED <<setting, Dated, Undated>>
<1>1. Crash \/ Restart => UNCHANGED setting
  BY DEF Crash, Restart, Reopened
<1>2. Next => UNCHANGED setting
  BY <1>1, NextSteps, MainFrame, ReadFrame, ServerFrame, TaskFrame, StartFrame
<1> QED BY <1>2 DEF Dated, Undated, secondaryKey

\* Only these steps write to the files.
LEMMA FilesFrame ==
  Next => \/ Statement \/ BeginTransaction \/ CommitTransactions \/ ReadStep
          \/ Reopened
          \/ UNCHANGED fileVars
<1>1. TaskStep => \/ Statement \/ BeginTransaction \/ CommitTransactions
                  \/ UNCHANGED fileVars
  BY DEF TaskStep, GetMessageList,
       NextEntry, Entry, Schedule, GetState, GetMessage, GetDelivery, MarkAsDownloaded,
       CreateMessage, Created, EraseFromIsds, EraseEnds, ImportSingle, Imported,
       UnchangedButProg
<1>2. Crash \/ Restart => Reopened
  BY DEF Crash, Restart
<1>3. MainStep => UNCHANGED fileVars
  BY MainFrame DEF fileVars
<1> QED BY <1>1, <1>2, <1>3, NextSteps, ServerFrame, StartFrame

\* Only these steps of a task change what the server has.
LEMMA TaskIsds ==
  TaskStep => MarkAsDownloaded \/ CreateMessage \/ EraseFromIsds \/ UNCHANGED isds
BY DEF TaskStep, Statement, BeginTransaction, CommitTransactions, GetMessageList,
       NextEntry, Entry, Schedule, GetState, GetMessage, GetDelivery, Created,
       EraseEnds, ImportSingle, Imported, UnchangedButProg

-----------------------------------------------------------------------------
(* What the server does. *)

\* The code that is to run next is one of its task's.
LEMMA KindAt ==
  ASSUME ProgFits, NEW at, At(at), at \notin {"sql", "begin"}
  PROVE  at \in Codes(current.kind)
BY RestFits DEF ProgFits, At, StepFits

\* A message that is being marked as downloaded is listed, one that is being
\* created is not known to the server.
LEMMA SubjectAt ==
  ASSUME CurrentFits, ProgFits, Phase
  PROVE  /\ At("mark") => current.kind = "download" /\ current.msg \in Messages
                          /\ Listed(current.msg)
         /\ At("create") => current.kind = "send" /\ current.msg \in Sent
                            /\ isds[current.msg] = "absent"
         /\ At("erase") => current.kind = "erase" /\ current.msg \in Messages
<1>1. ASSUME NEW at, At(at) PROVE current # None /\ TaskFits(current, Dated, Undated)
  BY <1>1 DEF At, CurrentFits
<1>2. CASE At("mark")
  <2>1. current.kind = "download"
    BY <1>1, <1>2, KindAt DEF Codes, TaskFits, Tasks
  <2> QED BY <1>1, <1>2, <2>1 DEF At, Phase, DownloadPhase, TaskFits, Code
<1>3. CASE At("create")
  <2>1. current.kind = "send"
    BY <1>1, <1>3, KindAt DEF Codes, TaskFits, Tasks
  <2> QED BY <1>1, <1>3, <2>1 DEF At, Phase, SendPhase, TaskFits, Code, Then
<1>4. CASE At("erase")
  <2>1. current.kind = "erase"
    BY <1>1, <1>4, KindAt DEF Codes, TaskFits, Tasks
  <2> QED BY <1>1, <2>1, <1>4 DEF At, TaskFits
<1> QED BY <1>2, <1>3, <1>4 DEF At

States == Statuses \cup {"absent", "gone"}

\* How the state of a message at the server may change.
LEMMA ServerSteps ==
  ASSUME isds \in [Messages -> States], CurrentFits, ProgFits, Phase, Next,
         NEW m \in Messages
  PROVE  /\ isds' \in [Messages -> States]
         /\ Listed(m) => Listed(m)' \/ ~Working \/ At("erase")
         /\ isds[m] = "gone" => isds'[m] = "gone"
         /\ isds[m] = "absent" /\ m \in Sent =>
              isds'[m] = "absent" \/ (At("create") /\ m = current.msg)
         /\ m \notin Sent /\ isds[m] # "posted" => isds'[m] # "posted"
<1> DEFINE Good == /\ isds' \in [Messages -> States]
                   /\ Listed(m) => Listed(m)' \/ ~Working \/ At("erase")
                   /\ isds[m] = "gone" => isds'[m] = "gone"
                   /\ isds[m] = "absent" /\ m \in Sent =>
                        isds'[m] = "absent" \/ (At("create") /\ m = current.msg)
                   /\ m \notin Sent /\ isds[m] # "posted" => isds'[m] # "posted"
<1>0. CASE UNCHANGED isds
  BY <1>0 DEF Listed
<1>1. CASE MarkAsDownloaded
  <2>1. current.msg \in Messages /\ Listed(current.msg)
    BY <1>1, SubjectAt DEF MarkAsDownloaded
  <2>2. isds' = [isds EXCEPT ![current.msg] = "read"] \/ UNCHANGED isds
    BY <1>1 DEF MarkAsDownloaded
  <2> QED BY <1>0, <2>1, <2>2 DEF Listed, States, Statuses
<1>2. CASE CreateMessage
  <2>1. /\ current.msg \in Messages /\ current.msg \in Sent /\ At("create")
        /\ isds[current.msg] = "absent"
    BY <1>2, SubjectAt, TasksAssumption DEF CreateMessage
  <2>2. isds' = [isds EXCEPT ![current.msg] = "posted"] \/ UNCHANGED isds
    BY <1>2 DEF CreateMessage
  <2> QED BY <1>0, <2>1, <2>2 DEF Listed, States, Statuses
<1>3. CASE EraseFromIsds
  <2>1. current.msg \in Messages /\ At("erase")
    BY <1>3, SubjectAt DEF EraseFromIsds
  <2>2. (isds' = [isds EXCEPT ![current.msg] = "gone"] /\ Listed(current.msg)) \/ UNCHANGED isds
    BY <1>3 DEF EraseFromIsds
  <2> QED BY <1>0, <2>1, <2>2 DEF Listed, States, Statuses
<1>4. CASE ServerStep
  <2> SUFFICES ASSUME NEW n \in Messages, Arrive(n) \/ Deliver(n) \/ ReadByRecipient(n) \/ Expire(n)
               PROVE  Good
    BY <1>4 DEF ServerStep
  <2>1. CASE Arrive(n)
    BY <2>1 DEF Arrive, Becomes, Listed, States, Statuses
  <2>2. CASE Deliver(n)
    BY <2>2 DEF Deliver, Becomes, Listed, States, Statuses
  <2>3. CASE ReadByRecipient(n)
    BY <2>3 DEF ReadByRecipient, Becomes, Listed, States, Statuses
  <2>4. CASE Expire(n)
    BY <2>4 DEF Expire, Becomes, Listed, States, Statuses
  <2> QED BY <2>1, <2>2, <2>3, <2>4
<1>5. CASE Crash \/ Restart
  BY <1>0, <1>5 DEF Crash, Restart, Reopened
<1> QED
  BY <1>0, <1>1, <1>2, <1>3, <1>4, <1>5, NextSteps, TaskIsds, MainFrame, ReadFrame, StartFrame

\* A received message is never without its delivery time.
LEMMA ServerKept ==
  ASSUME isds \in [Messages -> States], CurrentFits, ProgFits, Phase, ServerFits, Next
  PROVE  ServerFits'
BY ServerSteps DEF ServerFits

-----------------------------------------------------------------------------
(* The queues. *)

\* What a queue holds after an entry at either end.
LEMMA PutFacts ==
  ASSUME NEW q \in Seq(Tasks), NEW x \in Tasks
  PROVE  /\ Put(q, x, "APPEND") \in Seq(Tasks) /\ Put(q, x, "PREPEND") \in Seq(Tasks)
         /\ \A i \in DOMAIN Put(q, x, "APPEND") :
              \/ Put(q, x, "APPEND")[i] = x /\ i = Len(q) + 1
              \/ i \in DOMAIN q /\ Put(q, x, "APPEND")[i] = q[i]
         /\ \A i \in DOMAIN Put(q, x, "PREPEND") :
              \/ Put(q, x, "PREPEND")[i] = x /\ i = 1
              \/ i - 1 \in DOMAIN q /\ i \in Nat /\ Put(q, x, "PREPEND")[i] = q[i - 1]
BY DEF Put

\* What the two queues may hold.
HiFits(q, dated, undated) ==
  \A i \in DOMAIN q : TaskFits(q[i], dated, undated) /\ q[i].kind \in {"send", "download"}
LoFits(q, dated, undated) ==
  \A i \in DOMAIN q : TaskFits(q[i], dated, undated) /\ q[i].kind \notin {"send", "erase"}

\* A task that fits a queue may be entered at either end.
LEMMA PutFits ==
  ASSUME NEW q \in Seq(Tasks), NEW t, NEW dated, NEW undated,
         TaskFits(t, dated, undated), NEW order \in {"APPEND", "PREPEND"}
  PROVE  /\ Put(q, t, order) \in Seq(Tasks)
         /\ HiFits(q, dated, undated) /\ t.kind \in {"send", "download"} =>
              HiFits(Put(q, t, order), dated, undated)
         /\ LoFits(q, dated, undated) /\ t.kind \notin {"send", "erase"} =>
              LoFits(Put(q, t, order), dated, undated)
<1>1. t \in Tasks
  BY DEF TaskFits
<1>2. /\ Put(q, t, order) \in Seq(Tasks)
      /\ \A i \in DOMAIN Put(q, t, order) :
           Put(q, t, order)[i] = t \/ \E j \in DOMAIN q : Put(q, t, order)[i] = q[j]
  <2>1. CASE order = "APPEND"
    BY <1>1, <2>1, PutFacts
  <2>2. CASE order = "PREPEND"
    BY <1>1, <2>2, PutFacts
  <2> QED BY <2>1, <2>2
<1> QED BY <1>2 DEF HiFits, LoFits

\* A message that a window shows is in a file a task may write to.
LEMMA ShownHome ==
  ASSUME AtHome, NEW m \in Messages, NEW k \in Keys, ShownIn(m, k)
  PROVE  k \in {Dated, Undated} /\ (m \notin Sent => k = Dated)
BY DEF AtHome, HomeIn, ShownIn, Shown

\* The tasks the main thread makes.
LEMMA NewTasks ==
  ASSUME TypeOK, AtHome
  PROVE  /\ \A arg \in {"received", "sent"} :
              TaskFits(Task("list", None, None, arg), Dated, Undated)
         /\ \A m \in Messages, k \in Keys, arg \in {"isds", "local", None} :
              ShownIn(m, k) => /\ TaskFits(Task("download", m, k, None), Dated, Undated)
                               /\ TaskFits(Task("erase", m, k, arg), Dated, Undated)
         /\ \A m \in Sent : /\ TaskFits(Task("send", m, None, None), Dated, Undated)
                            /\ TaskFits(Task("download", m, Undated, None), Dated, Undated)
         /\ \A m \in Files, kind \in Imports :
              TaskFits(Task(kind, m, None, None), Dated, Undated)
<1>1. Dated \in Keys /\ Undated \in Keys
  BY KeysFit DEF TypeOK
<1> QED BY <1>1, ShownHome, TasksAssumption DEF TaskFits, Task, Tasks, Imports

\* What the queues and the single slot hold fits, whoever fills them.
LEMMA MainQueues ==
  ASSUME TypeOK, AtHome, QueuesFit, MainStep
  PROVE  QueuesFit' /\ hi' \in Seq(Tasks) /\ lo' \in Seq(Tasks) /\ single' \in Tasks \cup {None}
<1> DEFINE Good == /\ HiFits(hi', Dated, Undated) /\ hi' \in Seq(Tasks)
                   /\ LoFits(lo', Dated, Undated) /\ lo' \in Seq(Tasks)
                   /\ single' \in Tasks \cup {None}
                   /\ single' # None =>
                        /\ TaskFits(single', Dated, Undated)
                        /\ single'.kind = "erase" /\ single'.msg \notin marked'
<1>1. /\ HiFits(hi, Dated, Undated) /\ hi \in Seq(Tasks)
      /\ LoFits(lo, Dated, Undated) /\ lo \in Seq(Tasks)
      /\ single \in Tasks \cup {None}
      /\ single # None => /\ TaskFits(single, Dated, Undated)
                          /\ single.kind = "erase" /\ single.msg \notin marked
  BY TasksAssumption DEF TypeOK, PoolTypeOK, QueuesFit, HiFits, LoFits
<1>2. ASSUME Synchronise PROVE Good
  <2>1. /\ lo' = <<Task("list", None, None, "received"), Task("list", None, None, "sent")>>
        /\ UNCHANGED <<hi, single, marked>>
    BY <1>2 DEF Synchronise, MainSays, historyVars
  <2>2. \A arg \in {"received", "sent"} :
          /\ TaskFits(Task("list", None, None, arg), Dated, Undated)
          /\ Task("list", None, None, arg) \in Tasks
          /\ Task("list", None, None, arg).kind = "list"
    BY NewTasks DEF TaskFits, Task
  <2>3. /\ lo' \in Seq(Tasks)
        /\ \A i \in DOMAIN lo' : \E arg \in {"received", "sent"} :
             lo'[i] = Task("list", None, None, arg)
    BY <2>1, <2>2
  <2>4. LoFits(lo', Dated, Undated)
    BY <2>2, <2>3 DEF LoFits
  <2> QED BY <1>1, <2>1, <2>3, <2>4
<1>3. ASSUME EraseReturns PROVE Good
  <2>1. single' = None /\ UNCHANGED <<hi, lo>>
    BY <1>3 DEF EraseReturns, VacateSingle
  <2> QED BY <1>1, <2>1
<1>4. ASSUME NEW m \in Messages, NEW k \in Keys, DownloadSelected(m, k)
      PROVE  Good
  <2>1. /\ TaskFits(Task("download", m, k, None), Dated, Undated)
        /\ lo' = Put(lo, Task("download", m, k, None), "PREPEND")
        /\ UNCHANGED <<hi, single, marked>>
    BY <1>4, NewTasks DEF DownloadSelected, PutLo, MainSays, historyVars
  <2>2. Task("download", m, k, None).kind = "download"
    BY DEF Task
  <2> QED BY <1>1, <2>1, <2>2, PutFits
<1>5. ASSUME NEW m \in Messages, NEW k \in Keys, NEW where \in {"isds", "local"},
             EraseMessage(m, k, where)
      PROVE  Good
  BY <1>1, <1>5, NewTasks DEF EraseMessage, PutSingle, Task, TaskFits
<1>6. ASSUME NEW m \in Sent, SendMessage(m)
      PROVE  Good
  <2>1. /\ TaskFits(Task("send", m, None, None), Dated, Undated)
        /\ hi' = Put(hi, Task("send", m, None, None), "APPEND")
        /\ UNCHANGED <<lo, single, marked>>
    BY <1>6, NewTasks DEF SendMessage, PutHi, MainSays, historyVars
  <2>2. Task("send", m, None, None).kind = "send"
    BY DEF Task
  <2> QED BY <1>1, <2>1, <2>2, PutFits
<1>7. ASSUME NEW m \in Sent, CollectSendMessageStatus(m)
      PROVE  Good
  <2>1. /\ TaskFits(Task("download", m, Undated, None), Dated, Undated)
        /\ \/ hi' = Put(hi, Task("download", m, Undated, None), "PREPEND")
           \/ UNCHANGED hi
        /\ UNCHANGED <<lo, single, marked>>
    BY <1>7, NewTasks DEF CollectSendMessageStatus, PutHi, historyVars, poolVars, Undated
  <2>2. Task("download", m, Undated, None).kind = "download"
    BY DEF Task
  <2> QED BY <1>1, <2>1, <2>2, PutFits
<1>8. ASSUME NEW m \in Files, NEW kind \in Imports, ImportZfo(m, kind)
      PROVE  Good
  <2>1. /\ TaskFits(Task(kind, m, None, None), Dated, Undated)
        /\ lo' = Put(lo, Task(kind, m, None, None), "APPEND")
        /\ UNCHANGED <<hi, single, marked>>
    BY <1>8, NewTasks DEF ImportZfo, PutLo, MainSays, historyVars
  <2>2. Task(kind, m, None, None).kind \in Imports
    BY DEF Task
  <2>3. Task(kind, m, None, None).kind \notin {"send", "erase"}
    BY <2>2 DEF Imports
  <2>4. LoFits(lo', Dated, Undated) /\ lo' \in Seq(Tasks)
    BY <1>1, <2>1, <2>3, PutFits
  <2> QED BY <1>1, <2>1, <2>4
<1>9. Good
  BY <1>2, <1>3, <1>4, <1>5, <1>6, <1>7, <1>8 DEF MainStep
<1>10. UNCHANGED <<Dated, Undated>>
  BY MainFrame DEF Dated, Undated, secondaryKey
<1> QED BY <1>9, <1>10 DEF QueuesFit, HiFits, LoFits

\* The entry that is looked at is one of a message the server has.
LEMMA EntryAt ==
  ASSUME CurrentFits, ProgFits, Phase
  PROVE  /\ At("entry") \/ At("schedule") \/ At("getState") =>
              current.kind = "list" /\ EntryFits(entry)
         /\ At("sql") /\ current.kind = "list" => EntryFits(entry)
<1>1. ASSUME NEW at, At(at) PROVE current # None /\ TaskFits(current, Dated, Undated)
  BY <1>1 DEF At, CurrentFits
<1>2. ASSUME NEW at \in {"entry", "schedule", "getState", "sql", "begin"}, At(at),
             current.kind = "list"
      PROVE  EntryFits(entry)
  BY <1>2 DEF At, Phase, ListPhase, Code
<1>3. ASSUME NEW at \in {"entry", "schedule", "getState"}, At(at)
      PROVE  current.kind = "list"
  BY <1>1, <1>3, KindAt DEF Codes, TaskFits, Tasks
<1> QED BY <1>2, <1>3

\* A task taken from a queue, and the rest of the queue.
LEMMA TakeTail ==
  ASSUME NEW q \in Seq(Tasks), q # <<>>, NEW dated, NEW undated
  PROVE  /\ Tail(q) \in Seq(Tasks) /\ Head(q) \in Tasks
         /\ HiFits(q, dated, undated) =>
              HiFits(Tail(q), dated, undated) /\ TaskFits(Head(q), dated, undated)
              /\ Head(q).kind \in {"send", "download"}
         /\ LoFits(q, dated, undated) =>
              LoFits(Tail(q), dated, undated) /\ TaskFits(Head(q), dated, undated)
              /\ Head(q).kind \notin {"send", "erase"}
<1>1. /\ Tail(q) \in Seq(Tasks) /\ Head(q) \in Tasks /\ Head(q) = q[1] /\ 1 \in DOMAIN q
      /\ \A i \in DOMAIN Tail(q) : i + 1 \in DOMAIN q /\ Tail(q)[i] = q[i + 1]
  BY TailFacts
<1> QED BY <1>1 DEF HiFits, LoFits

PoolFits == QueuesFit /\ hi \in Seq(Tasks) /\ lo \in Seq(Tasks)
            /\ single \in Tasks \cup {None}

\* Every step leaves in the queues and the single slot what fits there.
LEMMA QueuesKept ==
  ASSUME TypeOK, QueuesFit, CurrentFits, ProgFits, Phase, AtHome, Next
  PROVE  PoolFits'
<1>1. /\ HiFits(hi, Dated, Undated) /\ hi \in Seq(Tasks)
      /\ LoFits(lo, Dated, Undated) /\ lo \in Seq(Tasks)
      /\ single \in Tasks \cup {None}
      /\ single # None => /\ TaskFits(single, Dated, Undated)
                          /\ single.kind = "erase" /\ single.msg \notin marked
  BY TasksAssumption DEF TypeOK, PoolTypeOK, QueuesFit, HiFits, LoFits
<1>2. UNCHANGED <<Dated, Undated>>
  BY SettingKept
<1> DEFINE Good == /\ HiFits(hi', Dated, Undated) /\ hi' \in Seq(Tasks)
                   /\ LoFits(lo', Dated, Undated) /\ lo' \in Seq(Tasks)
                   /\ single' \in Tasks \cup {None}
                   /\ single' # None =>
                        /\ TaskFits(single', Dated, Undated)
                        /\ single'.kind = "erase" /\ single'.msg \notin marked'
<1>3. Good => PoolFits'
  BY <1>2 DEF QueuesFit, HiFits, LoFits, PoolFits
<1>4. CASE TaskBegins
  <2>1. /\ hi' = hi \/ (hi # <<>> /\ hi' = Tail(hi))
        /\ lo' = lo \/ (lo # <<>> /\ lo' = Tail(lo))
        /\ UNCHANGED <<single, marked>>
    BY <1>4 DEF TaskBegins, Take, historyVars
  <2>2. Good
    BY <1>1, <2>1, TakeTail
  <2> QED BY <2>2, <1>3
<1>5. CASE TaskStep
  <2>1. CASE lo' = lo
    BY <1>1, <1>3, <1>5, <2>1, TaskFrame
  <2>2. CASE Schedule
    <3>1. EntryFits(entry)
      BY <2>2, EntryAt DEF Schedule
    <3> DEFINE t == Task("download", entry.msg, KeyOf(entry.status), None)
    <3>2. t \in Tasks /\ t.kind = "download" /\ TaskFits(t, Dated, Undated)
      BY <3>1, KeysFit DEF TypeOK, EntryFits, Task, Tasks, TaskFits, Imports
    <3>3. lo' = Put(lo, t, "PREPEND")
      BY <2>2 DEF Schedule, PutLo
    <3> HIDE DEF t
    <3>4. LoFits(lo', Dated, Undated) /\ lo' \in Seq(Tasks)
      BY <1>1, <3>2, <3>3, PutFits
    <3>5. UNCHANGED <<hi, single, marked>>
      BY <1>5, TaskFrame
    <3> QED BY <1>1, <1>3, <3>4, <3>5
  <2> QED BY <1>5, <2>1, <2>2, TaskFrame
<1>6. CASE TaskEnds
  BY <1>1, <1>3, <1>6 DEF TaskEnds, EndOfTask, historyVars
<1>7. CASE MainStep
  BY <1>7, MainQueues DEF PoolFits
<1>8. CASE ReadStep
  <2>1. single = None /\ UNCHANGED <<hi, lo, single>>
    BY <1>8 DEF ReadStep, ReadMessage, UserOp, MainFree, poolVars
  <2> QED BY <1>1, <1>3, <2>1
<1>9. CASE ServerStep
  BY <1>1, <1>3, <1>9, ServerFrame DEF poolVars, historyVars
<1>10. CASE Crash \/ Restart
  <2>1. hi' = <<>> /\ lo' = <<>> /\ single' = None
    BY <1>10 DEF Crash, Restart, Reopened
  <2>2. Good
    BY <2>1 DEF HiFits, LoFits
  <2> QED BY <1>3, <2>2
<1> QED BY <1>4, <1>5, <1>6, <1>7, <1>8, <1>9, <1>10, NextSteps

\* Every step leaves the worker with a task that fits, an erasure being the
\* single task and executed.
LEMMA CurrentKept ==
  ASSUME TypeOK, QueuesFit, CurrentFits, Next
  PROVE  CurrentFits'
<1>1. /\ HiFits(hi, Dated, Undated) /\ hi \in Seq(Tasks)
      /\ LoFits(lo, Dated, Undated) /\ lo \in Seq(Tasks)
      /\ single # None => TaskFits(single, Dated, Undated)
  BY TasksAssumption DEF TypeOK, PoolTypeOK, QueuesFit, HiFits, LoFits
<1>2. UNCHANGED <<Dated, Undated>>
  BY SettingKept
<1> DEFINE Good == current' # None =>
                     /\ TaskFits(current', Dated, Undated)
                     /\ current'.kind = "erase" => current' = single' /\ state' = "EXECUTING"
<1>3. Good /\ (current' = None => prog' = <<>>) => CurrentFits'
  BY <1>2 DEF CurrentFits
<1>4. CASE TaskBegins
  <2>1. current' # None
    BY <1>1, <1>4, TakeTail, TasksAssumption DEF TaskBegins, Take, Pending, TaskFits
  <2>2. Good
    BY <1>1, <1>4, TakeTail DEF TaskBegins, Take, Pending
  <2> QED BY <1>3, <2>1, <2>2
<1>5. CASE TaskStep
  <2>1. current # None /\ UNCHANGED <<current, single, state>>
    BY <1>5, TaskFrame
  <2> QED BY <1>3, <2>1 DEF CurrentFits
<1>6. CASE TaskEnds
  BY <1>3, <1>6 DEF TaskEnds, EndOfTask, taskVars
<1>7. CASE MainStep
  <2>1. UNCHANGED <<current, prog>>
    BY <1>7, MainFrame
  <2>2. ASSUME current # None, current.kind = "erase"
        PROVE  UNCHANGED <<single, state>>
    <3>1. single = current /\ state = "EXECUTING"
      BY <2>2 DEF CurrentFits
    <3> QED BY <1>7, <2>2, <3>1
        DEF MainStep, Synchronise, EraseReturns, DownloadSelected, EraseMessage,
            SendMessage, CollectSendMessageStatus, ImportZfo, PutLo, PutHi, PutSingle,
            VacateSingle, poolVars
  <2> QED BY <1>3, <2>1, <2>2 DEF CurrentFits
<1>8. CASE ReadStep \/ ServerStep
  <2>1. UNCHANGED <<current, prog, single, state>>
    BY <1>8, ReadFrame, ServerFrame DEF poolVars, taskVars
  <2> QED BY <1>3, <2>1 DEF CurrentFits
<1>9. CASE Crash \/ Restart
  <2>1. current' = None /\ prog' = <<>>
    BY <1>9 DEF Crash, Restart, Reopened
  <2> QED BY <1>3, <2>1
<1> QED BY <1>4, <1>5, <1>6, <1>7, <1>8, <1>9, NextSteps

\* At any time one message is being sent, and the server has not seen it.
LEMMA SendsKept ==
  ASSUME TypeOK, QueuesFit, CurrentFits, SendsOnce, ProgFits, Phase, Next
  PROVE  SendsOnce'
<1>1. /\ HiFits(hi, Dated, Undated) /\ hi \in Seq(Tasks)
      /\ LoFits(lo, Dated, Undated) /\ lo \in Seq(Tasks)
  BY TasksAssumption DEF TypeOK, PoolTypeOK, QueuesFit, HiFits, LoFits
<1>2. \A i \in DOMAIN hi : hi[i].kind = "send" =>
        hi[i].msg \in Sent /\ hi[i].msg \in Messages
  BY <1>1, TasksAssumption DEF HiFits, TaskFits
\* A pending message stays unknown to the server.
<1>3. \A i \in DOMAIN hi : hi[i].kind = "send" => isds'[hi[i].msg] = "absent"
  <2> SUFFICES ASSUME NEW i \in DOMAIN hi, hi[i].kind = "send"
               PROVE  isds'[hi[i].msg] = "absent"
    OBVIOUS
  <2>1. isds \in [Messages -> States]
    BY DEF TypeOK, States
  <2>2. isds[hi[i].msg] = "absent" /\ (current # None => current.kind # "send")
    BY DEF SendsOnce
  <2>3. ~At("create")
    BY <2>2, SubjectAt DEF At
  <2> QED BY <1>2, <2>1, <2>2, <2>3, ServerSteps
<1>4. CASE UNCHANGED <<hi, current>>
  BY <1>3, <1>4 DEF SendsOnce
<1>5. CASE TaskBegins
  <2>1. /\ current = None
        /\ \/ hi' = hi /\ (current' = single /\ single # None)
           \/ hi # <<>> /\ hi' = Tail(hi) /\ current' = Head(hi)
           \/ hi' = hi /\ hi = <<>>
    BY <1>5 DEF TaskBegins, Take, Pending
  <2>2. CASE hi' = hi /\ current' = single /\ single # None
    BY <1>3, <2>2 DEF SendsOnce, QueuesFit
  <2>3. CASE hi # <<>> /\ hi' = Tail(hi) /\ current' = Head(hi)
    <3>1. /\ 1 \in DOMAIN hi /\ hi[1] = Head(hi)
          /\ \A i \in DOMAIN hi' : i + 1 \in DOMAIN hi /\ hi'[i] = hi[i + 1] /\ i + 1 # 1
                                   /\ i \in Nat
      BY <1>1, <2>3
    <3> QED BY <1>3, <2>3, <3>1 DEF SendsOnce
  <2>4. CASE hi' = hi /\ hi = <<>>
    BY <2>4 DEF SendsOnce
  <2> QED BY <2>1, <2>2, <2>3, <2>4
<1>6. CASE TaskEnds
  <2>1. current' = None /\ hi' = hi
    BY <1>6 DEF TaskEnds, EndOfTask
  <2> QED BY <1>3, <2>1 DEF SendsOnce
<1>7. ASSUME NEW m \in Sent, SendMessage(m)
      PROVE  SendsOnce'
  <2>1. /\ hi' = Put(hi, Task("send", m, None, None), "APPEND")
        /\ UNCHANGED <<current, isds>> /\ isds[m] = "absent"
        /\ \A i \in DOMAIN hi : hi[i].kind # "send"
        /\ current # None => current.kind # "send"
    BY <1>7 DEF SendMessage, PutHi, MainSays
  <2> DEFINE t == Task("send", m, None, None)
  <2>2. t \in Tasks /\ t.msg = m /\ hi' = Put(hi, t, "APPEND")
    BY <2>1, TasksAssumption DEF Task, Tasks
  <2> HIDE DEF t
  <2>3. \A i \in DOMAIN hi' : \/ hi'[i] = t /\ i = Len(hi) + 1
                              \/ i \in DOMAIN hi /\ hi'[i] = hi[i]
    BY <1>1, <2>2, PutFacts
  <2> QED BY <2>1, <2>2, <2>3 DEF SendsOnce
<1>8. ASSUME NEW m \in Sent, CollectSendMessageStatus(m)
      PROVE  SendsOnce'
  <2>1. /\ \/ hi' = Put(hi, Task("download", m, secondaryKey(FALSE), None), "PREPEND")
           \/ UNCHANGED hi
        /\ UNCHANGED <<current, isds>>
    BY <1>8 DEF CollectSendMessageStatus, PutHi, poolVars
  <2> DEFINE t == Task("download", m, secondaryKey(FALSE), None)
  <2>2. t \in Tasks /\ t.kind = "download"
    BY TasksAssumption, KeysFit DEF t, Task, Tasks, Undated, TypeOK
  <2> HIDE DEF t
  <2>3. CASE hi' = Put(hi, t, "PREPEND")
    <3>1. \A i \in DOMAIN hi' : \/ hi'[i] = t
                                \/ i - 1 \in DOMAIN hi /\ i \in Nat /\ hi'[i] = hi[i - 1]
      BY <1>1, <2>2, <2>3, PutFacts
    <3> QED BY <2>1, <2>2, <3>1 DEF SendsOnce
  <2> QED BY <1>4, <2>1, <2>3 DEF t
<1>9. CASE Crash \/ Restart
  BY <1>9 DEF Crash, Restart, Reopened, SendsOnce
<1>10. CASE MainStep
  <2>1. \/ UNCHANGED hi
        \/ \E m \in Sent : SendMessage(m) \/ CollectSendMessageStatus(m)
    BY <1>10 DEF MainStep, Synchronise, EraseReturns, DownloadSelected, EraseMessage,
       ImportZfo, PutLo, PutSingle, VacateSingle
  <2> QED BY <1>4, <1>7, <1>8, <1>10, <2>1, MainFrame
<1>11. TaskStep \/ ReadStep \/ ServerStep => UNCHANGED <<hi, current>>
  BY TaskFrame, ReadFrame, ServerFrame DEF poolVars
<1> QED BY <1>4, <1>5, <1>6, <1>9, <1>10, <1>11, NextSteps

-----------------------------------------------------------------------------
(* What a statement does to a content. *)

\* The value a statement leaves in the row it is about.
Left(c, s) == IF s.verb = "UPDATE" /\ c[s.table][s.msg] = NoRow THEN NoRow ELSE s.value

\* A statement writes one row.
LEMMA EffectFacts ==
  ASSUME NEW c \in Contents, NEW s \in Statements
  PROVE  /\ Effect(c, s) \in Contents
         /\ \A t \in Tables, m \in Messages :
              Effect(c, s)[t][m] = IF t = s.table /\ m = s.msg THEN Left(c, s) ELSE c[t][m]
BY DEF Effect, Contents, Statements, Left

\* Nothing but a deletion takes a row away, and an update brings none.
LEMMA EffectRows ==
  ASSUME NEW c \in Contents, NEW s \in Statements, NEW t \in Tables, NEW m \in Messages,
         s.value = NoRow <=> s.verb = "DELETE"
  PROVE  /\ s.verb # "DELETE" /\ c[t][m] # NoRow => Effect(c, s)[t][m] # NoRow
         /\ s.verb \in {"DELETE", "UPDATE"} /\ c[t][m] = NoRow => Effect(c, s)[t][m] = NoRow
         /\ s.table # t \/ s.msg # m => Effect(c, s)[t][m] = c[t][m]
         /\ s.table = t /\ s.msg = m /\ s.verb = "DELETE" => Effect(c, s)[t][m] = NoRow
         /\ s.table = t /\ s.msg = m /\ s.verb = "INSERT" => Effect(c, s)[t][m] # NoRow
BY EffectFacts DEF Left

\* The first statement of a call.
LEMMA BodyHead ==
  ASSUME NEW b, NEW m, Body(b, m)
  PROVE  /\ Head(b) = b[1] /\ 1 \in DOMAIN b /\ Head(b) \in Statements /\ Head(b).msg = m
         /\ Head(b).value = NoRow <=> Head(b).verb = "DELETE"
         /\ b \in Seq(Statements) /\ Len(b) \in Nat \ {0} /\ DOMAIN b = 1 .. Len(b)
<1>1. b \in Seq(Statements) /\ b # <<>>
  BY DEF Body
<1>2. /\ Head(b) = b[1] /\ 1 \in DOMAIN b /\ Head(b) \in Statements
      /\ Len(b) \in Nat \ {0} /\ DOMAIN b = 1 .. Len(b)
  BY <1>1, TailFacts
<1> QED BY <1>1, <1>2 DEF Body

\* A call that has something to do has it in its first statement or the rest.
LEMMA HasRest ==
  ASSUME NEW b, NEW m, Body(b, m), NEW verb, NEW table, Has(b, verb, table)
  PROVE  \/ Head(b).verb = verb /\ Head(b).table = table
         \/ Len(b) # 1 /\ Has(Tail(b), verb, table)
<1>1. /\ b \in Seq(Statements) /\ b # <<>> /\ Head(b) = b[1]
      /\ \A i \in DOMAIN b : i # 1 => i - 1 \in DOMAIN Tail(b) /\ Tail(b)[i - 1] = b[i]
  BY BodyHead, TailFacts DEF Body
<1>2. PICK i \in DOMAIN b : b[i].verb = verb /\ b[i].table = table
  BY DEF Has
<1>3. CASE i = 1
  BY <1>1, <1>2, <1>3
<1>4. CASE i # 1
  <2>1. i - 1 \in DOMAIN Tail(b) /\ Tail(b)[i - 1] = b[i]
    BY <1>1, <1>4
  <2>2. Len(b) # 1
    BY <1>1, <1>4
  <2> QED BY <1>2, <2>1, <2>2 DEF Has
<1> QED BY <1>3, <1>4

\* The statements of the rest of a call are those of the call.
LEMMA AllRest ==
  ASSUME NEW b, NEW m, Body(b, m), NEW i \in DOMAIN Tail(b)
  PROVE  i + 1 \in DOMAIN b /\ Tail(b)[i] = b[i + 1]
BY TailFacts DEF Body

\* One statement of the call that stores the envelope of a sent message.
LEMMA SendCallStep ==
  ASSUME NEW c \in Contents, NEW m \in Messages, NEW b, Body(b, m), SendCall(b, c, m)
  PROVE  /\ Len(b) = 1 => Shown(Effect(c, Head(b)), m)
         /\ Len(b) # 1 => SendCall(Tail(b), Effect(c, Head(b)), m)
<1>1. /\ Head(b) \in Statements /\ Head(b).msg = m /\ Head(b).verb # "DELETE"
      /\ Head(b).value = NoRow <=> Head(b).verb = "DELETE"
  BY BodyHead DEF SendCall
<1>2. ASSUME NEW t \in {"messages", "supplementary"}
      PROVE  \/ Effect(c, Head(b))[t][m] # NoRow
             \/ Len(b) # 1 /\ Has(Tail(b), "INSERT", t)
  <2>1. t \in Tables
    BY DEF Tables
  <2>2. CASE c[t][m] # NoRow
    BY <1>1, <2>1, <2>2, EffectRows
  <2>3. CASE Has(b, "INSERT", t)
    BY <1>1, <2>1, <2>3, EffectRows, HasRest
  <2> QED BY <2>2, <2>3 DEF SendCall
<1>3. \A i \in DOMAIN Tail(b) : Tail(b)[i].verb # "DELETE"
  BY AllRest DEF SendCall
<1> QED BY <1>2, <1>3 DEF SendCall, Shown

\* One statement of the deletion of a message.
LEMMA EraseCallStep ==
  ASSUME NEW c \in Contents, NEW m \in Messages, NEW b, Body(b, m), EraseCall(b, c, m)
  PROVE  /\ Len(b) = 1 => Erased(Effect(c, Head(b)), m)
         /\ Len(b) # 1 => EraseCall(Tail(b), Effect(c, Head(b)), m)
<1>1. /\ Head(b) \in Statements /\ Head(b).msg = m /\ Head(b).verb = "DELETE"
      /\ Head(b).value = NoRow <=> Head(b).verb = "DELETE"
  BY BodyHead DEF EraseCall
<1>2. ASSUME NEW t \in Tables
      PROVE  \/ Effect(c, Head(b))[t][m] = NoRow
             \/ Len(b) # 1 /\ Has(Tail(b), "DELETE", t)
  <2>1. CASE c[t][m] = NoRow
    BY <1>1, <2>1, EffectRows
  <2>2. CASE Has(b, "DELETE", t)
    BY <1>1, <2>2, EffectRows, HasRest
  <2> QED BY <2>1, <2>2 DEF EraseCall
<1>3. \A i \in DOMAIN Tail(b) : Tail(b)[i].verb = "DELETE"
  BY AllRest DEF EraseCall
<1> QED BY <1>2, <1>3 DEF EraseCall, Erased

\* The calls begin with everything to do.
LEMMA CallsBegin ==
  ASSUME NEW c, NEW m \in Messages
  PROVE  /\ SendCall(insertMessageEnvelope(m, "posted", "seen"), c, m)
         /\ EraseCall(msgsDeleteMessageData(m), c, m)
<1>1. SendCall(insertMessageEnvelope(m, "posted", "seen"), c, m)
  <2> DEFINE b == insertMessageEnvelope(m, "posted", "seen")
  <2>1. /\ DOMAIN b = 1 .. 3 /\ b[1] = Insert("messages", m, "posted")
        /\ b[2] = Insert("supplementary", m, "seen")
        /\ b[3] = Replace("process_state", m, "unsettled")
    BY DEF insertMessageEnvelope
  <2> HIDE DEF b
  <2>2. /\ \A i \in DOMAIN b : b[i].verb # "DELETE"
        /\ Has(b, "INSERT", "messages") /\ Has(b, "INSERT", "supplementary")
    <3>1. \A i \in DOMAIN b : i = 1 \/ i = 2 \/ i = 3
      BY <2>1
    <3>2. 1 \in DOMAIN b /\ 2 \in DOMAIN b
      BY <2>1
    <3> QED BY <2>1, <3>1, <3>2 DEF Insert, Replace, Has
  <2>3. SendCall(b, c, m)
    BY <2>2 DEF SendCall
  <2> QED BY <2>3 DEF b
<1>2. EraseCall(msgsDeleteMessageData(m), c, m)
  <2> DEFINE b == msgsDeleteMessageData(m)
  <2>1. DOMAIN b = 1 .. 8
    BY DEF msgsDeleteMessageData
  <2>2. \A i \in 1 .. 8 : i = 1 \/ i = 2 \/ i = 3 \/ i = 4 \/ i = 5 \/ i = 6 \/ i = 7 \/ i = 8
    OBVIOUS
  <2>3. /\ b[1] = Delete("hashes", m) /\ b[2] = Delete("files", m)
        /\ b[3] = Delete("events", m) /\ b[4] = Delete("raw", m)
        /\ b[5] = Delete("delivery", m) /\ b[6] = Delete("supplementary", m)
        /\ b[7] = Delete("process_state", m) /\ b[8] = Delete("messages", m)
    BY DEF msgsDeleteMessageData
  <2> HIDE DEF b
  <2>4. \A i \in DOMAIN b : b[i].verb = "DELETE"
    BY <2>1, <2>2, <2>3 DEF Delete
  <2>5. \A t \in Tables : Has(b, "DELETE", t)
    <3>1. \A i \in 1 .. 8 : i \in DOMAIN b
      BY <2>1
    <3>2. \A i \in DOMAIN b : Has(b, "DELETE", b[i].table)
      BY <2>4 DEF Has
    <3>3. \A t \in Tables : \E i \in 1 .. 8 : b[i].table = t
      BY <2>3 DEF Delete, Tables
    <3> QED BY <3>1, <3>2, <3>3
  <2>6. EraseCall(b, c, m)
    BY <2>4, <2>5 DEF EraseCall
  <2> QED BY <2>6 DEF b
<1> QED BY <1>1, <1>2

-----------------------------------------------------------------------------
(* Each step of a task leaves it with what fits, in the phase it claims. *)

\* A step before the rest of what is to do.
LEMMA ConsFacts ==
  ASSUME NEW x \in Steps, NEW q \in Seq(Steps)
  PROVE  /\ <<x>> \o q \in Seq(Steps) /\ <<x>> \o q # <<>>
         /\ Head(<<x>> \o q) = x /\ Tail(<<x>> \o q) = q
         /\ Len(<<x>> \o q) = Len(q) + 1
OBVIOUS

\* A call before the rest of what is to do.
LEMMA CallFacts ==
  ASSUME NEW key \in Keys, NEW body \in Seq(Statements), NEW q \in Seq(Steps)
  PROVE  /\ Call(key, body) \o q \in Seq(Steps) /\ Call(key, body) \o q # <<>>
         /\ Tail(Call(key, body) \o q) = q /\ Len(Call(key, body) \o q) = Len(q) + 1
         /\ Head(Call(key, body) \o q).at = "sql" /\ Head(Call(key, body) \o q).key = key
         /\ Head(Call(key, body) \o q).body = body
<1> DEFINE x == [at |-> "sql", key |-> key, body |-> body]
<1>1. x \in Steps /\ x.at = "sql" /\ x.key = key /\ x.body = body
  BY DEF Steps
<1>2. Call(key, body) \o q = <<x>> \o q
  BY DEF Call
<1> HIDE DEF x
<1> QED BY <1>1, <1>2, ConsFacts

\* One step of code alone.
LEMMA CodeFacts ==
  ASSUME NEW at
  PROVE  /\ Code(at) # <<>> /\ Head(Code(at)).at = at
         /\ Tail(Code(at)) = <<>> /\ Len(Code(at)) = 1
BY DEF Code

\* What every step of a task may use, and what it has to show.
LEMMA TaskGiven ==
  ASSUME IInv, Next, TaskStep
  PROVE  /\ current # None /\ prog # <<>> /\ prog \in Seq(Steps)
         /\ UNCHANGED <<current, setting, Dated, Undated, hi, single, state, marked>>
         /\ TaskFits(current, Dated, Undated)
         /\ Dated \in Keys /\ Undated \in Keys
         /\ AllFit(prog, current.kind, Subject, Dated, Undated)
         /\ StepFits(Head(prog), current.kind, Subject, Dated, Undated)
         /\ AllFit(Tail(prog), current.kind, Subject, Dated, Undated)
<1>1. /\ current # None /\ prog # <<>>
      /\ UNCHANGED <<current, setting, Dated, Undated, hi, single, state, marked>>
  BY TaskFrame, SettingKept
<1>2. Dated \in Keys /\ Undated \in Keys
  BY KeysFit DEF IInv, TypeOK
<1>3. AllFit(prog, current.kind, Subject, Dated, Undated) /\ TaskFits(current, Dated, Undated)
  BY <1>1 DEF IInv, ProgFits, CurrentFits
<1> QED BY <1>1, <1>2, <1>3, RestFits DEF AllFit

KindsOfTasks == {"list", "download", "send", "erase"} \cup Imports

\* A step that leaves the list, a download or an import where it was keeps it
\* in its phase.
LEMMA PhaseOf ==
  ASSUME current' # None,
         current'.kind = "list" => ListPhase',
         current'.kind = "download" => DownloadPhase',
         current'.kind \in Imports => ImportPhase',
         current'.kind = "send" => SendPhase',
         current'.kind = "erase" => ErasePhase'
  PROVE  Phase'
BY DEF Phase

\* A statement succeeds and goes on with the call, or fails and ends it.
LEMMA StatementFacts ==
  ASSUME Statement
  PROVE  LET b == Head(prog).body
             k == Head(prog).key
         IN /\ current # None /\ prog # <<>> /\ Head(prog).at = "sql"
            /\ UNCHANGED <<isds, todo, entry, erased, result, open, current, marked>>
            /\ \/ /\ ~Conflict(db[k], Head(b)) /\ ok' = TRUE /\ torn' = torn
                  /\ db' = [db EXCEPT ![k] = Effect(db[k], Head(b))]
                  /\ disk' = IF k \in open THEN disk
                             ELSE [disk EXCEPT ![k] = Effect(disk[k], Head(b))]
                  /\ prog' = IF Len(b) = 1 THEN Tail(prog)
                             ELSE Call(k, Tail(b)) \o Tail(prog)
               \/ /\ ok' = FALSE /\ prog' = Tail(prog) /\ UNCHANGED <<db, disk>>
                  /\ \/ Conflict(db[k], Head(b)) /\ torn' = torn
                     \/ torn' = torn \cup {Head(b).msg}
BY DEF Statement, At, Written, poolVars, mainVars, fileVars

\* A statement, executed or failed.
LEMMA StatementProg ==
  ASSUME IInv, Next, Statement
  PROVE  ProgFits' /\ Phase'
<1> DEFINE x == Head(prog)
           b == x.body
           k == x.key
           c == Tail(b)
           r == Tail(prog)
<1>1. /\ current # None /\ prog # <<>> /\ prog \in Seq(Steps)
      /\ UNCHANGED <<current, Dated, Undated>>
      /\ TaskFits(current, Dated, Undated) /\ Dated \in Keys /\ Undated \in Keys
      /\ StepFits(x, current.kind, Subject, Dated, Undated)
      /\ AllFit(r, current.kind, Subject, Dated, Undated)
  BY TaskGiven DEF TaskStep
<1>2. /\ x.at = "sql" /\ UNCHANGED <<isds, todo, entry, erased, result, open>>
      /\ \/ /\ ok' = TRUE /\ ~Conflict(db[k], Head(b))
            /\ db' = [db EXCEPT ![k] = Effect(db[k], Head(b))]
            /\ prog' = IF Len(b) = 1 THEN r ELSE Call(k, c) \o r
         \/ ok' = FALSE /\ prog' = r /\ UNCHANGED db
  BY StatementFacts
<1>3. CallFits(b, k, current.kind, Subject, Dated, Undated) /\ Body(b, Subject)
  BY <1>1, <1>2 DEF StepFits, CallFits
<1>4. UNCHANGED Subject
  BY <1>1, <1>2 DEF Subject
<1>5. k \in Keys /\ db[k] \in Contents /\ db \in [Keys -> Contents]
  BY <1>1, <1>3 DEF CallFits, IInv, TypeOK
<1>13. k \in Keys /\ c \in Seq(Statements)
  BY <1>3, <1>5, TailFacts DEF Body
<1>14. /\ r \in Seq(Steps) /\ Len(r) = Len(prog) - 1 /\ Len(prog) \in Nat
       /\ Len(prog) = 1 => r = <<>>
  BY <1>1, TailFacts, TailOfOne
<1>15. /\ Call(k, c) \o r \in Seq(Steps) /\ Len(Call(k, c) \o r) = Len(r) + 1
       /\ Tail(Call(k, c) \o r) = r /\ Head(Call(k, c) \o r).at = "sql"
       /\ Head(Call(k, c) \o r).key = k /\ Head(Call(k, c) \o r).body = c
  <2> HIDE DEF k, c, r
  <2> QED BY <1>13, <1>14, CallFacts
<1> HIDE DEF x, b, k, c, r
<1>6. AllFit(prog', current.kind, Subject, Dated, Undated)
  <2>1. CASE Len(b) # 1
    <3>1. AllFit(Call(k, c), current.kind, Subject, Dated, Undated)
      BY <1>1, <1>3, <2>1, CallTail, CallsFit DEF c
    <3>2. AllFit(Call(k, c) \o r, current.kind, Subject, Dated, Undated)
      BY <1>1, <3>1, BothFit
    <3> QED BY <1>1, <1>2, <3>2
  <2>2. CASE Len(b) = 1
    BY <1>1, <1>2, <2>2
  <2> QED BY <2>1, <2>2
<1>7. current.kind = "list" => ListPhase'
  <2> SUFFICES ASSUME current.kind = "list" PROVE ListPhase'
    OBVIOUS
  <2>1. EntryFits(entry) /\ todo \in Seq(Entries)
        /\ \A i \in DOMAIN todo : todo[i].msg = None \/ EntryFits(todo[i])
    BY <1>1, <1>2 DEF x, IInv, Phase, ListPhase, Code
  <2>2. \A e : EntryFits(e) => EntryFits(e)'
    BY <1>2 DEF EntryFits, Listed
  <2> QED BY <1>2, <2>1, <2>2 DEF ListPhase
<1>8. current.kind = "download" => DownloadPhase'
  BY <1>1, <1>2 DEF x, IInv, Phase, DownloadPhase, Code, Listed
<1>9. current.kind \in Imports => ImportPhase'
  BY <1>1, <1>2 DEF x, IInv, Phase, ImportPhase, Code
<1>10. current.kind = "send" => SendPhase'
  <2> SUFFICES ASSUME current.kind = "send" PROVE SendPhase'
    OBVIOUS
  <2>1. current.msg \in Messages /\ Subject = current.msg
    BY <1>1, TasksAssumption DEF TaskFits, Subject
  <2>2. /\ Listed(current.msg)
        /\ \/ /\ Then("created") /\ k = Undated
              /\ SendCall(b, db[Undated], current.msg)
           \/ /\ Len(prog) = 1
              /\ \A i \in DOMAIN b : b[i].verb # "DELETE"
              /\ Shown(db[Undated], current.msg)
    BY <1>1, <1>2 DEF x, b, k, IInv, Phase, SendPhase, Code
  <2>3. Listed(current.msg)'
    BY <1>1, <1>2, <2>2 DEF Listed
  <2>4. CASE Then("created") /\ k = Undated /\ SendCall(b, db[Undated], current.msg)
    <3>1. r = Code("created")
      BY <2>4 DEF Then, r
    <3>2. CASE ok' = FALSE
      BY <1>1, <1>2, <2>3, <3>1, <3>2 DEF SendPhase
    <3>3. CASE ok' = TRUE /\ Len(b) = 1
      <4>1. Shown(db'[Undated], current.msg)
        BY <1>2, <1>3, <1>5, <2>1, <2>4, <3>3, SendCallStep
      <4> QED BY <1>1, <1>2, <2>3, <3>1, <3>3, <4>1 DEF SendPhase
    <3>4. CASE ok' = TRUE /\ Len(b) # 1
      <4>1. SendCall(c, db'[Undated], current.msg)
        BY <1>2, <1>3, <1>5, <2>1, <2>4, <3>4, SendCallStep DEF c
      <4>2. Then("created")' /\ Head(prog').key = Undated /\ Head(prog').body = c
        <5>1. Len(Call(k, c) \o r) = 2
          BY <1>15, <3>1, CodeFacts
        <5> QED BY <1>2, <1>15, <2>4, <3>1, <3>4, <5>1 DEF Then
      <4> QED BY <1>1, <2>3, <4>1, <4>2 DEF SendPhase
    <3> QED BY <1>2, <3>2, <3>3, <3>4
  <2>5. CASE /\ Len(prog) = 1
             /\ \A i \in DOMAIN b : b[i].verb # "DELETE"
             /\ Shown(db[Undated], current.msg)
    <3>1. r = <<>> /\ Len(r) = 0
      BY <1>14, <2>5
    <3>2. Shown(db'[Undated], current.msg)
      <4>1. /\ Head(b) \in Statements /\ Head(b).verb # "DELETE"
            /\ Head(b).value = NoRow <=> Head(b).verb = "DELETE"
        BY <1>3, <2>5, BodyHead
      <4>2. \A t \in Tables : db[Undated][t][current.msg] # NoRow
                               => db'[Undated][t][current.msg] # NoRow
        BY <1>1, <1>2, <1>5, <2>1, <4>1, EffectRows
      <4> QED BY <2>5, <4>2 DEF Shown, Tables
    <3>3. CASE prog' = <<>>
      BY <1>1, <2>3, <3>2, <3>3 DEF SendPhase
    <3>4. CASE prog' = Call(k, c) \o r /\ Len(b) # 1
      <4>2. Len(prog') = 1 /\ Head(prog').at = "sql" /\ Head(prog').body = c
        BY <1>15, <3>1, <3>4
      <4>3. \A i \in DOMAIN c : c[i].verb # "DELETE"
        BY <1>3, <2>5, AllRest DEF c
      <4> QED BY <1>1, <2>3, <3>2, <4>2, <4>3 DEF SendPhase
    <3> QED BY <1>2, <3>1, <3>3, <3>4
  <2> QED BY <2>2, <2>4, <2>5
<1>11. current.kind = "erase" => ErasePhase'
  <2> SUFFICES ASSUME current.kind = "erase" PROVE ErasePhase'
    OBVIOUS
  <2>1. current.msg \in Messages /\ Subject = current.msg
    BY <1>1 DEF TaskFits, Subject
  <2>2. PICK at \in {"erasedIsds", "erasedLocal"} :
          /\ at = "erasedIsds" => isds[current.msg] = "gone"
          /\ Then(at) /\ k = current.key /\ EraseCall(b, db[k], current.msg)
    BY <1>1, <1>2 DEF x, b, k, IInv, Phase, ErasePhase, Code
  <2>3. r = Code(at)
    BY <2>2 DEF Then, r
  <2>4. CASE ok' = FALSE
    BY <1>1, <1>2, <2>2, <2>3, <2>4 DEF ErasePhase
  <2>5. CASE ok' = TRUE /\ Len(b) = 1
    <3>1. Erased(db'[k], current.msg)
      BY <1>2, <1>3, <1>5, <2>1, <2>2, <2>5, EraseCallStep
    <3> QED BY <1>1, <1>2, <2>2, <2>3, <2>5, <3>1 DEF ErasePhase
  <2>6. CASE ok' = TRUE /\ Len(b) # 1
    <3>1. EraseCall(c, db'[k], current.msg)
      BY <1>2, <1>3, <1>5, <2>1, <2>2, <2>6, EraseCallStep DEF c
    <3>2. Len(Call(k, c) \o r) = 2
      BY <1>15, <2>3, CodeFacts
    <3>3. Then(at)' /\ Head(prog').key = k /\ Head(prog').body = c
      BY <1>2, <1>15, <2>3, <2>6, <3>2 DEF Then
    <3> QED BY <1>1, <1>2, <2>2, <3>1, <3>3 DEF ErasePhase
  <2> QED BY <1>2, <2>4, <2>5, <2>6
<1>12. ProgFits'
  BY <1>1, <1>4, <1>6 DEF ProgFits
<1> QED BY <1>1, <1>7, <1>8, <1>9, <1>10, <1>11, <1>12 DEF Phase

-----------------------------------------------------------------------------
(* The steps of the list. *)

\* A step of the list that puts work before the rest and keeps its entry.
LEMMA ListContinues ==
  ASSUME IInv, Next, TaskStep, current.kind = "list",
         NEW at \in {"begin", "entry", "schedule", "getState"}, At(at),
         UNCHANGED <<isds, todo, entry>>,
         NEW p, AllFit(p, "list", entry.msg, Dated, Undated), prog' = p \o Tail(prog)
  PROVE  ProgFits' /\ Phase'
<1>1. /\ current # None /\ UNCHANGED <<current, Dated, Undated>>
      /\ AllFit(Tail(prog), "list", Subject, Dated, Undated) /\ Subject = entry.msg
  BY TaskGiven DEF Subject
<1>2. AllFit(prog', "list", entry.msg, Dated, Undated)
  BY <1>1, BothFit
<1>3. UNCHANGED Subject
  BY <1>1 DEF Subject
<1>4. ProgFits'
  BY <1>1, <1>2, <1>3 DEF ProgFits
<1>5. EntryFits(entry) /\ todo \in Seq(Entries)
      /\ \A i \in DOMAIN todo : todo[i].msg = None \/ EntryFits(todo[i])
  BY <1>1 DEF At, IInv, Phase, ListPhase, Code
<1>6. \A e : EntryFits(e) => EntryFits(e)'
  BY DEF EntryFits, Listed
<1>7. ListPhase'
  BY <1>5, <1>6 DEF ListPhase
<1> QED BY <1>1, <1>4, <1>7, PhaseOf DEF Imports

\* The same with nothing put before the rest.
LEMMA ListGoesOn ==
  ASSUME IInv, Next, TaskStep, current.kind = "list",
         NEW at \in {"begin", "entry", "schedule", "getState"}, At(at),
         UNCHANGED <<isds, todo, entry>>, prog' = Tail(prog)
  PROVE  ProgFits' /\ Phase'
<1>1. prog' = <<>> \o Tail(prog)
  BY TaskGiven, TailFacts
<1> QED BY <1>1, ListContinues, NothingToDo

\* The begin of a transaction.
LEMMA BeginProg ==
  ASSUME IInv, Next, BeginTransaction
  PROVE  ProgFits' /\ Phase'
<1>1. At("begin") /\ UNCHANGED <<isds, todo, entry>> /\ prog' = Tail(prog)
  BY DEF BeginTransaction
<1>2. current.kind = "list"
  BY <1>1, TaskGiven DEF At, StepFits, TaskStep
<1> QED BY <1>1, <1>2, ListGoesOn DEF TaskStep

\* The scheduling of a download.
LEMMA ScheduleProg ==
  ASSUME IInv, Next, Schedule
  PROVE  ProgFits' /\ Phase'
<1>1. At("schedule") /\ UNCHANGED <<isds, todo, entry>> /\ prog' = <<>> \o Tail(prog)
  BY DEF Schedule, Continue
<1>2. current.kind = "list"
  BY <1>1, EntryAt DEF IInv
<1> QED BY <1>1, <1>2, ListContinues, NothingToDo DEF TaskStep

\* The download of the state of a sent message.
LEMMA GetStateProg ==
  ASSUME IInv, Next, GetState
  PROVE  ProgFits' /\ Phase'
<1> DEFINE m == entry.msg
           k == KeyOf(isds[m])
           p == Call(k, msgsUpdateMessageState(m, isds[m])) \o
                Call(k, insertOrUpdateMessageEvent(m))
<1>1. /\ At("getState") /\ UNCHANGED <<isds, todo, entry>>
      /\ prog' = p \o Tail(prog) \/ prog' = <<>> \o Tail(prog)
  BY DEF GetState, Continue, UnchangedButProg
<1>2. current.kind = "list" /\ EntryFits(entry)
  BY <1>1, EntryAt DEF IInv
<1>3. /\ m \in Messages /\ isds[m] \in Statuses
      /\ Dated \in Keys /\ Undated \in Keys /\ k \in {Dated, Undated}
  BY <1>2, KeysFit DEF EntryFits, Listed, IInv, TypeOK
<1>4. AllFit(p, "list", m, Dated, Undated)
  BY <1>3, UpdateFits, OtherFits, CallsFit, BothFit
<1> HIDE DEF p
<1> QED BY <1>1, <1>2, <1>4, ListContinues, NothingToDo DEF TaskStep

\* The entry of the list that is looked at.
LEMMA EntryProg ==
  ASSUME IInv, Next, Entry
  PROVE  ProgFits' /\ Phase'
<1> DEFINE m == entry.msg
           k == KeyOf(entry.status)
           Fits(p) == AllFit(p, "list", m, Dated, Undated)
           download == IF setting.whole \/ isCompleteMessageInDb(db[k], m)
                       THEN Code("schedule") ELSE <<>>
           p == IF getMessageStatus(db[k], m) = NoRow
                THEN Call(k, insertMessageEnvelope(m, entry.status, Seen(m)))
                     \o (IF setting.whole THEN Code("schedule") ELSE <<>>)
                ELSE IF Changed(k)
                THEN Call(k, updateMessageEnvelope(m, entry.status)) \o download
                     \o (IF m \in Sent THEN Code("getState") ELSE <<>>)
                ELSE <<>>
<1>1. At("entry") /\ UNCHANGED <<isds, todo, entry>> /\ prog' = p \o Tail(prog)
  BY DEF Entry, Continue, UnchangedButProg
<1>2. current.kind = "list" /\ EntryFits(entry)
  BY <1>1, EntryAt DEF IInv
<1>3. /\ m \in Messages /\ entry.status \in Statuses
      /\ Dated \in Keys /\ Undated \in Keys /\ k \in {Dated, Undated}
      /\ m \in Sent \/ k = Dated
  BY <1>2, KeysFit DEF EntryFits, IInv, TypeOK, Seen
<1>4. Seen(m) \in {"seen", "unseen"}
  BY DEF Seen
<1>5. Fits(<<>>) /\ Fits(Code("schedule")) /\ Fits(Code("getState"))
  BY NothingToDo, CodeFits DEF Codes
<1>6. Fits(Call(k, insertMessageEnvelope(m, entry.status, Seen(m))))
  BY <1>3, <1>4, InsertFits, CallsFit
<1>7. Fits(Call(k, updateMessageEnvelope(m, entry.status)))
  BY <1>3, UpdateFits, CallsFit
<1>8. \A q, r : Fits(q) /\ Fits(r) => Fits(q \o r)
  BY BothFit
<1> HIDE DEF Fits
<1>9. Fits(p)
  BY <1>5, <1>6, <1>7, <1>8
<1> QED BY <1>1, <1>2, <1>9, ListContinues DEF Fits, TaskStep

\* The answers of the server are lists of the messages it has.
LEMMA AnswersFit ==
  ASSUME isds \in [Messages -> States], ServerFits, NEW direction, NEW q \in Answers(direction)
  PROVE  /\ q \in Seq(Entries)
         /\ \A i \in DOMAIN q : q[i].msg = None \/ EntryFits(q[i])
<1> DEFINE D == {x \in Messages : Listed(x) /\ (x \in Sent <=> direction = "sent")}
           f == [x \in D |-> [msg |-> x, status |-> isds[x]]]
           entries == {[msg |-> x, status |-> isds[x]] : x \in D}
           poison == IF setting.poison = direction
                     THEN {[msg |-> None, status |-> None]} ELSE {}
           S == entries \cup poison
<1>1. IsFiniteSet(entries)
  <2>1. IsFiniteSet(D)
    BY TasksAssumption, FS_Subset
  <2>2. f \in Surjection(D, entries)
    BY DEF Surjection
  <2> HIDE DEF D, f, entries
  <2> QED BY <2>1, <2>2, FS_Surjection
<1>2. IsFiniteSet(poison)
  BY FS_EmptySet, FS_Singleton
<1>3. Cardinality(S) \in Nat
  <2> HIDE DEF entries, poison
  <2> QED BY <1>1, <1>2, FS_Union, FS_CardinalityType
<1>4. q \in Orders(S)
  BY DEF Answers
<1>5. \A e \in S : e \in Entries /\ (e.msg = None \/ EntryFits(e))
  BY DEF Entries, EntryFits, Listed, ServerFits
<1> HIDE DEF S
<1>6. q \in [1 .. Cardinality(S) -> S]
  BY <1>4 DEF Orders
<1>7. q \in Seq(Entries) /\ DOMAIN q = 1 .. Cardinality(S)
  BY <1>3, <1>5, <1>6
<1> QED BY <1>5, <1>6, <1>7

\* The answer of the server to the request for a list.
LEMMA GetMessageListProg ==
  ASSUME IInv, Next, GetMessageList
  PROVE  ProgFits' /\ Phase'
<1>1. /\ current # None /\ UNCHANGED <<current, Dated, Undated>>
      /\ TaskFits(current, Dated, Undated)
  BY TaskGiven DEF TaskStep
<1>2. /\ At("getMessageList") /\ UNCHANGED isds
      /\ (prog' = Code("nextEntry") /\ todo' \in Answers(current.arg)) \/ prog' = <<>>
  BY DEF GetMessageList, Return
<1>3. current.kind = "list"
  BY <1>1, <1>2, KindAt DEF IInv, Codes, TaskFits, Tasks
<1>4. CASE prog' = <<>>
  <2>1. ProgFits'
    BY <1>4, NothingToDo DEF ProgFits
  <2>2. ListPhase'
    BY <1>4 DEF ListPhase
  <2> QED BY <1>1, <1>3, <2>1, <2>2, PhaseOf DEF Imports
<1>5. CASE prog' = Code("nextEntry") /\ todo' \in Answers(current.arg)
  <2>1. \A kind : kind = "list" => "nextEntry" \in Codes(kind)
    BY DEF Codes
  <2>2. ProgFits'
    BY <1>1, <1>3, <1>5, <2>1, CodeFits DEF ProgFits
  <2>3. /\ todo' \in Seq(Entries)
        /\ \A i \in DOMAIN todo' : todo'[i].msg = None \/ EntryFits(todo'[i])
    BY <1>5, AnswersFit DEF IInv, TypeOK, States
  <2>4. \A e : EntryFits(e) => EntryFits(e)'
    BY <1>2 DEF EntryFits, Listed
  <2>5. ListPhase'
    BY <1>5, <2>3, <2>4, CodeFacts DEF ListPhase
  <2> QED BY <1>1, <1>3, <2>2, <2>5, PhaseOf DEF Imports
<1> QED BY <1>2, <1>4, <1>5

\* The next entry of the list, or its end.
LEMMA NextEntryProg ==
  ASSUME IInv, Next, NextEntry
  PROVE  ProgFits' /\ Phase'
<1>1. /\ current # None /\ prog # <<>> /\ UNCHANGED <<current, Dated, Undated, setting>>
      /\ TaskFits(current, Dated, Undated) /\ Dated \in Keys /\ Undated \in Keys
  BY TaskGiven DEF TaskStep
<1>2. At("nextEntry") /\ UNCHANGED <<isds, used>>
  BY DEF NextEntry
<1>3. current.kind = "list"
  BY <1>1, <1>2, KindAt DEF IInv, Codes, TaskFits, Tasks
<1>4. todo \in Seq(Entries) /\ \A i \in DOMAIN todo : todo[i].msg = None \/ EntryFits(todo[i])
  BY <1>1, <1>2, <1>3 DEF At, IInv, Phase, ListPhase, Code
<1>5. \A e : EntryFits(e) => EntryFits(e)'
  BY <1>2 DEF EntryFits, Listed
<1> DEFINE Fits(p) == AllFit(p, "list", entry'.msg, Dated, Undated)
<1>6. Fits(prog') => ProgFits'
  BY <1>1, <1>3 DEF ProgFits, Subject
<1>7. ListPhase' => Phase'
  BY <1>1, <1>3, PhaseOf DEF Imports
<1>8. \A at : at \in {"commit", "entry", "nextEntry"} => Fits(Code(at))
  BY CodeFits DEF Codes
<1>9. CASE todo = <<>>
  <2>1. prog' = Code("commit") /\ UNCHANGED <<todo, entry>>
    BY <1>9 DEF NextEntry
  <2>2. ListPhase'
    BY <1>4, <1>5, <2>1, CodeFacts DEF ListPhase
  <2> QED BY <1>6, <1>7, <1>8, <2>1, <2>2
<1>10. CASE todo # <<>>
  <2>1. /\ entry' = Head(todo) /\ todo' = Tail(todo)
        /\ entry'.msg = None => prog' = <<>>
    BY <1>10 DEF NextEntry, Return
  <2>2. /\ entry'.msg = None \/ EntryFits(entry')
        /\ todo' \in Seq(Entries)
        /\ \A i \in DOMAIN todo' : todo'[i].msg = None \/ EntryFits(todo'[i])
    <3>1. /\ Head(todo) = todo[1] /\ 1 \in DOMAIN todo /\ Tail(todo) \in Seq(Entries)
          /\ \A i \in DOMAIN Tail(todo) : i + 1 \in DOMAIN todo /\ Tail(todo)[i] = todo[i + 1]
      BY <1>4, <1>10, TailFacts
    <3> QED BY <1>4, <2>1, <3>1
  <2>3. CASE entry'.msg = None
    BY <1>6, <1>7, <2>1, <2>3, NothingToDo DEF ListPhase
  <2>4. CASE entry'.msg # None
    <3>1. EntryFits(entry') /\ entry'.msg \in Messages
      BY <2>2, <2>4 DEF EntryFits
    <3> DEFINE k == KeyOf(entry'.status)
               first == IF SeparateInvalid /\ Valid(entry'.status)
                        THEN Call(Undated, msgsDeleteMessageData(entry'.msg)) ELSE <<>>
               begin == IF k \in used THEN <<>> ELSE Begin(k)
    <3>2. prog' = first \o begin \o Code("entry") \o Code("nextEntry")
      BY <1>10, <2>1, <2>4 DEF NextEntry, Undated
    <3>3. Fits(first)
      <4>1. SeparateInvalid => Undated # Dated
        BY KeysFit DEF IInv, TypeOK
      <4> QED BY <1>1, <3>1, <4>1, NothingToDo, DeleteFits, CallsFit
    <3>4. Fits(begin)
      <4>1. k \in Keys
        BY <1>1, KeysFit DEF IInv, TypeOK
      <4> QED BY <4>1, NothingToDo, BeginFits
    <3>5. \A q, r : Fits(q) /\ Fits(r) => Fits(q \o r)
      BY BothFit
    <3> HIDE DEF first, begin, Fits
    <3>6. Fits(prog')
      BY <1>8, <3>2, <3>3, <3>4, <3>5
    <3>7. ListPhase'
      BY <1>5, <2>2, <3>1 DEF ListPhase
    <3> QED BY <1>6, <1>7, <3>6, <3>7
  <2> QED BY <2>3, <2>4
<1> QED BY <1>9, <1>10

\* The commit of one transaction of the list.
LEMMA CommitProg ==
  ASSUME IInv, Next, CommitTransactions
  PROVE  ProgFits' /\ Phase'
<1>1. /\ current # None /\ prog # <<>> /\ UNCHANGED <<current, Dated, Undated>>
      /\ TaskFits(current, Dated, Undated)
      /\ AllFit(prog, current.kind, Subject, Dated, Undated)
  BY TaskGiven DEF TaskStep
<1>2. At("commit") /\ UNCHANGED <<isds, todo, entry>> /\ prog' \in {<<>>, prog}
  BY DEF CommitTransactions
<1>3. current.kind = "list"
  BY <1>1, <1>2, KindAt DEF IInv, Codes, TaskFits, Tasks
<1>4. todo \in Seq(Entries) /\ \A i \in DOMAIN todo : todo[i].msg = None \/ EntryFits(todo[i])
  BY <1>1, <1>2, <1>3 DEF At, IInv, Phase, ListPhase, Code
<1>5. \A e : EntryFits(e) => EntryFits(e)'
  BY <1>2 DEF EntryFits, Listed
<1>6. ProgFits'
  <2>1. UNCHANGED Subject
    BY <1>1, <1>2 DEF Subject
  <2> QED BY <1>1, <1>2, <2>1, NothingToDo DEF ProgFits
<1>7. ListPhase'
  BY <1>2, <1>4, <1>5 DEF ListPhase, At
<1> QED BY <1>1, <1>3, <1>6, <1>7, PhaseOf DEF Imports

-----------------------------------------------------------------------------
(* The steps of a download. *)

\* A complete message may be stored in the file of the dated messages.
LEMMA StoreFits ==
  ASSUME Dated \in Keys, Undated \in Keys, NEW m \in Messages, NEW status \in Statuses,
         NEW kind
  PROVE  AllFit(storeMessage(Dated, m, status), kind, m, Dated, Undated)
<1> DEFINE Fits(p) == AllFit(p, kind, m, Dated, Undated)
<1>1. /\ Fits(<<>>) /\ Fits(Call(Dated, deleteMessageAttachments(m)))
      /\ Fits(Call(Dated, insertOrReplaceCompleteMessageRaw(m)))
      /\ Fits(Call(Dated, updateMessageEnvelope(m, status)))
      /\ Fits(Call(Dated, insertOrUpdateMessageHash(m)))
      /\ Fits(Call(Dated, insertOrUpdateMessageAttachment(m)))
  BY NothingToDo, UpdateFits, OtherFits, CallsFit
<1>2. \A q, r : Fits(q) /\ Fits(r) => Fits(q \o r)
  BY BothFit
<1> HIDE DEF Fits
<1>3. Fits(storeMessage(Dated, m, status))
  BY <1>1, <1>2 DEF storeMessage
<1> QED BY <1>3 DEF Fits

\* A delivery info may be stored in either file.
LEMMA DeliveryFits ==
  ASSUME Dated \in Keys, Undated \in Keys, NEW m \in Messages, NEW key \in {Dated, Undated},
         NEW kind
  PROVE  AllFit(storeDeliveryInfo(key, m), kind, m, Dated, Undated)
BY OtherFits, CallsFit, BothFit DEF storeDeliveryInfo

\* A step of a download after which the message is at the server.
LEMMA DownloadContinues ==
  ASSUME IInv, Next, TaskStep, current.kind = "download",
         prog' = <<>> \/ Listed(current.msg)',
         AllFit(prog', "download", current.msg, Dated, Undated)
  PROVE  ProgFits' /\ Phase'
<1>1. current # None /\ UNCHANGED <<current, Dated, Undated>>
  BY TaskGiven
<1>2. ProgFits'
  BY <1>1 DEF ProgFits, Subject
<1>3. DownloadPhase'
  BY <1>1 DEF DownloadPhase, Listed
<1> QED BY <1>1, <1>2, <1>3, PhaseOf DEF Imports

\* The answer of the server to the request for a message.
LEMMA GetMessageProg ==
  ASSUME IInv, Next, GetMessage
  PROVE  ProgFits' /\ Phase'
<1> DEFINE m == current.msg
           before == current.key
           after == KeyOf(isds[m])
           available == Listed(m) /\ Valid(isds[m])
           moved == IF before # after
                    THEN Call(before, msgsDeleteMessageData(m))
                         \o Call(after, insertMessageEnvelope(m, isds[m], Seen(m)))
                    ELSE <<>>
           mark == IF m \in Sent THEN <<>> ELSE Code("mark")
           Fits(p) == AllFit(p, "download", m, Dated, Undated)
<1>1. /\ UNCHANGED <<current, isds>> /\ TaskFits(current, Dated, Undated) /\ current # None
      /\ Dated \in Keys /\ Undated \in Keys
      /\ At("getMessage")
  BY TaskGiven DEF GetMessage, TaskStep, UnchangedButProg
<1>2. current.kind = "download"
  BY <1>1, KindAt DEF IInv, Codes, TaskFits, Tasks
<1>3. m \in Messages /\ before \in {Dated, Undated}
  BY <1>1, <1>2 DEF TaskFits
<1>4. \/ /\ available
         /\ prog' = moved \o storeMessage(after, m, isds[m]) \o Code("getDelivery") \o mark
      \/ prog' = <<>>
  BY DEF GetMessage, Return
<1>5. CASE prog' = <<>>
  BY <1>1, <1>2, <1>5, NothingToDo, DownloadContinues DEF TaskStep
<1>6. CASE /\ available
           /\ prog' = moved \o storeMessage(after, m, isds[m]) \o Code("getDelivery") \o mark
  <2>1. Listed(m) /\ isds[m] \in Statuses /\ after = Dated
    BY <1>6, KeysFit DEF Listed, Valid, IInv, TypeOK
  <2>2. Seen(m) \in {"seen", "unseen"}
    BY DEF Seen
  <2>3. Fits(moved)
    <3>1. CASE before = after
      BY <3>1, NothingToDo
    <3>2. CASE before # after
      <4>1. before = Undated /\ Undated # Dated
        BY <1>3, <2>1, <3>2
      <4>2. Fits(Call(before, msgsDeleteMessageData(m)))
        BY <1>1, <1>3, <4>1, DeleteFits, CallsFit
      <4>3. Fits(Call(after, insertMessageEnvelope(m, isds[m], Seen(m))))
        BY <1>1, <1>3, <2>1, <2>2, InsertFits, CallsFit
      <4> QED BY <3>2, <4>2, <4>3, BothFit
    <3> QED BY <3>1, <3>2
  <2>4. Fits(storeMessage(after, m, isds[m]))
    BY <1>1, <1>3, <2>1, StoreFits
  <2>5. Fits(Code("getDelivery")) /\ Fits(mark)
    BY NothingToDo, CodeFits DEF Codes
  <2>6. \A q, r : Fits(q) /\ Fits(r) => Fits(q \o r)
    BY BothFit
  <2> HIDE DEF moved, after, mark, Fits
  <2>7. Fits(prog')
    BY <1>6, <2>3, <2>4, <2>5, <2>6
  <2>8. Listed(m)'
    BY <1>1, <2>1 DEF Listed
  <2> QED BY <1>2, <2>7, <2>8, DownloadContinues DEF Fits, TaskStep
<1> QED BY <1>4, <1>5, <1>6

\* The answer of the server to the request for a delivery info.
LEMMA GetDeliveryProg ==
  ASSUME IInv, Next, GetDelivery
  PROVE  ProgFits' /\ Phase'
<1> DEFINE p == storeDeliveryInfo(KeyOf(isds[current.msg]), current.msg)
<1>1. /\ UNCHANGED <<current, isds>> /\ TaskFits(current, Dated, Undated) /\ current # None
      /\ Dated \in Keys /\ Undated \in Keys /\ At("getDelivery") /\ prog \in Seq(Steps)
      /\ prog' = p \o Tail(prog) \/ prog' = <<>> \o Tail(prog)
  BY TaskGiven DEF GetDelivery, Continue, TaskStep, UnchangedButProg
<1>2. current.kind = "download"
  BY <1>1, KindAt DEF IInv, Codes, TaskFits, Tasks
<1>3. current.msg \in Messages /\ KeyOf(isds[current.msg]) \in {Dated, Undated}
  BY <1>1, <1>2, KeysFit DEF TaskFits, IInv, TypeOK
<1>4. AllFit(p, "download", current.msg, Dated, Undated)
  BY <1>1, <1>3, DeliveryFits
<1>5. AllFit(Tail(prog), "download", current.msg, Dated, Undated)
  BY <1>2, TaskGiven DEF TaskStep, Subject
<1>6. Listed(current.msg)'
  BY <1>1, <1>2 DEF At, IInv, Phase, DownloadPhase, Code, Listed
<1> HIDE DEF p
<1>7. AllFit(prog', "download", current.msg, Dated, Undated)
  BY <1>1, <1>4, <1>5, NothingToDo, BothFit
<1> QED BY <1>2, <1>6, <1>7, DownloadContinues DEF TaskStep

\* The message is marked as downloaded at the server.
LEMMA MarkProg ==
  ASSUME IInv, Next, MarkAsDownloaded
  PROVE  ProgFits' /\ Phase'
<1>1. /\ At("mark") /\ prog' = <<>> \o Tail(prog)
      /\ isds' = [isds EXCEPT ![current.msg] = "read"] \/ UNCHANGED isds
  BY DEF MarkAsDownloaded, Continue
<1>2. current.kind = "download" /\ current.msg \in Messages /\ Listed(current.msg)
  BY <1>1, SubjectAt DEF IInv
<1>3. AllFit(Tail(prog), "download", current.msg, Dated, Undated) /\ UNCHANGED current
  BY <1>2, TaskGiven DEF TaskStep, Subject
<1>4. AllFit(prog', "download", current.msg, Dated, Undated)
  BY <1>1, <1>3, NothingToDo, BothFit
<1>5. isds \in [Messages -> States]
  BY DEF IInv, TypeOK, States
<1>6. Listed(current.msg)'
  BY <1>1, <1>2, <1>3, <1>5 DEF Listed, Statuses
<1> QED BY <1>2, <1>4, <1>6, DownloadContinues DEF TaskStep

-----------------------------------------------------------------------------
(* The steps of a sending, an erasure and an import. *)

\* A call before one step of code: what is to do, and how it looks.
LEMMA CallThenCode ==
  ASSUME NEW kind, NEW m, Dated \in Keys, Undated \in Keys, NEW key, NEW body,
         CallFits(body, key, kind, m, Dated, Undated), NEW at \in Codes(kind)
  PROVE  /\ AllFit(Call(key, body) \o Code(at), kind, m, Dated, Undated)
         /\ Len(Call(key, body) \o Code(at)) = 2
         /\ Tail(Call(key, body) \o Code(at)) = Code(at)
         /\ Head(Call(key, body) \o Code(at)).at = "sql"
         /\ Head(Call(key, body) \o Code(at)).key = key
         /\ Head(Call(key, body) \o Code(at)).body = body
<1> DEFINE q == Code(at)
<1>1. AllFit(q, kind, m, Dated, Undated)
  BY CodeFits
<1>2. AllFit(Call(key, body), kind, m, Dated, Undated)
  BY CallsFit
<1>3. Len(q) = 1
  BY CodeFacts
<1> HIDE DEF q
<1>4. AllFit(Call(key, body) \o q, kind, m, Dated, Undated)
  BY <1>1, <1>2, BothFit
<1>5. q \in Seq(Steps)
  BY <1>1 DEF AllFit
<1>6. key \in Keys /\ body \in Seq(Statements)
  BY DEF CallFits, Body
<1>7. /\ Tail(Call(key, body) \o q) = q /\ Len(Call(key, body) \o q) = Len(q) + 1
      /\ Head(Call(key, body) \o q).at = "sql" /\ Head(Call(key, body) \o q).key = key
      /\ Head(Call(key, body) \o q).body = body
  BY ONLY <1>5, <1>6, CallFacts
<1> QED BY <1>3, <1>4, <1>7 DEF q

\* A step of a sending that leaves it in its phase.
LEMMA SendContinues ==
  ASSUME IInv, Next, TaskStep, current.kind = "send", SendPhase',
         AllFit(prog', "send", current.msg, Dated, Undated)
  PROVE  ProgFits' /\ Phase'
<1>1. current # None /\ UNCHANGED <<current, Dated, Undated>>
  BY TaskGiven
<1>2. ProgFits'
  BY <1>1 DEF ProgFits, Subject
<1> QED BY <1>1, <1>2, PhaseOf DEF Imports

\* The message is handed to the server.
LEMMA CreateProg ==
  ASSUME IInv, Next, CreateMessage
  PROVE  ProgFits' /\ Phase'
<1> DEFINE m == current.msg
           b == insertMessageEnvelope(m, "posted", "seen")
<1>1. /\ UNCHANGED <<current, db, Dated, Undated>> /\ Dated \in Keys /\ Undated \in Keys
      /\ At("create") /\ current # None
  BY TaskGiven DEF CreateMessage, TaskStep, fileVars
<1>2. current.kind = "send" /\ m \in Sent /\ m \in Messages
  BY <1>1, SubjectAt, TasksAssumption DEF IInv
<1>3. \/ prog' = <<>> /\ result' = "SM_ISDS_ERROR"
      \/ /\ isds' = [isds EXCEPT ![m] = "posted"]
         /\ prog' = Call(Undated, b) \o Code("created")
  BY DEF CreateMessage, Return, Undated
<1>4. CASE prog' = <<>> /\ result' = "SM_ISDS_ERROR"
  <2>1. SendPhase'
    BY <1>4 DEF SendPhase
  <2> QED BY <1>2, <1>4, <2>1, SendContinues, NothingToDo DEF TaskStep
<1>5. CASE isds' = [isds EXCEPT ![m] = "posted"] /\ prog' = Call(Undated, b) \o Code("created")
  <2>1. CallFits(b, Undated, "send", m, Dated, Undated) /\ "created" \in Codes("send")
    BY <1>2, InsertFits DEF Codes, Statuses
  <2>2. SendCall(b, db[Undated], m)
    BY <1>2, CallsBegin
  <2>3. Listed(m)'
    BY <1>1, <1>2, <1>5 DEF Listed, Statuses, IInv, TypeOK
  <2> HIDE DEF b
  <2>4. /\ AllFit(prog', "send", m, Dated, Undated) /\ Then("created")'
        /\ Head(prog').key = Undated /\ Head(prog').body = b
    BY <1>1, <1>5, <2>1, CallThenCode DEF Then
  <2>5. SendPhase'
    BY <1>1, <2>2, <2>3, <2>4 DEF SendPhase
  <2> QED BY <1>2, <2>4, <2>5, SendContinues DEF TaskStep
<1> QED BY <1>3, <1>4, <1>5

\* The envelope is stored or not, and the result with it.
LEMMA CreatedProg ==
  ASSUME IInv, Next, Created
  PROVE  ProgFits' /\ Phase'
<1> DEFINE m == current.msg
           b == insertOrUpdateMessageAttachment(m)
<1>1. /\ UNCHANGED <<current, db, isds, Dated, Undated>> /\ Dated \in Keys /\ Undated \in Keys
      /\ At("created") /\ current # None /\ TaskFits(current, Dated, Undated)
  BY TaskGiven DEF Created, TaskStep, fileVars
<1>2. current.kind = "send"
  BY <1>1, KindAt DEF IInv, Codes, TaskFits, Tasks
<1>3. m \in Sent /\ m \in Messages
  BY <1>1, <1>2, TasksAssumption DEF TaskFits
<1>4. \/ prog' = <<>> /\ result' = "SM_DB_INS_ERR"
      \/ ok /\ prog' = Call(Undated, b)
  BY DEF Created, Return, Undated
<1>5. Listed(m) /\ (ok => Shown(db[Undated], m))
  BY <1>1, <1>2 DEF At, IInv, Phase, SendPhase, Then, Code
<1>6. CASE prog' = <<>> /\ result' = "SM_DB_INS_ERR"
  <2>1. SendPhase'
    BY <1>6 DEF SendPhase
  <2> QED BY <1>2, <1>6, <2>1, SendContinues, NothingToDo DEF TaskStep
<1>7. CASE ok /\ prog' = Call(Undated, b)
  <2>1. AllFit(prog', "send", m, Dated, Undated)
    BY <1>1, <1>3, <1>7, OtherFits, CallsFit
  <2>2. Len(prog') = 1 /\ Head(prog').at = "sql" /\ Head(prog').body = b
    <3> HIDE DEF b
    <3> QED BY <1>7 DEF Call
  <2>3. \A i \in DOMAIN b : b[i].verb # "DELETE"
    BY DEF insertOrUpdateMessageAttachment, Replace
  <2> HIDE DEF b
  <2>4. Listed(m)' /\ Shown(db[Undated], m)'
    BY <1>1, <1>5, <1>7 DEF Listed
  <2>5. SendPhase'
    BY <1>1, <2>2, <2>3, <2>4 DEF SendPhase
  <2> QED BY <1>2, <2>1, <2>5, SendContinues DEF TaskStep
<1> QED BY <1>4, <1>6, <1>7

\* A step of an erasure that leaves it in its phase.
LEMMA EraseContinues ==
  ASSUME IInv, Next, TaskStep, current.kind = "erase", ErasePhase',
         AllFit(prog', "erase", current.msg, Dated, Undated)
  PROVE  ProgFits' /\ Phase'
<1>1. current # None /\ UNCHANGED <<current, Dated, Undated>>
  BY TaskGiven
<1>2. ProgFits'
  BY <1>1 DEF ProgFits, Subject
<1> QED BY <1>1, <1>2, PhaseOf DEF Imports

\* The message is erased from the server, or only locally, or not at all.
LEMMA EraseProg ==
  ASSUME IInv, Next, EraseFromIsds
  PROVE  ProgFits' /\ Phase'
<1> DEFINE m == current.msg
           k == current.key
           b == msgsDeleteMessageData(m)
<1>1. /\ UNCHANGED <<current, db, Dated, Undated>> /\ Dated \in Keys /\ Undated \in Keys
      /\ At("erase") /\ current # None /\ TaskFits(current, Dated, Undated)
  BY TaskGiven DEF EraseFromIsds, TaskStep, fileVars
<1>2. current.kind = "erase"
  BY <1>1, SubjectAt DEF IInv
<1>3. m \in Messages /\ k \in {Dated, Undated}
  BY <1>1, <1>2 DEF TaskFits
<1>4. \/ prog' = <<>>
      \/ prog' = Call(k, b) \o Code("erasedIsds") /\ isds' = [isds EXCEPT ![m] = "gone"]
      \/ prog' = Call(k, b) \o Code("erasedLocal")
  BY DEF EraseFromIsds, DeleteLocally, Return
<1>5. CASE prog' = <<>>
  BY <1>2, <1>5, EraseContinues, NothingToDo DEF TaskStep, ErasePhase
<1>6. ASSUME NEW at \in {"erasedIsds", "erasedLocal"},
             prog' = Call(k, b) \o Code(at),
             at = "erasedIsds" => isds'[m] = "gone"
      PROVE  ProgFits' /\ Phase'
  <2>1. CallFits(b, k, "erase", m, Dated, Undated) /\ at \in Codes("erase")
    BY <1>3, DeleteFits DEF Codes
  <2>2. EraseCall(b, db[k], m)
    BY <1>3, CallsBegin
  <2> HIDE DEF b
  <2>3. /\ AllFit(prog', "erase", m, Dated, Undated) /\ Then(at)'
        /\ Head(prog').key = k /\ Head(prog').body = b
    BY <1>1, <1>6, <2>1, CallThenCode DEF Then
  <2>4. ErasePhase'
    BY <1>1, <1>6, <2>2, <2>3 DEF ErasePhase
  <2> QED BY <1>2, <2>3, <2>4, EraseContinues DEF TaskStep
<1>7. isds' = [isds EXCEPT ![m] = "gone"] => isds'[m] = "gone"
  BY <1>3 DEF IInv, TypeOK
<1> QED BY <1>4, <1>5, <1>6, <1>7

\* The end of an erasure.
LEMMA EraseEndsProg ==
  ASSUME IInv, Next, EraseEnds
  PROVE  ProgFits' /\ Phase'
<1>1. /\ prog' = <<>> /\ current # None /\ TaskFits(current, Dated, Undated)
      /\ At("erasedIsds") \/ At("erasedLocal")
  BY TaskGiven DEF EraseEnds, TaskStep, Return
<1>2. current.kind = "erase"
  BY <1>1, KindAt DEF IInv, Codes, TaskFits, Tasks
<1> QED BY <1>1, <1>2, EraseContinues, NothingToDo DEF TaskStep, ErasePhase

\* A step of an import that leaves it in its phase.
LEMMA ImportContinues ==
  ASSUME IInv, Next, TaskStep, current.kind \in Imports, ImportPhase',
         AllFit(prog', current.kind, current.msg, Dated, Undated)
  PROVE  ProgFits' /\ Phase'
<1>1. current # None /\ UNCHANGED <<current, Dated, Undated>>
  BY TaskGiven
<1>2. ProgFits'
  BY <1>1 DEF ProgFits, Subject, Imports
<1> QED BY <1>1, <1>2, PhaseOf DEF Imports

\* The begin of an import.
LEMMA ImportProg ==
  ASSUME IInv, Next, ImportSingle
  PROVE  ProgFits' /\ Phase'
<1> DEFINE m == current.msg
           b == insertMessageEnvelope(m, "delivered", Seen(m))
<1>1. /\ UNCHANGED <<current, Dated, Undated>> /\ Dated \in Keys /\ Undated \in Keys
      /\ At("import") /\ current # None /\ TaskFits(current, Dated, Undated)
  BY TaskGiven DEF ImportSingle, TaskStep
<1>2. current.kind \in Imports
  BY <1>1, KindAt DEF IInv, Codes, TaskFits, Tasks, Imports
<1>3. m \in Messages /\ Seen(m) \in {"seen", "unseen"}
  BY <1>1, <1>2 DEF TaskFits, Seen
<1>4. \/ prog' = <<>>
      \/ /\ current.kind = "importMessage" /\ erased' = erased \ ({m} \X Keys)
         /\ prog' = Call(Dated, b) \o Code("imported")
      \/ /\ current.kind = "importDelivery"
         /\ prog' = storeDeliveryInfo(Dated, m)
  BY DEF ImportSingle, Return, Dated
<1>5. CASE prog' = <<>>
  BY <1>2, <1>5, ImportContinues, NothingToDo DEF TaskStep, ImportPhase
<1>6. CASE /\ current.kind = "importMessage" /\ erased' = erased \ ({m} \X Keys)
           /\ prog' = Call(Dated, b) \o Code("imported")
  <2>1. CallFits(b, Dated, "importMessage", m, Dated, Undated)
        /\ "imported" \in Codes("importMessage")
    BY <1>3, InsertFits DEF Codes, Statuses
  <2> HIDE DEF b
  <2>2. AllFit(prog', "importMessage", m, Dated, Undated)
    BY <1>1, <1>6, <2>1, CallThenCode
  <2>3. \A k \in Keys : <<m, k>> \notin erased'
    BY <1>6
  <2>4. ImportPhase'
    BY <1>1, <2>3 DEF ImportPhase
  <2> QED BY <1>2, <1>6, <2>2, <2>4, ImportContinues DEF TaskStep
<1>7. CASE current.kind = "importDelivery" /\ prog' = storeDeliveryInfo(Dated, m)
  <2>1. AllFit(prog', current.kind, m, Dated, Undated)
    BY <1>1, <1>3, <1>7, DeliveryFits
  <2>2. ImportPhase'
    BY <1>1, <1>7 DEF ImportPhase
  <2> QED BY <1>2, <2>1, <2>2, ImportContinues DEF TaskStep
<1> QED BY <1>4, <1>5, <1>6, <1>7

\* The content of an imported message.
LEMMA ImportedProg ==
  ASSUME IInv, Next, Imported
  PROVE  ProgFits' /\ Phase'
<1>1. /\ UNCHANGED <<current, erased>> /\ Dated \in Keys /\ Undated \in Keys
      /\ At("imported") /\ current # None /\ TaskFits(current, Dated, Undated)
      /\ prog' = storeMessage(Dated, current.msg, "delivered") \/ prog' = <<>>
  BY TaskGiven DEF Imported, TaskStep, UnchangedButProg, Dated
<1>2. current.kind \in Imports
  BY <1>1, KindAt DEF IInv, Codes, TaskFits, Tasks, Imports
<1>3. current.msg \in Messages
  BY <1>1, <1>2 DEF TaskFits
<1>4. AllFit(prog', current.kind, current.msg, Dated, Undated)
  BY <1>1, <1>3, StoreFits, NothingToDo DEF Statuses
<1>5. ImportPhase'
  BY <1>1, <1>2 DEF At, IInv, Phase, ImportPhase, Code
<1> QED BY <1>2, <1>4, <1>5, ImportContinues DEF TaskStep

-----------------------------------------------------------------------------
(* The beginning and the end of a task, and the steps of the others. *)

\* A step that touches neither the task nor what its phase reads.
LEMMA ProgUnchanged ==
  ASSUME UNCHANGED <<current, prog, entry, todo, isds, db, ok, result, erased, Dated,
                     Undated>>,
         ProgFits, Phase
  PROVE  ProgFits' /\ Phase'
<1>1. ProgFits'
  BY DEF ProgFits, Subject
<1>2. ListPhase => ListPhase'
  BY DEF ListPhase, EntryFits, Listed
<1>3. (DownloadPhase => DownloadPhase') /\ (ImportPhase => ImportPhase')
  BY DEF DownloadPhase, ImportPhase, Listed
<1>4. SendPhase => SendPhase'
  BY DEF SendPhase, Then, Listed
<1>5. ErasePhase => ErasePhase'
  BY DEF ErasePhase, Then
<1> QED BY <1>1, <1>2, <1>3, <1>4, <1>5 DEF Phase

\* Where the worker takes its task from.
LEMMA TakenFrom ==
  ASSUME TypeOK, QueuesFit, TaskBegins
  PROVE  /\ current = None
         /\ current'.kind = "send" => \E i \in DOMAIN hi : current' = hi[i]
<1>1. /\ HiFits(hi, Dated, Undated) /\ hi \in Seq(Tasks)
      /\ LoFits(lo, Dated, Undated) /\ lo \in Seq(Tasks)
      /\ single # None => single.kind = "erase"
  BY TasksAssumption DEF TypeOK, PoolTypeOK, QueuesFit, HiFits, LoFits
<1>2. /\ current = None
      /\ \/ current' = single /\ single # None
         \/ hi # <<>> /\ current' = Head(hi)
         \/ lo # <<>> /\ current' = Head(lo)
  BY DEF TaskBegins, Take, Pending
<1>3. hi # <<>> => Head(hi) = hi[1] /\ 1 \in DOMAIN hi
  BY <1>1
<1>4. lo # <<>> => Head(lo).kind # "send"
  BY <1>1, TakeTail
<1> QED BY <1>1, <1>2, <1>3, <1>4

\* A task begins with the first step of its kind.
LEMMA BeginsProg ==
  ASSUME IInv, Next, TaskBegins, CurrentFits'
  PROVE  ProgFits' /\ Phase'
<1>1. UNCHANGED <<Dated, Undated, isds>> /\ prog' = FirstStep(current')
  BY SettingKept DEF TaskBegins
<1>2. CASE current' = None
  BY <1>2 DEF ProgFits, Phase
<1>3. CASE current' # None
  <2>1. TaskFits(current', Dated, Undated)
    BY <1>1, <1>3 DEF CurrentFits
  <2>2. current'.kind \in KindsOfTasks
    BY <2>1 DEF TaskFits, Tasks, KindsOfTasks, Imports
  <2>3. PICK at : /\ at \in Codes(current'.kind) /\ prog' = Code(at)
                  /\ at = CASE current'.kind = "list" -> "getMessageList"
                            [] current'.kind = "download" -> "getMessage"
                            [] current'.kind = "send" -> "create"
                            [] current'.kind = "erase" -> "erase"
                            [] OTHER -> "import"
    BY <1>1, <2>2 DEF FirstStep, Codes, KindsOfTasks, Imports
  <2>4. ProgFits'
    BY <1>1, <2>3, CodeFits DEF ProgFits
  <2>5. current'.kind = "send" => isds'[current'.msg] = "absent"
    BY <1>1, TakenFrom DEF IInv, SendsOnce
  <2>6. /\ current'.kind = "list" => prog' = Code("getMessageList")
        /\ current'.kind = "download" => prog' = Code("getMessage")
        /\ current'.kind \in Imports => prog' = Code("import")
        /\ current'.kind = "send" => prog' = Code("create")
        /\ current'.kind = "erase" => prog' = Code("erase")
    BY <2>3 DEF Imports
  <2>7. Phase'
    BY <1>3, <2>5, <2>6, PhaseOf
       DEF ListPhase, DownloadPhase, ImportPhase, SendPhase, ErasePhase
  <2> QED BY <2>4, <2>7
<1> QED BY <1>2, <1>3

\* The user reads only received messages, and none during an erasure.
LEMMA ReadProg ==
  ASSUME IInv, Next, ReadStep
  PROVE  ProgFits' /\ Phase'
<1>1. UNCHANGED <<current, prog, entry, todo, isds, ok, result, erased, Dated, Undated>>
  BY SettingKept, ReadFrame DEF poolVars, taskVars
<1>2. PICK n \in Messages \ Sent, k \in Keys : ReadMessage(n, k)
  BY DEF ReadStep
<1> DEFINE s == Update("supplementary", n, "seen")
<1>3. db' = [db EXCEPT ![k] = Effect(db[k], s)] /\ single = None
  BY <1>2 DEF ReadMessage, Written, UserOp, MainFree, setMessageLocallyRead
<1>4. s \in Statements /\ s.msg = n
  BY DEF Update, Statements, Tables, Values, Statuses
<1>5. db \in [Keys -> Contents]
  BY DEF IInv, TypeOK
<1> HIDE DEF s
<1>6. \A key \in Keys, t \in Tables, m \in Messages :
        m # n => db'[key][t][m] = db[key][t][m]
  BY <1>3, <1>4, <1>5, EffectFacts
<1>7. Undated \in Keys
  BY KeysFit DEF IInv, TypeOK
<1>8. ProgFits'
  BY <1>1 DEF IInv, ProgFits, Subject
<1>9. ListPhase => ListPhase'
  BY <1>1 DEF ListPhase, EntryFits, Listed
<1>10. (DownloadPhase => DownloadPhase') /\ (ImportPhase => ImportPhase')
  BY <1>1 DEF DownloadPhase, ImportPhase, Listed
<1>11. ASSUME current # None, current.kind = "send", SendPhase PROVE SendPhase'
  <2>1. current.msg \in Messages /\ current.msg # n
    BY <1>2, <1>11, TasksAssumption DEF IInv, CurrentFits, TaskFits
  <2>2. /\ db'[Undated]["messages"][current.msg] = db[Undated]["messages"][current.msg]
        /\ db'[Undated]["supplementary"][current.msg]
             = db[Undated]["supplementary"][current.msg]
    BY <1>6, <1>7, <2>1 DEF Tables
  <2> QED BY <1>1, <1>11, <2>2 DEF SendPhase, SendCall, Shown, Then, Listed
<1>12. current # None => current.kind # "erase"
  BY <1>3 DEF IInv, CurrentFits
<1> QED BY <1>1, <1>8, <1>9, <1>10, <1>11, <1>12 DEF IInv, Phase

\* The server drops no message while a task runs.
LEMMA ServerProg ==
  ASSUME IInv, Next, ServerStep
  PROVE  ProgFits' /\ Phase'
<1>1. UNCHANGED <<current, prog, entry, todo, db, ok, result, erased, Dated, Undated>>
  BY SettingKept, ServerFrame DEF poolVars, taskVars, fileVars, historyVars, mainVars
<1>2. isds \in [Messages -> States] /\ (current # None => Working)
  BY DEF IInv, TypeOK, States, Working
<1>3. ASSUME current # None, current.kind # "erase", NEW m \in Messages, Listed(m)
      PROVE  Listed(m)'
  BY <1>2, <1>3, ServerSteps, SubjectAt DEF IInv
<1>4. \A m \in Messages : isds[m] = "gone" => isds'[m] = "gone"
  BY <1>2, ServerSteps DEF IInv
<1>5. \A m \in Sent : isds[m] = "absent" => isds'[m] = "absent"
  BY <1>2, TasksAssumption
     DEF ServerStep, Arrive, Deliver, ReadByRecipient, Expire, Becomes, Listed, Statuses
<1>6. ProgFits'
  BY <1>1 DEF IInv, ProgFits, Subject
<1>7. ASSUME current # None PROVE TaskFits(current, Dated, Undated)
  BY <1>7 DEF IInv, CurrentFits
<1>8. ASSUME current # None, current.kind = "list", ListPhase PROVE ListPhase'
  <2>1. \A e : EntryFits(e) => EntryFits(e)'
    BY <1>3, <1>8 DEF EntryFits
  <2> QED BY <1>1, <1>8, <2>1 DEF ListPhase
<1>9. ASSUME current # None, current.kind = "download", DownloadPhase
      PROVE  DownloadPhase'
  <2>1. current.msg \in Messages
    BY <1>7, <1>9 DEF TaskFits
  <2>2. Listed(current.msg) => Listed(current.msg)'
    BY <1>1, <1>3, <1>9, <2>1 DEF Listed
  <2> QED BY <1>1, <1>9, <2>2 DEF DownloadPhase
<1>10. ImportPhase => ImportPhase'
  BY <1>1 DEF ImportPhase
<1>11. ASSUME current # None, current.kind = "send", SendPhase PROVE SendPhase'
  <2>1. current.msg \in Messages /\ current.msg \in Sent
    BY <1>7, <1>11, TasksAssumption DEF TaskFits
  <2>2. Listed(current.msg) => Listed(current.msg)'
    BY <1>1, <1>3, <1>11, <2>1 DEF Listed
  <2> QED BY <1>1, <1>5, <1>11, <2>1, <2>2 DEF SendPhase, Then
<1>12. ASSUME current # None, current.kind = "erase", ErasePhase PROVE ErasePhase'
  <2>1. current.msg \in Messages
    BY <1>7, <1>12 DEF TaskFits
  <2> QED BY <1>1, <1>4, <1>12, <2>1 DEF ErasePhase, Then
<1> QED BY <1>1, <1>6, <1>8, <1>9, <1>10, <1>11, <1>12 DEF IInv, Phase

\* Every step leaves the running task with what fits, in its phase.
LEMMA ProgKept ==
  ASSUME IInv, Next
  PROVE  ProgFits' /\ Phase'
<1>1. CASE TaskStep
  BY <1>1, StatementProg, BeginProg, CommitProg, GetMessageListProg, NextEntryProg,
     EntryProg, ScheduleProg, GetStateProg, GetMessageProg, GetDeliveryProg, MarkProg,
     CreateProg, CreatedProg, EraseProg, EraseEndsProg, ImportProg, ImportedProg
     DEF TaskStep
<1>2. CASE TaskBegins
  BY <1>2, BeginsProg, CurrentKept DEF IInv
<1>3. CASE TaskEnds \/ Crash \/ Restart
  <2>1. current' = None
    BY <1>3 DEF TaskEnds, EndOfTask, Crash, Restart, Reopened
  <2> QED BY <2>1 DEF ProgFits, Phase
<1>4. CASE MainStep
  BY <1>4, MainFrame, SettingKept, ProgUnchanged DEF IInv
<1> QED BY <1>1, <1>2, <1>3, <1>4, ReadProg, ServerProg, NextSteps

-----------------------------------------------------------------------------
(* The files. *)

\* What a statement of a task is, and what it writes.
LEMMA WriteFacts ==
  ASSUME IInv, Next, Statement
  PROVE  LET b == Head(prog).body
             k == Head(prog).key
             s == Head(b)
         IN /\ k \in Keys /\ Body(b, Subject) /\ Subject \in Messages
            /\ CallFits(b, k, current.kind, Subject, Dated, Undated)
            /\ s \in Statements /\ s.msg = Subject
            /\ s.value = NoRow <=> s.verb = "DELETE"
            /\ current # None /\ TaskFits(current, Dated, Undated) /\ At("sql")
<1>1. /\ current # None /\ prog # <<>> /\ TaskFits(current, Dated, Undated)
      /\ StepFits(Head(prog), current.kind, Subject, Dated, Undated)
      /\ Dated \in Keys /\ Undated \in Keys
  BY TaskGiven DEF TaskStep
<1>2. Head(prog).at = "sql" /\ At("sql")
  BY DEF Statement, At
<1>3. CallFits(Head(prog).body, Head(prog).key, current.kind, Subject, Dated, Undated)
  BY <1>1, <1>2 DEF StepFits
<1>4. Head(prog).key \in Keys /\ Body(Head(prog).body, Subject)
  BY <1>1, <1>3 DEF CallFits
<1>5. /\ Head(Head(prog).body) \in Statements /\ Head(Head(prog).body).msg = Subject
      /\ Head(Head(prog).body).value = NoRow <=> Head(Head(prog).body).verb = "DELETE"
  BY <1>4, BodyHead
<1>6. Subject \in Messages
  BY <1>5 DEF Statements
<1> QED BY <1>1, <1>2, <1>3, <1>4, <1>5, <1>6

\* The statement that is executed and the file it is executed in.
Statmt == Head(Head(prog).body)
File == Head(prog).key

\* The statement the user's look at a message executes.
Look(m) == Update("supplementary", m, "seen")

\* The one statement of setMessageLocallyRead().
LEMMA LookFacts ==
  ASSUME NEW m \in Messages
  PROVE  /\ Look(m) \in Statements /\ Look(m).msg = m /\ Look(m).table = "supplementary"
         /\ Look(m).verb = "UPDATE" /\ Look(m).value = "seen" /\ Look(m).value # NoRow
BY NoRowAssumption DEF Look, Update, Statements, Tables, Values, Statuses

\* A statement is executed in a file, and outside a transaction on the disk too.
Executes(k, s) ==
  /\ db' = [db EXCEPT ![k] = Effect(db[k], s)]
  /\ disk' = IF k \in open THEN disk ELSE [disk EXCEPT ![k] = Effect(disk[k], s)]
  /\ open' = open

\* Everything that may happen to the files.
FilesStep ==
  \/ Statement /\ Executes(File, Statmt) /\ ~Conflict(db[File], Statmt)
  \/ \E m \in Messages \ Sent, k \in Keys : ReadMessage(m, k) /\ Executes(k, Look(m))
  \/ BeginTransaction /\ db' = db /\ disk' = disk /\ open' = open \cup {File}
  \/ \E k \in Keys : db' = db /\ disk' = [disk EXCEPT ![k] = db[k]] /\ open' = open \ {k}
  \/ Reopened /\ db' = disk /\ disk' = disk /\ open' = {}
  \/ UNCHANGED fileVars

\* A transaction is begun on one of the files.
LEMMA BeginKey ==
  ASSUME IInv, Next, BeginTransaction
  PROVE  File \in Keys
BY TaskGiven DEF TaskStep, BeginTransaction, At, StepFits, File

\* Every step does one of these to the files.
LEMMA FilesSteps ==
  ASSUME IInv, Next
  PROVE  FilesStep
<1>1. CASE Statement
  <2>1. UNCHANGED fileVars \/ (Executes(File, Statmt) /\ ~Conflict(db[File], Statmt))
    BY <1>1, StatementFacts DEF Executes, File, Statmt, fileVars
  <2> QED BY <1>1, <2>1 DEF FilesStep
<1>2. CASE BeginTransaction
  BY <1>2 DEF BeginTransaction, FilesStep, File
<1>3. CASE CommitTransactions
  <2>1. used \subseteq Keys
    BY DEF IInv, TypeOK
  <2> QED BY <1>3, <2>1 DEF CommitTransactions, FilesStep, fileVars
<1>4. CASE ReadStep
  <2>1. PICK m \in Messages \ Sent, k \in Keys : ReadMessage(m, k)
    BY <1>4 DEF ReadStep
  <2>2. Executes(k, Look(m))
    BY <2>1 DEF ReadMessage, Written, Executes, Look, setMessageLocallyRead
  <2> QED BY <2>1, <2>2 DEF FilesStep
<1>5. CASE Reopened
  BY <1>5 DEF Reopened, FilesStep
<1>6. CASE UNCHANGED fileVars
  BY <1>6 DEF FilesStep
<1> QED BY <1>1, <1>2, <1>3, <1>4, <1>5, <1>6, FilesFrame

\* What is executed leaves the other files and rows alone.
LEMMA ExecutesFacts ==
  ASSUME IInv, NEW k \in Keys, NEW s \in Statements, Executes(k, s)
  PROVE  /\ db' \in [Keys -> Contents] /\ disk' \in [Keys -> Contents]
         /\ db'[k] = Effect(db[k], s) /\ db[k] \in Contents
         /\ disk'[k] = (IF k \in open THEN disk[k] ELSE Effect(db[k], s))
         /\ \A q \in Keys : q # k => db'[q] = db[q] /\ disk'[q] = disk[q]
         /\ open' = open
<1>1. /\ db \in [Keys -> Contents] /\ disk \in [Keys -> Contents]
      /\ k \notin open => disk[k] = db[k]
  BY DEF IInv, TypeOK, Connected
<1>2. Effect(db[k], s) \in Contents /\ Effect(disk[k], s) \in Contents
  BY <1>1, EffectFacts
<1> QED BY <1>1, <1>2 DEF Executes

\* Outside a transaction the connections show what is on the disk.
LEMMA ConnectedKept ==
  ASSUME IInv, Next
  PROVE  Connected' /\ db' \in [Keys -> Contents] /\ disk' \in [Keys -> Contents]
         /\ open' \subseteq Keys
<1>1. /\ db \in [Keys -> Contents] /\ disk \in [Keys -> Contents] /\ open \subseteq Keys
      /\ Connected
  BY DEF IInv, TypeOK
<1>2. ASSUME NEW k \in Keys, NEW s \in Statements, Executes(k, s)
      PROVE  Connected' /\ db' \in [Keys -> Contents] /\ disk' \in [Keys -> Contents]
             /\ open' \subseteq Keys
  BY <1>1, <1>2, ExecutesFacts DEF Connected
<1>3. CASE Statement /\ Executes(File, Statmt)
  BY <1>2, <1>3, WriteFacts DEF File, Statmt
<1>4. CASE \E m \in Messages, k \in Keys : Executes(k, Look(m))
  BY <1>2, <1>4, LookFacts
<1>5. CASE BeginTransaction /\ db' = db /\ disk' = disk /\ open' = open \cup {File}
  BY <1>1, <1>5, BeginKey DEF Connected
<1>6. ASSUME NEW k \in Keys, db' = db, disk' = [disk EXCEPT ![k] = db[k]], open' = open \ {k}
      PROVE  Connected' /\ db' \in [Keys -> Contents] /\ disk' \in [Keys -> Contents]
             /\ open' \subseteq Keys
  BY <1>1, <1>6 DEF Connected
<1>7. CASE db' = disk /\ disk' = disk /\ open' = {}
  BY <1>1, <1>7 DEF Connected
<1>8. CASE UNCHANGED fileVars
  BY <1>1, <1>8 DEF Connected, fileVars
<1> QED BY <1>3, <1>4, <1>5, <1>6, <1>7, <1>8, FilesSteps DEF FilesStep

\* A statement keeps the envelopes of received messages, and all content, in
\* the file of the dated messages.
LEMMA HomeStep ==
  ASSUME IInv, Next, Statement, NEW c \in Contents, NEW m \in Messages,
         HomeIn(c, File, m)
  PROVE  HomeIn(Effect(c, Statmt), File, m)
<1> DEFINE b == Head(prog).body
           s == Head(b)
<1>1. /\ CallFits(b, File, current.kind, Subject, Dated, Undated) /\ Body(b, Subject)
      /\ s \in Statements /\ s.msg = Subject /\ (s.value = NoRow <=> s.verb = "DELETE")
  BY WriteFacts DEF File
<1>2. s = b[1] /\ 1 \in DOMAIN b
  BY <1>1, BodyHead
<1>3. /\ "messages" \in Tables /\ "raw" \in Tables
      /\ s.verb \in {"INSERT", "REPLACE", "UPDATE", "DELETE"}
  BY <1>1 DEF Tables, Statements
<1>4. Effect(c, s)["messages"][m] # NoRow => File = Dated \/ (File = Undated /\ m \in Sent)
  <2>1. CASE c["messages"][m] # NoRow
    BY <2>1 DEF HomeIn
  <2>2. CASE c["messages"][m] = NoRow /\ s.table = "messages" /\ s.msg = m /\ s.verb = "INSERT"
    BY <1>1, <1>2, <2>2 DEF CallFits
  <2>3. CASE c["messages"][m] = NoRow /\ ~(s.table = "messages" /\ s.msg = m /\ s.verb = "INSERT")
    <3>1. s.table = "messages" => s.verb # "REPLACE"
      BY <1>1, <1>2 DEF Body
    <3> QED BY <1>1, <1>3, <2>3, <3>1, EffectRows
  <2> QED BY <2>1, <2>2, <2>3
<1>5. Effect(c, s)["raw"][m] # NoRow => File = Dated
  <2>1. CASE c["raw"][m] # NoRow
    BY <2>1 DEF HomeIn
  <2>2. CASE c["raw"][m] = NoRow /\ File # Dated
    <3>1. s.table = "raw" => s.verb = "DELETE"
      BY <1>1, <1>2, <2>2 DEF CallFits
    <3> QED BY <1>1, <1>3, <2>2, <3>1, EffectRows
  <2> QED BY <2>1, <2>2
<1> QED BY <1>4, <1>5 DEF HomeIn, Statmt

\* Every step keeps envelopes and content in the files they belong to.
LEMMA HomeKept ==
  ASSUME IInv, Next
  PROVE  AtHome'
<1>1. UNCHANGED <<Dated, Undated>>
  BY SettingKept
<1> DEFINE Good == \A k \in Keys, m \in Messages : HomeIn(db'[k], k, m) /\ HomeIn(disk'[k], k, m)
<1>2. Good => AtHome'
  BY <1>1 DEF AtHome, HomeIn
<1>3. /\ \A k \in Keys, m \in Messages : HomeIn(db[k], k, m) /\ HomeIn(disk[k], k, m)
      /\ db \in [Keys -> Contents] /\ disk \in [Keys -> Contents]
  BY DEF IInv, AtHome, TypeOK
<1>4. CASE Statement /\ Executes(File, Statmt)
  <2>1. File \in Keys /\ Statmt \in Statements
    BY <1>4, WriteFacts DEF File, Statmt
  <2>2. \A m \in Messages : HomeIn(Effect(db[File], Statmt), File, m)
    BY <1>3, <1>4, <2>1, HomeStep
  <2>3. Good
    BY <1>3, <1>4, <2>1, <2>2, ExecutesFacts
  <2> QED BY <1>2, <2>3
<1>5. ASSUME NEW n \in Messages, NEW q \in Keys, Executes(q, Look(n))
      PROVE  AtHome'
  <2>1. \A t \in {"messages", "raw"}, m \in Messages :
          Effect(db[q], Look(n))[t][m] = db[q][t][m]
    BY <1>3, LookFacts, EffectRows DEF Tables
  <2>2. \A m \in Messages : HomeIn(Effect(db[q], Look(n)), q, m)
    BY <1>3, <2>1 DEF HomeIn
  <2>3. Good
    BY <1>3, <1>5, <2>2, LookFacts, ExecutesFacts
  <2> QED BY <1>2, <2>3
<1>6. ASSUME NEW q \in Keys, db' = db, disk' = [disk EXCEPT ![q] = db[q]]
      PROVE  AtHome'
  BY <1>2, <1>3, <1>6
<1>7. CASE disk' = disk /\ db' \in {db, disk}
  BY <1>2, <1>3, <1>7
<1> QED BY <1>4, <1>5, <1>6, <1>7, FilesSteps DEF FilesStep, fileVars

-----------------------------------------------------------------------------
(* Marks and erasures. *)

\* A mark that is set is touched only by the erasure of its message.
LEMMA MarkStep ==
  ASSUME IInv, Next, Statement, Executes(File, Statmt), ~Conflict(db[File], Statmt),
         NEW m \in marked
  PROVE  /\ db'[Dated]["supplementary"][m] = "seen"
         /\ disk'[Dated]["supplementary"][m] = "seen"
<1> DEFINE b == Head(prog).body
           s == Head(b)
<1>1. /\ CallFits(b, File, current.kind, Subject, Dated, Undated) /\ Body(b, Subject)
      /\ s \in Statements /\ s.msg = Subject /\ current # None /\ File \in Keys
  BY WriteFacts DEF File
<1>2. s = b[1] /\ 1 \in DOMAIN b /\ Statmt = s
  BY <1>1, BodyHead DEF Statmt
<1>3. /\ m \in Messages /\ Dated \in Keys /\ "supplementary" \in Tables
      /\ db[Dated]["supplementary"][m] = "seen" /\ disk[Dated]["supplementary"][m] = "seen"
      /\ db[Dated] \in Contents
  BY KeysFit DEF IInv, TypeOK, MarksBoth, Tables
<1>4. "seen" # NoRow
  BY NoRowAssumption DEF Values
<1>5. current.kind = "erase" => Subject # m
  BY <1>1 DEF IInv, CurrentFits, QueuesFit, Subject
<1> HIDE DEF b, s
<1>6. CASE File # Dated
  BY <1>1, <1>2, <1>3, <1>6, ExecutesFacts
<1>7. CASE File = Dated
  <2>1. ~(s.table = "supplementary" /\ s.msg = m)
    <3> SUFFICES ASSUME s.table = "supplementary", s.msg = m PROVE FALSE
      OBVIOUS
    <3>1. s.verb \in {"INSERT", "DELETE"}
      BY <1>1, <1>2 DEF Body
    <3>2. s.verb # "INSERT"
      BY <1>2, <1>3, <1>4, <1>7 DEF Conflict
    <3>3. "supplementary" \in Kept
      BY DEF Kept
    <3> QED BY <1>1, <1>2, <1>5, <1>7, <3>1, <3>2, <3>3 DEF CallFits
  <2>2. Effect(db[Dated], s)["supplementary"][m] = db[Dated]["supplementary"][m]
    BY <1>1, <1>3, <2>1, EffectFacts
  <2> QED BY <1>1, <1>2, <1>3, <1>7, <2>2, ExecutesFacts
<1> QED BY <1>6, <1>7

\* Every step keeps the marks, on the connections and on the disk.
LEMMA MarksBothKept ==
  ASSUME IInv, Next
  PROVE  MarksBoth'
<1>1. UNCHANGED Dated /\ Dated \in Keys
  BY SettingKept, KeysFit DEF IInv, TypeOK
<1>2. \A m \in marked : /\ m \in Messages
                        /\ db[Dated]["supplementary"][m] = "seen"
                        /\ disk[Dated]["supplementary"][m] = "seen"
  BY DEF IInv, TypeOK, MarksBoth
<1>3. db \in [Keys -> Contents] /\ disk \in [Keys -> Contents]
  BY DEF IInv, TypeOK
<1>4. CASE ReadStep
  <2>1. PICK n \in Messages \ Sent, k \in Keys : ReadMessage(n, k)
    BY <1>4 DEF ReadStep
  <2>2. /\ Executes(k, Look(n)) /\ ShownIn(n, k)
        /\ marked' = IF k \notin open THEN marked \cup {n} ELSE marked
    BY <2>1 DEF ReadMessage, Written, Executes, Look, setMessageLocallyRead
  <2>3. k = Dated
    BY <2>2, ShownHome DEF IInv
  <2>4. \A m \in Messages : Effect(db[k], Look(n))["supplementary"][m]
                             = IF m = n THEN "seen" ELSE db[k]["supplementary"][m]
    <3>1. db[k]["supplementary"][n] # NoRow
      BY <2>2 DEF ShownIn, Shown
    <3> DEFINE s == Look(n)
    <3>2. /\ s \in Statements /\ s.msg = n /\ s.table = "supplementary"
          /\ s.verb = "UPDATE" /\ s.value = "seen"
      BY LookFacts
    <3>3. db[k] \in Contents /\ "supplementary" \in Tables
      BY <1>3 DEF Tables
    <3> HIDE DEF s
    <3>4. Left(db[k], s) = "seen"
      BY <3>1, <3>2 DEF Left
    <3>5. \A m \in Messages : Effect(db[k], s)["supplementary"][m]
                             = IF m = n THEN "seen" ELSE db[k]["supplementary"][m]
      BY <3>2, <3>3, <3>4, EffectFacts
    <3> QED BY <3>5 DEF s
  <2>5. /\ db'[k] = Effect(db[k], Look(n))
        /\ disk'[k] = IF k \in open THEN disk[k] ELSE Effect(db[k], Look(n))
    BY <2>2, LookFacts, ExecutesFacts
  <2> QED BY <1>1, <1>2, <2>2, <2>3, <2>4, <2>5 DEF MarksBoth
<1>5. CASE ~ReadStep
  <2>1. marked' \subseteq marked
    <3>1. MainStep => marked' \subseteq marked
      BY DEF MainStep, Synchronise, EraseReturns, DownloadSelected, EraseMessage,
         SendMessage, CollectSendMessageStatus, ImportZfo, MainSays, historyVars
    <3>2. Crash \/ Restart => marked' = marked
      BY DEF Crash, Restart, Reopened
    <3> QED BY <1>5, <3>1, <3>2, NextSteps, TaskFrame, StartFrame, ServerFrame
        DEF historyVars
  <2>2. CASE Statement /\ Executes(File, Statmt) /\ ~Conflict(db[File], Statmt)
    BY <1>1, <2>1, <2>2, MarkStep DEF MarksBoth
  <2>3. ASSUME NEW q \in Keys, db' = db, disk' = [disk EXCEPT ![q] = db[q]]
        PROVE  MarksBoth'
    BY <1>1, <1>2, <1>3, <2>1, <2>3 DEF MarksBoth
  <2>4. CASE disk' = disk /\ db' \in {db, disk}
    BY <1>1, <1>2, <2>1, <2>4 DEF MarksBoth
  <2> QED BY <1>5, <2>2, <2>3, <2>4, FilesSteps DEF FilesStep, fileVars, ReadStep
<1> QED BY <1>4, <1>5

\* What is erased grows only at the end of an erasure from the server and a
\* file that reports success.
LEMMA ErasedSteps ==
  ASSUME IInv, Next
  PROVE  \/ erased' \subseteq erased
         \/ /\ EraseEnds /\ current.kind = "erase" /\ db' = db /\ disk' = disk
            /\ erased' = erased \cup {<<current.msg, current.key>>}
            /\ isds[current.msg] = "gone" /\ Erased(db[current.key], current.msg)
            /\ current.msg \in Messages /\ current.key \in Keys \ open
<1>1. CASE EraseEnds
  <2>1. /\ current # None /\ TaskFits(current, Dated, Undated)
        /\ Dated \in Keys /\ Undated \in Keys
    BY <1>1, TaskGiven DEF TaskStep
  <2>2. current.kind = "erase"
    BY <1>1, <2>1, KindAt DEF EraseEnds, IInv, Codes, TaskFits, Tasks
  <2>3. CASE ~(ok /\ At("erasedIsds") /\ current.key \notin open)
    BY <1>1, <2>3 DEF EraseEnds
  <2>4. CASE ok /\ At("erasedIsds") /\ current.key \notin open
    <3>1. isds[current.msg] = "gone" /\ Erased(db[current.key], current.msg)
      BY <2>1, <2>2, <2>4 DEF IInv, Phase, ErasePhase, At, Code, Then
    <3>2. current.msg \in Messages /\ current.key \in Keys
      BY <2>1, <2>2 DEF TaskFits
    <3>3. /\ db' = db /\ disk' = disk
          /\ erased' = erased \cup {<<current.msg, current.key>>}
      BY <1>1, <2>4 DEF EraseEnds, fileVars
    <3> QED BY <1>1, <2>2, <2>4, <3>1, <3>2, <3>3
  <2> QED BY <2>3, <2>4
<1>2. CASE ImportSingle
  BY <1>2 DEF ImportSingle
<1>3. TaskStep => EraseEnds \/ ImportSingle \/ erased' = erased
  BY DEF TaskStep, Statement, BeginTransaction, CommitTransactions, GetMessageList,
       NextEntry, Entry, Schedule, GetState, GetMessage, GetDelivery, MarkAsDownloaded,
       CreateMessage, Created, EraseFromIsds, Imported, UnchangedButProg
<1>4. Crash \/ Restart => erased' = erased
  BY DEF Crash, Restart, Reopened
<1> QED BY <1>1, <1>2, <1>3, <1>4, NextSteps, MainFrame, ReadFrame, StartFrame, ServerFrame
    DEF historyVars

\* What is remembered as erased, the server does not have.
LEMMA ErasedGoneKept ==
  ASSUME IInv, Next
  PROVE  ErasedGone'
<1>1. isds \in [Messages -> States] /\ \A x \in erased : x[1] \in Messages
  BY DEF IInv, TypeOK, States
<1>2. \A m \in Messages : isds[m] = "gone" => isds'[m] = "gone"
  BY <1>1, ServerSteps DEF IInv
<1>3. \A x \in erased : isds'[x[1]] = "gone"
  BY <1>1, <1>2 DEF IInv, ErasedGone
<1> QED BY <1>2, <1>3, ErasedSteps DEF ErasedGone

\* No task inserts an envelope of a message into a file from which it was
\* erased.
LEMMA ErasedStep ==
  ASSUME IInv, Next, Statement, NEW x \in erased, File = x[2], Statmt.msg = x[1],
         Statmt.table = "messages"
  PROVE  Statmt.verb \in {"UPDATE", "DELETE"}
<1> DEFINE b == Head(prog).body
           s == Head(b)
<1>1. /\ CallFits(b, File, current.kind, Subject, Dated, Undated) /\ Body(b, Subject)
      /\ s \in Statements /\ s.msg = Subject /\ current # None /\ File \in Keys
      /\ TaskFits(current, Dated, Undated) /\ At("sql")
  BY WriteFacts DEF File
<1>2. s = b[1] /\ 1 \in DOMAIN b /\ Statmt = s
  BY <1>1, BodyHead DEF Statmt
<1>3. ~Listed(Subject) /\ x = <<Subject, File>>
  BY <1>1, <1>2 DEF IInv, TypeOK, ErasedGone, Listed, Statuses
<1> HIDE DEF b, s
<1>4. s.verb \in {"INSERT", "UPDATE", "DELETE"}
  BY <1>1, <1>2 DEF Body, Statements
<1>5. s.verb # "INSERT"
  <2>1. CASE current.kind = "list"
    BY <1>1, <1>3, <2>1, EntryAt DEF IInv, EntryFits, Subject
  <2>2. CASE current.kind = "download"
    BY <1>1, <1>3, <2>2 DEF IInv, Phase, DownloadPhase, At, Code, Subject
  <2>3. CASE current.kind = "send"
    BY <1>1, <1>3, <2>3 DEF IInv, Phase, SendPhase, At, Code, Subject
  <2>4. CASE current.kind = "importMessage"
    BY <1>1, <1>3, <2>4 DEF IInv, Phase, ImportPhase, At, Code, Subject, Imports
  <2>5. CASE current.kind \in {"erase", "importDelivery"}
    BY <1>1, <1>2, <2>5 DEF CallFits, Has
  <2> QED BY <1>1, <2>1, <2>2, <2>3, <2>4, <2>5 DEF TaskFits, Tasks
<1> QED BY <1>2, <1>4, <1>5

\* Every step keeps what was erased out of its file.
LEMMA ErasedKept ==
  ASSUME IInv, Next
  PROVE  ErasedStaysErased'
<1>1. \A x \in erased : /\ x = <<x[1], x[2]>> /\ x[1] \in Messages /\ x[2] \in Keys
                        /\ db[x[2]]["messages"][x[1]] = NoRow
                        /\ disk[x[2]]["messages"][x[1]] = NoRow
  BY DEF IInv, TypeOK, ErasedStaysErased, Row
<1>2. /\ db \in [Keys -> Contents] /\ disk \in [Keys -> Contents]
      /\ \A k \in Keys \ open : db[k] = disk[k]
  BY DEF IInv, TypeOK, Connected
<1> DEFINE Good == \A x \in erased : /\ db'[x[2]]["messages"][x[1]] = NoRow
                                     /\ disk'[x[2]]["messages"][x[1]] = NoRow
<1>3. Good => ErasedStaysErased'
  <2> SUFFICES ASSUME Good, NEW x \in erased'
               PROVE  /\ db'[x[2]]["messages"][x[1]] = NoRow
                      /\ disk'[x[2]]["messages"][x[1]] = NoRow
    BY DEF ErasedStaysErased, Row
  <2>1. CASE x \in erased
    BY <2>1
  <2>2. CASE x \notin erased
    <3>1. /\ x = <<current.msg, current.key>> /\ db' = db /\ disk' = disk
          /\ Erased(db[current.key], current.msg) /\ current.key \in Keys \ open
      BY <2>2, ErasedSteps
    <3>2. /\ db[x[2]]["messages"][x[1]] = NoRow
          /\ db[x[2]] = disk[x[2]]
      BY <1>2, <3>1 DEF Erased, Tables
    <3> QED BY <3>1, <3>2
  <2> QED BY <2>1, <2>2
<1>4. CASE Statement /\ Executes(File, Statmt)
  <2>1. /\ File \in Keys /\ Statmt \in Statements
        /\ Statmt.value = NoRow <=> Statmt.verb = "DELETE"
    BY <1>4, WriteFacts DEF File, Statmt
  <2>2. ASSUME NEW x \in erased, File = x[2]
        PROVE  Effect(db[File], Statmt)["messages"][x[1]] = NoRow
    <3>1. db[File] \in Contents /\ "messages" \in Tables /\ x[1] \in Messages
      BY <1>1, <1>2, <2>1 DEF Tables
    <3>2. CASE Statmt.msg = x[1] /\ Statmt.table = "messages"
      BY <1>1, <1>4, <2>1, <2>2, <3>1, <3>2, ErasedStep, EffectRows
    <3>3. CASE ~(Statmt.msg = x[1] /\ Statmt.table = "messages")
      BY <1>1, <2>1, <2>2, <3>1, <3>3, EffectRows
    <3> QED BY <3>2, <3>3
  <2>3. Good
    BY <1>1, <1>4, <2>1, <2>2, ExecutesFacts
  <2> QED BY <1>3, <2>3
<1>5. ASSUME NEW n \in Messages, NEW q \in Keys, Executes(q, Look(n))
      PROVE  ErasedStaysErased'
  <2>1. \A m \in Messages : Effect(db[q], Look(n))["messages"][m] = db[q]["messages"][m]
    BY <1>2, LookFacts, EffectRows DEF Tables
  <2>2. Good
    BY <1>1, <1>5, <2>1, LookFacts, ExecutesFacts
  <2> QED BY <1>3, <2>2
<1>6. ASSUME NEW q \in Keys, db' = db, disk' = [disk EXCEPT ![q] = db[q]]
      PROVE  ErasedStaysErased'
  BY <1>1, <1>2, <1>3, <1>6
<1>7. CASE disk' = disk /\ db' \in {db, disk}
  BY <1>1, <1>3, <1>7
<1> QED BY <1>4, <1>5, <1>6, <1>7, FilesSteps DEF FilesStep, fileVars

-----------------------------------------------------------------------------
(* Envelopes and their supplementary data. *)

\* One statement of a call leaves the message shown, or to be mended by the
\* rest of the call.
LEMMA MendStep ==
  ASSUME NEW c \in Contents, NEW m \in Messages, NEW b, Body(b, m),
         VisibleIn(c, m) \/ Mends(b), ~Conflict(c, Head(b))
  PROVE  /\ Len(b) = 1 => VisibleIn(Effect(c, Head(b)), m)
         /\ Len(b) # 1 => VisibleIn(Effect(c, Head(b)), m) \/ Mends(Tail(b))
<1> DEFINE s == Head(b)
           d == Effect(c, s)
           e == Tail(b)
           last == b[Len(b)]
<1>1. /\ s = b[1] /\ 1 \in DOMAIN b /\ s \in Statements /\ s.msg = m
      /\ s.value = NoRow <=> s.verb = "DELETE"
      /\ b \in Seq(Statements) /\ Len(b) \in Nat \ {0} /\ DOMAIN b = 1 .. Len(b)
  BY BodyHead
<1>2. "messages" \in Tables /\ "supplementary" \in Tables
  BY DEF Tables
<1>3. Len(b) # 1 =>
        /\ e[Len(e)] = last /\ Head(e) = b[2] /\ 2 \in DOMAIN b
  <2> SUFFICES ASSUME Len(b) # 1 PROVE e[Len(e)] = last /\ Head(e) = b[2] /\ 2 \in DOMAIN b
    OBVIOUS
  <2>1. b # <<>> /\ e \in Seq(Statements) /\ Len(e) = Len(b) - 1
        /\ \A i \in DOMAIN e : i + 1 \in DOMAIN b /\ e[i] = b[i + 1]
    BY <1>1, TailFacts
  <2> HIDE DEF e
  <2>2. e # <<>> /\ Len(e) \in DOMAIN e /\ 1 \in DOMAIN e /\ Head(e) = e[1]
    BY <1>1, <2>1
  <2>3. Len(e) + 1 = Len(b) /\ e[Len(e)] = b[Len(e) + 1] /\ e[1] = b[1 + 1] /\ 1 + 1 \in DOMAIN b
    BY <1>1, <2>1, <2>2
  <2> QED BY <2>2, <2>3
<1>4. /\ s.table = "messages" => s.verb # "REPLACE"
      /\ s.table = "supplementary" => s.verb \in {"INSERT", "DELETE"}
      /\ s.table = "messages" /\ s.verb = "INSERT" =>
           Len(b) # 1 /\ b[2].table = "supplementary" /\ b[2].verb = "INSERT"
      /\ s.table = "supplementary" /\ s.verb = "DELETE" =>
           last.table = "messages" /\ last.verb = "DELETE"
  <2>1. 1 + 1 \in DOMAIN b => Len(b) # 1
    BY <1>1
  <2> QED BY <1>1, <2>1 DEF Body
<1>5. Len(b) = 1 => last = s
  BY <1>1
<1>6. s.verb \in {"INSERT", "REPLACE", "UPDATE", "DELETE"}
  BY <1>1 DEF Statements
<1> HIDE DEF s, e, last
<1>7. CASE s.table = "supplementary" /\ s.verb = "INSERT"
  <2>1. VisibleIn(d, m)
    BY <1>1, <1>2, <1>7, EffectRows DEF VisibleIn
  <2> QED BY <2>1 DEF s, d
<1>8. CASE last.table = "messages" /\ last.verb = "DELETE"
  <2>1. Len(b) # 1 => Mends(e)
    BY <1>3, <1>8 DEF Mends
  <2>2. Len(b) = 1 => VisibleIn(d, m)
    BY <1>1, <1>2, <1>5, <1>8, EffectRows DEF VisibleIn
  <2> QED BY <2>1, <2>2 DEF s, d, e
<1>9. CASE /\ ~(s.table = "supplementary" /\ s.verb = "INSERT")
           /\ ~(last.table = "messages" /\ last.verb = "DELETE")
  <2>1. VisibleIn(c, m)
    BY <1>9 DEF Mends, s, last
  <2>2. d["supplementary"][m] = c["supplementary"][m]
    BY <1>1, <1>2, <1>4, <1>9, EffectRows
  <2>3. CASE s.table = "messages" /\ s.verb = "INSERT"
    <3>1. Len(b) # 1 /\ Mends(e)
      BY <1>3, <1>4, <2>3 DEF Mends
    <3> QED BY <3>1 DEF s, d, e
  <2>4. CASE ~(s.table = "messages" /\ s.verb = "INSERT")
    <3>1. d["messages"][m] # NoRow => c["messages"][m] # NoRow
      BY <1>1, <1>2, <1>4, <1>6, <2>4, EffectRows
    <3>2. VisibleIn(d, m)
      BY <2>1, <2>2, <3>1 DEF VisibleIn
    <3> QED BY <3>2 DEF s, d
  <2> QED BY <2>3, <2>4
<1> QED BY <1>7, <1>8, <1>9

\* A call that is refused for a violated key was about a message that is shown.
LEMMA RefusedShown ==
  ASSUME NEW c \in Contents, NEW m \in Messages, NEW b, Body(b, m),
         VisibleIn(c, m) \/ Mends(b), Conflict(c, Head(b))
  PROVE  VisibleIn(c, m)
<1>1. Head(b) = b[1] /\ 1 \in DOMAIN b /\ Head(b).msg = m /\ Head(b).verb = "INSERT"
      /\ c[Head(b).table][m] # NoRow
  BY BodyHead DEF Conflict
<1>2. CASE Head(b).table = "supplementary"
  BY <1>1, <1>2 DEF VisibleIn
<1>3. CASE b[Len(b)].table = "messages" /\ b[Len(b)].verb = "DELETE"
  BY <1>1, <1>3 DEF Body
<1> QED BY <1>1, <1>2, <1>3 DEF Mends

\* Every step keeps a message shown or has it mended by the call under way.
LEMMA VisibleKept ==
  ASSUME IInv, Next, Connected'
  PROVE  VisibleBoth'
<1> DEFINE Mending(m, k) == /\ At("sql") /\ Head(prog).key = k
                            /\ Head(Head(prog).body).msg = m /\ Mends(Head(prog).body)
<1>1. \A m \in Messages \ torn, k \in Keys :
        /\ VisibleIn(db[k], m) \/ Mending(m, k)
        /\ k \in open => VisibleIn(disk[k], m)
        /\ k \notin open => disk[k] = db[k]
  BY DEF IInv, VisibleBoth, Connected
<1>2. db \in [Keys -> Contents] /\ disk \in [Keys -> Contents] /\ open \subseteq Keys
  BY DEF IInv, TypeOK
<1>3. torn \subseteq torn'
  <2>1. TaskStep => torn \subseteq torn'
    BY DEF TaskStep, Statement, BeginTransaction, CommitTransactions, GetMessageList,
       NextEntry, Entry, Schedule, GetState, GetMessage, GetDelivery, MarkAsDownloaded,
       CreateMessage, Created, EraseFromIsds, EraseEnds, ImportSingle, Imported,
       UnchangedButProg
  <2>2. Crash \/ Restart => torn \subseteq torn'
    BY DEF Crash, Restart
  <2> QED BY <2>1, <2>2, NextSteps, MainFrame, ReadFrame, StartFrame, ServerFrame
      DEF historyVars
\* Nothing waits to be mended, and no row is written.
<1>4. ASSUME ~At("sql"), db' = db, disk' = disk \/ BeginTransaction,
             open' = open \/ BeginTransaction
      PROVE  VisibleBoth'
  <2>1. \A m \in Messages \ torn', k \in Keys : VisibleIn(db[k], m) /\ VisibleIn(disk[k], m)
    BY <1>1, <1>3, <1>4
  <2>2. disk' = disk
    BY <1>4 DEF BeginTransaction
  <2> QED BY <1>4, <2>1, <2>2 DEF VisibleBoth
<1>5. CASE CommitTransactions
  <2>1. ~At("sql")
    BY <1>5 DEF CommitTransactions, At
  <2>2. \A m \in Messages \ torn', k \in Keys : VisibleIn(db[k], m) /\ VisibleIn(disk[k], m)
    BY <1>1, <1>3, <2>1
  <2>3. \A k \in Keys : db'[k] = db[k] /\ disk'[k] \in {disk[k], db[k]}
    BY <1>2, <1>5 DEF CommitTransactions, fileVars
  <2> QED BY <2>2, <2>3 DEF VisibleBoth
<1>6. CASE Statement
  <2> DEFINE b == Head(prog).body
             n == Subject
  <2>1. /\ File \in Keys /\ Body(b, n) /\ n \in Messages /\ Head(b) \in Statements
        /\ Head(b).msg = n /\ At("sql") /\ prog \in Seq(Steps) /\ prog # <<>>
    BY <1>6, WriteFacts, TaskGiven DEF File, TaskStep
  <2>2. /\ open' = open /\ current' = current /\ current # None
        /\ \/ /\ ~Conflict(db[File], Head(b)) /\ torn' = torn /\ Executes(File, Head(b))
              /\ prog' = IF Len(b) = 1 THEN Tail(prog)
                         ELSE Call(File, Tail(b)) \o Tail(prog)
           \/ /\ prog' = Tail(prog) /\ UNCHANGED <<db, disk>>
              /\ Conflict(db[File], Head(b)) \/ n \in torn'
    BY <1>6, <2>1, StatementFacts DEF File, Executes
  <2> HIDE DEF b, n
  <2>3. \A m \in Messages \ torn, k \in Keys :
          k # File \/ m # n => VisibleIn(db[k], m) /\ VisibleIn(disk[k], m)
    BY <1>1, <2>1 DEF File, b
  <2>4. n \notin torn => VisibleIn(db[File], n) \/ Mends(b)
    BY <1>1, <2>1 DEF b
  <2>5. CASE /\ ~Conflict(db[File], Head(b)) /\ torn' = torn /\ Executes(File, Head(b))
             /\ prog' = IF Len(b) = 1 THEN Tail(prog)
                        ELSE Call(File, Tail(b)) \o Tail(prog)
    <3>1. /\ db'[File] = Effect(db[File], Head(b)) /\ db[File] \in Contents
          /\ disk'[File] = (IF File \in open THEN disk[File] ELSE db'[File])
          /\ \A q \in Keys : q # File => db'[q] = db[q] /\ disk'[q] = disk[q]
      BY <2>1, <2>5, ExecutesFacts
    <3>2. \A m \in Messages : m # n => /\ VisibleIn(db[File], m) => VisibleIn(db'[File], m)
                                       /\ VisibleIn(disk[File], m) => VisibleIn(disk'[File], m)
      <4>1. \A m \in Messages, t \in Tables : m # n => db'[File][t][m] = db[File][t][m]
        BY <2>1, <3>1, EffectFacts
      <4>2. \A m \in Messages : m # n => (VisibleIn(db[File], m) => VisibleIn(db'[File], m))
        BY <4>1 DEF VisibleIn, Tables
      <4>3. File \notin open => disk[File] = db[File]
        BY <2>1 DEF IInv, Connected
      <4> QED BY <3>1, <4>2, <4>3
    <3>3. \A m \in Messages \ torn, k \in Keys :
            k # File \/ m # n => VisibleIn(db'[k], m) /\ VisibleIn(disk'[k], m)
      BY <2>3, <3>1, <3>2
    <3>4. n \notin torn /\ File \in open => VisibleIn(disk'[File], n)
      BY <1>1, <2>1, <3>1
    <3>5. n \notin torn => /\ Len(b) = 1 => VisibleIn(db'[File], n)
                           /\ Len(b) # 1 => VisibleIn(db'[File], n) \/ Mends(Tail(b))
      BY <2>1, <2>4, <2>5, <3>1, MendStep
    <3>6. ASSUME Len(b) # 1
          PROVE  /\ At("sql")' /\ Head(prog').key = File
                 /\ Head(Head(prog').body).msg = n /\ Head(prog').body = Tail(b)
      <4> DEFINE c == Tail(b)
                 r == Tail(prog)
      <4>1. /\ c \in Seq(Statements) /\ r \in Seq(Steps) /\ prog' = Call(File, c) \o r
            /\ Body(c, n)
        <5>1. b \in Seq(Statements) /\ b # <<>>
          BY <2>1 DEF Body
        <5>2. c \in Seq(Statements) /\ r \in Seq(Steps)
          BY <2>1, <5>1, TailFacts
        <5>3. Body(c, n)
          BY <2>1, <3>6, BodyTail
        <5> QED BY <2>5, <3>6, <5>2, <5>3
      <4> HIDE DEF c, r
      <4>2. /\ prog' # <<>> /\ Head(prog').at = "sql" /\ Head(prog').key = File
            /\ Head(prog').body = c
        BY <2>1, <4>1, CallFacts
      <4>3. Head(c).msg = n
        BY <4>1, BodyHead
      <4> QED BY <2>2, <4>2, <4>3 DEF c, At
    <3> QED BY <2>2, <2>5, <3>3, <3>4, <3>5, <3>6 DEF VisibleBoth
  <2>6. CASE /\ prog' = Tail(prog) /\ UNCHANGED <<db, disk>>
             /\ Conflict(db[File], Head(b)) \/ n \in torn'
    <3>1. n \notin torn' => VisibleIn(db[File], n)
      <4>1. db[File] \in Contents
        BY <1>2, <2>1
      <4> QED BY <1>3, <2>1, <2>4, <2>6, <4>1, RefusedShown
    <3>2. \A m \in Messages \ torn', k \in Keys : VisibleIn(db[k], m)
      BY <1>3, <2>3, <3>1
    <3> QED BY <1>1, <1>3, <2>2, <2>6, <3>2 DEF VisibleBoth
  <2> QED BY <2>2, <2>5, <2>6
<1>7. CASE ReadStep
  <2>1. PICK n \in Messages \ Sent, k \in Keys : ReadMessage(n, k)
    BY <1>7 DEF ReadStep
  <2>2. Executes(k, Look(n))
    BY <2>1 DEF ReadMessage, Written, Executes, Look, setMessageLocallyRead
  <2>3. UNCHANGED <<current, prog, torn>>
    BY <1>7, ReadFrame DEF poolVars, taskVars
  <2> DEFINE s == Look(n)
  <2>4. /\ s \in Statements /\ s.table = "supplementary" /\ s.verb = "UPDATE"
        /\ s.value = NoRow <=> s.verb = "DELETE"
    BY LookFacts
  <2> HIDE DEF s
  <2>5. /\ db'[k] = Effect(db[k], s) /\ db[k] \in Contents
        /\ disk'[k] = (IF k \in open THEN disk[k] ELSE Effect(db[k], s))
        /\ \A q \in Keys : q # k => db'[q] = db[q] /\ disk'[q] = disk[q]
        /\ open' = open
    BY <2>2, <2>4, ExecutesFacts DEF s
  <2>6. \A m \in Messages : VisibleIn(db[k], m) => VisibleIn(Effect(db[k], s), m)
    <3>1. \A m \in Messages : /\ db[k]["supplementary"][m] # NoRow
                                  => Effect(db[k], s)["supplementary"][m] # NoRow
                              /\ Effect(db[k], s)["messages"][m] = db[k]["messages"][m]
      BY <2>4, <2>5, EffectRows DEF Tables
    <3> QED BY <3>1 DEF VisibleIn
  <2>7. \A m \in Messages \ torn', q \in Keys :
          /\ VisibleIn(db'[q], m) \/ Mending(m, q)
          /\ q \in open' => VisibleIn(disk'[q], m)
    BY <1>1, <2>3, <2>5, <2>6
  <2> QED BY <2>3, <2>7 DEF VisibleBoth, At
<1>8. CASE MainStep \/ ServerStep
  <2>1. UNCHANGED <<current, prog, torn, db, disk, open>>
    BY <1>8, MainFrame, ServerFrame DEF poolVars, taskVars, fileVars, historyVars
  <2> QED BY <1>1, <2>1 DEF VisibleBoth, At
<1>9. CASE Crash \/ Restart
  <2>1. db' = disk /\ open' = {}
    BY <1>9 DEF Crash, Restart, Reopened
  <2>2. \A m \in Messages \ torn', k \in Keys : ~Mending(m, k)
    BY <1>9 DEF Crash, Restart, Working, At
  <2>3. \A m \in Messages \ torn', k \in Keys : VisibleIn(disk[k], m)
    BY <1>1, <1>3, <2>2
  <2> QED BY <2>1, <2>3 DEF VisibleBoth
<1>10. CASE TaskBegins \/ TaskEnds
  <2>1. ~At("sql") /\ UNCHANGED <<db, disk, open>>
    BY <1>10, StartFrame DEF TaskBegins, TaskEnds, Take, At, fileVars
  <2> QED BY <1>4, <2>1
<1>11. CASE TaskStep /\ ~Statement /\ ~CommitTransactions
  <2>1. ~At("sql")
    BY <1>11 DEF TaskStep, BeginTransaction, GetMessageList,
       NextEntry, Entry, Schedule, GetState, GetMessage, GetDelivery, MarkAsDownloaded,
       CreateMessage, Created, EraseFromIsds, EraseEnds, ImportSingle, Imported, At
  <2>2. BeginTransaction \/ UNCHANGED fileVars
    BY <1>11 DEF TaskStep, GetMessageList,
       NextEntry, Entry, Schedule, GetState, GetMessage, GetDelivery, MarkAsDownloaded,
       CreateMessage, Created, EraseFromIsds, EraseEnds, ImportSingle, Imported,
       UnchangedButProg
  <2> QED BY <1>4, <2>1, <2>2 DEF BeginTransaction, fileVars
<1> QED BY <1>5, <1>6, <1>7, <1>8, <1>9, <1>10, <1>11, NextSteps

-----------------------------------------------------------------------------
(* Types. *)

\* Types: the pool.
LEMMA PoolTyped ==
  ASSUME IInv, Next, CurrentFits', PoolFits'
  PROVE  PoolTypeOK'
<1>1. /\ hi' \in Seq(Items) /\ lo' \in Seq(Items) /\ single' \in Items \cup {None}
  BY TasksAssumption DEF PoolFits
<1>2. current' \in Items \cup {None}
  BY TasksAssumption DEF CurrentFits, TaskFits
<1>3. /\ state \in {"PENDING", "EXECUTING", "FINISHED"} /\ terminating \in BOOLEAN
      /\ emitted \in {"none", "finished", "assignedFinished"}
  BY DEF IInv, TypeOK, PoolTypeOK
<1> DEFINE Good == /\ state' \in {"PENDING", "EXECUTING", "FINISHED"}
                   /\ terminating' \in BOOLEAN
                   /\ emitted' \in {"none", "finished", "assignedFinished"}
<1>4. TaskBegins \/ TaskEnds => Good
  BY <1>3 DEF TaskBegins, TaskEnds, Take, EndOfTask
<1>5. MainStep => Good
  BY <1>3 DEF MainStep, Synchronise, EraseReturns, DownloadSelected, EraseMessage,
     SendMessage, CollectSendMessageStatus, ImportZfo, PutLo, PutHi, PutSingle,
     VacateSingle, poolVars
<1>6. Crash \/ Restart => Good
  BY DEF Crash, Restart, Reopened
<1>7. TaskStep \/ ReadStep \/ ServerStep => Good
  BY <1>3, TaskFrame, ReadFrame, ServerFrame DEF poolVars
<1> QED BY <1>1, <1>2, <1>4, <1>5, <1>6, <1>7, NextSteps DEF PoolTypeOK

\* The two variables of the list.
LEMMA ListTyped ==
  ASSUME IInv, Next
  PROVE  /\ todo' \in Seq(Entries) /\ entry' \in Entries \cup {None}
         /\ listed' \subseteq Entries
<1>1. todo \in Seq(Entries) /\ entry \in Entries \cup {None} /\ listed \subseteq Entries
  BY DEF IInv, TypeOK
<1>2. CASE GetMessageList
  <2>1. todo' \in Answers(current.arg) \/ todo' = <<>>
    BY <1>2 DEF GetMessageList
  <2>2. todo' \in Seq(Entries)
    <3>1. isds \in [Messages -> States] /\ ServerFits
      BY DEF IInv, TypeOK, States
    <3>2. todo' \in Answers(current.arg) => todo' \in Seq(Entries)
      BY <3>1, AnswersFit
    <3>3. <<>> \in Seq(Entries)
      OBVIOUS
    <3> QED BY <2>1, <3>2, <3>3
  <2> QED BY <1>1, <1>2, <2>2 DEF GetMessageList
<1>3. CASE NextEntry
  <2>1. CASE todo = <<>>
    BY <1>1, <1>3, <2>1 DEF NextEntry
  <2>2. CASE todo # <<>>
    <3>1. Head(todo) \in Entries /\ Tail(todo) \in Seq(Entries)
      BY <1>1, <2>2
    <3> QED BY <1>1, <1>3, <2>2, <3>1 DEF NextEntry
  <2> QED BY <2>1, <2>2
<1>4. TaskStep => GetMessageList \/ NextEntry \/ UNCHANGED <<todo, entry, listed>>
  BY DEF TaskStep, Statement, BeginTransaction, CommitTransactions,
       Entry, Schedule, GetState, GetMessage, GetDelivery, MarkAsDownloaded,
       CreateMessage, Created, EraseFromIsds, EraseEnds, ImportSingle, Imported,
       UnchangedButProg
<1>5. CASE Crash \/ Restart
  <2>1. todo' = <<>> /\ entry' = None /\ listed' = {}
    BY <1>5 DEF Crash, Restart, Reopened
  <2> QED BY <2>1
<1>6. MainStep => UNCHANGED <<todo, entry, listed>>
  BY DEF MainStep, Synchronise, EraseReturns, DownloadSelected, EraseMessage, SendMessage,
         CollectSendMessageStatus, ImportZfo, MainSays, taskVars, historyVars
<1>7. ReadStep => UNCHANGED <<todo, entry, listed>>
  BY DEF ReadStep, ReadMessage, taskVars
<1>8. TaskBegins \/ TaskEnds \/ ServerStep => UNCHANGED <<todo, entry, listed>>
  BY StartFrame, ServerFrame DEF taskVars, historyVars
<1> QED BY <1>1, <1>2, <1>3, <1>4, <1>5, <1>6, <1>7, <1>8, NextSteps

\* Types: the transactions of the list and the result of the last call.
LEMMA UsedTyped ==
  ASSUME IInv, Next
  PROVE  used' \subseteq Keys /\ ok' \in BOOLEAN
<1>1. used \subseteq Keys /\ ok \in BOOLEAN
  BY DEF IInv, TypeOK
<1>2. CASE BeginTransaction
  BY <1>1, <1>2, BeginKey DEF BeginTransaction, File
<1>3. CASE CommitTransactions
  BY <1>1, <1>3 DEF CommitTransactions
<1>4. CASE GetMessageList
  BY <1>1, <1>4 DEF GetMessageList
<1>5. CASE Statement
  BY <1>1, <1>5 DEF Statement
<1>6. TaskStep => \/ BeginTransaction \/ CommitTransactions \/ GetMessageList \/ Statement
                  \/ UNCHANGED <<used, ok>>
  BY DEF TaskStep, NextEntry,
       Entry, Schedule, GetState, GetMessage, GetDelivery, MarkAsDownloaded,
       CreateMessage, Created, EraseFromIsds, EraseEnds, ImportSingle, Imported,
       UnchangedButProg
<1>7. CASE Crash \/ Restart
  BY <1>7 DEF Crash, Restart, Reopened
<1>8. MainStep \/ ReadStep \/ ServerStep \/ TaskBegins \/ TaskEnds => UNCHANGED <<used, ok>>
  BY MainFrame, ReadFrame, StartFrame, ServerFrame DEF taskVars
<1> QED BY <1>1, <1>2, <1>3, <1>4, <1>5, <1>6, <1>7, <1>8, NextSteps

\* Types: the results and the reports.
LEMMA ResultTyped ==
  ASSUME IInv, Next
  PROVE  result' \in Results \cup {None} /\ reported' \subseteq Sent
<1>1. result \in Results \cup {None} /\ reported \subseteq Sent
  BY DEF IInv, TypeOK, Results
<1>2. TaskStep => CreateMessage \/ Created \/ EraseFromIsds \/ EraseEnds \/ result' = result
  BY DEF TaskStep, Statement, BeginTransaction, CommitTransactions, GetMessageList,
       NextEntry, Entry, Schedule, GetState, GetMessage, GetDelivery, MarkAsDownloaded,
       ImportSingle, Imported, UnchangedButProg, mainVars
<1>3. CreateMessage \/ Created \/ EraseFromIsds \/ EraseEnds => result' \in Results \cup {None}
  BY <1>1 DEF CreateMessage, Created, EraseFromIsds, EraseEnds, Results
<1>4. CASE TaskStep
  BY <1>1, <1>2, <1>3, <1>4, TaskFrame
<1>5. CASE TaskEnds
  <2>1. current.kind = "send" => current.msg \in Sent
    BY <1>5 DEF TaskEnds, IInv, CurrentFits, TaskFits
  <2> QED BY <1>1, <1>5, <2>1, StartFrame DEF TaskEnds
<1>6. CASE MainStep
  <2>1. reported' \subseteq reported
    BY <1>6 DEF MainStep, Synchronise, EraseReturns, DownloadSelected, EraseMessage,
       SendMessage, CollectSendMessageStatus, ImportZfo, MainSays
  <2> QED BY <1>1, <1>6, <2>1, MainFrame
<1>7. CASE Crash \/ Restart
  BY <1>7 DEF Crash, Restart, Reopened, Results
<1>8. CASE TaskBegins
  BY <1>1, <1>8 DEF TaskBegins, mainVars
<1> QED BY <1>1, <1>4, <1>5, <1>6, <1>7, <1>8, NextSteps, ReadFrame, ServerFrame DEF mainVars

\* Types: the histories.
LEMMA HistoryTyped ==
  ASSUME IInv, Next
  PROVE  /\ erased' \subseteq Messages \X Keys
         /\ marked' \subseteq Messages /\ torn' \subseteq Messages
<1>1. erased \subseteq Messages \X Keys /\ marked \subseteq Messages /\ torn \subseteq Messages
  BY DEF IInv, TypeOK
<1>2. erased' \subseteq Messages \X Keys
  BY <1>1, ErasedSteps
<1>3. marked' \subseteq Messages
  <2>1. ReadStep => marked' \subseteq Messages
    BY <1>1 DEF ReadStep, ReadMessage
  <2>2. MainStep => marked' \subseteq marked
    BY DEF MainStep, Synchronise, EraseReturns, DownloadSelected, EraseMessage,
       SendMessage, CollectSendMessageStatus, ImportZfo, MainSays, historyVars
  <2>3. Crash \/ Restart => marked' = marked
    BY DEF Crash, Restart, Reopened
  <2> QED BY <1>1, <2>1, <2>2, <2>3, NextSteps, TaskFrame, StartFrame, ServerFrame
      DEF historyVars
<1>4. torn' \subseteq Messages
  <2>1. ASSUME At("sql") PROVE Head(Head(prog).body).msg \in Messages
    <3>1. StepFits(Head(prog), current.kind, Subject, Dated, Undated) /\ Head(prog).at = "sql"
      BY <2>1, RestFits DEF At, IInv, ProgFits
    <3>2. Body(Head(prog).body, Subject)
      BY <3>1 DEF StepFits, CallFits
    <3>3. Head(Head(prog).body) \in Statements
      BY <3>2, BodyHead
    <3> QED BY <3>3 DEF Statements
  <2>2. Statement \/ Crash \/ Restart => torn' \subseteq Messages
    BY <1>1, <2>1 DEF Statement, Crash, Restart
  <2>3. TaskStep => Statement \/ torn' = torn
    BY DEF TaskStep, BeginTransaction, CommitTransactions, GetMessageList,
       NextEntry, Entry, Schedule, GetState, GetMessage, GetDelivery, MarkAsDownloaded,
       CreateMessage, Created, EraseFromIsds, EraseEnds, ImportSingle, Imported,
       UnchangedButProg
  <2> QED BY <1>1, <2>2, <2>3, NextSteps, MainFrame, ReadFrame, StartFrame, ServerFrame
      DEF historyVars
<1> QED BY <1>2, <1>3, <1>4

\* Types: the counters of the bounds.
LEMMA CountsTyped ==
  ASSUME IInv, Next
  PROVE  /\ clean' \in BOOLEAN /\ faults' \in 0 .. MaxFaults /\ ops' \in 0 .. MaxOps
<1>1. /\ clean \in BOOLEAN /\ faults \in 0 .. MaxFaults /\ ops \in 0 .. MaxOps
      /\ MaxFaults \in Nat /\ MaxOps \in Nat
  BY TasksAssumption DEF IInv, TypeOK
<1> DEFINE Good == clean' \in BOOLEAN /\ faults' \in 0 .. MaxFaults
<1>2. Fault \/ NoFault \/ UNCHANGED <<faults, clean>> => Good
  <2>1. Fault => faults < MaxFaults /\ faults' = faults + 1 /\ clean' = FALSE
    BY DEF Fault
  <2>2. Fault => Good
    <3>1. faults < MaxFaults /\ faults' = faults + 1 => faults' \in 0 .. MaxFaults
      BY <1>1
    <3>2. clean' = FALSE => clean' \in BOOLEAN
      OBVIOUS
    <3> QED BY <2>1, <3>1, <3>2
  <2> QED BY <1>1, <2>2 DEF NoFault
<1>3. TaskStep => Fault \/ NoFault \/ GetMessageList
  BY DEF TaskStep, Statement, BeginTransaction, CommitTransactions,
       NextEntry, Entry, Schedule, GetState, GetMessage, GetDelivery, MarkAsDownloaded,
       CreateMessage, Created, EraseFromIsds, EraseEnds, ImportSingle, Imported
<1>4. GetMessageList => Good
  BY <1>1, <1>2 DEF GetMessageList
<1>5. CASE TaskStep
  BY <1>1, <1>2, <1>3, <1>4, <1>5, TaskFrame
<1>6. CASE MainStep
  <2>1. UNCHANGED <<faults, clean>> /\ (ops' = ops \/ (ops < MaxOps /\ ops' = ops + 1))
    BY <1>6 DEF MainStep, Synchronise, EraseReturns, DownloadSelected, EraseMessage,
       SendMessage, CollectSendMessageStatus, ImportZfo, MainSays, historyVars, UserOp
  <2> QED BY <1>1, <1>2, <2>1
<1>7. CASE ReadStep
  <2>1. UNCHANGED <<faults, clean>> /\ ops < MaxOps /\ ops' = ops + 1
    BY <1>7 DEF ReadStep, ReadMessage, UserOp
  <2> QED BY <1>1, <1>2, <2>1
<1>8. CASE Crash \/ Restart
  BY <1>1, <1>2, <1>8 DEF Crash, Restart, Reopened
<1>9. CASE TaskBegins \/ TaskEnds \/ ServerStep
  BY <1>1, <1>2, <1>9, StartFrame, ServerFrame DEF historyVars, mainVars
<1> QED BY <1>5, <1>6, <1>7, <1>8, <1>9, NextSteps

\* Every step keeps the types.
LEMMA TypeKept ==
  ASSUME IInv, Next, CurrentFits', PoolFits', ProgFits'
  PROVE  TypeOK'
<1>1. prog' \in Seq(Steps)
  <2>1. <<>> \in Seq(Steps)
    OBVIOUS
  <2> QED BY <2>1 DEF CurrentFits, ProgFits, AllFit
<1>2. isds' \in [Messages -> States]
  <2>1. isds \in [Messages -> States]
    BY DEF IInv, TypeOK, States
  <2>2. CASE Messages # {}
    BY <2>1, <2>2, ServerSteps DEF IInv
  <2>3. CASE Messages = {}
    <3>1. ~ServerStep
      BY <2>3 DEF ServerStep
    <3>2. \/ isds' = isds
          \/ \E status : isds' = [isds EXCEPT ![current.msg] = status]
      BY <3>1, TaskIsds, NextSteps, MainFrame, ReadFrame, StartFrame
         DEF MarkAsDownloaded, CreateMessage, EraseFromIsds, Crash, Restart, Reopened
    <3> QED BY <2>1, <2>3, <3>2
  <2> QED BY <2>2, <2>3
<1>3. setting' \in Settings
  BY SettingKept DEF IInv, TypeOK
<1> QED
  BY <1>1, <1>2, <1>3, PoolTyped, ListTyped, UsedTyped, ResultTyped, HistoryTyped,
     CountsTyped, ConnectedKept
  DEF TypeOK, States

-----------------------------------------------------------------------------
(* The invariant, and what follows from it. *)

\* The invariant holds at first.
LEMMA InitHolds == Init => IInv
<1> SUFFICES ASSUME Init PROVE IInv
  OBVIOUS
<1>1. Empty \in Contents /\ \A t \in Tables, m \in Messages : Empty[t][m] = NoRow
  BY DEF Empty, Contents
<1>2. /\ <<>> \in Seq(Items) /\ <<>> \in Seq(Steps) /\ <<>> \in Seq(Entries)
      /\ \A i \in DOMAIN <<>> : FALSE
  OBVIOUS
<1>3. /\ hi = <<>> /\ lo = <<>> /\ single = None /\ current = None /\ prog = <<>>
      /\ setting \in Settings /\ isds = [m \in Messages |-> "absent"]
      /\ db = [k \in Keys |-> Empty] /\ disk = db
      /\ open = {} /\ erased = {} /\ marked = {} /\ torn = {}
  BY DEF Init, PoolInit
<1>4. db \in [Keys -> Contents] /\ disk \in [Keys -> Contents]
  BY <1>1, <1>3
<1>5. faults \in 0 .. MaxFaults /\ ops \in 0 .. MaxOps
  BY TasksAssumption DEF Init
<1>6. PoolTypeOK
  BY <1>2 DEF Init, PoolInit, PoolTypeOK
<1>7. isds \in [Messages -> Statuses \cup {"absent", "gone"}]
  BY <1>3
<1>8. /\ ok \in BOOLEAN /\ todo \in Seq(Entries) /\ entry \in Entries \cup {None}
      /\ used \subseteq Keys /\ result \in Results \cup {None} /\ reported \subseteq Sent
      /\ listed \subseteq Entries /\ clean \in BOOLEAN
  BY <1>2 DEF Init
<1>9. TypeOK
  BY <1>2, <1>3, <1>4, <1>5, <1>6, <1>7, <1>8 DEF TypeOK
<1>10. QueuesFit /\ CurrentFits /\ SendsOnce
  BY <1>2, <1>3 DEF QueuesFit, CurrentFits, SendsOnce
<1>11. ProgFits /\ Phase
  BY <1>3 DEF ProgFits, Phase
<1>12. ServerFits /\ Connected
  BY <1>3 DEF ServerFits, Connected
<1>13. AtHome
  BY <1>1, <1>3 DEF AtHome, HomeIn, Tables
<1>14. MarksBoth /\ ErasedGone /\ ErasedStaysErased
  BY <1>3 DEF MarksBoth, ErasedGone, ErasedStaysErased
<1>15. VisibleBoth
  BY <1>1, <1>3 DEF VisibleBoth, VisibleIn, Tables
<1> QED BY <1>9, <1>10, <1>11, <1>12, <1>13, <1>14, <1>15 DEF IInv

\* A step that changes nothing keeps the invariant.
LEMMA Stutter == IInv /\ UNCHANGED vars => IInv'
<1> SUFFICES ASSUME IInv, UNCHANGED vars PROVE IInv'
  OBVIOUS
<1>1. UNCHANGED <<hi, lo, single, state, current, terminating, emitted, setting, isds, db,
                  disk, open, prog, ok, todo, entry, used, erased, marked, torn, listed,
                  clean, result, reported, ops, faults, Dated, Undated>>
  BY DEF vars, poolVars, fileVars, taskVars, historyVars, mainVars, Dated, Undated,
         secondaryKey
<1>2. TypeOK'
  BY <1>1 DEF IInv, TypeOK, PoolTypeOK
<1>3. QueuesFit' /\ CurrentFits' /\ SendsOnce'
  BY <1>1 DEF IInv, QueuesFit, CurrentFits, SendsOnce
<1>4. ProgFits' /\ Phase'
  BY <1>1, ProgUnchanged DEF IInv
<1>5. ServerFits' /\ Connected' /\ AtHome'
  BY <1>1 DEF IInv, ServerFits, Connected, AtHome, HomeIn
<1>6. MarksBoth' /\ ErasedGone' /\ ErasedStaysErased'
  BY <1>1 DEF IInv, MarksBoth, ErasedGone, ErasedStaysErased, Row
<1>7. VisibleBoth'
  BY <1>1 DEF IInv, VisibleBoth, At
<1> QED BY <1>2, <1>3, <1>4, <1>5, <1>6, <1>7 DEF IInv

\* Every step keeps the invariant.
LEMMA Inductive == IInv /\ [Next]_vars => IInv'
<1> SUFFICES ASSUME IInv, Next PROVE IInv'
  BY Stutter
<1>1. PoolFits' /\ CurrentFits' /\ SendsOnce'
  BY QueuesKept, CurrentKept, SendsKept DEF IInv
<1>2. ProgFits' /\ Phase'
  BY ProgKept
<1>3. ServerFits'
  BY ServerKept DEF IInv, TypeOK, States
<1>4. Connected' /\ AtHome'
  BY ConnectedKept, HomeKept
<1>5. MarksBoth' /\ ErasedGone' /\ ErasedStaysErased'
  BY MarksBothKept, ErasedGoneKept, ErasedKept
<1>6. VisibleBoth'
  BY <1>4, VisibleKept
<1>7. TypeOK'
  BY <1>1, <1>2, TypeKept
<1> QED BY <1>1, <1>2, <1>3, <1>4, <1>5, <1>6, <1>7 DEF IInv, PoolFits

\* The invariant of the module.
LEMMA Invariant == Spec => []IInv
BY InitHolds, Inductive, PTL DEF Spec

\* Whatever the tasks, the server, the user and failures do, the variables keep
\* their types: no entry, task or statement is made from a missing message.
THEOREM TypeCorrect == Spec => []TypeOK
<1>1. IInv => TypeOK
  BY DEF IInv
<1> QED BY <1>1, Invariant, PTL

\* What TaskEraseMessage has erased from the server and from a file stays
\* erased: no list, download or sending stores the envelope again.
THEOREM ErasureKept == Spec => []ErasedStaysErased
<1>1. IInv => ErasedStaysErased
  BY DEF IInv
<1> QED BY <1>1, Invariant, PTL

\* A mark set outside a transaction is on the disk for as long as the message is
\* not erased.
THEOREM MarkKept == Spec => []MarksKept
<1>1. IInv => MarksKept
  BY KeysFit DEF IInv, TypeOK, MarksBoth, MarksKept
<1> QED BY <1>1, Invariant, PTL

\* An envelope has its supplementary data unless the call that writes or
\* deletes it is under way or was cut short.
THEOREM VisibleAlways == Spec => []Visible
<1>1. IInv => Visible
  <2> SUFFICES ASSUME IInv, NEW m \in Messages, NEW k \in Keys,
                      Row(db, m, k) # NoRow, m \notin torn
               PROVE  \/ Shown(db[k], m)
                      \/ At("sql") /\ Head(prog).key = k /\ Head(Head(prog).body).msg = m
    BY DEF Visible
  <2> QED BY DEF IInv, VisibleBoth, VisibleIn, Row, Shown
<1> QED BY <1>1, Invariant, PTL

\* Content that is on the disk is taken from a file only while the user has the
\* message erased.
LEMMA ContentStep ==
  ASSUME IInv, Next, NEW m \in Messages, NEW k \in Keys, disk[k]["raw"][m] # NoRow
  PROVE  /\ db[k]["raw"][m] # NoRow /\ db'[k]["raw"][m] = NoRow => Erasing(m)
         /\ disk'[k]["raw"][m] = NoRow => Erasing(m) \/ db[k]["raw"][m] = NoRow
<1> DEFINE Good == /\ db[k]["raw"][m] # NoRow /\ db'[k]["raw"][m] = NoRow => Erasing(m)
                   /\ disk'[k]["raw"][m] = NoRow => Erasing(m) \/ db[k]["raw"][m] = NoRow
<1>1. /\ db \in [Keys -> Contents] /\ disk \in [Keys -> Contents] /\ "raw" \in Tables
      /\ k = Dated
  BY DEF IInv, TypeOK, AtHome, HomeIn, Tables
<1>2. CASE Statement /\ Executes(File, Statmt)
  <2> DEFINE b == Head(prog).body
  <2>1. /\ CallFits(b, File, current.kind, Subject, Dated, Undated) /\ Body(b, Subject)
        /\ Head(b) \in Statements /\ Head(b).msg = Subject /\ current # None /\ File \in Keys
        /\ Head(b).value = NoRow <=> Head(b).verb = "DELETE"
        /\ Head(b) = b[1] /\ 1 \in DOMAIN b /\ Statmt = Head(b)
    BY <1>2, WriteFacts, BodyHead DEF File, Statmt
  <2> DEFINE s == Head(b)
  <2> HIDE DEF b
  <2>2. CASE Erasing(m)
    BY <2>2
  <2>3. CASE ~Erasing(m)
    <3>1. ASSUME File = k, s.table = "raw", s.msg = m PROVE s.verb # "DELETE"
      <4>1. current.kind = "erase" => Subject # m
        BY <2>1, <2>3 DEF Erasing, Subject
      <4> QED BY <1>1, <2>1, <3>1, <4>1 DEF CallFits, Kept
    <3>2. File = k /\ db[k]["raw"][m] # NoRow => Effect(db[k], s)["raw"][m] # NoRow
      BY <1>1, <2>1, <3>1, EffectRows
    <3>3. /\ db'[k] = IF k = File THEN Effect(db[k], s) ELSE db[k]
          /\ disk'[k] = IF k = File /\ k \notin open THEN Effect(db[k], s) ELSE disk[k]
      BY <1>2, <2>1, ExecutesFacts
    <3> QED BY <3>2, <3>3
  <2> QED BY <2>2, <2>3
<1>3. ASSUME NEW n \in Messages, NEW q \in Keys, Executes(q, Look(n))
      PROVE  Good
  <2>1. Effect(db[q], Look(n))["raw"][m] = db[q]["raw"][m]
    BY <1>1, LookFacts, EffectRows
  <2>2. /\ db'[k] = IF k = q THEN Effect(db[q], Look(n)) ELSE db[k]
        /\ disk'[k] = IF k = q /\ k \notin open THEN Effect(db[q], Look(n)) ELSE disk[k]
    BY <1>3, LookFacts, ExecutesFacts
  <2> QED BY <2>1, <2>2
<1>4. ASSUME NEW q \in Keys, db' = db, disk' = [disk EXCEPT ![q] = db[q]]
      PROVE  Good
  BY <1>1, <1>4
<1>5. CASE disk' = disk /\ db' \in {db, disk}
  BY <1>5
<1>6. Good
  BY <1>2, <1>3, <1>4, <1>5, FilesSteps DEF FilesStep, fileVars
<1> QED BY <1>6

\* What ContentStep says of one step, of every step: lists, downloads, imports,
\* sendings and crashes take no stored content away.
THEOREM ContentKept == Spec => ContentOnlyErased
<1> DEFINE A == \A m \in Messages, k \in Keys :
                  disk[k]["raw"][m] # NoRow
                  => /\ db[k]["raw"][m] # NoRow /\ db'[k]["raw"][m] = NoRow => Erasing(m)
                     /\ disk'[k]["raw"][m] = NoRow => Erasing(m) \/ db[k]["raw"][m] = NoRow
<1>1. IInv /\ [Next]_vars => [A]_vars
  BY ContentStep
<1>2. Spec => [][A]_vars
  BY <1>1, Invariant, PTL DEF Spec
<1> QED BY <1>2 DEF ContentOnlyErased

\* What the end of an erasure or a sending reports, the server and the
\* database have.
LEMMA ErasedTrue ==
  ASSUME IInv, Next, At("erasedIsds") \/ At("erasedLocal"), prog' = <<>>
  PROVE  /\ result' \in {"DELETED_ISDS", "DELETED_ISDS_LOCAL"}
              => isds[current.msg] = "gone"
         /\ result' \in {"DELETED_LOCAL", "DELETED_ISDS_LOCAL"}
              => \A t \in Tables : db[current.key][t][current.msg] = NoRow
<1>1. current # None /\ prog # <<>> /\ TaskFits(current, Dated, Undated)
  BY DEF At, IInv, CurrentFits
<1>2. current.kind = "erase"
  BY <1>1, KindAt DEF IInv, Codes, TaskFits, Tasks
<1>3. /\ At("erasedIsds") => isds[current.msg] = "gone"
      /\ ok => Erased(db[current.key], current.msg)
  BY <1>1, <1>2 DEF IInv, Phase, ErasePhase, At, Code, Then
<1>4. CASE EraseEnds
  BY <1>3, <1>4 DEF EraseEnds, Erased
<1>5. CASE Crash \/ Restart
  <2>1. result' = None
    BY <1>5 DEF Crash, Restart, Reopened
  <2> QED BY <2>1, TasksAssumption DEF Results
<1>6. TaskStep => EraseEnds
  BY DEF TaskStep, Statement, BeginTransaction, CommitTransactions, GetMessageList,
       NextEntry, Entry, Schedule, GetState, GetMessage, GetDelivery, MarkAsDownloaded,
       CreateMessage, Created, EraseFromIsds, ImportSingle, Imported, At
<1>7. ~(TaskBegins \/ TaskEnds)
  BY <1>1 DEF TaskBegins, TaskEnds, Take
<1>8. MainStep \/ ReadStep \/ ServerStep => prog' = prog
  BY MainFrame, ReadFrame, ServerFrame DEF taskVars
<1> QED BY <1>1, <1>4, <1>5, <1>6, <1>7, <1>8, NextSteps

\* A sent message that is reported is at the server and shown.
LEMMA SentTrue ==
  ASSUME IInv, Next, NEW m \in reported' \ reported
  PROVE  Listed(m) /\ Shown(db[Undated], m)
<1>1. CASE TaskEnds
  <2>1. /\ current # None /\ prog = <<>> /\ current.kind = "send" /\ m = current.msg
        /\ result = "SM_SUCCESS"
    BY <1>1 DEF TaskEnds
  <2> QED BY <2>1 DEF IInv, Phase, SendPhase, Code, Then
<1>2. CASE MainStep
  <2>1. reported' \subseteq reported
    BY <1>2 DEF MainStep, Synchronise, EraseReturns, DownloadSelected, EraseMessage,
       SendMessage, CollectSendMessageStatus, ImportZfo, MainSays
  <2> QED BY <2>1
<1>3. CASE Crash \/ Restart
  BY <1>3 DEF Crash, Restart, Reopened
<1>4. CASE TaskBegins
  BY <1>4 DEF TaskBegins, mainVars
<1> QED BY <1>1, <1>2, <1>3, <1>4, NextSteps, TaskFrame, ReadFrame, ServerFrame DEF mainVars

\* An erasure or a sending is reported as done only when the server and the
\* database say so.
THEOREM ReportedTrue == Spec => ReportsTrue
<1> DEFINE A == (At("erasedIsds") \/ At("erasedLocal")) /\ prog' = <<>>
                => /\ result' \in {"DELETED_ISDS", "DELETED_ISDS_LOCAL"}
                      => isds[current.msg] = "gone"
                   /\ result' \in {"DELETED_LOCAL", "DELETED_ISDS_LOCAL"}
                      => \A t \in Tables : db[current.key][t][current.msg] = NoRow
           B == \A m \in reported' \ reported :
                  Listed(m) /\ Shown(db[secondaryKey(FALSE)], m)
<1>1. IInv /\ [Next]_vars => [A]_vars
  BY ErasedTrue
<1>2. IInv /\ [Next]_vars => [B]_vars
  BY SentTrue DEF Undated
<1>3. Spec => [][A]_vars /\ [][B]_vars
  BY <1>1, <1>2, Invariant, PTL DEF Spec
<1> QED BY <1>3 DEF ReportsTrue, EraseReported, SentReported

-----------------------------------------------------------------------------
(* What a list has done when it ends. *)

\* An entry is stored as the list gave it or later, and its undated row is gone.
Stored(e) ==
  /\ Row(db, e.msg, KeyOf(e.status)) # NoRow
  /\ Age[Row(db, e.msg, KeyOf(e.status))] >= Age[e.status]

Free(e) == KeyOf(e.status) = "year" => Row(db, e.msg, "invalid") = NoRow

Settled(e) == e.msg \in Messages /\ Stored(e) /\ Free(e)

\* No message is twice in a list, and the server is never behind its list.
TodoRight ==
  /\ \A i \in DOMAIN todo :
       /\ todo[i].msg # None => Age[isds[todo[i].msg]] >= Age[todo[i].status]
       /\ \A e \in listed : e.msg # todo[i].msg
  /\ \A i, j \in DOMAIN todo : todo[i].msg = todo[j].msg => i = j

InHand ==
  /\ entry \in listed
  /\ \A e \in listed : e.msg = entry.msg => e = entry
  /\ Age[isds[entry.msg]] >= Age[entry.status]

\* The entry is to be looked at, after the deletion of its undated row and the
\* begin of its transaction.
ToLook == Code("entry") \o Code("nextEntry")
ToBegin == Begin(KeyOf(entry.status)) \o ToLook

Looking ==
  /\ InHand
  /\ \A e \in listed : e # entry => Settled(e) /\ KeyOf(e.status) \in used
  /\ \E r \in {ToLook, ToBegin} :
       /\ r = ToLook => KeyOf(entry.status) \in used
       /\ \/ prog = r /\ Free(entry)
          \/ /\ prog # <<>> /\ Tail(prog) = r
             /\ Head(prog).at = "sql" /\ Head(prog).key = Undated
             /\ EraseCall(Head(prog).body, db[Undated], entry.msg)

\* A step that takes nothing of the entry back.
Harmless(x, status, key) ==
  \/ x.at \in {"schedule", "getState"}
  \/ /\ x.at = "sql"
     /\ \A i \in DOMAIN x.body : x.body[i].table = "messages" =>
          /\ x.body[i].verb \in {"INSERT", "UPDATE"}
          /\ x.body[i].value \in Statuses /\ Age[x.body[i].value] >= Age[status]
          /\ x.body[i].verb = "INSERT" => x.key = key

Ends(p, status, key) ==
  /\ p \in Seq(Steps) /\ p # <<>>
  /\ \A i \in DOMAIN p : IF i = Len(p) THEN p[i].at = "nextEntry"
                         ELSE Harmless(p[i], status, key)

\* The next statement stores the entry.
ComesNext ==
  /\ Head(prog).at = "sql" /\ Head(prog).key = KeyOf(entry.status)
  /\ Head(Head(prog).body).table = "messages"
  /\ Head(Head(prog).body).verb =
       IF Row(db, entry.msg, KeyOf(entry.status)) = NoRow THEN "INSERT" ELSE "UPDATE"

Storing ==
  /\ prog # <<>> /\ Ends(prog, entry.status, KeyOf(entry.status))
  /\ Head(prog).at # "nextEntry" => InHand
  /\ \A e \in listed :
       /\ e.msg \in Messages /\ KeyOf(e.status) \in used /\ Free(e)
       /\ Stored(e) \/ (e = entry /\ ComesNext)

Committing ==
  /\ prog = Code("commit")
  /\ \A e \in listed :
       Settled(e) /\ (KeyOf(e.status) \in used \/ KeyOf(e.status) \notin open)

\* A list that has its answer, with nothing failed since.
Lists ==
  current # None /\ current.kind = "list" /\ clean
  /\ prog \notin {<<>>, Code("getMessageList")}

ListRight == Lists => TodoRight /\ (Looking \/ Storing \/ Committing)

-----------------------------------------------------------------------------
(* What the steps of a list are about. *)

\* The ages of the three states are in their order.
LEMMA AgeFacts ==
  /\ \A status \in Statuses : Age[status] \in 0 .. 2
  /\ Age["posted"] = 0 /\ Age["delivered"] = 1 /\ Age["read"] = 2
BY DEF Age, Statuses

\* The file of an entry does not change, and it is one of the files.
LEMMA KeyKept ==
  ASSUME IInv, UNCHANGED setting
  PROVE  /\ \A status : KeyOf(status)' = KeyOf(status)
         /\ \A status : KeyOf(status) \in Keys
         /\ \A status : KeyOf(status) = "year" => Undated = "invalid"
         /\ Undated \in Keys /\ UNCHANGED Undated
<1>1. setting \in Settings
  BY DEF IInv, TypeOK
<1>2. \A status : KeyOf(status) \in Keys
  BY <1>1, KeysFit
<1>3. \A status : KeyOf(status) = "year" => Undated = "invalid"
  BY DEF KeyOf, secondaryKey, Undated
<1> QED BY <1>1, <1>2, <1>3, KeysFit DEF KeyOf, secondaryKey, Undated

\* The first of the steps that end a list's work on an entry.
LEMMA EndsFacts ==
  ASSUME NEW p, NEW status, NEW key, Ends(p, status, key)
  PROVE  /\ Head(p) \in Steps /\ Tail(p) \in Seq(Steps)
         /\ Head(p).at \in {"nextEntry", "schedule", "getState", "sql"}
         /\ Head(p).at # "nextEntry" =>
              Harmless(Head(p), status, key) /\ Ends(Tail(p), status, key)
<1>1. p \in Seq(Steps) /\ p # <<>>
  BY DEF Ends
<1>2. /\ Head(p) \in Steps /\ Head(p) = p[1] /\ Len(p) \in Nat \ {0} /\ DOMAIN p = 1 .. Len(p)
      /\ Tail(p) \in Seq(Steps) /\ Len(Tail(p)) = Len(p) - 1
      /\ \A i \in DOMAIN Tail(p) : i + 1 \in DOMAIN p /\ Tail(p)[i] = p[i + 1]
  BY <1>1, TailFacts
<1>3. Len(p) = 1 => Head(p).at = "nextEntry"
  BY <1>2 DEF Ends
<1>4. Len(p) # 1 => Harmless(Head(p), status, key)
  BY <1>2 DEF Ends
<1>5. Len(p) # 1 => Tail(p) # <<>>
  <2> DEFINE q == Tail(p)
  <2>1. q \in Seq(Steps) /\ Len(q) = Len(p) - 1 /\ Len(p) \in Nat
    BY <1>2
  <2> HIDE DEF q
  <2>2. Len(p) # 1 => q # <<>>
    BY <2>1
  <2> QED BY <2>2 DEF q
<1>6. \A i \in DOMAIN Tail(p) : i = Len(Tail(p)) <=> i + 1 = Len(p)
  BY <1>2
<1>7. Len(p) # 1 => Ends(Tail(p), status, key)
  BY <1>2, <1>5, <1>6 DEF Ends
<1> QED BY <1>2, <1>3, <1>4, <1>7 DEF Harmless

\* One more harmless step may come first.
LEMMA EndsMore ==
  ASSUME NEW q, NEW status, NEW key, Ends(q, status, key),
         NEW x \in Steps, Harmless(x, status, key)
  PROVE  Ends(<<x>> \o q, status, key)
<1>1. q \in Seq(Steps) /\ q # <<>>
  BY DEF Ends
<1> DEFINE p == <<x>> \o q
<1>2. /\ p \in Seq(Steps) /\ p # <<>> /\ p[1] = x /\ Len(p) = Len(q) + 1
      /\ DOMAIN p = 1 .. Len(p) /\ Len(q) \in Nat \ {0} /\ DOMAIN q = 1 .. Len(q)
      /\ \A i \in DOMAIN p : i # 1 => i - 1 \in DOMAIN q /\ p[i] = q[i - 1]
  BY <1>1
<1> HIDE DEF p
<1>3. Ends(p, status, key)
  BY <1>2 DEF Ends
<1> QED BY <1>3 DEF p

\* A call and code may come first.
LEMMA EndsCall ==
  ASSUME NEW q, NEW status, NEW key, Ends(q, status, key)
  PROVE  /\ Ends(Code("schedule") \o q, status, key)
         /\ Ends(Code("getState") \o q, status, key)
         /\ \A k \in Keys, body \in Seq(Statements) :
              Harmless(Head(Call(k, body)), status, key) =>
                Ends(Call(k, body) \o q, status, key)
<1>1. ASSUME NEW at \in {"schedule", "getState"}
      PROVE  Ends(Code(at) \o q, status, key)
  <2> DEFINE x == [at |-> at, key |-> None, body |-> <<>>]
  <2>1. <<>> \in Seq(Statements)
    OBVIOUS
  <2>2. x \in Steps /\ Harmless(x, status, key)
    BY <2>1 DEF Steps, Harmless
  <2>3. Code(at) = <<x>>
    BY DEF Code
  <2> HIDE DEF x
  <2> QED BY <2>2, <2>3, EndsMore
<1>2. ASSUME NEW k \in Keys, NEW body \in Seq(Statements),
             Harmless(Head(Call(k, body)), status, key)
      PROVE  Ends(Call(k, body) \o q, status, key)
  <2> DEFINE x == [at |-> "sql", key |-> k, body |-> body]
  <2>1. x \in Steps
    BY DEF Steps
  <2>2. Call(k, body) = <<x>>
    BY DEF Call
  <2> HIDE DEF x
  <2>3. Harmless(x, status, key)
    BY <1>2, <2>2
  <2> QED BY <2>1, <2>2, <2>3, EndsMore
<1> QED BY <1>1, <1>2

\* A call is harmless when its statements on envelopes are.
LEMMA CallHarmless ==
  ASSUME NEW k, NEW body, NEW status, NEW key,
         \A i \in DOMAIN body : body[i].table = "messages" =>
           /\ body[i].verb \in {"INSERT", "UPDATE"}
           /\ body[i].value \in Statuses /\ Age[body[i].value] >= Age[status]
           /\ body[i].verb = "INSERT" => k = key
  PROVE  Harmless(Head(Call(k, body)), status, key)
<1> DEFINE x == [at |-> "sql", key |-> k, body |-> body]
<1>1. Head(Call(k, body)) = x /\ x.at = "sql" /\ x.key = k /\ x.body = body
  BY DEF Call
<1> HIDE DEF x
<1> QED BY <1>1 DEF Harmless

\* The calls that store an entry, or a state, that is not older than the entry.
LEMMA CallsHarmless ==
  ASSUME NEW m \in Messages, NEW status \in Statuses, NEW value \in Statuses,
         Age[value] >= Age[status], NEW seen, NEW k, NEW key
  PROVE  /\ Harmless(Head(Call(key, insertMessageEnvelope(m, value, seen))), status, key)
         /\ Harmless(Head(Call(k, updateMessageEnvelope(m, value))), status, key)
         /\ Harmless(Head(Call(k, msgsUpdateMessageState(m, value))), status, key)
         /\ Harmless(Head(Call(k, insertOrUpdateMessageEvent(m))), status, key)
<1>1. Harmless(Head(Call(key, insertMessageEnvelope(m, value, seen))), status, key)
  <2> DEFINE b == insertMessageEnvelope(m, value, seen)
  <2>1. /\ DOMAIN b = 1 .. 3 /\ b[1] = Insert("messages", m, value)
        /\ b[2] = Insert("supplementary", m, seen)
        /\ b[3] = Replace("process_state", m, "unsettled")
    BY DEF insertMessageEnvelope
  <2> HIDE DEF b
  <2>2. \A i \in DOMAIN b : i = 1 \/ i = 2 \/ i = 3
    BY <2>1
  <2>3. \A i \in DOMAIN b : b[i].table = "messages" => b[i] = Insert("messages", m, value)
    BY <2>1, <2>2 DEF Insert, Replace
  <2>4. \A i \in DOMAIN b : b[i].table = "messages" =>
          /\ b[i].verb \in {"INSERT", "UPDATE"}
          /\ b[i].value \in Statuses /\ Age[b[i].value] >= Age[status]
          /\ b[i].verb = "INSERT" => key = key
    BY <2>3 DEF Insert
  <2>5. Harmless(Head(Call(key, b)), status, key)
    BY <2>4, CallHarmless
  <2> QED BY <2>5 DEF b
<1>2. ASSUME NEW s, s.table = "messages" => s = Update("messages", m, value)
      PROVE  Harmless(Head(Call(k, <<s>>)), status, key)
  <2> DEFINE b == <<s>>
  <2>1. \A i \in DOMAIN b : b[i] = s
    OBVIOUS
  <2> HIDE DEF b
  <2>2. \A i \in DOMAIN b : b[i].table = "messages" =>
          /\ b[i].verb \in {"INSERT", "UPDATE"}
          /\ b[i].value \in Statuses /\ Age[b[i].value] >= Age[status]
          /\ b[i].verb = "INSERT" => k = key
    BY <1>2, <2>1 DEF Update
  <2>3. Harmless(Head(Call(k, b)), status, key)
    BY <2>2, CallHarmless
  <2> QED BY <2>3 DEF b
<1>3. Replace("events", m, "data").table # "messages"
  BY DEF Replace
<1> QED BY <1>1, <1>2, <1>3 DEF updateMessageEnvelope, msgsUpdateMessageState,
       insertOrUpdateMessageEvent

-----------------------------------------------------------------------------
(* The main thread and the server do not disturb a list. *)

\* While a task runs, what the server has of a message only grows older.
LEMMA ServerGrows ==
  ASSUME IInv, ServerStep, current # None, NEW m \in Messages, Listed(m)
  PROVE  isds'[m] \in Statuses /\ Age[isds'[m]] >= Age[isds[m]]
<1>1. isds \in [Messages -> States] /\ isds[m] \in Statuses /\ Age[isds[m]] \in 0 .. 2
  BY AgeFacts DEF IInv, TypeOK, States, Listed
<1>2. PICK n \in Messages : Arrive(n) \/ Deliver(n) \/ ReadByRecipient(n) \/ Expire(n)
  BY DEF ServerStep
<1>3. ~Expire(n)
  BY DEF Expire, Working
<1>4. \/ isds[n] = "absent" /\ isds' = [isds EXCEPT ![n] = "delivered"]
      \/ isds[n] = "posted" /\ isds' = [isds EXCEPT ![n] = "delivered"]
      \/ isds[n] = "delivered" /\ isds' = [isds EXCEPT ![n] = "read"]
  BY <1>2, <1>3 DEF Arrive, Deliver, ReadByRecipient, Becomes
<1>5. "absent" \notin Statuses /\ "read" \in Statuses /\ "delivered" \in Statuses
  BY DEF Statuses
<1> QED BY <1>1, <1>4, <1>5, AgeFacts

\* What the other actors leave alone.
LEMMA OthersFrame ==
  MainStep \/ ReadStep \/ ServerStep =>
    UNCHANGED <<setting, current, prog, todo, entry, used, listed, clean, open>>
<1>1. MainStep => UNCHANGED <<listed, clean>>
  BY DEF MainStep, Synchronise, EraseReturns, DownloadSelected, EraseMessage, SendMessage,
         CollectSendMessageStatus, ImportZfo, MainSays, historyVars
<1>2. ReadStep => UNCHANGED <<listed, clean>>
  BY DEF ReadStep, ReadMessage
<1>3. ServerStep => UNCHANGED <<setting, current, prog, todo, entry, used, listed, clean, open>>
  BY ServerFrame DEF poolVars, fileVars, taskVars, historyVars
<1>4. ReadStep => UNCHANGED <<setting, current, prog, todo, entry, used, open>>
  BY ReadFrame DEF poolVars, taskVars
<1> QED BY <1>1, <1>2, <1>3, <1>4, MainFrame

\* The other actors write no envelope and bring no row.
LEMMA OthersRows ==
  ASSUME IInv, MainStep \/ ReadStep \/ ServerStep, NEW k \in Keys, NEW m \in Messages
  PROVE  /\ Row(db', m, k) = Row(db, m, k)
         /\ \A t \in Tables : db[k][t][m] = NoRow => db'[k][t][m] = NoRow
<1>1. CASE MainStep \/ ServerStep
  <2>1. UNCHANGED db
    BY <1>1, MainFrame, ServerFrame DEF fileVars
  <2> QED BY <2>1 DEF Row
<1>2. CASE ReadStep
  <2>1. PICK n \in Messages \ Sent, q \in Keys : ReadMessage(n, q)
    BY <1>2 DEF ReadStep
  <2>2. Executes(q, Look(n))
    BY <2>1 DEF ReadMessage, Written, Executes, Look, setMessageLocallyRead
  <2>3. /\ db'[q] = Effect(db[q], Look(n)) /\ db[q] \in Contents
        /\ q # k => db'[k] = db[k]
    BY <2>2, LookFacts, ExecutesFacts
  <2>4. "messages" \in Tables
    BY DEF Tables
  <2>5. /\ Effect(db[q], Look(n))["messages"][m] = db[q]["messages"][m]
        /\ \A t \in Tables : db[q][t][m] = NoRow => Effect(db[q], Look(n))[t][m] = NoRow
    BY <2>3, <2>4, LookFacts, EffectRows
  <2> QED BY <2>3, <2>5 DEF Row
<1> QED BY <1>1, <1>2

\* What the phase of a list says of its entries.
LEMMA ListFacts ==
  ASSUME IInv, Lists
  PROVE  /\ todo \in Seq(Entries) /\ current # None /\ current.kind = "list"
         /\ \A i \in DOMAIN todo : todo[i].msg = None \/ EntryFits(todo[i])
         /\ prog # <<>> /\ prog \in Seq(Steps)
         /\ Head(prog).at \notin {"nextEntry", "commit"} => EntryFits(entry)
BY DEF IInv, TypeOK, Phase, ListPhase, Lists

\* What the other actors do leaves a list right.
LEMMA OthersRight ==
  ASSUME IInv, ListRight, MainStep \/ ReadStep \/ ServerStep
  PROVE  ListRight'
<1> SUFFICES ASSUME Lists' PROVE TodoRight' /\ (Looking' \/ Storing' \/ Committing')
  BY DEF ListRight
<1>1. UNCHANGED <<setting, current, prog, todo, entry, used, listed, clean, open>>
  BY OthersFrame
<1>2. Lists /\ TodoRight /\ (Looking \/ Storing \/ Committing)
  BY <1>1 DEF Lists, ListRight
<1>3. /\ \A status : KeyOf(status)' = KeyOf(status)
      /\ \A status : KeyOf(status) \in Keys
      /\ Undated \in Keys /\ UNCHANGED Undated
  BY <1>1, KeyKept
<1>4. ASSUME NEW e, EntryFits(e), Age[isds[e.msg]] >= Age[e.status]
      PROVE  Age[isds'[e.msg]] >= Age[e.status]
  <2>1. e.msg \in Messages /\ Listed(e.msg) /\ isds[e.msg] \in Statuses /\ e.status \in Statuses
    BY <1>4 DEF EntryFits, Listed
  <2>2. CASE UNCHANGED isds
    BY <1>4, <2>2
  <2>3. CASE ServerStep
    <3>1. isds'[e.msg] \in Statuses /\ Age[isds'[e.msg]] >= Age[isds[e.msg]]
      BY <1>2, <2>1, <2>3, ServerGrows DEF Lists
    <3> QED BY <1>4, <2>1, <3>1, AgeFacts
  <2> QED BY <2>2, <2>3, MainFrame, ReadFrame
<1>5. TodoRight'
  <2>1. ASSUME NEW i \in DOMAIN todo, todo[i].msg # None
        PROVE  Age[isds'[todo[i].msg]] >= Age[todo[i].status]
    BY <1>2, <1>4, <2>1, ListFacts DEF TodoRight
  <2> QED BY <1>1, <1>2, <2>1 DEF TodoRight
<1>6. ASSUME NEW e, e.msg \in Messages
      PROVE  /\ Stored(e)' <=> Stored(e)
             /\ Free(e)' <=> Free(e)
             /\ Settled(e)' <=> Settled(e)
  <2>1. /\ Row(db', e.msg, KeyOf(e.status)) = Row(db, e.msg, KeyOf(e.status))
        /\ Row(db', e.msg, "invalid") = Row(db, e.msg, "invalid")
    BY <1>3, <1>6, OthersRows DEF Keys
  <2>2. (Stored(e)' <=> Stored(e)) /\ (Free(e)' <=> Free(e))
    BY <1>3, <2>1 DEF Stored, Free, Row
  <2> QED BY <2>2 DEF Settled
<1>7. Head(prog).at \notin {"nextEntry", "commit"} =>
        EntryFits(entry) /\ entry.msg \in Messages /\ (InHand => InHand')
  <2> SUFFICES ASSUME Head(prog).at \notin {"nextEntry", "commit"}
               PROVE  EntryFits(entry) /\ entry.msg \in Messages /\ (InHand => InHand')
    OBVIOUS
  <2>1. EntryFits(entry) /\ entry.msg \in Messages
    BY <1>2, ListFacts DEF EntryFits
  <2> QED BY <1>1, <1>4, <2>1 DEF InHand
<1>8. CASE Looking
  <2>1. PICK r \in {ToLook, ToBegin} :
          /\ r = ToLook => KeyOf(entry.status) \in used
          /\ \/ prog = r /\ Free(entry)
             \/ /\ prog # <<>> /\ Tail(prog) = r
                /\ Head(prog).at = "sql" /\ Head(prog).key = Undated
                /\ EraseCall(Head(prog).body, db[Undated], entry.msg)
    BY <1>8 DEF Looking
  <2>2. Head(prog).at \notin {"nextEntry", "commit"}
    BY <2>1 DEF ToLook, ToBegin, Code, Begin
  <2>3. UNCHANGED <<ToLook, ToBegin>>
    BY <1>1, <1>3 DEF ToLook, ToBegin, Code, Begin
  <2>4. EraseCall(Head(prog).body, db[Undated], entry.msg) =>
          EraseCall(Head(prog).body, db'[Undated], entry.msg)
    <3>1. \A t \in Tables : db[Undated][t][entry.msg] = NoRow => db'[Undated][t][entry.msg] = NoRow
      BY <1>3, <1>7, <2>2, OthersRows
    <3> QED BY <3>1 DEF EraseCall
  <2>5. (prog = r /\ Free(entry)') \/
          (/\ prog # <<>> /\ Tail(prog) = r
           /\ Head(prog).at = "sql" /\ Head(prog).key = Undated
           /\ EraseCall(Head(prog).body, db'[Undated], entry.msg))
    BY <1>1, <1>6, <1>7, <2>1, <2>2, <2>4
  <2>6. \A e \in listed : e # entry => Settled(e)' /\ KeyOf(e.status)' \in used
    BY <1>3, <1>6, <1>8 DEF Looking, Settled
  <2>7. InHand'
    BY <1>7, <1>8, <2>2 DEF Looking
  <2>8. Looking'
    BY <1>1, <1>3, <2>1, <2>3, <2>5, <2>6, <2>7 DEF Looking
  <2> QED BY <1>5, <2>8
<1>9. CASE Storing
  <2>1. Head(prog).at \notin {"commit"}
    BY <1>9, EndsFacts DEF Storing
  <2>2. Head(prog).at # "nextEntry" => InHand'
    BY <1>7, <1>9, <2>1 DEF Storing
  <2>3. ASSUME NEW e \in listed
        PROVE  /\ e.msg \in Messages /\ KeyOf(e.status)' \in used /\ Free(e)'
               /\ Stored(e)' \/ (e = entry /\ ComesNext')
    <3>1. e.msg \in Messages /\ KeyOf(e.status) \in used /\ Free(e)
          /\ (Stored(e) \/ (e = entry /\ ComesNext))
      BY <1>9 DEF Storing
    <3>2. e = entry => Row(db', entry.msg, KeyOf(entry.status)) =
                         Row(db, entry.msg, KeyOf(entry.status))
      BY <1>3, <3>1, OthersRows
    <3>3. e = entry /\ ComesNext => ComesNext'
      BY <1>1, <1>3, <3>2 DEF ComesNext, Row
    <3> QED BY <1>3, <1>6, <3>1, <3>3
  <2>4. Ends(prog', entry'.status, KeyOf(entry.status)')
    BY <1>1, <1>3, <1>9 DEF Storing
  <2>5. Storing'
    BY <1>1, <1>9, <2>2, <2>3, <2>4 DEF Storing
  <2> QED BY <1>5, <2>5
<1>10. CASE Committing
  <2>1. \A e \in listed : Settled(e)' /\ (KeyOf(e.status)' \in used \/ KeyOf(e.status)' \notin open)
    BY <1>3, <1>6, <1>10 DEF Committing, Settled
  <2>2. Committing'
    BY <1>1, <1>10, <2>1 DEF Committing, Code
  <2> QED BY <1>5, <2>2
<1> QED BY <1>2, <1>8, <1>9, <1>10

-----------------------------------------------------------------------------
(* The steps of a list leave it right. *)

Right == TodoRight /\ (Looking \/ Storing \/ Committing)

\* Where a list is tells what is done next.
LEMMA HeadFacts ==
  /\ Looking => Head(prog).at \in {"entry", "begin", "sql"}
  /\ Storing => Head(prog).at \in {"nextEntry", "schedule", "getState", "sql"}
  /\ Committing => Head(prog).at = "commit"
  /\ ToLook \in Seq(Steps) /\ Head(ToLook).at = "entry" /\ Tail(ToLook) = Code("nextEntry")
<1>1. Looking => Head(prog).at \in {"entry", "begin", "sql"}
  BY DEF Looking, ToLook, ToBegin, Code, Begin
<1>2. Storing => Head(prog).at \in {"nextEntry", "schedule", "getState", "sql"}
  BY EndsFacts DEF Storing
<1>3. Committing => Head(prog).at = "commit"
  BY DEF Committing, Code
<1>4. ToLook \in Seq(Steps) /\ Head(ToLook).at = "entry" /\ Tail(ToLook) = Code("nextEntry")
  <2>1. <<>> \in Seq(Statements)
    OBVIOUS
  <2> DEFINE x == [at |-> "entry", key |-> None, body |-> <<>>]
             y == [at |-> "nextEntry", key |-> None, body |-> <<>>]
  <2>2. x \in Steps /\ x.at = "entry" /\ y \in Steps
    BY <2>1 DEF Steps
  <2>3. Code("entry") = <<x>> /\ Code("nextEntry") = <<y>>
    BY DEF Code
  <2> HIDE DEF x, y
  <2>4. Code("nextEntry") \in Seq(Steps)
    <3>1. ASSUME NEW S, NEW z \in S PROVE <<z>> \in Seq(S)
      OBVIOUS
    <3> QED BY <2>2, <2>3, <3>1
  <2> QED BY <2>2, <2>3, <2>4, ConsFacts DEF ToLook
<1> QED BY <1>1, <1>2, <1>3, <1>4

\* The last step of a list's work on an entry.
LEMMA EndsLast ==
  ASSUME NEW status, NEW key
  PROVE  Ends(Code("nextEntry"), status, key)
<1> DEFINE y == [at |-> "nextEntry", key |-> None, body |-> <<>>]
<1>1. <<>> \in Seq(Statements)
  OBVIOUS
<1>2. y \in Steps /\ y.at = "nextEntry"
  BY <1>1 DEF Steps
<1>3. Code("nextEntry") = <<y>>
  BY DEF Code
<1> HIDE DEF y
<1>4. ASSUME NEW p, p = <<y>>
      PROVE  p \in Seq(Steps) /\ p # <<>> /\ DOMAIN p = 1 .. 1 /\ Len(p) = 1 /\ p[1] = y
  BY <1>2, <1>4
<1> DEFINE p == Code("nextEntry")
<1>5. p = <<y>>
  BY <1>3
<1> HIDE DEF p
<1>6. p \in Seq(Steps) /\ p # <<>> /\ DOMAIN p = 1 .. 1 /\ Len(p) = 1 /\ p[1] = y
  BY <1>4, <1>5
<1>7. Ends(p, status, key)
  BY <1>2, <1>6 DEF Ends
<1> QED BY <1>7 DEF p

\* The begin of the transaction of an entry comes before the look at it.
LEMMA ToBeginFacts ==
  ASSUME NEW k \in Keys, k = KeyOf(entry.status)
  PROVE  /\ ToBegin \in Seq(Steps) /\ Head(ToBegin).at = "begin" /\ Head(ToBegin).key = k
         /\ Tail(ToBegin) = ToLook /\ ToBegin # ToLook
<1> DEFINE x == [at |-> "begin", key |-> k, body |-> <<>>]
<1>1. <<>> \in Seq(Statements)
  OBVIOUS
<1>2. x \in Steps /\ x.at = "begin" /\ x.key = k
  BY <1>1 DEF Steps
<1>3. ToBegin = <<x>> \o ToLook
  BY DEF ToBegin, Begin
<1> HIDE DEF x
<1>4. /\ ToBegin \in Seq(Steps) /\ Head(ToBegin) = x /\ Tail(ToBegin) = ToLook
  BY <1>2, <1>3, HeadFacts, ConsFacts
<1> QED BY <1>2, <1>4, HeadFacts

\* What a step of a list that has its answer may use.
LEMMA ListGiven ==
  ASSUME IInv, ListRight, Next, TaskStep, Lists', ~At("getMessageList")
  PROVE  /\ Lists /\ TodoRight /\ (Looking \/ Storing \/ Committing)
         /\ UNCHANGED <<current, setting, Undated, isds>>
         /\ \A status : KeyOf(status)' = KeyOf(status)
         /\ \A status : KeyOf(status) \in Keys
         /\ \A status : KeyOf(status) = "year" => Undated = "invalid"
         /\ Undated \in Keys
<1>1. /\ current # None /\ prog # <<>> /\ UNCHANGED <<current, setting>>
  BY TaskGiven
<1>2. current.kind = "list" /\ clean'
  BY <1>1 DEF Lists
<1>3. prog # Code("getMessageList")
  BY <1>1, CodeFacts DEF At
<1>4. clean
  BY <1>2 DEF TaskStep, Statement, BeginTransaction, CommitTransactions, GetMessageList,
       NextEntry, Entry, Schedule, GetState, GetMessage, GetDelivery, MarkAsDownloaded,
       CreateMessage, Created, EraseFromIsds, EraseEnds, ImportSingle, Imported, Fault,
       NoFault
<1>5. UNCHANGED isds
  <2>1. ~At("mark") /\ ~At("create") /\ ~At("erase")
    BY <1>2, SubjectAt DEF IInv
  <2> QED BY <2>1, TaskIsds DEF MarkAsDownloaded, CreateMessage, EraseFromIsds
<1>6. Lists
  BY <1>1, <1>2, <1>3, <1>4 DEF Lists
<1> QED BY <1>1, <1>5, <1>6, KeyKept DEF ListRight

\* The answers of the server name no message twice and are what it has.
LEMMA AnswersRight ==
  ASSUME IInv, NEW direction, NEW q \in Answers(direction)
  PROVE  /\ \A i \in DOMAIN q : q[i].msg # None => Age[isds[q[i].msg]] >= Age[q[i].status]
         /\ \A i, j \in DOMAIN q : q[i].msg = q[j].msg => i = j
<1> DEFINE D == {x \in Messages : Listed(x) /\ (x \in Sent <=> direction = "sent")}
           entries == {[msg |-> x, status |-> isds[x]] : x \in D}
           poison == IF setting.poison = direction
                     THEN {[msg |-> None, status |-> None]} ELSE {}
           S == entries \cup poison
<1>1. q \in Orders(S)
  BY DEF Answers
<1>2. \A e \in S : \/ e.msg \in Messages /\ isds[e.msg] \in Statuses
                      /\ e = [msg |-> e.msg, status |-> isds[e.msg]]
                   \/ e = [msg |-> None, status |-> None]
  BY DEF Listed
<1> HIDE DEF S
<1>3. \A i \in DOMAIN q : q[i] \in S
  BY <1>1 DEF Orders
<1>4. \A i, j \in DOMAIN q : q[i] = q[j] => i = j
  BY <1>1 DEF Orders
<1>5. None \notin Messages
  BY TasksAssumption
<1>6. \A i, j \in DOMAIN q : q[i].msg = q[j].msg => q[i] = q[j]
  BY <1>2, <1>3, <1>5
<1>7. ASSUME NEW i \in DOMAIN q, q[i].msg # None
      PROVE  Age[isds[q[i].msg]] >= Age[q[i].status]
  <2>1. q[i].status = isds[q[i].msg] /\ isds[q[i].msg] \in Statuses
    BY <1>2, <1>3, <1>7
  <2> QED BY <2>1, AgeFacts
<1> QED BY <1>4, <1>6, <1>7

\* A list that has just its answer is right.
LEMMA GetMessageListRight ==
  ASSUME IInv, Next, GetMessageList, Lists'
  PROVE  Right'
<1>1. /\ todo' \in Answers(current.arg) /\ prog' = Code("nextEntry")
      /\ listed' = {} /\ UNCHANGED isds
  BY DEF GetMessageList, Lists, Fault
<1>2. TodoRight'
  BY <1>1, AnswersRight DEF TodoRight
<1>3. Ends(prog', entry'.status, KeyOf(entry.status)')
  BY <1>1, EndsLast
<1>4. Storing'
  BY <1>1, <1>3, CodeFacts DEF Storing
<1> QED BY <1>2, <1>4 DEF Right

\* The begin of the transaction of an entry.
LEMMA BeginRight ==
  ASSUME IInv, ListRight, Next, BeginTransaction, Lists'
  PROVE  Right'
<1>1. /\ At("begin") /\ UNCHANGED <<isds, db, todo, entry, listed>> /\ prog' = Tail(prog)
      /\ used' = used \cup {Head(prog).key}
  BY DEF BeginTransaction
<1>2. /\ Lists /\ TodoRight /\ Looking
      /\ \A status : KeyOf(status)' = KeyOf(status)
      /\ \A status : KeyOf(status) \in Keys
  BY <1>1, HeadFacts, ListGiven DEF At, TaskStep
<1>3. PICK r \in {ToLook, ToBegin} :
        /\ r = ToLook => KeyOf(entry.status) \in used
        /\ \/ prog = r /\ Free(entry)
           \/ /\ prog # <<>> /\ Tail(prog) = r
              /\ Head(prog).at = "sql" /\ Head(prog).key = Undated
              /\ EraseCall(Head(prog).body, db[Undated], entry.msg)
  BY <1>2 DEF Looking
<1>4. prog = ToBegin /\ Free(entry)
  BY <1>1, <1>3, HeadFacts DEF At
<1>5. prog' = ToLook /\ KeyOf(entry.status) \in used'
  BY <1>1, <1>2, <1>4, ToBeginFacts
<1>6. \A e : /\ Free(e)' <=> Free(e)
             /\ Settled(e)' <=> Settled(e)
  BY <1>1, <1>2 DEF Settled, Stored, Free, Row
<1>7. TodoRight' /\ InHand'
  BY <1>1, <1>2 DEF TodoRight, Looking, InHand
<1>8. ToLook' = ToLook
  BY DEF ToLook, Code
<1>9. \A e \in listed' : e # entry' => Settled(e)' /\ KeyOf(e.status)' \in used'
  BY <1>1, <1>2, <1>6 DEF Looking
<1>10. /\ ToLook' = ToLook => KeyOf(entry.status)' \in used'
       /\ prog' = ToLook' /\ Free(entry)'
  BY <1>1, <1>2, <1>4, <1>5, <1>6, <1>8
<1>11. Looking'
  BY <1>7, <1>9, <1>10 DEF Looking
<1> QED BY <1>7, <1>11 DEF Right

\* The end of one transaction of the list.
LEMMA CommitRight ==
  ASSUME IInv, ListRight, Next, CommitTransactions, Lists'
  PROVE  Right'
<1>1. /\ At("commit") /\ UNCHANGED <<isds, todo, entry, listed>>
      /\ db' = db
      /\ \/ used = {} /\ UNCHANGED <<used, open>>
         \/ \E k \in used : used' = used \ {k} /\ (open' = open \ {k} \/ Fault)
      /\ prog' \in {<<>>, prog}
  BY DEF CommitTransactions, fileVars
<1>2. /\ TodoRight /\ Committing
      /\ \A status : KeyOf(status)' = KeyOf(status)
  BY <1>1, HeadFacts, ListGiven DEF At, TaskStep
<1>3. prog' = prog /\ ~Fault
  BY <1>1 DEF Lists, Fault
<1>4. \A k : k \in used \/ k \notin open => k \in used' \/ k \notin open'
  BY <1>1, <1>3
<1>5. \A e : Settled(e)' <=> Settled(e)
  BY <1>1, <1>2 DEF Settled, Stored, Free, Row
<1>6. TodoRight'
  BY <1>1, <1>2 DEF TodoRight
<1>7. \A e \in listed' : Settled(e)' /\ (KeyOf(e.status)' \in used' \/ KeyOf(e.status)' \notin open')
  BY <1>1, <1>2, <1>4, <1>5 DEF Committing
<1>8. Committing'
  BY <1>2, <1>3, <1>7 DEF Committing, Code
<1> QED BY <1>6, <1>8 DEF Right

\* A step that leaves the files alone and puts harmless work, or nothing, before
\* the rest of the work on an entry that is stored.
LEMMA StoringOn ==
  ASSUME IInv, ListRight, Next, TaskStep, Lists', ~At("getMessageList"),
         Storing, Head(prog).at \in {"schedule", "getState"},
         UNCHANGED <<db, todo, entry, used, listed>>,
         Ends(prog', entry.status, KeyOf(entry.status))
  PROVE  Right'
<1>1. /\ TodoRight /\ UNCHANGED isds
      /\ \A status : KeyOf(status)' = KeyOf(status)
  BY ListGiven
<1>2. InHand /\ ~ComesNext
  BY DEF Storing, ComesNext
<1>3. \A e \in listed : e.msg \in Messages /\ KeyOf(e.status) \in used /\ Free(e) /\ Stored(e)
  BY <1>2 DEF Storing
<1>4. TodoRight' /\ InHand'
  BY <1>1, <1>2 DEF TodoRight, InHand
<1>5. \A e : (Free(e)' <=> Free(e)) /\ (Stored(e)' <=> Stored(e))
  BY <1>1 DEF Free, Stored, Row
<1>6. Ends(prog', entry'.status, KeyOf(entry.status)')
  BY <1>1
<1>7. prog' # <<>>
  BY DEF Ends
<1>8. \A e \in listed' :
        /\ e.msg \in Messages /\ KeyOf(e.status)' \in used' /\ Free(e)'
        /\ Stored(e)' \/ (e = entry' /\ ComesNext')
  BY <1>1, <1>3, <1>5
<1>9. Storing'
  BY <1>4, <1>6, <1>7, <1>8 DEF Storing
<1> QED BY <1>4, <1>9 DEF Right

\* The scheduling of a download.
LEMMA ScheduleRight ==
  ASSUME IInv, ListRight, Next, Schedule, Lists'
  PROVE  Right'
<1>1. /\ At("schedule") /\ UNCHANGED <<db, todo, entry, used, listed>>
      /\ prog' = <<>> \o Tail(prog)
  BY DEF Schedule, Continue, fileVars
<1>2. TaskStep /\ ~At("getMessageList") /\ Head(prog).at = "schedule"
  BY <1>1 DEF At, TaskStep
<1>3. Storing
  BY <1>2, HeadFacts, ListGiven
<1>4. /\ Tail(prog) \in Seq(Steps)
      /\ Ends(Tail(prog), entry.status, KeyOf(entry.status))
  BY <1>2, <1>3, EndsFacts DEF Storing
<1>5. prog' = Tail(prog)
  BY <1>1, <1>4
<1> QED BY <1>1, <1>2, <1>3, <1>4, <1>5, StoringOn

\* The download of the state of a sent message, which is not older than its
\* entry.
LEMMA GetStateRight ==
  ASSUME IInv, ListRight, Next, GetState, Lists'
  PROVE  Right'
<1> DEFINE m == entry.msg
           k == KeyOf(isds[m])
           b == msgsUpdateMessageState(m, isds[m])
           c == insertOrUpdateMessageEvent(m)
           p == Call(k, b) \o Call(k, c)
<1>1. /\ At("getState") /\ UNCHANGED <<db, todo, entry, used, listed>>
      /\ prog' = p \o Tail(prog) \/ prog' = <<>> \o Tail(prog)
  BY DEF GetState, Continue, UnchangedButProg, fileVars
<1>2. TaskStep /\ ~At("getMessageList") /\ Head(prog).at = "getState"
  BY <1>1 DEF At, TaskStep
<1>3. Storing
  BY <1>2, HeadFacts, ListGiven
<1>4. /\ Tail(prog) \in Seq(Steps)
      /\ Ends(Tail(prog), entry.status, KeyOf(entry.status))
  BY <1>2, <1>3, EndsFacts DEF Storing
<1>5. /\ m \in Messages /\ isds[m] \in Statuses /\ entry.status \in Statuses /\ k \in Keys
      /\ Age[isds[m]] >= Age[entry.status]
  <2>1. EntryFits(entry)
    BY <1>1, EntryAt DEF IInv
  <2>2. InHand
    BY <1>2, <1>3 DEF Storing
  <2>3. k \in Keys
    BY <1>2, ListGiven
  <2> QED BY <2>1, <2>2, <2>3 DEF EntryFits, Listed, InHand
<1>6. b \in Seq(Statements) /\ c \in Seq(Statements)
  BY <1>5 DEF msgsUpdateMessageState, insertOrUpdateMessageEvent, Update, Replace, Statements,
     Tables, Values, Statuses
<1>7. /\ Harmless(Head(Call(k, b)), entry.status, KeyOf(entry.status))
      /\ Harmless(Head(Call(k, c)), entry.status, KeyOf(entry.status))
  BY <1>5, CallsHarmless
<1> HIDE DEF b, c, k
<1>8. Ends(Call(k, b) \o (Call(k, c) \o Tail(prog)), entry.status, KeyOf(entry.status))
  BY <1>4, <1>5, <1>6, <1>7, EndsCall
<1>9. p \o Tail(prog) = Call(k, b) \o (Call(k, c) \o Tail(prog))
  <2>1. Call(k, b) \in Seq(Steps) /\ Call(k, c) \in Seq(Steps)
    BY <1>5, <1>6 DEF Call, Steps
  <2> QED BY <1>4, <2>1
<1> HIDE DEF p
<1>10. <<>> \o Tail(prog) = Tail(prog)
  BY <1>4
<1>11. prog' \in {Tail(prog), Call(k, b) \o (Call(k, c) \o Tail(prog))}
  BY <1>1, <1>9, <1>10
<1> QED BY <1>1, <1>2, <1>3, <1>4, <1>8, <1>11, StoringOn

\* The look at an entry: it is stored as it is given, or its storing comes next.
LEMMA EntryRight ==
  ASSUME IInv, ListRight, Next, Entry, Lists'
  PROVE  Right'
<1> DEFINE m == entry.msg
           v == entry.status
           k == KeyOf(entry.status)
           R == Code("nextEntry")
           b == insertMessageEnvelope(m, v, Seen(m))
           c == updateMessageEnvelope(m, v)
           whole == IF setting.whole THEN Code("schedule") ELSE <<>>
           download == IF setting.whole \/ isCompleteMessageInDb(db[k], m)
                       THEN Code("schedule") ELSE <<>>
           state2 == IF m \in Sent THEN Code("getState") ELSE <<>>
           p == IF Row(db, m, k) = NoRow THEN Call(k, b) \o whole
                ELSE IF Changed(k) THEN Call(k, c) \o download \o state2
                ELSE <<>>
<1>1. /\ At("entry") /\ UNCHANGED <<db, todo, entry, used, listed>>
      /\ prog' = p \o Tail(prog)
  BY DEF Entry, Continue, UnchangedButProg, fileVars, Row, getMessageStatus
<1>2. /\ TodoRight /\ Looking /\ UNCHANGED isds
      /\ \A status : KeyOf(status)' = KeyOf(status)
      /\ k \in Keys
  BY <1>1, HeadFacts, ListGiven DEF At, TaskStep
<1>3. prog = ToLook /\ Free(entry) /\ k \in used
  <2>1. PICK r \in {ToLook, ToBegin} :
          /\ r = ToLook => KeyOf(entry.status) \in used
          /\ \/ prog = r /\ Free(entry)
             \/ /\ prog # <<>> /\ Tail(prog) = r
                /\ Head(prog).at = "sql" /\ Head(prog).key = Undated
                /\ EraseCall(Head(prog).body, db[Undated], entry.msg)
    BY <1>2 DEF Looking
  <2> QED BY <1>1, <1>2, <2>1, ToBeginFacts DEF At
<1>4. Tail(prog) = R /\ R \in Seq(Steps) /\ Ends(R, v, k)
  BY <1>3, HeadFacts, EndsLast DEF Ends
<1>5. /\ m \in Messages /\ v \in Statuses /\ EntryFits(entry)
  BY <1>1, EntryAt DEF IInv, EntryFits
<1>6. b \in Seq(Statements) /\ c \in Seq(Statements)
  BY <1>5, InsertBody, UpdateBody DEF Seen, Body, updateMessageEnvelope
<1>7. /\ Harmless(Head(Call(k, b)), v, k)
      /\ Harmless(Head(Call(k, c)), v, k)
  <2>1. Age[v] >= Age[v]
    BY <1>5, AgeFacts
  <2> QED BY <1>5, <2>1, CallsHarmless
<1>8. /\ whole \in {<<>>, Code("schedule")} /\ download \in {<<>>, Code("schedule")}
      /\ state2 \in {<<>>, Code("getState")}
  OBVIOUS
<1>9. /\ Head(b) = Insert("messages", m, v) /\ Head(c) = Update("messages", m, v)
  BY DEF insertMessageEnvelope, updateMessageEnvelope
<1>10. Call(k, b) \in Seq(Steps) /\ Call(k, c) \in Seq(Steps)
  BY <1>2, <1>6 DEF Call, Steps
<1>11. /\ Code("schedule") \in Seq(Steps) /\ Code("getState") \in Seq(Steps) /\ <<>> \in Seq(Steps)
  <2>1. <<>> \in Seq(Statements)
    OBVIOUS
  <2> QED BY <2>1 DEF Code, Steps
<1> HIDE DEF b, c, whole, download, state2, R, m, k, v
<1>12. /\ Row(db, m, k) = NoRow => prog' = (Call(k, b) \o whole) \o R
       /\ Row(db, m, k) # NoRow /\ Changed(k) =>
            prog' = ((Call(k, c) \o download) \o state2) \o R
       /\ Row(db, m, k) # NoRow /\ ~Changed(k) => prog' = <<>> \o R
  BY <1>1, <1>4
<1> HIDE DEF p
<1>13. \A q : q \in {<<>>, Code("schedule"), Code("getState")} =>
         q \in Seq(Steps) /\ \A r : Ends(r, v, k) => q \o r \in Seq(Steps) /\ Ends(q \o r, v, k)
  <2>1. \A r : Ends(r, v, k) => r \in Seq(Steps) /\ <<>> \o r = r
    BY DEF Ends
  <2>2. \A r : Ends(r, v, k) => Ends(Code("schedule") \o r, v, k) /\ Ends(Code("getState") \o r, v, k)
    BY EndsCall
  <2>3. \A r : Ends(r, v, k) => r \in Seq(Steps)
    BY <2>1
  <2> QED BY <1>11, <2>1, <2>2, <2>3
<1>14. \A q, r, s \in Seq(Steps) : (q \o r) \o s = q \o (r \o s)
  OBVIOUS
<1>15. k \in Keys
  BY <1>2
<1>16. ASSUME NEW z, NEW d \in Seq(Statements), NEW q \in Seq(Steps), z = Call(k, d) \o q
       PROVE  Head(z).at = "sql" /\ Head(z).key = k /\ Head(z).body = d
  <2>1. z = Call(k, d) \o q
    BY <1>16
  <2>2. Head(Call(k, d) \o q).at = "sql"
    BY <1>15, CallFacts
  <2>3. Head(Call(k, d) \o q).key = k
    BY <1>15, CallFacts
  <2>4. Head(Call(k, d) \o q).body = d
    BY <1>15, CallFacts
  <2> QED BY <2>1, <2>2, <2>3, <2>4
<1>17. ASSUME Row(db, m, k) = NoRow
       PROVE  Ends(prog', v, k) /\ ComesNext'
  <2>1. prog' = Call(k, b) \o (whole \o R)
    <3>1. whole \in Seq(Steps)
      BY <1>8, <1>13
    <3> QED BY <1>4, <1>10, <1>14, <1>17, <1>12, <3>1
  <2>2. Ends(whole \o R, v, k) /\ whole \o R \in Seq(Steps)
    BY <1>4, <1>8, <1>13
  <2>3. Ends(prog', v, k)
    BY <1>2, <1>6, <1>7, <2>1, <2>2, EndsCall
  <2>4. Head(prog').at = "sql" /\ Head(prog').key = k /\ Head(prog').body = b
    BY <1>6, <1>16, <2>1, <2>2
  <2>5. /\ Head(Head(prog').body).table = "messages" /\ Head(Head(prog').body).verb = "INSERT"
    BY <1>9, <2>4 DEF Insert
  <2>6. ComesNext'
    BY <1>1, <1>2, <1>17, <2>4, <2>5 DEF ComesNext, m, k, Row
  <2> QED BY <2>3, <2>6
<1>18. ASSUME Row(db, m, k) # NoRow, Changed(k)
       PROVE  Ends(prog', v, k) /\ ComesNext'
  <2>1. prog' = Call(k, c) \o (download \o (state2 \o R))
    <3>1. prog' = ((Call(k, c) \o download) \o state2) \o R
      BY <1>18, <1>12
    <3>2. /\ download \in Seq(Steps) /\ state2 \in Seq(Steps) /\ R \in Seq(Steps)
          /\ Call(k, c) \in Seq(Steps)
      BY <1>4, <1>8, <1>10, <1>13
    <3>3. Call(k, c) \o download \in Seq(Steps) /\ state2 \o R \in Seq(Steps)
      BY <3>2
    <3>4. prog' = (Call(k, c) \o download) \o (state2 \o R)
      BY <1>14, <3>1, <3>2, <3>3
    <3> QED BY <1>14, <3>2, <3>3, <3>4
  <2>2. Ends(state2 \o R, v, k)
    BY <1>4, <1>8, <1>13
  <2>3. Ends(download \o (state2 \o R), v, k) /\ download \o (state2 \o R) \in Seq(Steps)
    BY <1>8, <1>13, <2>2
  <2>4. Ends(prog', v, k)
    BY <1>2, <1>6, <1>7, <2>1, <2>3, EndsCall
  <2>5. Head(prog').at = "sql" /\ Head(prog').key = k /\ Head(prog').body = c
    BY <1>6, <1>16, <2>1, <2>3
  <2>6. /\ Head(Head(prog').body).table = "messages" /\ Head(Head(prog').body).verb = "UPDATE"
    BY <1>9, <2>5 DEF Update
  <2>7. ComesNext'
    BY <1>1, <1>2, <1>18, <2>5, <2>6 DEF ComesNext, m, k, Row
  <2> QED BY <2>4, <2>7
<1>19. ASSUME Row(db, m, k) # NoRow, ~Changed(k)
       PROVE  Ends(prog', v, k) /\ Stored(entry)
  <2>1. Row(db, m, k) = v
    BY <1>19 DEF Changed, getMessageStatus, Row, m, v
  <2>2. Stored(entry)
    BY <1>5, <1>19, <2>1, AgeFacts DEF Stored, m, k, v
  <2>3. <<>> \o R = R
    BY <1>4
  <2> QED BY <1>4, <1>19, <1>12, <2>2, <2>3
<1>20. Ends(prog', v, k) /\ (Stored(entry) \/ ComesNext')
  BY <1>17, <1>18, <1>19
<1>21. TodoRight' /\ InHand'
  BY <1>1, <1>2 DEF TodoRight, Looking, InHand
<1>22. \A e : (Free(e)' <=> Free(e)) /\ (Stored(e)' <=> Stored(e))
  BY <1>1, <1>2 DEF Free, Stored, Row
<1>23. \A e \in listed' :
         /\ e.msg \in Messages /\ KeyOf(e.status)' \in used' /\ Free(e)'
         /\ Stored(e)' \/ (e = entry' /\ ComesNext')
  <2> SUFFICES ASSUME NEW e \in listed
               PROVE  /\ e.msg \in Messages /\ KeyOf(e.status) \in used /\ Free(e)
                      /\ Stored(e) \/ (e = entry /\ ComesNext')
    BY <1>1, <1>2, <1>22
  <2>1. CASE e = entry
    BY <1>3, <1>5, <1>20, <2>1 DEF m, k
  <2>2. CASE e # entry
    BY <1>2, <2>2 DEF Looking, Settled
  <2> QED BY <2>1, <2>2
<1>24. prog' # <<>> /\ Ends(prog', entry'.status, KeyOf(entry.status)')
  BY <1>1, <1>2, <1>20 DEF Ends, v, k
<1>25. Storing'
  BY <1>21, <1>23, <1>24 DEF Storing
<1> QED BY <1>21, <1>25 DEF Right

\* The next entry of the list, or its end: the entries looked at are stored.
LEMMA NextEntryRight ==
  ASSUME IInv, ListRight, Next, NextEntry, Lists'
  PROVE  Right'
<1>1. At("nextEntry") /\ UNCHANGED <<isds, db, used, open>>
  BY DEF NextEntry, fileVars
<1>2. /\ TodoRight /\ Storing /\ Lists
      /\ UNCHANGED <<setting, Undated>>
      /\ \A status : KeyOf(status)' = KeyOf(status)
      /\ \A status : KeyOf(status) \in Keys
      /\ Undated \in Keys
  BY <1>1, HeadFacts, ListGiven DEF At, TaskStep
<1>3. \A e \in listed : Settled(e) /\ KeyOf(e.status) \in used
  <2>1. ~ComesNext
    BY <1>1 DEF At, ComesNext
  <2> QED BY <1>2, <2>1 DEF Storing, Settled
<1>4. \A e : (Free(e)' <=> Free(e)) /\ (Settled(e)' <=> Settled(e))
  BY <1>1, <1>2 DEF Settled, Stored, Free, Row
<1>5. CASE todo = <<>>
  <2>1. prog' = Code("commit") /\ UNCHANGED <<todo, listed>>
    BY <1>5 DEF NextEntry
  <2>2. TodoRight'
    BY <1>1, <1>2, <2>1 DEF TodoRight
  <2>3. Committing'
    BY <1>1, <1>2, <1>3, <1>4, <2>1 DEF Committing, Code
  <2> QED BY <2>2, <2>3 DEF Right
<1>6. CASE todo # <<>>
  <2>1. PICK e : e = Head(todo)
    OBVIOUS
  <2>2. /\ entry' = e /\ todo' = Tail(todo) /\ listed' = listed \cup {e}
        /\ e.msg = None => prog' = <<>>
    BY <1>6, <2>1 DEF NextEntry, Return
  <2>3. /\ todo \in Seq(Entries)
        /\ \A i \in DOMAIN todo : todo[i].msg = None \/ EntryFits(todo[i])
    BY <1>2, ListFacts
  <2>4. /\ e = todo[1] /\ 1 \in DOMAIN todo
        /\ \A i \in DOMAIN Tail(todo) : /\ i \in Nat \ {0} /\ i + 1 \in DOMAIN todo
                                        /\ Tail(todo)[i] = todo[i + 1]
    <3>1. /\ e = todo[1] /\ Len(todo) \in Nat \ {0} /\ DOMAIN todo = 1 .. Len(todo)
          /\ Tail(todo) \in Seq(Entries)
          /\ \A i \in DOMAIN Tail(todo) : i + 1 \in DOMAIN todo /\ Tail(todo)[i] = todo[i + 1]
      BY <1>6, <2>1, <2>3, TailFacts
    <3>2. \A i \in DOMAIN Tail(todo) : i \in Nat \ {0}
      BY <3>1
    <3> QED BY <3>1, <3>2
  <2>5. e.msg # None
    BY <2>2 DEF Lists
  <2>6. EntryFits(e) /\ e.msg \in Messages /\ e.status \in Statuses
    BY <2>3, <2>4, <2>5 DEF EntryFits
  <2>7. TodoRight'
    <3>1. ASSUME NEW i \in DOMAIN todo'
          PROVE  /\ todo'[i].msg # None => Age[isds'[todo'[i].msg]] >= Age[todo'[i].status]
                 /\ \A x \in listed' : x.msg # todo'[i].msg
      <4>1. i + 1 \in DOMAIN todo /\ todo'[i] = todo[i + 1] /\ i + 1 # 1
        BY <2>2, <2>4, <3>1
      <4>2. e.msg # todo[i + 1].msg
        BY <1>2, <2>4, <4>1 DEF TodoRight
      <4> QED BY <1>1, <1>2, <2>2, <4>1, <4>2 DEF TodoRight
    <3>2. ASSUME NEW i \in DOMAIN todo', NEW j \in DOMAIN todo', todo'[i].msg = todo'[j].msg
          PROVE  i = j
      <4>1. /\ i + 1 \in DOMAIN todo /\ todo'[i] = todo[i + 1] /\ i \in Nat
            /\ j + 1 \in DOMAIN todo /\ todo'[j] = todo[j + 1] /\ j \in Nat
        BY <2>2, <2>4, <3>2
      <4>2. i + 1 = j + 1
        BY <1>2, <3>2, <4>1 DEF TodoRight
      <4> QED BY <4>1, <4>2
    <3> QED BY <3>1, <3>2 DEF TodoRight
  <2>8. InHand'
    <3>1. \A x \in listed : x.msg # e.msg
      BY <1>2, <2>4 DEF TodoRight
    <3>2. Age[isds[e.msg]] >= Age[e.status]
      BY <1>2, <2>4, <2>5 DEF TodoRight
    <3> QED BY <1>1, <2>2, <3>1, <3>2 DEF InHand
  <2>9. \A x \in listed' : x # entry' => Settled(x)' /\ KeyOf(x.status)' \in used'
    BY <1>1, <1>2, <1>3, <1>4, <2>2
  <2>10. PICK k : k = KeyOf(e.status) /\ k \in Keys
    BY <1>2
  <2>11. PICK c : c = IF SeparateInvalid /\ Valid(e.status)
                      THEN Call(Undated, msgsDeleteMessageData(e.msg)) ELSE <<>>
    OBVIOUS
  <2>12. PICK b : b = IF k \in used THEN <<>> ELSE Begin(k)
    OBVIOUS
  <2>13. prog' = ((c \o b) \o Code("entry")) \o Code("nextEntry")
    BY <1>6, <2>2, <2>5, <2>10, <2>11, <2>12 DEF NextEntry, Undated
  <2>14. PICK r : r = b \o ToLook
    OBVIOUS
  <2>15. /\ r \in {ToLook', ToBegin'} /\ (r = ToLook' => KeyOf(entry.status)' \in used')
         /\ r \in Seq(Steps)
    <3>1. ToLook' = ToLook /\ ToBegin' = Begin(k) \o ToLook
      BY <1>2, <2>2, <2>10 DEF ToBegin, ToLook, Code, Begin
    <3>2. <<>> \o ToLook = ToLook
      BY HeadFacts
    <3>3. Begin(k) \o ToLook \in Seq(Steps) /\ Begin(k) \o ToLook # ToLook
      <4> DEFINE x == [at |-> "begin", key |-> k, body |-> <<>>]
      <4>1. <<>> \in Seq(Statements)
        OBVIOUS
      <4>2. x \in Steps /\ x.at = "begin"
        BY <2>10, <4>1 DEF Steps
      <4>3. Begin(k) = <<x>>
        BY DEF Begin
      <4> HIDE DEF x
      <4>4. <<x>> \o ToLook \in Seq(Steps) /\ Head(<<x>> \o ToLook) = x
        BY <4>2, HeadFacts, ConsFacts
      <4> QED BY <4>2, <4>3, <4>4, HeadFacts
    <3>4. /\ k \in used => r = ToLook'
          /\ k \notin used => r = ToBegin' /\ r # ToLook'
      BY <2>12, <2>14, <3>1, <3>2, <3>3
    <3>5. r \in Seq(Steps)
      BY <3>1, <3>3, <3>4, HeadFacts
    <3>6. KeyOf(entry.status)' = k
      BY <1>2, <2>2, <2>10
    <3> QED BY <1>1, <3>4, <3>5, <3>6
  <2>16. prog' = c \o r
    <3>1. /\ c \in Seq(Steps) /\ b \in Seq(Steps)
          /\ Code("entry") \in Seq(Steps) /\ Code("nextEntry") \in Seq(Steps)
      <4>1. <<>> \in Seq(Statements) /\ msgsDeleteMessageData(e.msg) \in Seq(Statements)
        BY <2>6, DeleteBody DEF Body
      <4>2. Code("entry") \in Seq(Steps) /\ Code("nextEntry") \in Seq(Steps)
        BY <4>1 DEF Code, Steps
      <4>3. Begin(k) \in Seq(Steps) /\ Call(Undated, msgsDeleteMessageData(e.msg)) \in Seq(Steps)
        BY <1>2, <2>10, <4>1 DEF Begin, Call, Steps
      <4> QED BY <2>11, <2>12, <4>2, <4>3
    <3>2. \A p, q, s \in Seq(Steps) : (p \o q) \o s = p \o (q \o s) /\ p \o q \in Seq(Steps)
      OBVIOUS
    <3>3. prog' = (c \o b) \o ToLook
      <4>1. prog' = ((c \o b) \o Code("entry")) \o Code("nextEntry")
        BY <2>13
      <4>2. c \o b \in Seq(Steps)
        BY <3>1, <3>2
      <4>3. ((c \o b) \o Code("entry")) \o Code("nextEntry")
              = (c \o b) \o (Code("entry") \o Code("nextEntry"))
        BY <4>2, <3>1, <3>2
      <4> QED BY <4>1, <4>3 DEF ToLook
    <3>4. ToLook \in Seq(Steps)
      BY HeadFacts
    <3>5. (c \o b) \o ToLook = c \o (b \o ToLook)
      BY <3>1, <3>2, <3>4
    <3> QED BY <2>14, <3>3, <3>5
  <2>17. CASE SeparateInvalid /\ Valid(e.status)
    <3>1. msgsDeleteMessageData(e.msg) \in Seq(Statements)
      BY <2>6, DeleteBody DEF Body
    <3>2. prog' = Call(Undated, msgsDeleteMessageData(e.msg)) \o r
      BY <2>11, <2>16, <2>17
    <3>3. /\ prog' # <<>> /\ Tail(prog') = r
          /\ Head(prog').at = "sql" /\ Head(prog').key = Undated
          /\ Head(prog').body = msgsDeleteMessageData(e.msg)
      BY <1>2, <2>15, <3>1, <3>2, CallFacts
    <3>4. EraseCall(msgsDeleteMessageData(e.msg), db[Undated], e.msg)
      BY <2>6, CallsBegin
    <3>5. /\ prog' # <<>> /\ Tail(prog') = r
          /\ Head(prog').at = "sql" /\ Head(prog').key = Undated'
          /\ EraseCall(Head(prog').body, db'[Undated'], entry'.msg)
      BY <1>1, <1>2, <2>2, <3>3, <3>4
    <3>6. Looking'
      BY <2>8, <2>9, <2>15, <3>5 DEF Looking
    <3> QED BY <2>7, <3>6 DEF Right
  <2>18. CASE ~(SeparateInvalid /\ Valid(e.status))
    <3>1. Free(e)
      BY <2>18 DEF Free, SeparateInvalid, KeyOf, secondaryKey
    <3>2. Free(entry)'
      BY <1>1, <1>2, <2>2, <3>1 DEF Free, Row
    <3>3. prog' = r
      BY <2>11, <2>15, <2>16, <2>18
    <3>4. Looking'
      BY <2>8, <2>9, <2>15, <3>2, <3>3 DEF Looking
    <3> QED BY <2>7, <3>4 DEF Right
  <2> QED BY <2>17, <2>18
<1> QED BY <1>5, <1>6

\* A statement of a list that has not failed: it is executed, or a row is there
\* already.
LEMMA StatementGiven ==
  ASSUME IInv, ListRight, Next, Statement, Lists'
  PROVE  /\ UNCHANGED <<todo, entry, used, listed>> /\ Head(prog).at = "sql"
         /\ Body(Head(prog).body, entry.msg) /\ entry.msg \in Messages /\ File \in Keys
         /\ Statmt \in Statements /\ Statmt.msg = entry.msg
         /\ Statmt.value = NoRow <=> Statmt.verb = "DELETE"
         /\ Head(Head(prog).body) = Statmt /\ Head(prog).key = File
         /\ \/ /\ ~Conflict(db[File], Statmt) /\ Executes(File, Statmt)
               /\ prog' = IF Len(Head(prog).body) = 1 THEN Tail(prog)
                          ELSE Call(File, Tail(Head(prog).body)) \o Tail(prog)
            \/ Conflict(db[File], Statmt) /\ UNCHANGED db /\ prog' = Tail(prog)
<1>1. current.kind = "list" /\ clean'
  <2>1. UNCHANGED current
    BY TaskGiven DEF TaskStep
  <2> QED BY <2>1 DEF Lists
<1>2. Subject = entry.msg
  BY <1>1 DEF Subject
<1>3. UNCHANGED <<todo, entry, used, listed>>
  BY DEF Statement
<1>4. \/ /\ ~Conflict(db[File], Statmt) /\ Executes(File, Statmt)
         /\ prog' = IF Len(Head(prog).body) = 1 THEN Tail(prog)
                    ELSE Call(File, Tail(Head(prog).body)) \o Tail(prog)
      \/ Conflict(db[File], Statmt) /\ UNCHANGED db /\ prog' = Tail(prog)
  BY <1>1 DEF Statement, Written, Executes, File, Statmt, Fault, fileVars
<1> QED BY <1>2, <1>3, <1>4, WriteFacts DEF File, Statmt, At

\* What a statement of the list does to the envelopes.
LEMMA StatementRows ==
  ASSUME IInv, Next, Statement, File \in Keys, Statmt \in Statements,
         Executes(File, Statmt) \/ UNCHANGED db
  PROVE  /\ \A k \in Keys, m \in Messages :
              k # File \/ m # Statmt.msg \/ Statmt.table # "messages" =>
                Row(db', m, k) = Row(db, m, k)
         /\ Executes(File, Statmt) /\ Statmt.table = "messages" =>
              Row(db', Statmt.msg, File) =
                IF Statmt.verb = "UPDATE" /\ Row(db, Statmt.msg, File) = NoRow THEN NoRow
                ELSE Statmt.value
<1>1. "messages" \in Tables /\ db \in [Keys -> Contents] /\ Statmt.msg \in Messages
  BY DEF Tables, IInv, TypeOK, Statements
<1>2. CASE UNCHANGED db /\ ~Executes(File, Statmt)
  BY <1>2 DEF Row
<1>3. CASE Executes(File, Statmt)
  <2>1. /\ db'[File] = Effect(db[File], Statmt) /\ db[File] \in Contents
        /\ \A k \in Keys : k # File => db'[k] = db[k]
    BY <1>3, ExecutesFacts
  <2>2. \A m \in Messages :
          Effect(db[File], Statmt)["messages"][m] =
            IF "messages" = Statmt.table /\ m = Statmt.msg THEN Left(db[File], Statmt)
            ELSE db[File]["messages"][m]
    BY <1>1, <2>1, EffectFacts
  <2> QED BY <1>1, <2>1, <2>2 DEF Row, Left
<1> QED BY <1>2, <1>3

\* A statement on one message leaves the entries of the others as they are.
LEMMA StatementOthers ==
  ASSUME IInv, ListRight, Next, Statement, Lists',
         NEW e, e.msg \in Messages, e.msg # entry.msg
  PROVE  (Stored(e)' <=> Stored(e)) /\ (Free(e)' <=> Free(e)) /\ (Settled(e)' <=> Settled(e))
<1>1. /\ \A status : KeyOf(status)' = KeyOf(status)
      /\ \A status : KeyOf(status) \in Keys
  BY SettingKept, KeyKept
<1>2. /\ Row(db', e.msg, KeyOf(e.status)) = Row(db, e.msg, KeyOf(e.status))
      /\ Row(db', e.msg, "invalid") = Row(db, e.msg, "invalid")
  <2>1. "invalid" \in Keys
    BY DEF Keys
  <2>2. \A k \in Keys : Row(db', e.msg, k) = Row(db, e.msg, k)
    BY StatementGiven, StatementRows
  <2> QED BY <1>1, <2>1, <2>2
<1>3. (Stored(e)' <=> Stored(e)) /\ (Free(e)' <=> Free(e))
  BY <1>1, <1>2 DEF Stored, Free, Row
<1> QED BY <1>3 DEF Settled

\* One statement of the deletion of an undated row.
LEMMA DeletionRight ==
  ASSUME IInv, ListRight, Next, Statement, Lists', Looking
  PROVE  Right'
<1> DEFINE b == Head(prog).body
           m == entry.msg
<1>1. /\ UNCHANGED <<todo, entry, used, listed>> /\ Head(prog).at = "sql"
      /\ Body(b, m) /\ m \in Messages /\ File \in Keys
      /\ Head(b) = Statmt /\ Head(prog).key = File
      /\ \/ /\ Executes(File, Statmt) /\ ~Conflict(db[File], Statmt)
            /\ prog' = IF Len(b) = 1 THEN Tail(prog) ELSE Call(File, Tail(b)) \o Tail(prog)
         \/ Conflict(db[File], Statmt)
  BY StatementGiven
<1>2. /\ TodoRight /\ UNCHANGED <<isds, Undated, setting>>
      /\ \A status : KeyOf(status)' = KeyOf(status)
      /\ \A status : KeyOf(status) = "year" => Undated = "invalid"
      /\ Undated \in Keys
  BY <1>1, ListGiven DEF At, TaskStep
<1>3. PICK r \in {ToLook, ToBegin} :
        /\ r = ToLook => KeyOf(entry.status) \in used
        /\ \/ prog = r /\ Free(entry)
           \/ /\ prog # <<>> /\ Tail(prog) = r
              /\ Head(prog).at = "sql" /\ Head(prog).key = Undated
              /\ EraseCall(Head(prog).body, db[Undated], entry.msg)
  BY DEF Looking
<1>4. /\ Tail(prog) = r /\ File = Undated /\ EraseCall(b, db[Undated], m)
  BY <1>1, <1>3 DEF ToLook, ToBegin, Code, Begin
<1>5. /\ Executes(File, Statmt)
      /\ prog' = IF Len(b) = 1 THEN r ELSE Call(Undated, Tail(b)) \o r
  <2>1. Statmt.verb = "DELETE"
    BY <1>1, <1>4, BodyHead DEF EraseCall
  <2> QED BY <1>1, <1>4, <2>1 DEF Conflict
<1>6. /\ Tail(b) \in Seq(Statements) /\ r \in Seq(Steps) /\ b \in Seq(Statements)
  <2>1. b \in Seq(Statements) /\ b # <<>>
    BY <1>1 DEF Body
  <2>2. prog \in Seq(Steps) /\ prog # <<>>
    BY TaskGiven DEF TaskStep
  <2> HIDE DEF b
  <2> QED BY <1>4, <2>1, <2>2, TailFacts
<1>7. /\ Len(b) = 1 => Erased(db'[Undated], m)
      /\ Len(b) # 1 => EraseCall(Tail(b), db'[Undated], m)
  <2>1. db'[Undated] = Effect(db[Undated], Head(b)) /\ db[Undated] \in Contents
    BY <1>1, <1>4, <1>5, StatementGiven, ExecutesFacts
  <2> QED BY <1>1, <1>4, <2>1, EraseCallStep
<1>8. TodoRight' /\ InHand'
  BY <1>1, <1>2 DEF TodoRight, InHand, Looking
<1>9. \A e \in listed' : e # entry' => Settled(e)' /\ KeyOf(e.status)' \in used'
  <2> SUFFICES ASSUME NEW e \in listed, e # entry
               PROVE  Settled(e)' /\ KeyOf(e.status) \in used
    BY <1>1, <1>2
  <2>1. Settled(e) /\ KeyOf(e.status) \in used /\ e.msg # m
    BY DEF Looking, InHand
  <2> QED BY <2>1, StatementOthers DEF Settled
<1>10. UNCHANGED <<ToLook, ToBegin>>
  BY <1>1, <1>2 DEF ToLook, ToBegin, Code, Begin
<1>11. r \in {ToLook', ToBegin'} /\ (r = ToLook' => KeyOf(entry.status)' \in used')
  BY <1>1, <1>2, <1>3, <1>10
<1>12. CASE Len(b) = 1
  <2>1. prog' = r
    BY <1>5, <1>12
  <2>2. Free(entry)'
    <3>1. Row(db', m, Undated) = NoRow
      BY <1>7, <1>12 DEF Erased, Row, Tables
    <3> QED BY <1>1, <1>2, <3>1 DEF Free, Row
  <2>3. Looking'
    BY <1>8, <1>9, <1>11, <2>1, <2>2 DEF Looking
  <2> QED BY <1>8, <2>3 DEF Right
<1>13. CASE Len(b) # 1
  <2>1. prog' = Call(Undated, Tail(b)) \o r
    BY <1>5, <1>13
  <2>2. /\ prog' # <<>> /\ Tail(prog') = r
        /\ Head(prog').at = "sql" /\ Head(prog').key = Undated /\ Head(prog').body = Tail(b)
    <3> DEFINE c == Tail(b)
               p == Call(Undated, c) \o r
    <3>1. c \in Seq(Statements) /\ r \in Seq(Steps) /\ Undated \in Keys /\ prog' = p
      BY <1>2, <1>6, <2>1
    <3> HIDE DEF b, c
    <3>2. p # <<>> /\ Tail(p) = r
      BY <3>1, CallFacts
    <3>3. Head(p).at = "sql"
      BY <3>1, CallFacts
    <3>4. Head(p).key = Undated
      BY <3>1, CallFacts
    <3>5. Head(p).body = c
      BY <3>1, CallFacts
    <3> HIDE DEF p
    <3>6. /\ prog' # <<>> /\ Tail(prog') = r
          /\ Head(prog').at = "sql" /\ Head(prog').key = Undated /\ Head(prog').body = c
      BY <3>1, <3>2, <3>3, <3>4, <3>5
    <3> QED BY <3>6 DEF c
  <2>3. /\ prog' # <<>> /\ Tail(prog') = r
        /\ Head(prog').at = "sql" /\ Head(prog').key = Undated'
        /\ EraseCall(Head(prog').body, db'[Undated'], entry'.msg)
    BY <1>1, <1>2, <1>7, <1>13, <2>2
  <2>4. Looking'
    BY <1>8, <1>9, <1>11, <2>3 DEF Looking
  <2> QED BY <1>8, <2>4 DEF Right
<1> QED BY <1>12, <1>13

\* One statement that stores an entry, or that touches nothing of it.
LEMMA StoreRight ==
  ASSUME IInv, ListRight, Next, Statement, Lists', Storing
  PROVE  Right'
<1> DEFINE b == Head(prog).body
           m == entry.msg
           v == entry.status
           q == KeyOf(entry.status)
           s == Statmt
<1>1. /\ UNCHANGED <<todo, entry, used, listed>> /\ Head(prog).at = "sql"
      /\ Body(b, m) /\ m \in Messages /\ File \in Keys
      /\ s \in Statements /\ s.msg = m
      /\ Head(b) = s /\ Head(prog).key = File
      /\ \/ /\ Executes(File, s) /\ ~Conflict(db[File], s)
            /\ prog' = IF Len(b) = 1 THEN Tail(prog) ELSE Call(File, Tail(b)) \o Tail(prog)
         \/ Conflict(db[File], s) /\ UNCHANGED db /\ prog' = Tail(prog)
  BY StatementGiven
<1>2. /\ TodoRight /\ UNCHANGED <<isds, Undated, setting>>
      /\ \A status : KeyOf(status)' = KeyOf(status)
      /\ \A status : KeyOf(status) \in Keys
  BY <1>1, ListGiven DEF At, TaskStep
<1>3. InHand /\ Ends(prog, v, q) /\ prog # <<>>
  BY <1>1 DEF Storing
<1>4. Harmless(Head(prog), v, q) /\ Ends(Tail(prog), v, q) /\ Tail(prog) \in Seq(Steps)
  BY <1>1, <1>3, EndsFacts
<1>5. \A i \in DOMAIN b : b[i].table = "messages" =>
        /\ b[i].verb \in {"INSERT", "UPDATE"}
        /\ b[i].value \in Statuses /\ Age[b[i].value] >= Age[v]
        /\ b[i].verb = "INSERT" => File = q
  BY <1>1, <1>4 DEF Harmless
<1>6. s.table = "messages" =>
        /\ s.verb \in {"INSERT", "UPDATE"}
        /\ s.value \in Statuses /\ s.value # NoRow /\ Age[s.value] >= Age[v]
        /\ s.verb = "INSERT" => File = q
  <2>1. Head(b) = b[1] /\ 1 \in DOMAIN b
    BY <1>1, BodyHead
  <2> QED BY <1>1, <1>5, <2>1, NoRowAssumption DEF Values
<1>7. Ends(prog', v, q)
  <2>1. CASE prog' = Tail(prog)
    BY <1>4, <2>1
  <2>2. CASE Len(b) # 1 /\ prog' = Call(File, Tail(b)) \o Tail(prog)
    <3>1. Tail(b) \in Seq(Statements)
      BY <1>1, TailFacts DEF Body
    <3>2. \A i \in DOMAIN Tail(b) : i + 1 \in DOMAIN b /\ Tail(b)[i] = b[i + 1]
      BY <1>1, AllRest
    <3>3. \A i \in DOMAIN Tail(b) : Tail(b)[i].table = "messages" =>
            /\ Tail(b)[i].verb \in {"INSERT", "UPDATE"}
            /\ Tail(b)[i].value \in Statuses /\ Age[Tail(b)[i].value] >= Age[v]
            /\ Tail(b)[i].verb = "INSERT" => File = q
      BY <1>5, <3>2
    <3> HIDE DEF b, v, q
    <3>4. Harmless(Head(Call(File, Tail(b))), v, q)
      BY <3>3, CallHarmless
    <3> QED BY <1>1, <1>4, <2>2, <3>1, <3>4, EndsCall
  <2> QED BY <1>1, <2>1, <2>2
<1>8. /\ \A k \in Keys : k # File \/ s.table # "messages" => Row(db', m, k) = Row(db, m, k)
      /\ Executes(File, s) /\ s.table = "messages" =>
           Row(db', m, File) = IF s.verb = "UPDATE" /\ Row(db, m, File) = NoRow THEN NoRow
                               ELSE s.value
  BY <1>1, StatementRows
<1>9. entry \in listed /\ Free(entry) /\ q \in used /\ (Stored(entry) \/ ComesNext)
  BY <1>3 DEF Storing, InHand
<1>10. ComesNext => /\ File = q /\ s.table = "messages"
                    /\ s.verb = IF Row(db, m, q) = NoRow THEN "INSERT" ELSE "UPDATE"
  BY <1>1 DEF ComesNext
<1>11. ComesNext => Executes(File, s)
  BY <1>1, <1>10 DEF Conflict, Row
<1>12. Row(db', m, q) # NoRow /\ Age[Row(db', m, q)] >= Age[v]
  <2>1. CASE ComesNext
    BY <1>6, <1>8, <1>10, <1>11, <2>1
  <2>2. CASE Stored(entry)
    <3>1. Row(db, m, q) # NoRow /\ Age[Row(db, m, q)] >= Age[v]
      BY <2>2 DEF Stored
    <3>2. CASE UNCHANGED db
      BY <3>1, <3>2 DEF Row
    <3>3. CASE Executes(File, s)
      BY <1>2, <1>6, <1>8, <3>1, <3>3
    <3> QED BY <1>1, <3>2, <3>3
  <2> QED BY <1>9, <2>1, <2>2
<1>13. Stored(entry)'
  BY <1>1, <1>2, <1>12 DEF Stored, Row
<1>14. Free(entry)'
  <2>1. q = "year" => Row(db, m, "invalid") = NoRow
    BY <1>9 DEF Free
  <2>2. q = "year" => Row(db', m, "invalid") = NoRow
    <3>1. CASE UNCHANGED db
      BY <2>1, <3>1 DEF Row
    <3>2. CASE Executes(File, s)
      BY <1>6, <1>8, <2>1, <3>2 DEF Keys
    <3> QED BY <1>1, <3>1, <3>2
  <2> QED BY <1>1, <1>2, <2>2 DEF Free, Row
<1>15. TodoRight' /\ InHand'
  BY <1>1, <1>2, <1>3 DEF TodoRight, InHand
<1>16. \A e \in listed' :
         /\ e.msg \in Messages /\ KeyOf(e.status)' \in used' /\ Free(e)'
         /\ Stored(e)' \/ (e = entry' /\ ComesNext')
  <2> SUFFICES ASSUME NEW e \in listed
               PROVE  e.msg \in Messages /\ KeyOf(e.status) \in used /\ Free(e)' /\ Stored(e)'
    BY <1>1, <1>2
  <2>1. CASE e = entry
    BY <1>1, <1>9, <1>13, <1>14, <2>1
  <2>2. CASE e # entry
    <3>1. e.msg \in Messages /\ KeyOf(e.status) \in used /\ Free(e) /\ Stored(e) /\ e.msg # m
      BY <1>3, <2>2 DEF Storing, InHand
    <3> QED BY <3>1, StatementOthers
  <2> QED BY <2>1, <2>2
<1>17. prog' # <<>> /\ Ends(prog', entry'.status, KeyOf(entry.status)')
  BY <1>1, <1>2, <1>7 DEF Ends
<1>18. Storing'
  BY <1>15, <1>16, <1>17 DEF Storing
<1> QED BY <1>15, <1>18 DEF Right

\* Every step of the program leaves a list right.
LEMMA RightKept ==
  ASSUME IInv, ListRight, Next
  PROVE  ListRight'
<1> SUFFICES ASSUME Lists' PROVE Right'
  BY DEF ListRight, Right
<1>1. CASE TaskBegins
  <2>1. current' \in Tasks /\ prog' = FirstStep(current')
    <3>1. current' # None /\ TypeOK'
      BY Inductive DEF Lists, IInv
    <3> QED BY <1>1, <3>1, TasksAssumption DEF TypeOK, PoolTypeOK, TaskBegins
  <2> QED BY <2>1 DEF Lists, FirstStep
<1>2. CASE TaskEnds \/ Crash \/ Restart
  BY <1>2 DEF TaskEnds, EndOfTask, Crash, Restart, Reopened, Lists
<1>3. CASE MainStep \/ ReadStep \/ ServerStep
  BY <1>3, OthersRight DEF ListRight, Right
<1>4. CASE TaskStep
  <2>1. CASE Statement
    <3>1. Looking \/ Storing \/ Committing
      BY <2>1, ListGiven DEF TaskStep, Statement, At
    <3>2. ~Committing
      BY <2>1, HeadFacts DEF Statement, At
    <3> QED BY <2>1, <3>1, <3>2, DeletionRight, StoreRight
  <2>2. CASE ~Statement
    <3>1. current.kind = "list"
      <4>1. UNCHANGED current
        BY <1>4, TaskGiven
      <4> QED BY <4>1 DEF Lists
    <3>2. ASSUME NEW at \in {"getMessage", "getDelivery", "mark", "create", "created", "erase",
                             "erasedIsds", "erasedLocal", "import", "imported"}
          PROVE  ~At(at)
      BY <3>1, KindAt DEF IInv, Codes
    <3>3. \/ BeginTransaction \/ CommitTransactions
          \/ GetMessageList \/ NextEntry \/ Entry \/ Schedule \/ GetState
      BY <1>4, <2>2, <3>2 DEF TaskStep, GetMessage, GetDelivery, MarkAsDownloaded,
         CreateMessage, Created, EraseFromIsds, EraseEnds, ImportSingle, Imported
    <3> QED BY <3>3, BeginRight, CommitRight, GetMessageListRight, NextEntryRight, EntryRight,
            ScheduleRight, GetStateRight
  <2> QED BY <2>1, <2>2
<1> QED BY <1>1, <1>2, <1>3, <1>4, NextSteps

\* The lists are right in every state.
LEMMA AlwaysRight == Spec => []ListRight
<1>1. Init => ListRight
  BY DEF Init, PoolInit, ListRight, Lists
<1>2. IInv /\ ListRight /\ [Next]_vars => ListRight'
  <2>1. ASSUME UNCHANGED vars, ListRight PROVE ListRight'
    <3>1. UNCHANGED <<setting, isds, db, open, current, prog, todo, entry, used, listed, clean,
                      Undated>>
      BY <2>1 DEF vars, poolVars, fileVars, taskVars, historyVars, Undated, secondaryKey
    <3>2. /\ \A status : KeyOf(status)' = KeyOf(status)
          /\ \A e : /\ Stored(e)' <=> Stored(e)
                    /\ Free(e)' <=> Free(e)
                    /\ Settled(e)' <=> Settled(e)
      BY <3>1 DEF KeyOf, secondaryKey, Settled, Stored, Free, Row
    <3>3. UNCHANGED <<ToLook, ToBegin>> /\ (Lists' <=> Lists) /\ (InHand' <=> InHand)
          /\ (TodoRight' <=> TodoRight) /\ (ComesNext' <=> ComesNext)
      BY <3>1, <3>2 DEF ToLook, ToBegin, Code, Begin, Lists, InHand, TodoRight, ComesNext, Row
    <3>4. Looking => Looking'
      BY <3>1, <3>2, <3>3 DEF Looking
    <3>5. Storing => Storing'
      BY <3>1, <3>2, <3>3 DEF Storing
    <3>6. Committing => Committing'
      BY <3>1, <3>2 DEF Committing, Code
    <3> QED BY <2>1, <3>3, <3>4, <3>5, <3>6 DEF ListRight
  <2> QED BY <2>1, RightKept
<1> QED BY <1>1, <1>2, Invariant, PTL DEF Spec

\* What the end of a list leaves on the disk.
LEMMA ListEnds ==
  ASSUME IInv, ListRight, Next, At("commit"), prog' = <<>>, clean', NEW e \in listed
  PROVE  /\ Row(disk', e.msg, KeyOf(e.status)) # NoRow
         /\ Age[Row(disk', e.msg, KeyOf(e.status))] >= Age[e.status]
         /\ KeyOf(e.status) = "year" => Row(db', e.msg, "invalid") = NoRow
<1>1. current # None /\ prog # <<>> /\ TaskFits(current, Dated, Undated)
  BY DEF At, IInv, CurrentFits
<1>2. current.kind = "list"
  BY <1>1, KindAt DEF IInv, Codes, TaskFits, Tasks
<1>3. CommitTransactions /\ TaskStep
  <2>1. TaskStep => CommitTransactions
    BY DEF TaskStep, Statement, BeginTransaction, CommitTransactions, GetMessageList,
       NextEntry, Entry, Schedule, GetState, GetMessage, GetDelivery, MarkAsDownloaded,
       CreateMessage, Created, EraseFromIsds, EraseEnds, ImportSingle, Imported, At
  <2>2. ~(TaskBegins \/ TaskEnds)
    BY <1>1 DEF TaskBegins, TaskEnds, Take
  <2>3. MainStep \/ ReadStep \/ ServerStep => prog' = prog
    BY MainFrame, ReadFrame, ServerFrame DEF taskVars
  <2>4. ~Crash /\ ~Restart
    BY <1>1 DEF Crash, Restart, Fault, Working
  <2> QED BY <1>1, <2>1, <2>2, <2>3, <2>4, NextSteps
<1>4. /\ db' = db
      /\ \/ used = {} /\ UNCHANGED <<used, open>>
         \/ \E k \in used : used' = used \ {k} /\ open' = open \ {k}
      /\ used' = {} /\ clean
  BY <1>1, <1>3 DEF CommitTransactions, Fault, NoFault, fileVars
<1>5. Committing
  <2>1. Lists
    BY <1>1, <1>2, <1>4, CodeFacts DEF Lists, At
  <2> QED BY <2>1, HeadFacts DEF ListRight, At
<1>6. Settled(e) /\ KeyOf(e.status) \notin open'
  BY <1>4, <1>5 DEF Committing
<1>7. disk'[KeyOf(e.status)] = db[KeyOf(e.status)]
  <2>1. KeyOf(e.status) \in Keys
    BY KeysFit DEF IInv, TypeOK
  <2> QED BY <1>4, <1>6, <2>1, ConnectedKept DEF Connected
<1> QED BY <1>4, <1>6, <1>7 DEF Settled, Stored, Free, Row

\* When a list ends and nothing has failed since it began, what it named is on
\* the disk in the file of its year, as the list gave it or later, and is gone
\* from the file of the messages without a delivery time; whatever has failed,
\* crashed or been left open before, and whatever the main thread did meanwhile.
THEOREM ListsSettle == Spec => ListSettles
<1> DEFINE A == At("commit") /\ prog' = <<>> /\ clean'
                => \A e \in listed :
                     /\ Row(disk', e.msg, KeyOf(e.status)) # NoRow
                     /\ Age[Row(disk', e.msg, KeyOf(e.status))] >= Age[e.status]
                     /\ KeyOf(e.status) = "year" => Row(db', e.msg, "invalid") = NoRow
<1>1. IInv /\ ListRight /\ [Next]_vars => [A]_vars
  BY ListEnds
<1>2. Spec => [][A]_vars
  BY <1>1, Invariant, AlwaysRight, PTL DEF Spec
<1> QED BY <1>2 DEF ListSettles

=============================================================================
