---------------------------- MODULE CommandLine ----------------------------
(***************************************************************************)
(* One run of the command line interface, from the text the user writes to *)
(* the end of the process: the options are read, the service talks to the  *)
(* server, itself or through the pool, prints and writes files, and main() *)
(* waits for the pool and returns.                                         *)
(*                                                                         *)
(* What the attributes of an accepted text say is chosen by Start among    *)
(* Requests, apart from the text.  The database set is organised by years; *)
(* the file "year" stands for that of the delivery time of a message.  A   *)
(* task is one step here, and a list that fails has stored nothing.  The   *)
(* envelope of a message is inserted or not, and so is its content, the    *)
(* raw data with the attachments; erasures do not fail.  Finding a box and *)
(* the information about user and owner are one request each and left out; *)
(* so are files that cannot be written.                                    *)
(***************************************************************************)
EXTENDS CmdOptions, PoolQueue

CONSTANTS
  Messages,    \* messages at the server
  Type,        \* of a message: "received" or "sent"
  Recipients,  \* boxes to send to
  Requests,    \* what a user may ask for
  Characters,  \* what one who knows the syntax puts between apostrophes
  Scraps,      \* what one who does not writes
  MaxOptions, MaxCharacters,  \* bounds on the options of the one and their values
  MaxScrap,    \* bound on the length of the text of the other
  MaxFaults    \* bound on requests to the server, and statements, that fail

Services ==
  [service : {"login", "getmessageids", "checkattachment"}]
  \cup [service : {"getmessagelist"}, types : Seq({"received", "sent"}) \ {<<>>},
        complete : BOOLEAN]
  \cup [service : {"sendmessage"}, recipients : Seq(Recipients) \ {<<>>}]
  \cup [service : {"getmessage", "getdeliveryinfo"}, msg : Messages,
        download : {"absent", "no", "ondemand", "yes"},
        files : SUBSET {"attachmentDir", "zfoFile", "markDownload"}]

Task(kind, arg) == [kind |-> kind, arg |-> arg]
Tasks == {Task("list", t) : t \in {"received", "sent"}}
         \cup {Task("download", m) : m \in Messages}
         \cup {Task("send", r) : r \in Recipients}

ASSUME CommandLineAssumption ==
  /\ IsFiniteSet(Messages)
  /\ Type \in [Messages -> {"received", "sent"}]
  /\ Requests \subseteq Services
  /\ Tasks \subseteq Items /\ None \notin Items \cup Requests
  /\ {MaxOptions, MaxCharacters, MaxScrap, MaxFaults} \subseteq Nat

VARIABLES
  text,      \* what the user has written
  written,   \* the options a user who knows the syntax has meant, or None
  inValue,   \* the last of them has not been closed
  at,        \* what the main thread is in
  request,
  todo,      \* lists or recipients that remain
  where,     \* the file of the message that was asked for
  new,       \* newMsgIdList
  printed,   \* what is printed: messages, or identifiers of messages sent
  output,    \* files written and marks set
  code,      \* the code the process returns
  done,      \* has the running task run?
  result,    \* of the last task in the single slot
  target,    \* the file a message belongs to now, by its delivery time
  store,     \* of a message: its file, that of its delivery info, ...
  initially, \* history: what store was
  sent,      \* history: what the server has got, by the identifier it gave; was it stored?
  tried,     \* history: messages whose download was tried
  uninserted, \* history: listed messages whose envelope could not be inserted
  unmarked,  \* history: has the marking as read failed?
  faults

textVars == <<text, written, inValue>>
mainVars == <<at, request, todo, where, new, printed, output, code>>
storeVars == <<target, store, initially>>
serverVars == <<sent, tried, uninserted, unmarked, faults>>
vars == <<poolVars, textVars, mainVars, done, result, storeVars, serverVars>>

Stored(file, whole) == [file |-> file, whole |-> whole, info |-> "none", read |-> FALSE]
Nowhere == Stored("none", FALSE)

Outcome(ok, ids) == [ok |-> ok, new |-> ids]

Init ==
  /\ PoolInit
  /\ text = <<>> /\ written \in {<<>>, None} /\ inValue = FALSE
  /\ at = "typing" /\ request = None /\ todo = <<>> /\ where = "none"
  /\ new = {} /\ printed = {} /\ output = {} /\ code = None
  /\ done = FALSE /\ result = Outcome(FALSE, {})
  /\ target = [m \in Messages |-> "year"]
  /\ store = [m \in Messages |-> Nowhere] /\ initially = store
  /\ sent = <<>> /\ tried = {} /\ uninserted = {} /\ unmarked = FALSE /\ faults = 0

Fails(n) == faults' = faults + n /\ faults' <= MaxFaults
Answered(ok) == Fails(IF ok THEN 0 ELSE 1)

-----------------------------------------------------------------------------
(* The user writes. *)

Writes(s) ==
  /\ at = "typing"
  /\ text' = text \o s
  /\ UNCHANGED <<poolVars, mainVars, done, result, storeVars, serverVars>>

BeginOption(name) ==
  /\ written # None /\ ~inValue /\ Len(written) < MaxOptions
  /\ Writes((IF text = <<>> THEN <<>> ELSE <<Comma>>) \o name \o <<Equals, Quote>>)
  /\ written' = Append(written, [name |-> name, value |-> <<>>])
  /\ inValue' = TRUE

\* An apostrophe and a backslash are escaped, where the parser unescapes.
WriteValue(ch) ==
  /\ written # None /\ inValue
  /\ Len(FlattenSeq([i \in DOMAIN written |-> written[i].value])) < MaxCharacters
  /\ LET plain == KeepsBackslashes(Last(written).name)
     IN /\ plain => ch # Quote
        /\ Writes(IF ch \in {Quote, Backslash} /\ ~plain THEN <<Backslash, ch>> ELSE <<ch>>)
  /\ written' = [written EXCEPT ![Len(written)].value = Append(@, ch)]
  /\ UNCHANGED inValue

EndOption ==
  /\ written # None /\ inValue /\ Last(written).value # <<>>
  /\ Writes(<<Quote>>)
  /\ inValue' = FALSE
  /\ UNCHANGED written

WriteScrap(s) ==
  /\ written = None /\ Len(text) + Len(s) <= MaxScrap
  /\ Writes(s)
  /\ UNCHANGED <<written, inValue>>

\* The application reads the compose command and hands it over as a message to
\* the process with the window, which may be itself.
Compose ==
  /\ at = "typing" /\ deserialise(text) # Null
  /\ text' = serialise(deserialise(text))
  /\ at' = "handedOver" /\ written' = <<>> /\ inValue' = FALSE
  /\ UNCHANGED <<poolVars, request, todo, where, new, printed, output, code, done,
                 result, storeVars, serverVars>>

-----------------------------------------------------------------------------
(* runService(). *)

\* The messages a file answers for.
In(file, m) == store[m].file = file

needsISDS(r) ==
  CASE r.service \in {"getmessage", "getdeliveryinfo"} ->
         \/ r.download = "yes"
         \/ r.download # "no" /\ IF r.service = "getmessage" THEN ~store[r.msg].whole
                                 ELSE store[r.msg].info # store[r.msg].file
    [] OTHER -> r.service \notin {"getmessageids", "checkattachment"}

Close(success) == at' = "closing" /\ code' = success

Proceed(r) ==
  /\ at' = CASE r.service = "getmessagelist" -> "list"
             [] r.service = "sendmessage" -> "send"
             [] r.service \in {"getmessage", "getdeliveryinfo"} /\ needsISDS(r) -> "download"
             [] OTHER -> "local"
  /\ todo' = CASE r.service = "getmessagelist" -> r.types
               [] r.service = "sendmessage" -> r.recipients
               [] OTHER -> <<>>
  /\ where' = IF r.service \in {"getmessage", "getdeliveryinfo"} THEN store[r.msg].file ELSE where
  /\ code' = code

\* The text is accepted.
Accept ==
  /\ at = "typing" /\ parsePamamString(text).error = "CLI_SUCCESS"
  /\ at' = "accepted"
  /\ text' = <<>> /\ written' = <<>> /\ inValue' = FALSE
  /\ UNCHANGED <<poolVars, request, todo, where, new, printed, output, code, done,
                 result, storeVars, serverVars>>

\* Only now it matters what the server and the database have.  A delivery time
\* once stored does not change, and a message without one has no content.
AccessDbSet ==
  /\ at = "accepted" /\ at' = "accessed"
  /\ target' \in [Messages -> {"invalid", "year"}]
  /\ store' \in [Messages -> {Nowhere, Stored("invalid", FALSE)}
                               \cup {Stored("year", w) : w \in BOOLEAN}]
  /\ \A m \in Messages : store'[m].file = "year" => target'[m] = "year"
  /\ initially' = store'
  /\ UNCHANGED <<poolVars, textVars, request, todo, where, new, printed, output, code,
                 done, result, serverVars>>

\* The log-in is a request; a message that is not in any file ends the run.
Start(r) ==
  /\ at = "accessed" /\ request' = r
  /\ IF r.service \in {"getmessage", "getdeliveryinfo"} /\ In("none", r.msg)
     THEN Close(FALSE) /\ UNCHANGED <<todo, where, faults>>
     ELSE IF needsISDS(r)
     THEN \E ok \in BOOLEAN : /\ Answered(ok)
                              /\ IF ok THEN Proceed(r) ELSE Close(FALSE) /\ UNCHANGED <<todo, where>>
     ELSE Proceed(r) /\ UNCHANGED faults
  /\ UNCHANGED <<poolVars, textVars, new, printed, output, done, result, storeVars, sent,
                 tried, uninserted, unmarked>>

\* The text is not accepted or lacks a mandatory attribute.
Refuse ==
  /\ at = "typing" /\ text # <<>>
  /\ Close(FALSE)
  /\ text' = <<>> /\ written' = <<>> /\ inValue' = FALSE
  /\ UNCHANGED <<poolVars, request, todo, where, new, printed, output, done, result,
                 storeVars, serverVars>>

-----------------------------------------------------------------------------
(* getMsgList() and createAndSendMsg() let the pool work. *)

\* runSingle() is entered.
Submit ==
  /\ at \in {"list", "send"}
  /\ PutSingle(Task(at, Head(todo)))
  /\ at' = IF at = "list" THEN "listing" ELSE "sending"
  /\ UNCHANGED <<textVars, request, todo, where, new, printed, output, code, done, result,
                 storeVars, serverVars>>

\* MUTANT of ListReturns: the second list's identifiers replace the first's.
ListReturnsLast ==
  /\ at = "listing" /\ VacateSingle
  /\ todo' = Tail(todo)
  /\ new' = IF result.ok THEN result.new ELSE new
  /\ at' = IF ~result.ok THEN "failed" ELSE IF todo' = <<>> THEN "waiting" ELSE "list"
  /\ UNCHANGED <<textVars, request, where, printed, output, code, done, result,
                 storeVars, serverVars>>

ListReturns ==
  /\ at = "listing" /\ VacateSingle
  /\ todo' = Tail(todo)
  /\ new' = IF result.ok THEN new \cup result.new ELSE new
  /\ at' = IF ~result.ok THEN "failed" ELSE IF todo' = <<>> THEN "waiting" ELSE "list"
  /\ UNCHANGED <<textVars, request, where, printed, output, code, done, result,
                 storeVars, serverVars>>

\* The pending downloads are dropped: stop() waits for the running one.
StopPending ==
  /\ at = "failed"
  /\ SetTerminating(TRUE)
  /\ at' = "stopping"
  /\ UNCHANGED <<textVars, request, todo, where, new, printed, output, code, done, result,
                 storeVars, serverVars>>

\* MUTANT of ClearPending: what waits is left to the end of main().
ClearPendingNot ==
  /\ at = "stopping" /\ current = None
  /\ UNCHANGED poolVars
  /\ Close(FALSE)
  /\ UNCHANGED <<textVars, request, todo, where, new, printed, output, done, result,
                 storeVars, serverVars>>

ClearPending ==
  /\ at = "stopping" /\ current = None
  /\ ClearQueues
  /\ Close(FALSE)
  /\ UNCHANGED <<textVars, request, todo, where, new, printed, output, done, result,
                 storeVars, serverVars>>

\* wait() returns.
PrintNew ==
  /\ at = "waiting" /\ ~Working
  /\ printed' = new
  /\ Close(TRUE)
  /\ UNCHANGED <<poolVars, textVars, request, todo, where, new, output, done, result,
                 storeVars, serverVars>>

\* MUTANT of SendReturns: what was sent but not stored is printed, too.
SendReturnsAny ==
  /\ at = "sending" /\ VacateSingle
  /\ todo' = Tail(todo)
  /\ printed' = printed \cup result.new
  /\ IF todo' = <<>> THEN Close(result.ok) ELSE at' = "send" /\ code' = code
  /\ UNCHANGED <<textVars, request, where, new, output, done, result, storeVars, serverVars>>

\* The last recipient decides about the code.
SendReturns ==
  /\ at = "sending" /\ VacateSingle
  /\ todo' = Tail(todo)
  /\ printed' = IF result.ok THEN printed \cup result.new ELSE printed
  /\ IF todo' = <<>> THEN Close(result.ok) ELSE at' = "send" /\ code' = code
  /\ UNCHANGED <<textVars, request, where, new, output, done, result, storeVars, serverVars>>

-----------------------------------------------------------------------------
(* getMsg(), getDeliveryInfo(), getMsgIds() and checkAttachment(). *)

\* What is stored of a message after its download: it leaves the file
\* "invalid" with all that is stored there.
Downloaded(m, whole, informed) ==
  [file |-> target[m], whole |-> whole \/ (In(target[m], m) /\ store[m].whole),
   info |-> IF informed THEN target[m] ELSE IF In(target[m], m) THEN store[m].info ELSE "none",
   read |-> In(target[m], m) /\ store[m].read]

\* Whether the content, or the envelope in another file, has been stored is not
\* looked at; without an envelope nothing is stored.
StoreMessage(m) ==
  \/ \E whole, informed \in BOOLEAN :
       /\ Answered(whole)
       /\ store' = [store EXCEPT ![m] = IF In("none", m) THEN @
                                        ELSE Downloaded(m, whole, informed)]
  \/ ~In(target[m], m) /\ Answered(FALSE) /\ store' = [store EXCEPT ![m] = Nowhere]

\* The server hands over what was delivered; the requests that follow the
\* first one of a download may fail unnoticed.
Fetched(m, message, ok) ==
  \/ /\ ~ok /\ store' = store
     /\ Answered(FALSE) \/ (target[m] = "invalid" /\ UNCHANGED faults)
  \/ /\ ok /\ target[m] = "year"
     /\ IF message THEN StoreMessage(m)
        ELSE Answered(TRUE) /\ store' = [store EXCEPT ![m].info = target[m]]

DownloadMessage(ok) ==
  /\ at = "download"
  /\ Fetched(request.msg, request.service = "getmessage", ok)
  /\ IF ok THEN at' = "local" /\ code' = code ELSE Close(FALSE)
  /\ UNCHANGED <<poolVars, textVars, request, todo, where, new, printed, output, done,
                 result, target, initially, sent, tried, uninserted, unmarked>>

\* The database is the one that was looked up before the download.
Attachments == IF In(where, request.msg) /\ store[request.msg].whole THEN {"attachmentDir"} ELSE {}

\* MUTANT of ZfoFile: the content need not be there.
ZfoFileAlways == TRUE

ZfoFile ==
  IF request.service = "getmessage"
  THEN In(where, request.msg) /\ store[request.msg].whole
  ELSE store[request.msg].info = where

\* Whether the mark has been set is not looked at.
Export ==
  /\ at = "local" /\ request.service \in {"getmessage", "getdeliveryinfo"}
  /\ LET asked(x) == x \in request.files
         attachments == IF asked("attachmentDir") /\ request.service = "getmessage"
                        THEN Attachments ELSE {}
         failed == asked("zfoFile") /\ ~ZfoFile
         marks == asked("markDownload") /\ request.service = "getmessage" /\ ~failed
     IN /\ output' = attachments
                     \cup (IF asked("zfoFile") /\ ~failed THEN {"zfoFile"} ELSE {})
        /\ \E ok \in BOOLEAN :
             /\ Answered(ok) /\ (ok \/ marks) /\ unmarked' = ~ok
             /\ store' = IF marks /\ ok /\ In(where, request.msg)
                         THEN [store EXCEPT ![request.msg].read = TRUE] ELSE store
        /\ Close(~failed)
  /\ UNCHANGED <<poolVars, textVars, request, todo, where, new, printed, done, result,
                 target, initially, sent, tried, uninserted>>

\* A log-in asks for nothing more; the others look at all files.
AnswerLocally ==
  /\ at = "local" /\ request.service \in {"login", "getmessageids", "checkattachment"}
  /\ printed' = {m \in Messages :
                   /\ request.service # "login" /\ ~In("none", m)
                   /\ request.service = "checkattachment" => ~store[m].whole}
  /\ Close(TRUE)
  /\ UNCHANGED <<poolVars, textVars, request, todo, where, new, output, done, result,
                 storeVars, serverVars>>

-----------------------------------------------------------------------------
(* The worker. *)

WorkerTake ==
  /\ Take
  /\ done' = FALSE
  /\ UNCHANGED <<textVars, mainVars, result, storeVars, serverVars>>

Runs(kind) == current # None /\ ~done /\ current.kind = kind /\ done' = TRUE

\* New messages are stored without content in the file of their time; whether
\* they have been inserted there is not looked at.  Their downloads, and those of
\* messages whose state has changed, go to the front, in the order of the list.
RunList(ok, changed, refused) ==
  /\ Runs("list") /\ (refused # {} => ok)
  /\ Fails(Cardinality(refused) + (IF ok THEN 0 ELSE 1))
  /\ LET listed == {m \in Messages : Type[m] = current.arg}
         fresh == {m \in listed : ~In(target[m], m)}
         again == {m \in (changed \cap listed) \ fresh : request.complete \/ store[m].whole}
         downloads == {Task("download", m) : m \in again \cup (IF request.complete THEN fresh ELSE {})}
         orders == Bijection(1 .. Cardinality(downloads), downloads)
     IN /\ refused \subseteq fresh
        /\ result' = Outcome(ok, IF ok THEN fresh ELSE {})
        /\ store' = [m \in Messages |->
                       IF ok /\ m \in fresh
                       THEN IF m \in refused THEN Nowhere ELSE Stored(target[m], FALSE)
                       ELSE store[m]]
        /\ \E order \in orders : lo' = (IF ok THEN order ELSE <<>>) \o lo
  /\ uninserted' = uninserted \cup refused
  /\ UNCHANGED <<hi, single, state, current, terminating, emitted, textVars, mainVars,
                 target, initially, sent, tried, unmarked>>

RunDownload(ok) ==
  /\ Runs("download") /\ Fetched(current.arg, TRUE, ok)
  /\ tried' = tried \cup {current.arg}
  /\ UNCHANGED <<poolVars, textVars, mainVars, result, target, initially, sent,
                 uninserted, unmarked>>

\* The server refuses, or accepts and the message is stored or not; an accepted
\* message has got an identifier either way.
RunSend(accepted, stored) ==
  /\ Runs("send") /\ Answered(accepted /\ stored)
  /\ sent' = IF accepted THEN Append(sent, [box |-> current.arg, stored |-> stored]) ELSE sent
  /\ result' = Outcome(accepted /\ stored, IF accepted THEN {Len(sent')} ELSE {})
  /\ UNCHANGED <<poolVars, textVars, mainVars, storeVars, tried, uninserted, unmarked>>

WorkerEnd ==
  /\ done /\ EndOfTask
  /\ UNCHANGED <<textVars, mainVars, done, result, storeVars, serverVars>>

Worker ==
  \/ WorkerTake
  \/ \E ok \in BOOLEAN, changed, refused \in SUBSET Messages : RunList(ok, changed, refused)
  \/ \E ok \in BOOLEAN : RunDownload(ok)
  \/ \E accepted, stored \in BOOLEAN : RunSend(accepted, stored)
  \/ WorkerEnd

-----------------------------------------------------------------------------
(* The end of main(), and the whole. *)

Drained ==
  /\ at = "closing" /\ ~Working
  /\ SetTerminating(TRUE)
  /\ at' = "joining"
  /\ UNCHANGED <<textVars, request, todo, where, new, printed, output, code, done, result,
                 storeVars, serverVars>>

Exit ==
  /\ at = "joining" /\ current = None
  /\ at' = "ended"
  /\ UNCHANGED <<poolVars, textVars, request, todo, where, new, printed, output, code, done,
                 result, storeVars, serverVars>>

Main ==
  \/ Submit \/ ListReturns \/ StopPending \/ ClearPending \/ PrintNew \/ SendReturns
  \/ \E ok \in BOOLEAN : DownloadMessage(ok)
  \/ Export \/ AnswerLocally
  \/ Drained \/ Exit

Next ==
  \/ \E name \in Known : BeginOption(name)
  \/ \E ch \in Characters : WriteValue(ch)
  \/ EndOption
  \/ \E s \in Scraps : WriteScrap(s)
  \/ Compose \/ Refuse \/ Accept \/ AccessDbSet
  \/ \E r \in Requests : Start(r)
  \/ Main
  \/ Worker

Spec == Init /\ [][Next]_vars

\* The code goes on, every request is answered, and threads are scheduled.
FairSpec == Spec /\ WF_vars(Main) /\ WF_vars(Worker)

-----------------------------------------------------------------------------
(* Properties. *)

\* A user who writes each value between apostrophes, and a backslash before
\* each apostrophe and backslash in it, gives the service these very values
\* (but no apostrophe in a path): whatever else is in them and in whatever
\* order, no value runs into the next attribute.
ParamsRight ==
  at = "typing" /\ written \notin {None, <<>>} /\ ~inValue =>
    parsePamamString(text) =
      [error |-> "CLI_SUCCESS",
       map |-> FoldLeft(LAMBDA map, o : Assigned(map, o.name, o.value), <<>>, written)]

\* The tokeniser accepts exactly the texts that are lists of options separated
\* by commas, with one equals sign each, and a name and a value that are plain
\* or as a whole between apostrophes, and yields these names and values.
TokensRight == at = "typing" => tokeniseCmdOption(text) = Reading(text)

\* Both readers of options.
ReadersRight == ParamsRight /\ TokensRight

\* A compose command that the application accepts is the same command after it
\* has been printed, handed over to another process and read again.
ComposeSurvives ==
  [][at' = "handedOver" => deserialise(text') = deserialise(text)]_vars

\* The messages that have come into a file, or into another one.
Added == {m \in Messages : store[m].file \notin {initially[m].file, "none"}}

\* A run that ends with success after lists has printed every message it has added
\* to a file, of both lists, and of the others exactly those whose insertion failed
\* unnoticed; and it has tried to download each when it was to.  A run that fails
\* prints none, whatever its first list has stored.
ListTells ==
  at = "ended" /\ request # None /\ request.service = "getmessagelist" =>
    IF code
    THEN /\ printed = Added \cup uninserted
         /\ request.complete => printed \subseteq tried
    ELSE printed = {}

\* What is printed is in a file; TLC finds this violated.
PrintedAdded ==
  at = "ended" /\ request # None /\ request.service = "getmessagelist" =>
    printed \subseteq Added

\* The identifiers printed are those of the messages that the server has accepted
\* and the database has stored; each was sent for one mention of its recipient, in
\* the order of the request, and no mention has got two, also where the user has
\* named a box twice; but the code is that of the last mention alone.
SendTells ==
  at = "ended" /\ request # None /\ request.service = "sendmessage" =>
    /\ printed = {i \in DOMAIN sent : sent[i].stored}
    /\ \E f \in [DOMAIN sent -> DOMAIN request.recipients] :
         /\ \A i \in DOMAIN sent : sent[i].box = request.recipients[f[i]]
         /\ \A i, j \in DOMAIN sent : i < j => f[i] < f[j]
         /\ code <=> \E i \in printed : f[i] = Len(request.recipients)

\* What a run prints can be told from what it has done: both of the above.
PrintedTold == ListTells /\ SendTells

\* A run that ends with success has written the files it was asked for and has
\* marked the message as read, unless the marking failed unnoticed; except that,
\* when the download has moved the message to the file of its year or lost it, or
\* there is no content, only the ZFO file is sure.
FilesTell ==
  at = "ended" /\ request # None /\ request.service = "getmessage" /\ code =>
    /\ "zfoFile" \in request.files => "zfoFile" \in output /\ store[request.msg].whole
    /\ store[request.msg].file = initially[request.msg].file =>
         /\ "markDownload" \in request.files => store[request.msg].read \/ unmarked
         /\ "attachmentDir" \in request.files /\ store[request.msg].whole =>
              "attachmentDir" \in output

\* A run that has begun ends, also when a list fails while downloads of the
\* list before are waiting in the pool, and leaves no task there.
CommandEnds == request # None ~> (at = "ended" /\ ~Working)

=============================================================================
