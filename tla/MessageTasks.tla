---------------------------- MODULE MessageTasks ----------------------------
(***************************************************************************)
(* The life of the messages of one account: the worker's tasks that fetch  *)
(* the lists and the messages, send, erase and import, between the ISDS    *)
(* server and the database files of the account, while the main thread     *)
(* writes to the same files.                                               *)
(*                                                                         *)
(* prog is what the running task has still to do: calls of MessageDb, each *)
(* a sequence of statements, and code that decides what to do next.  The   *)
(* two threads share the connections, so their statements interleave and   *)
(* the transaction that a task has begun holds the statements of both.     *)
(* Not modelled: file names and the creation of files, progress, wording.  *)
(***************************************************************************)
EXTENDS PoolQueue, MessageDb, FiniteSets

CONSTANTS
  Sent,       \* the messages the user sends, the others are received
  Files,      \* the messages the user has in ZFO files
  Settings,   \* see setting
  MaxFaults,  \* bound: failed statements and requests, crashes
  MaxOps      \* bound: actions of the user

Keys == {"single", "invalid", "year"}
Results == {"SM_SUCCESS", "SM_ISDS_ERROR", "SM_DB_INS_ERR", "NOT_DELETED",
            "DELETED_ISDS", "DELETED_LOCAL", "DELETED_ISDS_LOCAL"}
Task(kind, msg, key, arg) ==
  [kind |-> kind, msg |-> msg, key |-> key, arg |-> arg]
Tasks ==
  [kind : {"list", "download", "send", "erase", "importMessage",
           "importDelivery"},
   msg : Messages \cup {None}, key : Keys \cup {None},
   arg : {"received", "sent", "isds", "local", None}]

ASSUME TasksAssumption ==
  /\ IsFiniteSet(Messages)
  /\ Sent \subseteq Messages
  /\ Files \subseteq Messages
  /\ Items = Tasks /\ None \notin Items
  /\ Settings \subseteq [byYears : BOOLEAN, whole : BOOLEAN,
                          poison : {"received", None}]
  /\ MaxFaults \in Nat /\ MaxOps \in Nat
  /\ None \notin Messages \cup Keys \cup Results

VARIABLES
  setting,    \* what does not change: byYears, whole, poison
  isds,       \* the state of each message at the server
  db,         \* the content of the files as the connections show it
  disk,       \* the content a crash leaves
  open,       \* the files with a transaction begun and not ended
  prog,       \* what the running task has still to do
  ok,         \* did the last call of MessageDb succeed?
  todo,       \* entries of the list not looked at
  entry,      \* the one that is looked at
  used,       \* usedDbs of the running list
  result,     \* of the last task that sent or erased
  reported,   \* sent messages whose report the main thread has not handled
  erased,     \* history: what was erased from the server and from a file
  marked,     \* history: messages the user has read, outside a transaction
  torn,       \* history: messages with a call that was cut
  listed,     \* history: entries of the running list looked at
  clean,      \* history: nothing failed since the list began
  faults, ops

fileVars == <<db, disk, open>>
taskVars == <<prog, ok, todo, entry, used>>
historyVars == <<erased, marked, torn, listed, clean>>
mainVars == <<result, reported, ops>>
vars == <<poolVars, setting, isds, fileVars, taskVars, historyVars, mainVars,
          faults>>

\* An entry without a message is one that could not be converted.
Entries == [msg : Messages \cup {None}, status : Statuses \cup {None}]

Steps == [at : {"sql", "begin", "commit", "getMessageList", "nextEntry",
                "entry", "schedule", "getState", "getMessage", "getDelivery",
                "mark", "create", "created", "erase", "erasedIsds",
                "erasedLocal", "import", "imported"},
          key : Keys \cup {None}, body : Seq(Statements)]

TypeOK ==
  /\ PoolTypeOK
  /\ setting \in Settings
  /\ isds \in [Messages -> Statuses \cup {"absent", "gone"}]
  /\ db \in [Keys -> Contents] /\ disk \in [Keys -> Contents]
  /\ open \subseteq Keys
  /\ prog \in Seq(Steps)
  /\ ok \in BOOLEAN
  /\ todo \in Seq(Entries) /\ entry \in Entries \cup {None}
  /\ used \subseteq Keys
  /\ result \in Results \cup {None}
  /\ reported \subseteq Sent
  /\ erased \subseteq Messages \X Keys
  /\ marked \subseteq Messages /\ torn \subseteq Messages
  /\ listed \subseteq Entries
  /\ clean \in BOOLEAN
  /\ faults \in 0 .. MaxFaults /\ ops \in 0 .. MaxOps

Init ==
  /\ PoolInit
  /\ setting \in Settings
  /\ isds = [m \in Messages |-> "absent"]
  /\ db = [k \in Keys |-> Empty] /\ disk = db
  /\ open = {}
  /\ prog = <<>> /\ ok = TRUE /\ todo = <<>> /\ entry = None
  /\ used = {}
  /\ result = None /\ reported = {}
  /\ erased = {} /\ marked = {} /\ torn = {} /\ listed = {} /\ clean = TRUE
  /\ faults = 0 /\ ops = 0

-----------------------------------------------------------------------------
(* Helpers. *)

Listed(m) == isds[m] \in Statuses
Seen(m) == IF m \in Sent THEN "seen" ELSE "unseen"

\* The delivery time of a posted message is not valid.
Valid(status) == status # "posted"
secondaryKey(valid) ==
  IF ~setting.byYears THEN "single" ELSE IF valid THEN "year" ELSE "invalid"
KeyOf(status) == secondaryKey(Valid(status))

\* MUTANT of SeparateInvalid: the keys of the two organisations are not told
\* apart.
SeparateAlways == TRUE

SeparateInvalid == secondaryKey(FALSE) # secondaryKey(TRUE)

Code(at) == <<[at |-> at, key |-> None, body |-> <<>>]>>
Begin(k) == <<[at |-> "begin", key |-> k, body |-> <<>>]>>
Call(k, body) == <<[at |-> "sql", key |-> k, body |-> body]>>
At(at) == current # None /\ prog # <<>> /\ Head(prog).at = at
Continue(p) == prog' = p \o Tail(prog)
Return == prog' = <<>>

Fault == faults < MaxFaults /\ faults' = faults + 1 /\ clean' = FALSE
NoFault == UNCHANGED <<faults, clean>>

UnchangedButProg ==
  UNCHANGED <<poolVars, setting, isds, fileVars, ok, todo, entry, used, mainVars,
              erased, marked, torn, listed>>

-----------------------------------------------------------------------------
(* The worker and its connections. *)

FirstStep(t) ==
  CASE t.kind = "list" -> Code("getMessageList")
    [] t.kind = "download" -> Code("getMessage")
    [] t.kind = "send" -> Code("create")
    [] t.kind = "erase" -> Code("erase")
    [] OTHER -> Code("import")

TaskBegins ==
  /\ Take
  /\ prog' = FirstStep(current')
  /\ UNCHANGED <<setting, isds, fileVars, ok, todo, entry, used, historyVars, mainVars,
                 faults>>

\* The emission of sendMessageFinished() posts an event to the main thread.
TaskEnds ==
  /\ current # None
  /\ prog = <<>>
  /\ EndOfTask
  /\ reported' = IF current.kind = "send" /\ result = "SM_SUCCESS"
                 THEN reported \cup {current.msg} ELSE reported
  /\ UNCHANGED <<setting, isds, fileVars, taskVars, historyVars, result, ops,
                 faults>>

\* Outside a transaction a statement is on the disk when it ends.
Written(k, s) ==
  /\ db' = [db EXCEPT ![k] = Effect(@, s)]
  /\ disk' = IF k \in open THEN disk ELSE [disk EXCEPT ![k] = Effect(@, s)]
  /\ open' = open

Statement ==
  /\ At("sql")
  /\ LET k == Head(prog).key
         body == Head(prog).body
         s == Head(body)
     IN \/ /\ ~Conflict(db[k], s)
           /\ Written(k, s)
           /\ ok' = TRUE
           /\ prog' = IF Len(body) = 1 THEN Tail(prog)
                      ELSE Call(k, Tail(body)) \o Tail(prog)
           /\ NoFault
           /\ UNCHANGED torn
        \/ /\ \/ Conflict(db[k], s) /\ NoFault /\ UNCHANGED torn
              \/ Fault /\ torn' = torn \cup {s.msg}
           /\ ok' = FALSE
           /\ prog' = Tail(prog)
           /\ UNCHANGED fileVars
  /\ UNCHANGED <<poolVars, setting, isds, todo, entry, used, mainVars, erased, marked,
                 listed>>

\* When a transaction is open already the call fails, which is only logged.
BeginTransaction ==
  /\ At("begin")
  /\ open' = open \cup {Head(prog).key}
  /\ used' = used \cup {Head(prog).key}
  /\ prog' = Tail(prog)
  /\ NoFault
  /\ UNCHANGED <<poolVars, setting, isds, db, disk, ok, todo, entry, mainVars, erased,
                 marked, torn, listed>>

-----------------------------------------------------------------------------
(* TaskDownloadMessageList. *)

Orders(S) ==
  {q \in [1 .. Cardinality(S) -> S] : \A i, j \in DOMAIN q : q[i] = q[j] => i = j}

\* The server answers with all messages of one direction in any order.
Answers(direction) ==
  LET entries == {[msg |-> m, status |-> isds[m]] :
                    m \in {x \in Messages : Listed(x)
                                            /\ (x \in Sent <=> direction = "sent")}}
      poison == IF setting.poison = direction
                THEN {[msg |-> None, status |-> None]} ELSE {}
  IN Orders(entries \cup poison)

GetMessageList ==
  /\ At("getMessageList")
  /\ used' = {}
  /\ listed' = {}
  /\ \/ /\ todo' \in Answers(current.arg)
        /\ prog' = Code("nextEntry")
        /\ faults' = faults
        /\ clean' = TRUE
     \/ /\ Fault
        /\ todo' = <<>>
        /\ Return
  /\ UNCHANGED <<poolVars, setting, isds, fileVars, ok, entry, mainVars, erased,
                 marked, torn>>

\* A message that could not be converted has a null envelope; the function
\* returns without an end of the transactions.
NextEntry ==
  /\ At("nextEntry")
  /\ IF todo = <<>> THEN /\ prog' = Code("commit")
                         /\ UNCHANGED <<todo, entry, listed>>
     ELSE /\ entry' = Head(todo)
          /\ todo' = Tail(todo)
          /\ listed' = listed \cup {entry'}
          /\ IF entry'.msg = None THEN Return
             ELSE LET k == KeyOf(entry'.status)
                  IN prog' = (IF SeparateInvalid /\ Valid(entry'.status)
                              THEN Call(secondaryKey(FALSE),
                                        msgsDeleteMessageData(entry'.msg))
                              ELSE <<>>)
                             \o (IF k \in used THEN <<>> ELSE Begin(k))
                             \o Code("entry") \o Code("nextEntry")
  /\ NoFault
  /\ UNCHANGED <<poolVars, setting, isds, fileVars, ok, used, mainVars, erased,
                 marked, torn>>

Changed(k) == getMessageStatus(db[k], entry.msg) \notin {NoRow, entry.status}

\* A message that is not in the file is inserted, one whose status has changed
\* is updated; its download is scheduled if the settings or its content ask
\* for it.
Entry ==
  /\ At("entry")
  /\ LET m == entry.msg
         k == KeyOf(entry.status)
         download == IF setting.whole \/ isCompleteMessageInDb(db[k], m)
                     THEN Code("schedule") ELSE <<>>
     IN Continue(
          IF getMessageStatus(db[k], m) = NoRow
          THEN Call(k, insertMessageEnvelope(m, entry.status, Seen(m)))
               \o (IF setting.whole THEN Code("schedule") ELSE <<>>)
          ELSE IF Changed(k)
          THEN Call(k, updateMessageEnvelope(m, entry.status)) \o download
               \o (IF m \in Sent THEN Code("getState") ELSE <<>>)
          ELSE <<>>)
  /\ NoFault
  /\ UnchangedButProg

Schedule ==
  /\ At("schedule")
  /\ PutLo(Task("download", entry.msg, KeyOf(entry.status), None), "PREPEND")
  /\ Continue(<<>>)
  /\ NoFault
  /\ UNCHANGED <<setting, isds, fileVars, ok, todo, entry, used, mainVars,
                 erased, marked, torn, listed>>

\* downloadMessageState() and updateMessageState(): the delivery time may have
\* become valid since the list was made.
GetState ==
  /\ At("getState")
  /\ LET m == entry.msg
         k == KeyOf(isds[m])
     IN \/ /\ Continue(Call(k, msgsUpdateMessageState(m, isds[m]))
                       \o Call(k, insertOrUpdateMessageEvent(m)))
           /\ NoFault
        \/ Continue(<<>>) /\ Fault
  /\ UnchangedButProg

\* MUTANT of CommitTransactions: the list ends without the end of its
\* transactions.
CommitNothing ==
  /\ At("commit")
  /\ Return
  /\ used' = {}
  /\ NoFault
  /\ UNCHANGED <<poolVars, setting, isds, fileVars, ok, todo, entry, mainVars,
                 erased, marked, torn, listed>>

\* The result of a commit is not looked at; when it fails the transaction is
\* still open.
CommitTransactions ==
  /\ At("commit")
  /\ \/ /\ used = {}
        /\ NoFault
        /\ UNCHANGED <<used, fileVars>>
     \/ \E k \in used :
          /\ used' = used \ {k}
          /\ db' = db
          /\ \/ /\ open' = open \ {k}
                /\ disk' = [disk EXCEPT ![k] = db[k]]
                /\ NoFault
             \/ Fault /\ UNCHANGED <<disk, open>>
  /\ prog' = IF used' = {} THEN <<>> ELSE prog
  /\ UNCHANGED <<poolVars, setting, isds, ok, todo, entry, mainVars, erased,
                 marked, torn, listed>>

-----------------------------------------------------------------------------
(* TaskDownloadMessage. *)

\* Attachments without the raw message are those of a message that was sent
\* from here.
storeMessage(k, m, status) ==
  (IF isCompleteMessageInDb(db[k], m) THEN <<>>
   ELSE Call(k, deleteMessageAttachments(m)))
  \o Call(k, insertOrReplaceCompleteMessageRaw(m))
  \o Call(k, updateMessageEnvelope(m, status))
  \o Call(k, insertOrUpdateMessageHash(m))
  \o Call(k, insertOrUpdateMessageAttachment(m))

\* The server hands out messages that have been delivered.
GetMessage ==
  /\ At("getMessage")
  /\ LET m == current.msg
         before == current.key
         after == KeyOf(isds[m])
         available == Listed(m) /\ Valid(isds[m])
     IN \/ /\ available
           /\ prog' = (IF before # after
                       THEN Call(before, msgsDeleteMessageData(m))
                            \o Call(after, insertMessageEnvelope(m, isds[m], Seen(m)))
                       ELSE <<>>)
                      \o storeMessage(after, m, isds[m])
                      \o Code("getDelivery")
                      \o (IF m \in Sent THEN <<>> ELSE Code("mark"))
           /\ NoFault
        \/ /\ Return
           /\ \/ ~available /\ NoFault
              \/ available /\ Fault
  /\ UnchangedButProg

storeDeliveryInfo(k, m) ==
  Call(k, insertOrReplaceDeliveryInfoRaw(m))
  \o Call(k, insertOrUpdateMessageEvent(m))

GetDelivery ==
  /\ At("getDelivery")
  /\ \/ Continue(storeDeliveryInfo(KeyOf(isds[current.msg]), current.msg)) /\ NoFault
     \/ Continue(<<>>) /\ Fault
  /\ UnchangedButProg

MarkAsDownloaded ==
  /\ At("mark")
  /\ \/ isds' = [isds EXCEPT ![current.msg] = "read"] /\ NoFault
     \/ UNCHANGED isds /\ Fault
  /\ Continue(<<>>)
  /\ UNCHANGED <<poolVars, setting, fileVars, ok, todo, entry, used, mainVars,
                 erased, marked, torn, listed>>

-----------------------------------------------------------------------------
(* TaskSendMessage, TaskEraseMessage, TaskImportZfo. *)

\* An answer of the server that is lost looks like a refusal.
CreateMessage ==
  /\ At("create")
  /\ LET m == current.msg
     IN \/ /\ isds' = [isds EXCEPT ![m] = "posted"]
           /\ prog' = Call(secondaryKey(FALSE),
                           insertMessageEnvelope(m, "posted", "seen"))
                      \o Code("created")
           /\ NoFault
           /\ UNCHANGED result
        \/ /\ isds' \in {isds, [isds EXCEPT ![m] = "posted"]}
           /\ Return
           /\ result' = "SM_ISDS_ERROR"
           /\ Fault
  /\ UNCHANGED <<poolVars, setting, fileVars, ok, todo, entry, used, reported,
                 ops, erased, marked, torn, listed>>

\* MUTANT of Created: the attachments are stored and success reported whether
\* or not the envelope could be stored.
CreatedAnyway ==
  /\ At("created")
  /\ prog' = Call(secondaryKey(FALSE), insertOrUpdateMessageAttachment(current.msg))
  /\ result' = "SM_SUCCESS"
  /\ NoFault
  /\ UNCHANGED <<poolVars, setting, isds, fileVars, ok, todo, entry, used,
                 reported, ops, erased, marked, torn, listed>>

Created ==
  /\ At("created")
  /\ \/ /\ ok
        /\ prog' = Call(secondaryKey(FALSE),
                        insertOrUpdateMessageAttachment(current.msg))
        /\ result' = "SM_SUCCESS"
     \/ /\ ~ok
        /\ Return
        /\ result' = "SM_DB_INS_ERR"
  /\ NoFault
  /\ UNCHANGED <<poolVars, setting, isds, fileVars, ok, todo, entry, used,
                 reported, ops, erased, marked, torn, listed>>

DeleteLocally(at) ==
  prog' = Call(current.key, msgsDeleteMessageData(current.msg)) \o Code(at)

\* MUTANT of EraseFromIsds: the answer of the server is not looked at.
EraseUnchecked ==
  /\ At("erase")
  /\ \/ /\ current.arg = "isds"
        /\ \/ isds' = [isds EXCEPT ![current.msg] = "gone"] /\ NoFault
           \/ UNCHANGED isds /\ Fault
        /\ DeleteLocally("erasedIsds")
     \/ /\ current.arg = "local"
        /\ DeleteLocally("erasedLocal")
        /\ NoFault /\ UNCHANGED isds
  /\ UNCHANGED <<poolVars, setting, fileVars, ok, todo, entry, used, mainVars,
                 erased, marked, torn, listed>>

\* ERR_INVAL is the answer to a message the server will not erase.
EraseFromIsds ==
  /\ At("erase")
  /\ \/ /\ current.arg = "isds" /\ Listed(current.msg)
        /\ isds' = [isds EXCEPT ![current.msg] = "gone"]
        /\ DeleteLocally("erasedIsds")
        /\ NoFault /\ UNCHANGED result
     \/ /\ DeleteLocally("erasedLocal")
        /\ NoFault /\ UNCHANGED <<isds, result>>
     \/ /\ current.arg = "isds"
        /\ Return
        /\ result' = "NOT_DELETED"
        /\ Fault /\ UNCHANGED isds
  /\ UNCHANGED <<poolVars, setting, fileVars, ok, todo, entry, used, reported,
                 ops, erased, marked, torn, listed>>

EraseEnds ==
  /\ At("erasedIsds") \/ At("erasedLocal")
  /\ Return
  /\ LET both == At("erasedIsds")
     IN /\ result' = IF ok THEN IF both THEN "DELETED_ISDS_LOCAL" ELSE "DELETED_LOCAL"
                     ELSE IF both THEN "DELETED_ISDS" ELSE "NOT_DELETED"
        /\ erased' = IF ok /\ both /\ current.key \notin open
                     THEN erased \cup {<<current.msg, current.key>>} ELSE erased
  /\ NoFault
  /\ UNCHANGED <<poolVars, setting, isds, fileVars, ok, todo, entry, used,
                 reported, ops, marked, torn, listed>>

\* importMessageZfoSingle() and importDeliveryZfoSingle(): what is stored
\* already is not stored again, what the server does not authenticate is not
\* stored at all.
ImportSingle ==
  /\ At("import")
  /\ LET m == current.msg
         k == secondaryKey(TRUE)
         exists == getMessageStatus(db[k], m) # NoRow
     IN \/ Return /\ UNCHANGED erased
        \/ /\ current.kind = "importMessage" /\ ~exists
           /\ prog' = Call(k, insertMessageEnvelope(m, "delivered", Seen(m)))
                      \o Code("imported")
           /\ erased' = erased \ ({m} \X Keys)
        \/ /\ current.kind = "importDelivery" /\ exists
           /\ db[k]["delivery"][m] = NoRow
           /\ prog' = storeDeliveryInfo(k, m)
           /\ UNCHANGED erased
  /\ NoFault
  /\ UNCHANGED <<poolVars, setting, isds, fileVars, ok, todo, entry, used,
                 mainVars, marked, torn, listed>>

Imported ==
  /\ At("imported")
  /\ LET k == secondaryKey(TRUE)
         m == current.msg
     IN prog' = IF ok THEN storeMessage(k, m, "delivered") ELSE <<>>
  /\ NoFault
  /\ UnchangedButProg

WorkerStep ==
  \/ TaskBegins \/ Statement \/ BeginTransaction \/ CommitTransactions \/ TaskEnds
  \/ GetMessageList \/ NextEntry \/ Entry \/ Schedule \/ GetState
  \/ GetMessage \/ GetDelivery \/ MarkAsDownloaded
  \/ CreateMessage \/ Created
  \/ EraseFromIsds \/ EraseEnds
  \/ ImportSingle \/ Imported

-----------------------------------------------------------------------------
(* The main thread; it sleeps while it erases a message. *)

MainFree == single = None
UserOp == MainFree /\ ops < MaxOps /\ ops' = ops + 1

MainSays ==
  UNCHANGED <<setting, isds, fileVars, taskVars, historyVars, result, reported,
              faults>>

\* synchroniseSelectedAccount(), when no batch runs that has disabled it.
Synchronise ==
  /\ MainFree
  /\ ~Working
  /\ lo' = <<Task("list", None, None, "received"), Task("list", None, None, "sent")>>
  /\ UNCHANGED <<hi, single, state, current, terminating, emitted, ops>>
  /\ MainSays

ShownIn(m, k) == Shown(db[k], m)

DownloadSelected(m, k) ==
  /\ UserOp
  /\ ShownIn(m, k)
  /\ PutLo(Task("download", m, k, None), "PREPEND")
  /\ MainSays

SendMessage(m) ==
  /\ UserOp
  /\ isds[m] = "absent"
  /\ \A i \in DOMAIN hi : hi[i].kind # "send"
  /\ current # None => current.kind # "send"
  /\ PutHi(Task("send", m, None, None), "APPEND")
  /\ MainSays

ImportZfo(m, kind) ==
  /\ UserOp
  /\ PutLo(Task(kind, m, None, None), "APPEND")
  /\ MainSays

EraseMessage(m, k, where) ==
  /\ UserOp
  /\ ShownIn(m, k)
  /\ PutSingle(Task("erase", m, k, where))
  /\ marked' = marked \ {m}
  /\ UNCHANGED <<setting, isds, fileVars, taskVars, erased, torn, listed, clean,
                 result, reported, faults>>

EraseReturns ==
  /\ VacateSingle
  /\ UNCHANGED ops
  /\ MainSays

\* The user looks at a message while the worker may be anywhere: one statement
\* on the shared connection.
ReadMessage(m, k) ==
  /\ UserOp
  /\ ShownIn(m, k)
  /\ Written(k, setMessageLocallyRead(m)[1])
  /\ marked' = IF k \notin open THEN marked \cup {m} ELSE marked
  /\ UNCHANGED <<poolVars, setting, isds, taskVars, erased, torn, listed, clean,
                 result, reported, faults>>

\* collectSendMessageStatus(), with PROC_IMM_DOWNLOAD or without.
CollectSendMessageStatus(m) ==
  /\ MainFree
  /\ m \in reported
  /\ reported' = reported \ {m}
  /\ \/ PutHi(Task("download", m, secondaryKey(FALSE), None), "PREPEND")
     \/ UNCHANGED poolVars
  /\ UNCHANGED <<setting, isds, fileVars, taskVars, historyVars, result, ops,
                 faults>>

-----------------------------------------------------------------------------
(* The server, and the end of the program. *)

Becomes(m, status) ==
  /\ isds' = [isds EXCEPT ![m] = status]
  /\ UNCHANGED <<poolVars, setting, fileVars, taskVars, historyVars, mainVars,
                 faults>>

Arrive(m) == m \notin Sent /\ isds[m] = "absent" /\ Becomes(m, "delivered")
Deliver(m) == isds[m] = "posted" /\ Becomes(m, "delivered")
ReadByRecipient(m) == m \in Sent /\ isds[m] = "delivered" /\ Becomes(m, "read")

\* The server removes a message 90 days after its delivery; no task lasts that
\* long.
Expire(m) ==
  /\ Listed(m) /\ Valid(isds[m])
  /\ ~Working
  /\ Becomes(m, "gone")

\* What was not committed is lost, and so are the queues.
Reopened ==
  /\ db' = disk /\ disk' = disk /\ open' = {}
  /\ hi' = <<>> /\ lo' = <<>> /\ single' = None /\ state' = "FINISHED"
  /\ current' = None /\ terminating' = FALSE /\ emitted' = "none"
  /\ prog' = <<>> /\ ok' = TRUE /\ todo' = <<>> /\ entry' = None /\ used' = {}
  /\ result' = None /\ reported' = {} /\ listed' = {}
  /\ UNCHANGED <<setting, isds, erased, marked, ops>>

Crash ==
  /\ Fault
  /\ torn' = IF At("sql") THEN torn \cup {Head(Head(prog).body).msg} ELSE torn
  /\ Reopened

\* The program is closed when the pool has nothing to do, and started again.
Restart ==
  /\ ~Working /\ open # {}
  /\ NoFault /\ UNCHANGED torn
  /\ Reopened

Next ==
  \/ WorkerStep
  \/ Synchronise \/ EraseReturns
  \/ \E m \in Messages, k \in Keys :
        \/ DownloadSelected(m, k)
        \/ \E where \in {"isds", "local"} : EraseMessage(m, k, where)
        \/ m \notin Sent /\ ReadMessage(m, k)
  \/ \E m \in Sent : SendMessage(m) \/ CollectSendMessageStatus(m)
  \/ \E m \in Files, kind \in {"importMessage", "importDelivery"} :
        ImportZfo(m, kind)
  \/ \E m \in Messages :
        Arrive(m) \/ Deliver(m) \/ ReadByRecipient(m) \/ Expire(m)
  \/ Crash \/ Restart

Spec == Init /\ [][Next]_vars

\* The worker's thread runs while its pool has work, the main thread handles
\* its events, and the timer synchronises (the preference "Automatically
\* synchronise all in background"); failures and the user's actions are
\* bounded, and a program that crashed is started again.
FairSpec ==
  /\ Spec
  /\ WF_vars(WorkerStep)
  /\ WF_vars(Synchronise)
  /\ WF_vars(EraseReturns)

-----------------------------------------------------------------------------
(* Properties. *)

Row(content, m, k) == content[k]["messages"][m]
Erasing(m) == current # None /\ current.kind = "erase" /\ current.msg = m

\* The stored content of a message is lost only while the user has this
\* message erased: neither the lists, which delete entries of the file
\* "invalid", nor a download or an import, nor a crash in any of them takes it
\* away.  (An erasure inside a transaction reaches the disk with its commit.)
ContentOnlyErased ==
  [][\A m \in Messages, k \in Keys :
       disk[k]["raw"][m] # NoRow
       => /\ db[k]["raw"][m] # NoRow /\ db'[k]["raw"][m] = NoRow => Erasing(m)
          /\ disk'[k]["raw"][m] = NoRow => Erasing(m) \/ db[k]["raw"][m] = NoRow]_vars

Age == [status \in Statuses |->
          CASE status = "posted" -> 0 [] status = "delivered" -> 1 [] OTHER -> 2]

\* When a list ends with its transactions ended and nothing has failed since
\* it began, each message it named is on the disk in the file of its year,
\* with the status the list gave or a later one, and is not shown in the file
\* "invalid" any more; whatever failed, crashed or was imported before.  (The
\* deletion there may wait for the commit of a transaction that an earlier
\* list has left open.)
ListSettles ==
  [][At("commit") /\ prog' = <<>> /\ clean'
     => \A e \in listed :
          /\ Row(disk', e.msg, KeyOf(e.status)) # NoRow
          /\ Age[Row(disk', e.msg, KeyOf(e.status))] >= Age[e.status]
          /\ KeyOf(e.status) = "year" => Row(db', e.msg, "invalid") = NoRow]_vars

\* What was erased from the server and from a file, and reported so, does not
\* come back into this file: no list and no download that was queued before
\* stores it again (an import of a ZFO file does).
ErasedStaysErased ==
  \A x \in erased : Row(db, x[1], x[2]) = NoRow /\ Row(disk, x[1], x[2]) = NoRow

\* A message the user has read is not unread again after an update of its
\* envelope, a download, a list or a crash.
MarksKept ==
  \A m \in marked : \E k \in Keys : disk[k]["supplementary"][m] = "seen"

\* An envelope is shown, that is it has its supplementary data, in every
\* state in which no call that inserts or deletes it is under way or was cut
\* short by a failure or a crash.
Visible ==
  \A m \in Messages, k \in Keys :
    \/ Row(db, m, k) = NoRow
    \/ Shown(db[k], m)
    \/ m \in torn
    \/ At("sql") /\ Head(prog).key = k /\ Head(Head(prog).body).msg = m

\* What the end of an erasure reports is so: the server does not have the
\* message when the report says so, and no table has a row of it when the
\* report says it was erased locally.
EraseReported ==
  [][(At("erasedIsds") \/ At("erasedLocal")) /\ prog' = <<>>
     => /\ result' \in {"DELETED_ISDS", "DELETED_ISDS_LOCAL"}
           => isds[current.msg] = "gone"
        /\ result' \in {"DELETED_LOCAL", "DELETED_ISDS_LOCAL"}
           => \A t \in Tables : db[current.key][t][current.msg] = NoRow]_vars

\* A sent message is reported as a success only if the server has it and it is
\* shown in the file of messages without a delivery time.
SentReported ==
  [][\A m \in reported' \ reported :
       Listed(m) /\ Shown(db[secondaryKey(FALSE)], m)]_vars

\* A report of success, of an erasure or of a sent message, is never ahead of the
\* server and the database: both of the above.
ReportsTrue == EraseReported /\ SentReported

\* Every message the server has is at some time on the disk, or the server
\* drops it, when the answers of the server can be converted.
ListedAppears ==
  \A m \in Messages :
    Listed(m) ~> (~Listed(m) \/ \E k \in Keys : Row(disk, m, k) # NoRow)

\* What the server has comes into the databases, and a list leaves them settled.
ListArrives == ListSettles /\ ListedAppears

\* "Commit on all opened databases": when the program is closed while its pool
\* has nothing to do and nothing has failed, what it has stored is there when
\* it is started again.
ExitKeeps == [][current = None /\ ~Working /\ UNCHANGED faults => db' = db]_vars

=============================================================================
