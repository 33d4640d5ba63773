----------------------------- MODULE MainWindow -----------------------------
(***************************************************************************)
(* The main thread of the application and its worker pool: the slots of    *)
(* MainWindow that synchronise accounts with the ISDS server, the import   *)
(* of ZFO files, the dialogues that send messages, the signal that ends a  *)
(* batch, the timer that starts the next one, closing the window and the   *)
(* end of main().                                                          *)
(*                                                                         *)
(* A slot that opens a log-in dialogue or calls processEvents() runs a     *)
(* nested event loop in which other slots are entered before it goes on.   *)
(* stack holds the slots entered and not left, the innermost last; only    *)
(* that one makes steps, and only where it runs an event loop are events   *)
(* delivered.                                                              *)
(***************************************************************************)
EXTENDS DlgSendMessage

CONSTANTS
  NumAccounts,   \* accounts that are synchronised with all the others
  Files,         \* valid ZFO files
  MaxOps,        \* bound: slots entered by the user or the timer
  MaxDepth       \* bound: slots entered and not left

ASSUME WindowAssumption ==
  /\ NumAccounts \in Nat \ {0}
  /\ MaxOps \in Nat
  /\ MaxDepth \in Nat \ {0}

VARIABLES
  stage,      \* has the running task done what it does before it ends?
  events,     \* events posted to the main thread
  enabled,    \* actionSync_all_accounts and actionGet_messages
  timer,      \* is m_timerSyncAccounts active?
  importable, \* actionImport_ZFO_file_into_database
  unassigned, \* files to be imported that have no task yet
  zfoFilesToImport,
  imported,   \* the lists of results: files in the order of their reports
  chosen,     \* history: the files of the last import
  mixed,      \* history: did it start when files of another were not reported?
  fruitless,  \* history: did it find nothing to import?
  stack,      \* slots entered and not left
  closed,     \* closeEvent() accepted the event
  restored,   \* history: were the buttons last set by the restore of wasEnabled?
  mainAt,     \* where main() is: in exec(), in wait(), in stop(), at its end
  ops

buttonVars == <<enabled, restored>>
importVars == <<importable, unassigned, zfoFilesToImport, imported, chosen, mixed, fruitless>>
windowVars == <<events, buttonVars, timer, stack, closed, mainAt, ops>>
vars == <<poolVars, stage, windowVars, importVars, formVars>>

Tasks == {"list", "download", "info", "ping"} \cup Files \cup Transactions
ASSUME ItemsAssumption ==
  /\ Items = Tasks /\ None \notin Tasks
  /\ {"list", "download", "info", "ping", "assignedFinished", "quit"}
       \cap (Files \cup Transactions) = {}
  /\ Files \cap Transactions = {}

Frames == [slot : {"all", "one", "close", "import", "imported", "form", "box", "send", "told"},
           at : {"next", "login", "info", "infoWait", "processEvents1",
                 "processEvents2", "assign1", "assign2", "ask", "join", "assign",
                 "alive", "aliveWait", "credit", "creditWait", "build",
                 "expires", "change", "changeWait", "changed"},
           todo : 0 .. NumAccounts,
           form : Dialogs \cup {0},
           unsent : SUBSET Transactions,
           appended : BOOLEAN,
           wasEnabled : BOOLEAN]

TypeOK ==
  /\ PoolTypeOK
  /\ FormTypeOK
  /\ stage \in {"begun", "reported"}
  /\ events \in Seq({"assignedFinished", "quit"} \cup Files \cup Transactions)
  /\ enabled \in BOOLEAN /\ restored \in BOOLEAN
  /\ timer \in BOOLEAN
  /\ {importable, mixed, fruitless} \subseteq BOOLEAN
  /\ {unassigned, zfoFilesToImport, chosen} \subseteq SUBSET Files
  /\ imported \in Seq(Files)
  /\ stack \in Seq(Frames)
  /\ closed \in BOOLEAN
  /\ mainAt \in {"exec", "wait", "stop", "end"}
  /\ ops \in 0 .. MaxOps

Init ==
  /\ PoolInit
  /\ FormInit
  /\ stage = "begun"
  /\ events = <<>>
  /\ enabled = TRUE /\ restored = FALSE
  /\ timer = TRUE
  /\ importable = TRUE /\ mixed = FALSE /\ fruitless = FALSE
  /\ unassigned = {} /\ zfoFilesToImport = {} /\ imported = <<>> /\ chosen = {}
  /\ stack = <<>>
  /\ closed = FALSE
  /\ mainAt = "exec"
  /\ ops = 0

-----------------------------------------------------------------------------
(* The worker. *)

WorkerTake == Take /\ stage' = "begun" /\ UNCHANGED <<windowVars, importVars, formVars>>

\* The download of a message list schedules the download of a message before
\* the other jobs; a sent message and an imported file, whatever came of it, are
\* reported to the main thread.
WorkerReport ==
  /\ stage = "begun"
  /\ stage' = "reported"
  /\ \/ /\ current = "list"
        /\ PutLo("download", "PREPEND")
        /\ UNCHANGED windowVars
        /\ UNCHANGED formVars
     \/ /\ current \in Files \cup Transactions
        /\ events' = Append(events, current)
        /\ IF current \in Files THEN UNCHANGED formVars
           ELSE \E res \in Results : Sent(current, res)
        /\ UNCHANGED <<poolVars, buttonVars, timer, stack, closed, mainAt, ops>>
  /\ UNCHANGED importVars

\* assignedFinished() is connected to a slot of an object that lives in the
\* main thread: the emission posts an event.
WorkerEnd ==
  /\ current \in Files \cup Transactions => stage = "reported"
  /\ EndOfTask
  /\ events' = IF emitted' = "assignedFinished"
               THEN Append(events, "assignedFinished") ELSE events
  /\ UNCHANGED <<stage, buttonVars, timer, stack, closed, mainAt, ops, importVars, formVars>>

Worker == WorkerTake \/ WorkerReport \/ WorkerEnd

-----------------------------------------------------------------------------
(* Entering and leaving slots. *)

Top == stack[Len(stack)]
Caller == SubSeq(stack, 1, Len(stack) - 1)
In(slot, at) == stack # <<>> /\ Top.slot = slot /\ Top.at = at

Frame(slot, at, todo, was) ==
  [slot |-> slot, at |-> at, todo |-> todo, form |-> 0, unsent |-> {},
   appended |-> FALSE, wasEnabled |-> was]

FormFrame(slot, at, n) == [Frame(slot, at, 0, FALSE) EXCEPT !.form = n]

GoTo(at) == stack' = [stack EXCEPT ![Len(stack)].at = at]

\* synchroniseSelectedAccount() returns b to synchroniseAllAccounts(), if that
\* is who called it and not a nested event loop.
CalledByAll == Caller # <<>> /\ Caller[Len(Caller)].slot = "all"
               /\ Caller[Len(Caller)].at = "next"
ReturnOne(b) ==
  stack' = IF CalledByAll
           THEN [Caller EXCEPT ![Len(Caller)].appended = @ \/ b]
           ELSE Caller

\* The innermost slot runs an event loop: the main loop, processEvents() or the
\* one of a dialogue.  As long as a dialogue is open, be it one of an outer slot,
\* the user does not reach the main window.
Dialogues == {"login", "expires", "changed", "ask"}
EventLoop ==
  /\ mainAt = "exec"
  /\ stack # <<>> => Top.at \in {"processEvents1", "processEvents2"} \cup Dialogues
WindowReachable ==
  /\ EventLoop
  /\ \A i \in DOMAIN stack : stack[i].at \notin Dialogues

UserStep == ~closed /\ Len(stack) < MaxDepth
UserOp == UserStep /\ ops < MaxOps /\ ops' = ops + 1

-----------------------------------------------------------------------------
(* Slots. *)

\* synchroniseAllAccounts(), from the menu or from the timer.
SyncAll ==
  /\ EventLoop
  /\ UserOp
  /\ timer \/ (WindowReachable /\ enabled)
  /\ timer' = FALSE
  /\ stack' = Append(stack, Frame("all", "next", NumAccounts, FALSE))
  /\ UNCHANGED <<poolVars, stage, events, buttonVars, closed, mainAt, importVars, formVars>>

\* The next account: connected already, or in need of a log-in dialogue.
AllNext ==
  /\ In("all", "next")
  /\ Top.todo > 0
  /\ \/ stack' = Append([stack EXCEPT ![Len(stack)].todo = @ - 1],
                        Frame("one", "processEvents1", 0, enabled))
     \/ stack' = [stack EXCEPT ![Len(stack)].todo = @ - 1,
                               ![Len(stack)].at = "login"]
  /\ UNCHANGED <<poolVars, stage, events, buttonVars, timer, closed, mainAt, ops, importVars, formVars>>

\* MUTANT of AllEnd: the timer is not restarted when no account was synchronised.
AllEndKeepsTimer ==
  /\ In("all", "next")
  /\ Top.todo = 0
  /\ timer' = timer
  /\ stack' = Caller
  /\ UNCHANGED <<poolVars, stage, events, buttonVars, closed, mainAt, ops, importVars, formVars>>

AllEnd ==
  /\ In("all", "next")
  /\ Top.todo = 0
  /\ timer' = (timer \/ ~Top.appended)
  /\ stack' = Caller
  /\ UNCHANGED <<poolVars, stage, events, buttonVars, closed, mainAt, ops, importVars, formVars>>

\* synchroniseSelectedAccount(), from the menu.
SyncOne ==
  /\ WindowReachable
  /\ enabled
  /\ UserOp
  /\ stack' = Append(stack, Frame("one", "processEvents1", 0, enabled))
  /\ UNCHANGED <<poolVars, stage, events, buttonVars, timer, closed, mainAt, importVars, formVars>>

OneDisable ==
  /\ In("one", "processEvents1")
  /\ enabled' = FALSE
  /\ restored' = FALSE
  /\ GoTo("processEvents2")
  /\ UNCHANGED <<poolVars, stage, events, timer, closed, mainAt, ops, importVars, formVars>>

\* isConnectedToIds() asks the server: the answer may differ from the one the
\* caller got a moment ago.
OneConnected ==
  /\ In("one", "processEvents2")
  /\ GoTo("assign1") \/ GoTo("login")
  /\ UNCHANGED <<poolVars, stage, events, buttonVars, timer, closed, mainAt, ops, importVars, formVars>>

\* The slots that log in, at some place in connectToIsds().
Connecting(at) == In("one", at) \/ In("all", at) \/ In("form", at)

\* connectToIsds(): the user logs in; the account is then asked for its data.
LoggedIn ==
  /\ Connecting("login")
  /\ GoTo("info")
  /\ UNCHANGED <<poolVars, stage, events, buttonVars, timer, closed, mainAt, ops, importVars, formVars>>

\* connectToIsds() fails; synchroniseAllAccounts() goes on with the next account.
LogInFails ==
  \/ /\ In("one", "login")
     /\ enabled' = Top.wasEnabled
     /\ restored' = TRUE
     /\ ReturnOne(FALSE)
     /\ UNCHANGED <<poolVars, stage, events, timer, closed, mainAt, ops, importVars, formVars>>
  \/ /\ In("all", "login")
     /\ GoTo("next")
     /\ UNCHANGED <<poolVars, stage, events, buttonVars, timer, closed, mainAt, ops, importVars, formVars>>
  \/ /\ In("form", "login")
     /\ AccountSet(Top.form, FALSE)
     /\ stack' = Caller \/ GoTo("credit")
     /\ UNCHANGED <<poolVars, stage, events, buttonVars, timer, closed, mainAt, ops, importVars>>

\* getOwnerInfoFromLogin() and its likes, and the request to change a password:
\* runSingle() blocks the main thread.
InfoPost ==
  /\ PutSingle("info")
  /\ \/ Connecting("info") /\ GoTo("infoWait")
     \/ In("box", "info") /\ GoTo("infoWait")
     \/ Connecting("change") /\ GoTo("changeWait")
  /\ UNCHANGED <<stage, events, buttonVars, timer, closed, mainAt, ops, importVars, formVars>>

\* The form knows that the user is logged in, and may ask for the credit.
AfterLogIn ==
  /\ AccountSet(Top.form, TRUE)
  /\ stack' = Caller \/ GoTo("credit")

\* connectToIsds() returns true.
Connected(at) ==
  \/ In("one", at) /\ GoTo("assign1") /\ UNCHANGED formVars
  \/ In("all", at)
     /\ stack' = Append([stack EXCEPT ![Len(stack)].at = "next"],
                        Frame("one", "processEvents1", 0, enabled))
     /\ UNCHANGED formVars
  \/ In("form", at) /\ AfterLogIn

\* A password that expires is asked about; what came of its change is told.
InfoReturn ==
  /\ VacateSingle
  /\ \/ Connected("infoWait")
     \/ Connecting("infoWait") /\ GoTo("expires") /\ UNCHANGED formVars
     \/ Connecting("changeWait") /\ GoTo("changed") /\ UNCHANGED formVars
  /\ UNCHANGED <<stage, events, buttonVars, timer, closed, mainAt, ops, importVars>>

\* The user does not change the password, or does, or has seen what came of it.
ExpiryAnswered ==
  /\ \/ Connected("expires") \/ Connected("changed")
     \/ Connecting("expires") /\ GoTo("change") /\ UNCHANGED formVars
  /\ UNCHANGED <<poolVars, stage, events, buttonVars, timer, closed, mainAt, ops, importVars>>

\* One task for the list of received messages, one for that of the sent ones.
OneAssign ==
  /\ \/ In("one", "assign1") /\ GoTo("assign2")
     \/ In("one", "assign2") /\ ReturnOne(TRUE)
  /\ PutLo("list", "APPEND")
  /\ UNCHANGED <<stage, events, buttonVars, timer, closed, mainAt, ops, importVars, formVars>>

\* downloadSelectedMessageAttachments() of one message, its account connected.
DownloadAttachments ==
  /\ mainAt = "exec"
  /\ stack = <<>>
  /\ UserOp
  /\ enabled' = FALSE
  /\ restored' = FALSE
  /\ PutLo("download", "PREPEND")
  /\ UNCHANGED <<stage, events, timer, stack, closed, mainAt, importVars, formVars>>

-----------------------------------------------------------------------------
(* Sending messages. *)

\* showSendMessageDialog() for a new message: the constructor sets the account.
ShowSendMessageDialog(n) ==
  /\ WindowReachable
  /\ form[n].at = "unopened" /\ \A k \in Dialogs : k < n => form[k].at # "unopened"
  /\ UserOp
  /\ stack' = Append(stack, FormFrame("form", "alive", n))
  /\ UNCHANGED <<poolVars, stage, events, buttonVars, timer, closed, mainAt, importVars, formVars>>

\* The user chooses another account, or the first one again.
SetAccountInfo(n) ==
  /\ WindowReachable
  /\ form[n].at = "enabled"
  /\ UserOp
  /\ stack' = Append(stack, FormFrame("form", "alive", n))
  /\ UNCHANGED <<poolVars, stage, events, buttonVars, timer, closed, mainAt, importVars, formVars>>

\* GuiHelper::isLoggedIn(): the worker asks whether the session is alive; if it is
\* not the window logs in.
AlivePost ==
  /\ In("form", "alive")
  /\ PutSingle("info")
  /\ GoTo("aliveWait")
  /\ UNCHANGED <<stage, events, buttonVars, timer, closed, mainAt, ops, importVars, formVars>>

AliveReturn ==
  /\ In("form", "aliveWait")
  /\ VacateSingle
  /\ \/ AfterLogIn
     \/ GoTo("login") /\ UNCHANGED formVars
  /\ UNCHANGED <<stage, events, buttonVars, timer, closed, mainAt, ops, importVars>>

\* getPDZCreditFromISDS()
CreditPost ==
  /\ In("form", "credit")
  /\ PutSingle("info")
  /\ GoTo("creditWait")
  /\ UNCHANGED <<stage, events, buttonVars, timer, closed, mainAt, ops, importVars, formVars>>

CreditReturn ==
  /\ In("form", "creditWait")
  /\ VacateSingle
  /\ stack' = Caller
  /\ UNCHANGED <<stage, events, buttonVars, timer, closed, mainAt, ops, importVars, formVars>>

\* addRecipientBox() of a box that is not in the table.
AddRecipient(n) ==
  /\ WindowReachable
  /\ form[n].at = "enabled" /\ form[n].recipients # Recipients[n]
  /\ UserStep
  /\ stack' = Append(stack, FormFrame("box", "info", n))
  /\ UNCHANGED <<poolVars, stage, events, buttonVars, timer, closed, mainAt, ops, importVars, formVars>>

\* Somebody else's box that is active is added; if the search fails the user
\* is asked; what is refused is told in a dialogue.
BoxFound ==
  /\ In("box", "infoWait")
  /\ VacateSingle
  /\ \/ \E r \in Recipients[Top.form] \ form[Top.form].recipients :
          RecipientsSet(Top.form, form[Top.form].recipients \cup {r}) /\ stack' = Caller
     \/ GoTo("ask") /\ UNCHANGED formVars
  /\ UNCHANGED <<stage, events, buttonVars, timer, closed, mainAt, ops, importVars>>

BoxAnswered ==
  /\ In("box", "ask")
  /\ \/ \E r \in Recipients[Top.form] \ form[Top.form].recipients :
          RecipientsSet(Top.form, form[Top.form].recipients \cup {r})
     \/ UNCHANGED formVars
  /\ stack' = Caller
  /\ UNCHANGED <<poolVars, stage, events, buttonVars, timer, closed, mainAt, ops, importVars>>

DeleteRecipientEntries(n) ==
  /\ WindowReachable /\ ~closed
  /\ form[n].at = "enabled"
  /\ \E recipients \in SUBSET form[n].recipients : RecipientsSet(n, recipients)
  /\ UNCHANGED <<poolVars, stage, windowVars, importVars>>

\* pingIsdsServer(): the timer of an open form, stopped while it logs in, keeps the
\* session alive.
PingIsdsServer(n) ==
  /\ EventLoop
  /\ UserOp
  /\ form[n].at \in {"enabled", "disabled", "allSent", "someNot"}
  /\ \A i \in DOMAIN stack : ~(stack[i].slot = "form" /\ stack[i].form = n)
  /\ PutHi("ping", "APPEND")
  /\ UNCHANGED <<stage, events, buttonVars, timer, stack, closed, mainAt, importVars, formVars>>

\* The button is pressed; paid messages are asked about.
SendMessage(n) ==
  /\ WindowReachable
  /\ UserStep
  /\ SendEnabled(n)
  /\ \E at \in {"ask", "build"} : stack' = Append(stack, FormFrame("send", at, n))
  /\ UNCHANGED <<poolVars, stage, events, buttonVars, timer, closed, mainAt, ops, importVars, formVars>>

PaymentRefused ==
  /\ In("send", "ask")
  /\ stack' = Caller
  /\ UNCHANGED <<poolVars, stage, events, buttonVars, timer, closed, mainAt, ops, importVars, formVars>>

PaymentAgreed ==
  /\ In("send", "ask")
  /\ GoTo("build")
  /\ UNCHANGED <<poolVars, stage, events, buttonVars, timer, closed, mainAt, ops, importVars, formVars>>

\* sendMessageISDS()
SendBuild ==
  /\ In("send", "build")
  /\ Pressed(Top.form)
  /\ stack' = [stack EXCEPT ![Len(stack)].at = "assign",
                            ![Len(stack)].unsent = form[Top.form].recipients]
  /\ UNCHANGED <<poolVars, stage, events, buttonVars, timer, closed, mainAt, ops, importVars>>

SendAssign ==
  /\ In("send", "assign")
  /\ LET t == CHOOSE r \in Top.unsent : TRUE
     IN
       /\ PutHi(t, "APPEND")
       /\ stack' = IF Top.unsent = {t} THEN Caller
                   ELSE [stack EXCEPT ![Len(stack)].unsent = @ \ {t}]
  /\ UNCHANGED <<stage, events, buttonVars, timer, closed, mainAt, ops, importVars, formVars>>

\* The box with the results is closed; a form that is not left keeps its recipients.
ToldClosed ==
  /\ In("told", "ask")
  /\ \E at \in {"closed", "enabled"} : Answered(Top.form, at)
  /\ stack' = Caller
  /\ UNCHANGED <<poolVars, stage, events, buttonVars, timer, closed, mainAt, ops, importVars>>

CloseSendMessageDialog(n) ==
  /\ WindowReachable
  /\ \A i \in DOMAIN stack : stack[i].form # n
  /\ ~closed
  /\ Closed(n)
  /\ UNCHANGED <<poolVars, stage, windowVars, importVars>>

-----------------------------------------------------------------------------
(* showImportZFOActionDialog(). *)

\* What it asks the user is asked in dialogues, which run event loops.
ImportZfo ==
  /\ WindowReachable /\ importable
  /\ UserOp
  /\ stack' = Append(stack, Frame("import", "ask", 0, FALSE))
  /\ UNCHANGED <<poolVars, stage, events, buttonVars, timer, closed, mainAt, importVars, formVars>>

ImportCancelled ==
  /\ In("import", "ask")
  /\ stack' = Caller
  /\ UNCHANGED <<poolVars, stage, events, buttonVars, timer, closed, mainAt, ops, importVars, formVars>>

\* Files whose reports are to come.
Outstanding ==
  {f \in Files : f \in unassigned \/ current = f
                \/ (\E i \in DOMAIN lo : lo[i] = f)
                \/ (\E i \in DOMAIN events : events[i] = f)}

\* The files are given; if none of them is valid nothing else happens, and nothing
\* enables the action again.
ImportGiven(files) ==
  /\ In("import", "ask")
  /\ importable' = FALSE
  /\ zfoFilesToImport' = files /\ imported' = <<>>
  /\ unassigned' = files
  /\ IF files = {} THEN stack' = Caller ELSE GoTo("assign")
  /\ chosen' = files /\ mixed' = (Outstanding # {}) /\ fruitless' = (files = {})
  /\ UNCHANGED <<poolVars, stage, events, buttonVars, timer, closed, mainAt, ops, formVars>>

\* importZfoIntoDatabase()
ImportAssign ==
  /\ In("import", "assign")
  /\ \E f \in unassigned :
       /\ PutLo(f, "APPEND")
       /\ unassigned' = unassigned \ {f}
  /\ stack' = IF unassigned' = {} THEN Caller ELSE stack
  /\ UNCHANGED <<stage, events, buttonVars, timer, closed, mainAt, ops, importable,
                 zfoFilesToImport, imported, chosen, mixed, fruitless, formVars>>

-----------------------------------------------------------------------------
(* Events and the end of the application. *)

Delivered(e) == EventLoop /\ events # <<>> /\ Head(events) = e
                /\ events' = Tail(events)

\* backgroundWorkersFinished()
BackgroundWorkersFinished ==
  /\ Delivered("assignedFinished")
  /\ enabled' = TRUE
  /\ restored' = FALSE
  /\ timer' = TRUE
  /\ importable' = TRUE /\ fruitless' = FALSE
  /\ UNCHANGED <<poolVars, stage, stack, closed, mainAt, ops, unassigned, zfoFilesToImport,
                 imported, chosen, mixed, formVars>>

\* The slots collectSendMessageStatus(): the window downloads a message that was
\* sent with PROC_IMM_DOWNLOAD; the dialogue that it completes shows a box.
CollectSendMessageStatus(t) ==
  /\ Delivered(t)
  /\ Collect(t)
  /\ IF result[t] = "SM_SUCCESS" THEN PutHi("download", "PREPEND") ELSE UNCHANGED poolVars
  /\ stack' = IF Completed = {} THEN stack
              ELSE Append(stack, FormFrame("told", "ask", CHOOSE n \in Completed : TRUE))
  /\ UNCHANGED <<stage, buttonVars, timer, closed, mainAt, ops, importVars>>

\* collectImportZfoStatus(): the last file shows the results in a dialogue.
CollectImportZfoStatus(f) ==
  /\ Delivered(f)
  /\ imported' = Append(imported, f)
  /\ zfoFilesToImport' = zfoFilesToImport \ {f}
  /\ stack' = IF zfoFilesToImport' = {}
              THEN Append(stack, Frame("imported", "ask", 0, FALSE)) ELSE stack
  /\ UNCHANGED <<poolVars, stage, buttonVars, timer, closed, mainAt, ops, importable,
                 unassigned, chosen, mixed, fruitless, formVars>>

ResultClosed ==
  /\ In("imported", "ask")
  /\ stack' = Caller
  /\ zfoFilesToImport' = {} /\ imported' = <<>>
  /\ importable' = TRUE /\ fruitless' = FALSE
  /\ UNCHANGED <<poolVars, stage, events, buttonVars, timer, closed, mainAt, ops,
                 unassigned, chosen, mixed, formVars>>

\* closeEvent(): an idle application closes, a busy one asks first.
CloseEvent ==
  /\ mainAt = "exec"
  /\ stack = <<>>
  /\ UserOp
  /\ IF Working
     THEN /\ stack' = Append(stack, Frame("close", "ask", 0, FALSE))
          /\ UNCHANGED <<events, closed>>
     ELSE /\ closed' = TRUE
          /\ events' = Append(events, "quit")
          /\ UNCHANGED stack
  /\ UNCHANGED <<poolVars, stage, buttonVars, timer, mainAt, importVars, formVars>>

CloseIgnored ==
  /\ In("close", "ask")
  /\ stack' = Caller
  /\ UNCHANGED <<poolVars, stage, events, buttonVars, timer, closed, mainAt, ops, importVars, formVars>>

\* stop(), first half.
CloseStop ==
  /\ In("close", "ask")
  /\ SetTerminating(TRUE)
  /\ GoTo("join")
  /\ UNCHANGED <<stage, events, buttonVars, timer, closed, mainAt, ops, importVars, formVars>>

\* stop() returns once the worker has ended its task; clear(); the event is
\* accepted, and the last window that closes posts the event that ends exec().
CloseClear ==
  /\ In("close", "join")
  /\ current = None
  /\ ClearQueues
  /\ closed' = TRUE
  /\ events' = Append(events, "quit")
  /\ stack' = Caller
  /\ UNCHANGED <<stage, buttonVars, timer, mainAt, ops, importVars, formVars>>

\* exec() returns; the main window is destroyed and main() calls wait().
Quit ==
  /\ stack = <<>>
  /\ Delivered("quit")
  /\ mainAt' = "wait"
  /\ UNCHANGED <<poolVars, stage, buttonVars, timer, stack, closed, ops, importVars, formVars>>

\* MUTANT of MainWaited: stop() without the wait() before it.
MainDoesNotWait ==
  /\ mainAt = "wait"
  /\ SetTerminating(TRUE)
  /\ mainAt' = "stop"
  /\ UNCHANGED <<stage, events, buttonVars, timer, stack, closed, ops, importVars, formVars>>

MainWaited ==
  /\ mainAt = "wait"
  /\ ~Working
  /\ SetTerminating(TRUE)
  /\ mainAt' = "stop"
  /\ UNCHANGED <<stage, events, buttonVars, timer, stack, closed, ops, importVars, formVars>>

MainEnd ==
  /\ mainAt = "stop"
  /\ current = None
  /\ mainAt' = "end"
  /\ UNCHANGED <<poolVars, stage, events, buttonVars, timer, stack, closed, ops, importVars, formVars>>

-----------------------------------------------------------------------------

Deliver ==
  \/ BackgroundWorkersFinished \/ Quit
  \/ \E t \in Transactions : CollectSendMessageStatus(t)
  \/ \E f \in Files : CollectImportZfoStatus(f)

\* What a slot does on its own, dialogues apart.
Continue ==
  \/ AllNext \/ AllEnd \/ OneDisable \/ OneConnected \/ InfoPost \/ InfoReturn
  \/ OneAssign \/ ImportAssign \/ CloseClear \/ MainWaited \/ MainEnd
  \/ AlivePost \/ AliveReturn \/ CreditPost \/ CreditReturn \/ BoxFound
  \/ SendBuild \/ SendAssign

\* What ends a dialogue.
Answer ==
  \/ LoggedIn \/ LogInFails \/ ExpiryAnswered \/ CloseIgnored \/ CloseStop
  \/ ImportCancelled \/ ResultClosed
  \/ BoxAnswered \/ PaymentRefused \/ PaymentAgreed \/ ToldClosed
  \/ \E files \in SUBSET Files : ImportGiven(files)

User ==
  \/ SyncAll \/ SyncOne \/ DownloadAttachments \/ ImportZfo \/ CloseEvent
  \/ \E n \in Dialogs :
       \/ ShowSendMessageDialog(n) \/ SetAccountInfo(n) \/ CloseSendMessageDialog(n)
       \/ AddRecipient(n) \/ DeleteRecipientEntries(n) \/ SendMessage(n)
       \/ PingIsdsServer(n)

Next == Worker \/ Deliver \/ Continue \/ Answer \/ User

Spec == Init /\ [][Next]_vars

\* The worker, the event loop and the code go on; dialogues are answered; the
\* user need not do anything else.
FairSpec ==
  /\ Spec
  /\ WF_vars(Worker)
  /\ WF_vars(Deliver)
  /\ WF_vars(Continue)
  /\ WF_vars(Answer)

-----------------------------------------------------------------------------
(* Properties. *)

\* Nothing is going on: all slots are left, all events delivered, no task is left.
Quiet == mainAt = "exec" /\ stack = <<>> /\ events = <<>> /\ ~Working

\* Background synchronisation never dies: whenever the application is quiet and
\* open the timer runs, whatever slots were nested and however log-ins ended.
TimerRunsWhenQuiet == Quiet /\ ~closed => timer

\* When nothing is going on the synchronisation buttons are enabled, with one
\* exception: a log-in that fails puts back what isEnabled() said before the event
\* loop was run, which may be what a batch that has ended since had disabled.
ButtonsWhenQuiet == Quiet /\ ~closed => enabled \/ restored

\* Nor does an import leave its action disabled, unless it found no valid file.
ImportWhenQuiet == Quiet /\ ~closed => importable \/ fruitless

\* A quiet window is ready: by the timer and by the buttons.
ReadyWhenQuiet == TimerRunsWhenQuiet /\ ButtonsWhenQuiet /\ ImportWhenQuiet

\* The results of an import are shown when all its files are reported, each once,
\* unless it began while another was going on, which the end of a batch between
\* two assignments makes possible; and no import stays without its results.
ImportTold ==
  /\ In("imported", "ask") /\ ~mixed =>
       Len(imported) = Cardinality(chosen) /\ {imported[i] : i \in DOMAIN imported} = chosen
  /\ Quiet /\ ~closed => zfoFilesToImport = {} /\ imported = <<>>

\* The boxes of the dialogues are true, and no dialogue stays disabled in a quiet
\* window, waiting for reports.
SendTold ==
  /\ BoxTrue
  /\ Quiet /\ ~closed => \A n \in Dialogs : form[n].at # "disabled"

\* What was asked of the worker is reported to who asked, all of it and once.
AllTold == ImportTold /\ SendTold

\* A task was assigned to the pool after it had been stopped.
Orphaned == terminating /\ (hi # <<>> \/ lo # <<>>)

\* Once closing is accepted the program ends, unless a task is left behind in a
\* stopped pool.
CloseEnds == closed ~> (mainAt = "end" \/ Orphaned)

\* main.cpp, line 379: "Wait until all threads finished." - the program ends once
\* its window has closed.
ProgramEnds == closed ~> mainAt = "end"

\* No task is held by the pool when main() ends: of what was assigned before, the
\* worker has taken all that clear() in closeEvent() has not removed, and nothing
\* is assigned after main() has waited.
NothingDropped ==
  mainAt = "end" => hi = <<>> /\ lo = <<>> /\ current = None /\ single = None

=============================================================================
