--------------------------- MODULE AccountSettings ---------------------------
(***************************************************************************)
(* The settings of the accounts: the map from user names to settings that  *)
(* the main window, its dialogues and the worker tasks share, the rows of  *)
(* the account model that stand for it in the window, and the              *)
(* configuration file they are written to, with the PIN that encrypts the  *)
(* passwords in it.                                                        *)
(*                                                                         *)
(* Slots are nested as in MainWindow: a slot at a dialogue or in           *)
(* processEvents() lets the timer start a synchronisation on top of it,    *)
(* and in processEvents() the user may do anything in the window.          *)
(* operator[] of the map creates empty settings for a name it does not     *)
(* hold, and most readers use it.                                          *)
(***************************************************************************)
EXTENDS Naturals, Sequences, Functions

CONSTANTS
  Users,      \* user names
  Passwords,  \* passwords, none of them empty
  Pins,       \* PINs
  None,       \* no password, no PIN, no name
  Null,       \* AcntSettings that are isNull()
  MaxOps,     \* bound: slots entered by the user or the timer in one run
  MaxDepth    \* bound: slots entered and not left

Secrets == Passwords \cup {None}
Settings == [pwd : Secrets, rememberPwd : BOOLEAN]

ASSUME SettingsAssumption ==
  /\ None \notin Users \cup Passwords \cup Pins
  /\ Null \notin Settings
  /\ MaxOps \in Nat /\ MaxDepth \in Nat \ {0}

VARIABLES
  at,         \* "down", asking for the "pin", "window", or "closing"
  pin,        \* _pinVal; the code of the PIN goes with it
  rows,       \* the user names of the account model
  acntMap,
  stack,      \* slots entered and not left
  sessions,   \* accounts that have logged in
  pending,    \* accounts that tasks of the pool and their reports are about
  offered,    \* open dialogues of messages to send, as the accounts each offers
  server,     \* the passwords the server takes
  file,       \* the configuration file
  rewriting,  \* the content confFileRemovePwdQuotes() has read, None when it is done
  remembered, \* history: the passwords that the last save was to keep
  torn,       \* history: the process died while the file was being written again
  orphaned,   \* history: accounts removed while a slot, a task or an open dialogue of a
              \* message was about them
  ops

memory == <<pin, rows, acntMap, stack, sessions, pending, offered, orphaned, ops>>
disk == <<file, rewriting, remembered, torn>>
vars == <<at, memory, server, disk>>

Accounts == Users \cup {None}   \* the name of a row that is not there is empty

NoCode == [pin |-> None, pwd |-> None]
Entries == [userName : Users, rememberPwd : BOOLEAN, pwd : Secrets,
            pwdCode : [pin : Pins, pwd : Passwords] \cup {NoCode}]
Files == [pin : Pins \cup {None}, accounts : Seq(Entries)]
Emptied == [pin |-> None, accounts |-> <<>>]

Places == {"next", "processEvents", "connect", "logIn", "askPwd", "askAccount", "connected",
           "changePwd", "changed", "dialogue", "exists"}
Frames == [slot : {"all", "one", "manage", "remove", "add", "password", "preferences", "send"},
           user : Accounts, at : Places, copy : Settings \cup {Null}, row : Nat, count : Nat]

TypeOK ==
  /\ at \in {"down", "pin", "window", "closing"}
  /\ pin \in Pins \cup {None}
  /\ rows \in Seq(Users)
  /\ DOMAIN acntMap \subseteq Accounts
  /\ acntMap \in [DOMAIN acntMap -> Settings \cup {Null}]
  /\ stack \in Seq(Frames)
  /\ {sessions, pending, orphaned} \subseteq SUBSET Accounts
  /\ offered \subseteq SUBSET Users
  /\ server \in [Users -> Passwords]
  /\ file \in Files
  /\ rewriting \in Files \cup {None}
  /\ DOMAIN remembered \subseteq Users
  /\ remembered \in [DOMAIN remembered -> Secrets]
  /\ torn \in BOOLEAN
  /\ ops \in 0 .. MaxOps

-----------------------------------------------------------------------------
(* The configuration file. *)

\* MUTANT of Entry: a password that is stored already is not encrypted again.
EntryKept(u, sett, key) ==
  LET keep == sett.rememberPwd /\ sett.pwd # None
      stored == {e \in Range(file.accounts) : e.userName = u /\ e.pwdCode.pwd = sett.pwd}
  IN [userName |-> u, rememberPwd |-> sett.rememberPwd,
      pwd |-> IF keep /\ key = None THEN sett.pwd ELSE None,
      pwdCode |-> IF ~keep \/ key = None THEN NoCode
                  ELSE IF stored # {} THEN (CHOOSE e \in stored : TRUE).pwdCode
                  ELSE [pin |-> key, pwd |-> sett.pwd]]

\* AcntSettings::saveToSettings(), with storeEncryptedPwd().
Entry(u, sett, key) ==
  LET keep == sett.rememberPwd /\ sett.pwd # None
  IN [userName |-> u, rememberPwd |-> sett.rememberPwd,
      pwd |-> IF keep /\ key = None THEN sett.pwd ELSE None,
      pwdCode |-> IF keep /\ key # None THEN [pin |-> key, pwd |-> sett.pwd] ELSE NoCode]

\* MainWindow::saveSettings(), to the synchronisation of the file; the rest, which
\* writes the file once more, is RewriteTruncate and RewriteEnd.
SaveSettings(users, settings) ==
  /\ file' = [pin |-> pin,
              accounts |-> [i \in DOMAIN users |-> Entry(users[i], settings[users[i]], pin)]]
  /\ rewriting' = file'
  /\ remembered' = [u \in Range(users) |->
                      IF settings[u].rememberPwd THEN settings[u].pwd ELSE None]
  /\ torn' = FALSE

\* readPwdData() and then decryptPassword() of each account with the PIN.
Decrypted(e, key) ==
  [rememberPwd |-> e.rememberPwd,
   pwd |-> IF e.pwd # None \/ key = None THEN e.pwd
           ELSE IF e.pwdCode.pin = key THEN e.pwdCode.pwd ELSE None]

\* MainWindow::loadSettings()
LoadSettings(key) ==
  /\ at' = "window"
  /\ pin' = key
  /\ rows' = [i \in DOMAIN file.accounts |-> file.accounts[i].userName]
  /\ acntMap' = [u \in Range(rows') |->
                   Decrypted(CHOOSE e \in Range(file.accounts) : e.userName = u, key)]

-----------------------------------------------------------------------------
(* Slots. *)

Running == at = "window" /\ rewriting = None

Top == stack[Len(stack)]
Caller == SubSeq(stack, 1, Len(stack) - 1)
In(place) == Running /\ stack # <<>> /\ Top.at = place

Dialogues == {"askPwd", "askAccount", "changePwd", "changed", "dialogue", "exists"}
EventLoop ==
  Running /\ (stack # <<>> => Top.at \in {"processEvents"} \cup Dialogues)
WindowReachable ==
  EventLoop /\ \A i \in DOMAIN stack : stack[i].at \notin Dialogues

Enter(slot, u, place) ==
  /\ ops < MaxOps /\ Len(stack) < MaxDepth /\ ops' = ops + 1
  /\ stack' = Append(stack, [slot |-> slot, user |-> u, at |-> place, copy |-> Null,
                             row |-> 1, count |-> Len(rows)])

GoTo(place) == stack' = [stack EXCEPT ![Len(stack)].at = place]

\* (*acntMapPtr)[u]: the settings, the map after they have been looked up, and
\* after they have been assigned.
SettingsOf(u) == IF u \in DOMAIN acntMap THEN acntMap[u] ELSE Null
Assigned(u, sett) ==
  [v \in DOMAIN acntMap \cup {u} |-> IF v = u THEN sett ELSE acntMap[v]]
LookedUp(u) == Assigned(u, SettingsOf(u))

\* A slot returns; one that has failed to connect is left as well, only
\* synchroniseAllAccounts() goes on with the next account.
Leave == IF Top.slot = "all" THEN GoTo("next") ELSE stack' = Caller

-----------------------------------------------------------------------------
(* connectToIsds(), and logInGUI() of an account with a password.  A new     *)
(* account is logged in with the settings of the dialogue.                   *)

\* isConnectedToIsds() asks the server, which may have ended the session.
Connect(u, frames) ==
  \/ /\ u \in sessions
     /\ stack' = [frames EXCEPT ![Len(frames)].at = "connected"]
     /\ UNCHANGED acntMap
  \/ /\ acntMap' = LookedUp(u)
     /\ stack' = IF SettingsOf(u) # Null
                 THEN [frames EXCEPT ![Len(frames)].at = "logIn",
                                     ![Len(frames)].copy = SettingsOf(u)]
                 ELSE IF frames[Len(frames)].slot = "all"
                 THEN [frames EXCEPT ![Len(frames)].at = "next"]
                 ELSE SubSeq(frames, 1, Len(frames) - 1)

\* The settings that were logged in with are written back and saved; the user
\* may be offered to change a password that is about to expire (and is not, where
\* that is what he asked for).
WriteBack ==
  /\ sessions' = sessions \cup {Top.user}
  /\ IF Top.slot = "add"
     THEN GoTo("connected") /\ UNCHANGED <<acntMap, disk>>
     ELSE /\ acntMap' = Assigned(Top.user, Top.copy)
          /\ SaveSettings(rows, acntMap')
          /\ GoTo("connected") \/ (Top.slot # "password" /\ GoTo("changePwd"))

\* The log-in fails; a new account is given up, what there is is saved.
LogInFails ==
  /\ Leave
  /\ IF Top.slot = "add" /\ rows # <<>> THEN SaveSettings(rows, acntMap) ELSE UNCHANGED disk

LogIn ==
  /\ In("logIn")
  /\ \/ /\ Top.user \in sessions \/ Top.copy.pwd = server[Top.user]
        /\ WriteBack
     \/ /\ Top.copy.pwd = None
        /\ GoTo("askPwd")
        /\ UNCHANGED <<acntMap, sessions, disk>>
     \/ /\ Top.copy.pwd \notin {None, server[Top.user]}
        /\ GoTo("askAccount")
        /\ UNCHANGED <<acntMap, sessions, disk>>
     \/ LogInFails /\ UNCHANGED <<acntMap, sessions>>
  /\ UNCHANGED <<at, pin, rows, pending, offered, orphaned, ops, server>>

\* The dialogues for the password and for the account.
Asked ==
  /\ In("askPwd") \/ In("askAccount")
  /\ \/ \E sett \in Settings :
          /\ sett.pwd # None
          /\ stack' = [stack EXCEPT ![Len(stack)].copy = sett, ![Len(stack)].at = "logIn"]
          /\ UNCHANGED disk
     \/ LogInFails
  /\ UNCHANGED <<at, pin, rows, acntMap, sessions, pending, offered, orphaned, ops, server>>

-----------------------------------------------------------------------------
(* Synchronisation. *)

\* synchroniseAllAccounts(), from the timer, which the end of a batch of the pool or
\* of a nested call starts again, or by the user.
SyncAll ==
  /\ EventLoop
  /\ Enter("all", None, "next")
  /\ UNCHANGED <<at, pin, rows, acntMap, sessions, pending, offered, orphaned, server, disk>>

\* The next of as many rows as there were, which may be more than there are.  An
\* account may take no part; one without settings takes none.
SyncNext ==
  /\ In("next")
  /\ LET u == IF Top.row \in DOMAIN rows THEN rows[Top.row] ELSE None
         frames == [stack EXCEPT ![Len(stack)].row = @ + 1, ![Len(stack)].user = u]
     IN IF Top.row > Top.count THEN stack' = Caller /\ UNCHANGED acntMap
        ELSE \/ stack' = frames /\ acntMap' = LookedUp(u)
             \/ u # None /\ SettingsOf(u) # Null /\ Connect(u, frames)
  /\ UNCHANGED <<at, pin, rows, sessions, pending, offered, orphaned, ops, server, disk>>

\* synchroniseSelectedAccount() of the current account.
SyncOne ==
  /\ WindowReachable
  /\ \E u \in Range(rows) : Enter("one", u, "processEvents")
  /\ UNCHANGED <<at, pin, rows, acntMap, sessions, pending, offered, orphaned, server, disk>>

EventsProcessed ==
  /\ In("processEvents") \/ In("connect")
  /\ Connect(Top.user, stack)
  /\ UNCHANGED <<at, pin, rows, sessions, pending, offered, orphaned, ops, server, disk>>

\* Connected, an account is synchronised: by synchroniseSelectedAccount(), which
\* processes events before it connects once more, and assigns the tasks.
Synchronise ==
  /\ In("connected")
  /\ \/ /\ Top.slot = "all"
        /\ stack' = Append([stack EXCEPT ![Len(stack)].at = "next"],
                           [Top EXCEPT !.slot = "one", !.at = "processEvents", !.copy = Null])
        /\ UNCHANGED pending
     \/ /\ Top.slot = "one"
        /\ pending' = pending \cup {Top.user}
        /\ stack' = Caller
  /\ UNCHANGED <<at, pin, rows, acntMap, sessions, offered, orphaned, ops, server, disk>>

\* A task of the pool looks the account up for its log entry, or the slot it reports
\* to, if they write one; the tasks of one account count as one, which may go on.
Worker ==
  /\ at = "window"
  /\ \E u \in pending :
       /\ pending' \in {pending, pending \ {u}}
       /\ acntMap' \in {acntMap, LookedUp(u)}
  /\ UNCHANGED <<at, pin, rows, stack, sessions, offered, orphaned, ops, server, disk>>

-----------------------------------------------------------------------------
(* Dialogues of messages to send.  They are not modal and keep the names they were *)
(* given, also of accounts that are removed while they are open.                   *)

\* showSendMessageDialog(): a reply offers the current account only.  The account is
\* chosen at once.
SendMessageDialog ==
  /\ WindowReachable
  /\ \E u \in Range(rows), names \in SUBSET Range(rows) :
       /\ names \in {{u}, Range(rows)}
       /\ offered' = offered \cup {names}
       /\ Enter("send", u, "connect")
  /\ UNCHANGED <<at, pin, rows, acntMap, sessions, pending, orphaned, server, disk>>

\* The user chooses another of the accounts offered; setAccountInfo() connects it.
ChooseSender ==
  /\ WindowReachable
  /\ \E u \in UNION offered : Enter("send", u, "connect")
  /\ UNCHANGED <<at, pin, rows, acntMap, sessions, pending, offered, orphaned, server, disk>>

\* setAccountInfo() looks the account up, connected or not; where it is not,
\* connecting has looked it up already.
SetAccountInfo ==
  /\ In("connected") /\ Top.slot = "send"
  /\ acntMap' = LookedUp(Top.user)
  /\ stack' = Caller
  /\ UNCHANGED <<at, pin, rows, sessions, pending, offered, orphaned, ops, server, disk>>

\* Dialogues that offer the same accounts count as one.
MessageLeft ==
  /\ WindowReachable
  /\ \E names \in offered : offered' = offered \ {names}
  /\ UNCHANGED <<at, pin, rows, acntMap, stack, sessions, pending, orphaned, ops, server, disk>>

\* The tasks of a message to send, of an import or of a download by the user.
Assign ==
  /\ WindowReachable
  /\ \E u \in Range(rows) \cup UNION offered : pending' = pending \cup {u}
  /\ UNCHANGED <<at, pin, rows, acntMap, stack, sessions, offered, orphaned, ops, server, disk>>

-----------------------------------------------------------------------------
(* What the user does with accounts. *)

\* manageAccountProperties()
Manage ==
  /\ WindowReachable
  /\ \E u \in Range(rows) : Enter("manage", u, "dialogue")
  /\ UNCHANGED <<at, pin, rows, acntMap, sessions, pending, offered, orphaned, server, disk>>

Managed ==
  /\ In("dialogue") /\ Top.slot = "manage"
  /\ stack' = Caller
  /\ \/ UNCHANGED <<acntMap, disk>>
     \/ /\ \E sett \in Settings :
             sett.pwd # None /\ acntMap' = Assigned(Top.user, sett)
        /\ SaveSettings(rows, acntMap')
  /\ UNCHANGED <<at, pin, rows, sessions, pending, offered, orphaned, ops, server>>

\* showAddNewAccountDialog()
Add ==
  /\ WindowReachable
  /\ \E u \in Users : Enter("add", u, "dialogue")
  /\ UNCHANGED <<at, pin, rows, acntMap, sessions, pending, offered, orphaned, server, disk>>

\* getAccountUserDataboxInfo(): a session of this user name spares the log-in.
AddGiven ==
  /\ In("dialogue") /\ Top.slot = "add"
  /\ \/ stack' = Caller
     \/ \E sett \in Settings, place \in {"logIn", "connected"} :
          /\ sett.pwd # None
          /\ place = "connected" => Top.user \in sessions
          /\ stack' = [stack EXCEPT ![Len(stack)].copy = sett, ![Len(stack)].at = place]
  /\ UNCHANGED <<at, pin, rows, acntMap, sessions, pending, offered, orphaned, ops, server, disk>>

\* AccountModel::addAccount()
AddAccount ==
  /\ In("connected") /\ Top.slot = "add"
  /\ IF Top.user \in DOMAIN acntMap
     THEN GoTo("exists") /\ UNCHANGED <<rows, acntMap, disk>>
     ELSE /\ rows' = Append(rows, Top.user)
          /\ acntMap' = Assigned(Top.user, Top.copy)
          /\ stack' = Caller
          /\ SaveSettings(rows', acntMap')
  /\ UNCHANGED <<at, pin, sessions, pending, offered, orphaned, ops, server>>

\* "Account could not be added because account already exists."
RefusalRead ==
  /\ In("exists")
  /\ stack' = Caller
  /\ UNCHANGED <<at, pin, rows, acntMap, sessions, pending, offered, orphaned, ops, server>>
  /\ IF rows # <<>> THEN SaveSettings(rows, acntMap) ELSE UNCHANGED disk

\* deleteAccount()
Remove ==
  /\ WindowReachable
  /\ \E u \in Range(rows) : Enter("remove", u, "dialogue")
  /\ UNCHANGED <<at, pin, rows, acntMap, sessions, pending, offered, orphaned, server, disk>>

\* MUTANT of Without: the row is removed, the settings are not.
WithoutRow(u) == acntMap

\* AccountModel::deleteAccount(), the map after it.
Without(u) == Restrict(acntMap, DOMAIN acntMap \ {u})

Removed ==
  /\ In("dialogue") /\ Top.slot = "remove"
  /\ stack' = Caller
  /\ LET u == Top.user
         concerned == \/ u \in pending \cup UNION offered
                      \/ \E i \in DOMAIN Caller : Caller[i].user = u
     IN \/ UNCHANGED <<rows, acntMap, orphaned, disk>>
        \/ /\ \E i \in DOMAIN rows :
                rows[i] = u
                /\ rows' = SubSeq(rows, 1, i - 1) \o SubSeq(rows, i + 1, Len(rows))
           /\ acntMap' = Without(u)
           /\ orphaned' = IF concerned THEN orphaned \cup {u} ELSE orphaned
           /\ SaveSettings(rows', acntMap')
  /\ UNCHANGED <<at, pin, sessions, pending, offered, ops, server>>

\* changeAccountPassword()
ChangePassword ==
  /\ WindowReachable
  /\ \E u \in Range(rows) : Enter("password", u, "connect")
  /\ UNCHANGED <<at, pin, rows, acntMap, sessions, pending, offered, orphaned, server, disk>>

\* changePassword(): the dialogue of the account itself, or of one about to expire.
PasswordDialogue ==
  /\ In("connected") /\ Top.slot = "password"
  /\ GoTo("changePwd")
  /\ UNCHANGED <<at, pin, rows, acntMap, sessions, pending, offered, orphaned, ops, server, disk>>

PasswordLeft == IF Top.slot = "password" THEN stack' = Caller ELSE GoTo("connected")

\* sendChangePwdRequest(), if the current password is given right.
PasswordSent ==
  /\ In("changePwd")
  /\ \/ PasswordLeft /\ UNCHANGED server
     \/ \E new \in Passwords :
          /\ server' = [server EXCEPT ![Top.user] = new]
          /\ stack' = [stack EXCEPT ![Len(stack)].at = "changed",
                                    ![Len(stack)].copy = [pwd |-> new, rememberPwd |-> FALSE]]
  /\ UNCHANGED <<at, pin, rows, acntMap, sessions, pending, offered, orphaned, ops, disk>>

\* The settings change when the user has read that the password has; nothing is saved.
PasswordChanged ==
  /\ In("changed")
  /\ acntMap' = [LookedUp(Top.user) EXCEPT ![Top.user].pwd = Top.copy.pwd]
  /\ PasswordLeft
  /\ UNCHANGED <<at, pin, rows, sessions, pending, offered, orphaned, ops, server, disk>>

\* showPreferencesDialog(): a PIN set, changed or erased in it, by one who gives
\* the current one, takes effect when it is accepted.  Nothing is saved.
Preferences ==
  /\ WindowReachable
  /\ Enter("preferences", None, "dialogue")
  /\ UNCHANGED <<at, pin, rows, acntMap, sessions, pending, offered, orphaned, server, disk>>

PreferencesLeft ==
  /\ In("dialogue") /\ Top.slot = "preferences"
  /\ stack' = Caller
  /\ pin' \in Pins \cup {None}
  /\ UNCHANGED <<at, rows, acntMap, sessions, pending, offered, orphaned, ops, server, disk>>

\* One of the other places that call saveSettings(), as storeExportPath().
Store ==
  /\ WindowReachable
  /\ SaveSettings(rows, acntMap)
  /\ UNCHANGED <<at, memory, server>>

-----------------------------------------------------------------------------
(* The process and its file. *)

Nothing ==
  /\ pin' = None /\ rows' = <<>> /\ acntMap' = <<>> /\ stack' = <<>>
  /\ sessions' = {} /\ pending' = {} /\ offered' = {} /\ orphaned' = {} /\ ops' = 0

\* confFileRemovePwdQuotes(): the file is read, truncated and written, unless it
\* cannot be opened.
Rewrite ==
  /\ rewriting # None
  /\ \/ file # Emptied /\ file' = Emptied /\ UNCHANGED rewriting
     \/ file = Emptied /\ file' = rewriting /\ rewriting' = None
     \/ file = rewriting /\ rewriting' = None /\ UNCHANGED file
  /\ UNCHANGED <<at, memory, server, remembered, torn>>

\* main(): a configured PIN is asked for until it is given or the user gives up.
Start ==
  /\ at = "down"
  /\ IF file.pin # None
     THEN at' = "pin" /\ UNCHANGED <<pin, rows, acntMap>>
     ELSE LoadSettings(None)
  /\ UNCHANGED <<stack, sessions, pending, offered, orphaned, ops, server, disk>>

PinEntered ==
  /\ at = "pin"
  /\ \/ LoadSettings(file.pin)
     \/ at' = "down" /\ UNCHANGED <<pin, rows, acntMap>>
  /\ UNCHANGED <<stack, sessions, pending, offered, orphaned, ops, server, disk>>

\* The window is closed and its destructor saves.
Close ==
  /\ Running /\ stack = <<>>
  /\ at' = "closing"
  /\ SaveSettings(rows, acntMap)
  /\ UNCHANGED <<memory, server>>

Ended ==
  /\ at = "closing" /\ rewriting = None
  /\ at' = "down"
  /\ Nothing
  /\ UNCHANGED <<server, disk>>

Crash ==
  /\ at \in {"window", "closing"}
  /\ at' = "down"
  /\ Nothing
  /\ rewriting' = None
  /\ torn' = (torn \/ (rewriting # None /\ file # rewriting))
  /\ UNCHANGED <<server, file, remembered>>

-----------------------------------------------------------------------------

Init ==
  /\ at = "down"
  /\ pin = None /\ rows = <<>> /\ acntMap = <<>> /\ stack = <<>>
  /\ sessions = {} /\ pending = {} /\ offered = {} /\ orphaned = {} /\ ops = 0
  /\ server \in [Users -> Passwords]
  /\ file = Emptied /\ rewriting = None
  /\ remembered = <<>> /\ torn = FALSE

User ==
  \/ SyncAll \/ SyncOne \/ Manage \/ Add \/ Remove \/ ChangePassword \/ Preferences \/ Store
  \/ SendMessageDialog \/ ChooseSender \/ MessageLeft \/ Assign

Continue ==
  \/ LogIn \/ Asked \/ SyncNext \/ EventsProcessed \/ Synchronise \/ Managed
  \/ AddGiven \/ AddAccount \/ RefusalRead \/ Removed \/ PasswordDialogue
  \/ PasswordSent \/ PasswordChanged \/ PreferencesLeft \/ SetAccountInfo

Process == Rewrite \/ Start \/ PinEntered \/ Close \/ Ended \/ Crash

Next == User \/ Continue \/ Worker \/ Process

Spec == Init /\ [][Next]_vars

-----------------------------------------------------------------------------
(* Properties. *)

\* With a PIN every password in the file is encrypted, with this very PIN, without
\* one none is; and none is there of an account that is not to remember it.
FileSound ==
  \A e \in Range(file.accounts) :
    /\ e.pwd # None => file.pin = None /\ e.rememberPwd
    /\ e.pwdCode # NoCode => e.pwdCode.pin = file.pin /\ e.rememberPwd

\* Whatever the PIN was changed to and whenever the process died, the next one has
\* the passwords that were to be remembered when the settings were last saved;
\* unless it died between the truncation of the file and its writing.
RememberedFound ==
  at # "window" /\ at' = "window" /\ ~torn =>
    [u \in Range(rows') |-> acntMap'[u].pwd] = remembered

\* What the configuration file keeps of the passwords, and what is read of it again.
FileKept == [][FileSound' /\ RememberedFound]_vars

\* Each row has settings: what saveToSettings() asserts and connectToIsds() needs.
RowsHaveSettings ==
  /\ \A i, j \in DOMAIN rows : rows[i] = rows[j] => i = j
  /\ \A i \in DOMAIN rows : SettingsOf(rows[i]) # Null

\* An account that is refused because it exists is in the list, or was removed when
\* a slot, a task or an open dialogue of a message was about it, whose look in the
\* map brings it back.
RefusedWhenKnown ==
  \A i \in DOMAIN stack :
    stack[i].at = "exists" => stack[i].user \in Range(rows) \cup orphaned

\* datovka.cpp, line 6952: "Account could not be added because account already
\* exists." - or because it was removed and looked up again.
RefusedWhenListed ==
  \A i \in DOMAIN stack : stack[i].at = "exists" => stack[i].user \in Range(rows)

\* The rows of the account list and the map of the settings agree.
ListAgrees == RowsHaveSettings /\ RefusedWhenKnown

\* The tasks of the pool are about accounts in the list, whose database sets they
\* point to - unless an account is removed while its tasks wait.
TasksHaveAccounts == pending \subseteq Range(rows)

\* datovka.cpp, line 3247: the rows that synchroniseAllAccounts() goes through have
\* names - unless the user removes an account while events are processed.
NamesFound ==
  \A i \in DOMAIN stack :
    stack[i].slot = "all" /\ stack[i].row > 1 => stack[i].user # None
=============================================================================
