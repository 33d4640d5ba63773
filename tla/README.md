# Datovka: a TLA+ model of its concurrent and recoverable core

Datovka is a desktop client (Qt, C++) for the Czech data boxes, ISDS. A user has
accounts; each account has a session with the ISDS server and a database of
messages on disk. The main thread runs the windows; a worker pool runs the tasks
that talk to the server and store what it answers. Several processes of the
program may be started by the same user, and a command line interface shares most
of the code.

This directory models the parts where the order of things matters: threads that
wait for each other or write to the same database, slots that are entered while
others are not left, processes that start and die, files that are moved while the
program may die, and the algorithms whose answers depend on what happened before.
Paths below are relative to the repository; `pool.cpp:99` is a line of a file.
`PROJECT.json` lists, for every definition that models code, the lines it stands
for.

## 1. Inventory

| Component | State | Operations | Hard behaviour | Correct when |
|---|---|---|---|---|
| **Worker pool** `src/datovka_shared/worker/pool.cpp` | mutex, one condition, two queues, the single slot, counters | assign (high, low, append, prepend), `runSingle`, `wait`, `clear`, `suspend`, `resume`, `start`, `stop`, the worker loop | callers and workers sleep on one condition; the slot is filled by one thread, served by another, vacated by the first; tasks are deleted outside the mutex | no wake-up is lost, tasks run once and in order, `runSingle` returns after its task ran, the end of a batch that is not cut short is announced |
| **Main window** `src/gui/datovka.cpp`, `src/main.cpp` | nested slots, enabled actions, the timer, posted events, files of an import | synchronise all or one, download, send, import ZFO files, close, collect results | nested event loops; results that arrive after the pool was stopped; reports that are counted down | background synchronisation never dies; the buttons come back; an import shows its results; closing ends the program, and the pool holds no task then |
| **Sending dialogue** `src/gui/dlg_send_message.cpp`, `helper.cpp` | recipients, unfinished transactions, results; several dialogues at once | log in, find recipients, send to all, collect reports, tell, try again, close | reports of all dialogues reach all of them; one that waits may be closed; a log-in inside the constructor | what is told as sent was sent; nobody gets a message twice from one press; no dialogue stays disabled |
| **Worker tasks** `src/worker/` | transactions, results | download a list or a message, send, erase, import ZFO | server first, database second; the main thread writes inside the worker's transaction; lists put downloads in front of the queue | a message ends in one state on both sides; marks and content survive; reports are true |
| **Message databases** `src/io/message_db.cpp`, `message_db_set_delegated.cpp` | tables of a file; the files of a set | insert, update, delete; questions to one file or to all | several statements per message; answers put together from files that are picked by name | what was stored is found again, whatever the organisation of the files |
| **Message database set** `src/io/message_db_set.cpp` and its **maintenance** `src/worker/task_split_db.cpp`, `src/gui/dlg_change_directory.cpp` | files by year or a single one; open connections; the directory in the settings and in the settings file | open, copy, move, delete, re-open, split by years, change the directory, save settings | each step can fail, the program can die between any two | no message is forgotten; the next start finds the database in use, or a complete original beside newer files |
| **Account list** `src/models/accounts_model.cpp`, `datovka.cpp` | the tree of accounts and years, its current index, the message list | add, remove and move accounts; count years and unread messages; draw | indexes are held while the event loop inserts and removes rows | the tree is sound, the selection stays, the numbers are right |
| **Settings, PIN, passwords** `src/settings`, `src/datovka_shared/settings`, `datovka.cpp` | the map of settings shared by all threads, the PIN, the configuration file | log in, add, remove, change accounts and passwords, set a PIN, load, save | slots are nested over dialogues; each lookup may create an entry; the file is written twice | the list and the map agree; passwords are found again, encrypted with the PIN of the file |
| **Single instance** `src/single/single_instance.cpp` | a system semaphore, a shared segment with its lock and messages | start, send, check, exit | processes race for the segment; crash leftovers; a lock kept on an error path | one owner, each accepted message handled once, nobody blocked for good |
| **Log-in** `src/io/isds_login.cpp`, `logInGUI()` in `datovka.cpp`, `src/cli/cli_login.cpp` | the credentials, the TOTP state | five log-in methods, two loops | the loops re-enter the log-in after each answer with what is left of the last round | no SMS without consent, no code or refused request sent twice, the CLI ends |
| **Command line** `src/cli`, `src/main_cli.cpp` | the text of the options; a request; the pool | parse, compose, serve, print, wait for the pool | nested quoting; a failed list with downloads waiting; a message that changes its file | options mean what was written; what is printed and written is what was done; every run ends |
| Session keeping `src/io/isds_sessions.cpp` | a map from logins to contexts, each with a timeout | connect, ping, set timeout | the timeout is changed by the main thread while a worker uses the session | a transfer keeps its timeout |
| Account, tag and records management databases | SQLite tables | single statements | none: one thread writes | |
| Models, views, dialogues `src/models`, `src/views`, `src/gui` | rows, selections | fill, mark | none but the account list | |
| Exports and files `src/io/exports.cpp`, `filesystem.cpp` | none | write, read | none but errors of I/O | |
| Government services, records management, CMS, logging | local | forms, HTTP, OpenSSL, output | none of their own | |

Interaction. Slots of the main window hand tasks to the pool, wait for one of
them in `runSingle()`, and learn of the end of a batch by the signal
`assignedFinished()` and of single results by the signals of
`MessageProcessingEmitter`, all of which are events posted to the main thread.
Tasks hold pointers to database sets and share their connections with the main
thread; they look accounts up in the map of settings that the main thread changes.
`main()` waits for the pool and stops it after the event loop has ended. `main()`
asks `SingleInstance` first of all, then for the PIN.

## 2. Modules

| Module | Models | Composed with |
|---|---|---|
| `WorkerPool` | the pool: one action per locked region | |
| `TaskService` | abstract: what a user of the pool may rely on | |
| `PoolQueue` | abstract: two queues, a slot and one worker | |
| `WorkerPoolRefinement` | the two refinement mappings | `WorkerPool`, `TaskService`, `PoolQueue` |
| `WorkerPoolProofs` | theorems about the pool: types, counters and wake-ups, who owns a task; the two refinements | extends `WorkerPoolRefinement` |
| `DlgSendMessage` | dialogues that send messages, their transactions and results | extends `PoolQueue`, which `WorkerPool` implements |
| `MainWindow` | slots, events, timer, imports, dialogues, closing, end of `main()` | extends `DlgSendMessage` |
| `MainWindowProofs` | theorems about the window: what a quiet window is like, the end of `main()`, what imports and dialogues are told | extends `MainWindow` |
| `MessageDb` | the tables of a file and the statements of each call | |
| `MessageTasks` | the tasks, the server, the main thread, crash, restart | extends `PoolQueue`, `MessageDb` |
| `MessageTasksProofs` | theorems about erasures, marks, what is shown, lost and reported, what a list leaves behind | extends `MessageTasks` |
| `MessageDbSet` | the files of a set; operations as sets of outcomes | |
| `DbMaintenance` | storing, splitting, changing the directory, crash, restart | extends `MessageDbSet` |
| `DbMaintenanceProofs` | theorems about what the files keep, what is shown and what can be recovered | extends `DbMaintenance` |
| `MessageDbQueries` | the questions to one file | |
| `MessageDbSetQueries` | the questions to a set, against one file with all messages | instance of `MessageDbQueries` |
| `AccountModel` | `AccountModel` and the indexes that views hold | |
| `AccountList` | the window's use of it, the message list | extends `AccountModel` |
| `AccountTree` | abstract: accounts, years, and a selection that stays | implemented by `AccountList` |
| `AccountSettings` | the map of settings, the PIN, the configuration file | |
| `AccountSettingsProofs` | theorems about the list, the map and the file | extends `AccountSettings` |
| `SingleInstance` | the processes and the segment | |
| `SingleInstanceProofs` | theorems about owners and messages | extends `SingleInstance` |
| `IsdsLogin` | the log-in context and its two loops | |
| `IsdsLoginProofs` | theorems about consent and retries | extends `IsdsLogin` |
| `CmdOptions` | the two readers of options, the compose command | |
| `CommandLine` | a run of the command line interface | extends `CmdOptions`, `PoolQueue` |
| `CommandLineProofs` | theorems about what a run prints and writes | extends `CommandLine` |
| `MC...` | definitions that only TLC needs | |

A definition whose comment begins with `MUTANT of` is a plausible slip in the code
that its neighbour models; `PROJECT.json` names the property each of them breaks.
Nothing else uses these definitions.

### WorkerPool

A region between `m_lock.lock()` and the unlock or the sleep that ends it is one
action; `pc` says between which regions a thread is: a caller in `wait()`
(`"wait"`), in the first or second region of `runSingle()` (`"post"`, `"join"`), in
the join of `stop()`; a worker in its loop, in `run()` of a task, or with the task
done and the mutex not yet taken. `m_wake` is the set of sleepers; the condition
has only `wakeAll()`. A sleeper that is woken tests its condition again in the same
action that tests it first. One region of the worker spans two actions, `Complete`
and what follows in the loop; `m_lock` holds the worker's name in between.

Tasks are addresses and `heap` says what is allocated at each, because the pool
compares addresses of tasks it has deleted (`pool.cpp:242`). `AddressReuse`
chooses whether `new` may return such an address. The history variables
`executed`, `emitted`, `unannounced` (a task has ended, and nobody has announced the
end of the batch since) and `cleared` (`clear()` has removed the rest of a batch that
nobody announces) are read by properties only.

Assumed, from the callers in the code: `start()` is called when no worker runs;
`wait`, `clear`, `suspend`, `resume`, `start` and `stop` are called by threads in
`Owners`, `assignLo/Hi` and `runSingle` by `Callers`, and a worker assigns with
`assignLo(..., PREPEND)` from within a task
(`task_download_message_list.cpp:297`). A caller of `runSingle()` makes the task
with `setAutoDelete(false)` and deletes it after the return, as every caller does.

### TaskService and PoolQueue

`TaskService` is the promise of the pool without queues: a task object is
submitted, run at most once, an awaited one is returned after it has been run,
others may be dropped. `PoolQueue` is the pool with one worker, as
`initialisation.cpp` creates it, without mutex, sleepers or addresses. `WorkerPool`
is shown to implement both (`ImplementsService`, `ImplementsQueue`), so that
`MainWindow`, `MessageTasks` and `CommandLine` can be composed with the small one.

### MainWindow

`stack` is the stack of slots that were entered and not left. Where the innermost
one runs an event loop (`processEvents()`, the dialogues of a log-in, the question of
`closeEvent()`, the dialogues of an import) events and the timer enter other slots;
the user reaches the window when no dialogue is open anywhere in the stack.
`enabled` are the two synchronisation actions, which the code always sets together;
`events` are the events in the queue of the main thread; `mainAt` is the position
of `main()` after `exec()`. `WorkerReport` and `WorkerEnd` are all that is kept of
the tasks: a list schedules downloads, a sent message and an imported file are
reported. A log-in goes on in `connectToIsds()`: the requests for the data of the
account, which block the main thread (one stands for the three), the dialogues about
a password that expires (`datovka.cpp:6753-6785`), with an event loop of their own,
the request that changes it and the box with its result (`Connecting`, `Connected`).
An import of ZFO files is its dialogues, a task per valid file, and
`zfoFilesToImport` and `imported`, which count the reports down to the dialogue with
the results. Two things the code does go with it: an import without a valid file
leaves the import actions disabled until a batch ends (`fruitless`), and the end of
a batch between two assignments enables the import again while files are
outstanding, so that a second one clears the count of the first (`mixed`).

`form` holds what the members of each sending dialogue hold (`DlgSendMessage`); its
slots are frames of the same stack. The constructor asks the worker whether the
session is alive and logs in if it is not; recipients are searched for by the
worker; pressing the button makes transactions and a task for each recipient, and
the dialogue is disabled until all of them are reported (`collected`), when a box
tells the results and the user may try again, with all the recipients. A report is
one event in the model, for the window and for all dialogues; in the code it is an
event for each, posted one after the other. Transactions carry random numbers; the
model names them by dialogue and recipient, which is enough because a dialogue
makes new ones only when its own are reported. `sent` and `result` are forgotten
when no dialogue will tell them any more.

Left out: the attachments and the envelope, which keep the button disabled or are
data; a dialogue filled from another message, whose recipient is one more search;
the request for a security code that the dialogue for a new
password may make before the one that changes it (`dlg_change_pwd.cpp:286`); the
log-ins before an import that is to be checked on the
server; an account without a database set, which an assertion excludes and the code
then puts into the list (`datovka.cpp:4601` lacks its `return`);
closing during `processEvents()`; the timer between the acceptance of
the close and the end of `exec()`; the answer "no" to the question whether a sent
message is to be downloaded (the setting is assumed on, it is what makes the slot
assign a task).

### MessageDb and MessageTasks

A file is a row or `NoRow` for each table and message, and a row is what the
properties tell apart: the status, whether the message was read. Each call of
`MessageDb` is the sequence of its statements, one step each. `prog` is what the
running task has still to do; between any two statements the main thread marks
messages, erases, assigns. `db` is what the connections show, `disk` what a crash
leaves: they differ in the files of `open`, in which a list has begun a
transaction. The statements of the main thread fall into that transaction too,
since both threads use the same connection. The server gives a list, a message, or
an error; it delivers, and removes messages after 90 days.

`setting` selects the organisation of the files, whether lists download whole
messages, and whether the server has an entry that the conversion refuses
(`poison`), after which the list returns with its transactions open. A torn call
(a statement that failed or a crash between two) is remembered in `torn`. Statements
that write may fail; reads of the database do not.

### MessageDbQueries and MessageDbSetQueries

`MessageDbQueries` has the questions that one file answers: years, counts, recent
messages, contacts, the search, marks. `MessageDbSetQueries` has the functions of
the set, which choose files by their names and put the answers together, and
compares them with those of one file that holds all messages. A day is a number,
a year has a few days, `DaysInYear`, and "recent" is `Span` days; `today` is the
local date, `utc` that of SQL's `date('now')`, which may be one day behind.
Workers store what a list, a sending, a download or an import brings: a list and a
download take a message out of the file of those without a time and put it into that
of its year, an import looks into the latter only (`imported`). Of these steps the
removal may fail (`undeleted`). Years pass, files are opened by questions that need
them.

### AccountModel, AccountList and AccountTree

`AccountModel` follows the class: `userNames` with holes for removed accounts,
`row2UserNameIdx`, the counters and the years of each account; an index is a row, a
node type and a parent, and the model moves the persistent ones when it inserts or
removes rows. `AccountList` is the window: reports of stored messages make it count
the years anew and draw the message list; `accountItemCurrentChanged()` runs the
event loop before it reads the selected entry, and `frames` is the stack of its
unfinished calls. `AccountTree` promises an order of accounts, the years below
each, and a selection that nothing but its own removal or the user changes.

One message of a year is told apart, in a *slot*; there is one file per account;
dialogues of the user are open only when no drawing is unfinished; files stay when
an account is removed.

### AccountSettings

`acntMap` is the map from user names to settings, `rows` the account model. An
entry without settings, `Null`, is what `operator[]` creates for a name that is not
in the map (`LookedUp`). `stack` holds the slots; a slot that logs in works on a
copy of the settings (`copy`), writes it back and saves. `file` is the
configuration file: the PIN by its hash, and for each account the password in the
clear or encrypted with a PIN. `SaveSettings` is `saveSettings()` to the
synchronisation of the file; `Rewrite` is the second writing, which removes the
quotes: read, truncate, write. `remembered` is what that save was to keep, `torn`
says that the process died between truncation and writing. `offered` are the
accounts that each open dialogue of a message to send offers: these dialogues are
not modal, and choosing an account in one, listed or not, connects it and looks it
up (`SendMessageDialog`, `ChooseSender`, `SetAccountInfo`). `pending` are the accounts
of tasks, and of their reports. `orphaned` are accounts that were removed while a
slot, a task or an open dialogue had them in hand.

Assumed: encryption does not fail (the code then writes the password in the
clear); the user has an account with user name and password. The slots of the window
that connect the current account, as a download does, are represented by the
synchronisation of one account. Adding or removing an account changes the model, runs
the event loop (`datovka.cpp:935`) and saves the settings; change and save are one
step here. `Worker` looks an account up from the other thread; that `QMap` is
not made for this is not modelled.

### SingleInstance

`at` is the position of each process, `sema` the system semaphore, `exists`,
`attached`, `locked` and `memory` the shared segment. The semantics of the segment
is that of `QSharedMemory` on UNIX: it disappears when the last process detaches,
a crash detaches without that and releases the lock. Following the code's own
comment there is no crash while the semaphore is held. `mode` is the run mode of
`main.cpp`, or `main_cli.cpp`; it decides who sends messages and in which event
loops the timer of the owner reads them. Reading is the end of a message here: one
that is read during the start-up, before `MainWindow` connects its slot, or while a
ZFO file is shown, is emitted to nobody. A message is its sender and
kind; whether it fits into a segment that holds some already is `Capacity`.

### IsdsLogin

Strings are null, empty or have characters, since the code tells these three
apart. One call of `logIn()` sends at most one request, and the server may answer
anything to it. The account dialogue accepts what `checkInputFields()` accepts.

### MessageDbSet and DbMaintenance

The file system is a function from the paths that exist to the messages stored
completely in them. An operation on a set yields all its outcomes: what it
returns, the files, the set; with the outcome `"crash"` for each state of the
files in which the program may die on the way. `Faults` selects the failures.
A connection has the name it is said to use and the file it is on, which differ
after the failed restore the code makes (`delayed_access_db.cpp:129`).

Assumed: the copy or removal of one file and an SQLite transaction are atomic; an
existing database opens; the removal of copies after a failure, whose result the
code ignores, succeeds; messages have supplementary data. The order of the files in
a set is left open: any of them may be the one that fails. Databases in memory,
testing accounts and backups are not modelled.

### CmdOptions and CommandLine

A text is a sequence of characters. The tokeniser and the compose command
(`cmd_tokeniser.cpp`, `cmd_compose.cpp`) and the parameters of a service
(`cli_parser.cpp`) are two readers with different rules; options that the code
treats alike are one: `Text`, `List`, `Flag`. The text is written character by
character, by a user who knows the syntax (`written` is what he means) or by one
who does not; then `Start` parses, and the service runs: lists and messages through
the pool, which is `PoolQueue`, the rest by itself. What it prints, writes and
returns is compared with what the server and the database have.

A request, the insertion of an envelope or of a message, and the marking of a message
may fail, also where the code does not look at the result (`uninserted`, `unmarked`).
Left out: finding boxes and information about user and owner, one request each; files that cannot be written. What the options of an accepted text say is
chosen apart from the text. Assumed: a downloaded message has been delivered and has
the type that was asked for; the database is accessible. `dbIDRecipient` is
represented by the classes of options only.

## 3. Runs

All runs are complete searches of a bounded instance. "States" are distinct ones.

| Run | Instance | States | Question |
|---|---|---|---|
| `pool_safety` | 2 workers, 2 callers, 3 addresses, 4 allocations | 33,708 | bookkeeping, assertions, dangling pointers, wake-ups, the slot, the end of a batch; `TaskService` is implemented |
| `pool_one_worker` | 1 worker, 2 callers, 3 addresses and allocations | 47,560 | `PoolQueue` is implemented; callers and `stop()` return |
| `window_sync` | 2 accounts, 2 files to import, 2 sending dialogues with 1 and 2 recipients, 2 operations, depth 4 | 526,246 | timer, buttons, import, sending, dropped tasks, closing |
| `instance_messages` | 3 processes, 1 message fits, modes without `RM_ZFO` | 46,641 | ownership, delivery, lock |
| `login_loops` | all accounts, all answers | 4,028 | consent, codes, retries, end |
| `db_maintenance` | 2 directories, 2 years, 3 messages, all failures but of the commit, crashes, 2 operations | 44,707 | nothing forgotten, served; the database in use, a complete original in every conflict, and the backup are there |
| `messages` | a received and a sent message, 1 failure or crash, 1 operation of the user | 634,376 | reports, marks, content, erasures, what lists leave behind, everything arrives |
| `messages_exit` | the same, a list with an entry that cannot be converted | violation | what was stored is there after a restart |
| `account_tree` | 2 accounts, 2 years and messages without a time, 4 slots, 4 operations, depth 2, 1 report | 218,818 | indexes, selection, numbers; `AccountTree` is implemented |
| `set_queries` | 3 messages, 3 days around a turn of the year, 4 operations, 1 failure | 272,613 | each question to a set has the answer of one file |
| `settings` | 1 account, 2 passwords, 2 PINs, 4 operations in each life of the process, depth 3 | 1,467,504 | list and map, what the file keeps |
| `command_line` | 2 options of 4 characters or any 6 pieces of text, 2 messages, 2 recipients, 1 failure | 189,862 | quoting, handing over, output, files, end |

Why the bounds are enough.

* Pool: two workers are the least that see each other's region from the middle of
  the loop; two callers contend for the slot; with three addresses all of the slot
  and both queues are occupied at once, and the fourth allocation uses an address
  again.
* Window: two accounts make the loop over accounts meet both the successful and the
  failed log-in; depth 4 is a synchronisation of all, its call for one account, and
  the same again nested in its event loop. Two files are outstanding at once, and
  two imports overlap. Opening a dialogue is an operation, what is done in it is not
  bounded: it may send again and again. One dialogue meets every other operation;
  of two, one waits for two reports while those of the other arrive.
* Instance: three processes are the least with an owner that leaves, one that takes
  neither, and one that creates; capacity one makes the memory full with one
  message; to the segment `RM_ZFO` is `RM_GUI` without a message of its own.
* Log-in: nothing is bounded.
* Maintenance: a year with one message and one with two, so that a copy can be
  partial in both ways; two operations make a second one start from what a failed
  first one leaves.
* Messages: messages meet only in the queue, in the transaction and in the file;
  one of each direction, which lists of different types fetch, is enough for that.
  The failure may be any statement, request, commit or a crash; lists come again
  and again, so a failed one is followed by others. With two operations of the user
  10 million states were searched without a violation, not completely.
* Account list: two accounts move around each other and two years around the
  selected one; depth 2 is a drawing that is entered while another has not read yet.
* Queries: years have four days; messages of an old day, of the last of a year and of
  the first of the next, while it is one of the last two, make a recent period that
  spans both and one that begins after the oldest; a lag of one day puts SQL's date
  into the other year. Three messages are two that share a box and two of one type.
  Four operations are a message sent, imported and listed, and a question's mark.
* Settings: depth 3 is a slot, the synchronisation of all in its event loop, and the
  synchronisation of one in that; four operations add an account, synchronise,
  remove it below that and add it again. The process is started again and again,
  with the file it has left. Two accounts, three operations and depth 2 were
  searched as well, 3.6 million states without a violation.
* Command line: four characters hold an escaped quote between two others; two
  options are the least that can run into each other.

Symmetry is used in runs without liveness properties only: over workers and
addresses, over directories, over users, passwords and PINs.

`CHECK_DEADLOCK FALSE`: the allocations and operations are bounded, processes and
the program end, and the log-in ends in one of two states. `messages` and
`settings` have no such end: the server lists, and the program starts again.

### Fairness

* Pool: weak fairness for each worker and for each caller inside an operation.
  The operating system schedules threads and tasks end (each has a network
  timeout). Nothing makes an idle thread call an operation. `CallersReturn` is
  claimed only for a pool that is left running. The waiters of `runSingle()` are
  not queued, so another call may overtake; the bound on allocations also bounds
  how often that happens.
* Window: weak fairness for the worker, the delivery of events, the code, and the
  answer to a dialogue. The user need not start anything.
* Messages: weak fairness for the running task, for the timer that synchronises in
  the background (the user has asked for it in the preferences), and for the
  report of an erasure. Failures are bounded, which is the assumption that the
  server can be reached at last.
* Instance: weak fairness for a started process in its constructor and for a guest
  that leaves; strong fairness for the timer of the owner once it has started up,
  which fires again and again while others take and release the lock. The start-up
  may wait for a PIN for ever.
* Log-in: weak fairness for the loops; a dialogue may stay open for ever.
* Command line: weak fairness for the main thread and the worker; nobody else is
  needed.

## 4. What the checks show

What holds is listed in section 3. `ReadyWhenQuiet`, `Bookkeeping`, `ReadersRight`,
`ListArrives`, `ListAgrees` and others are conjunctions whose named parts are
defined beside them. The disagreements below between the code and what its
comments, assertions or messages say were met. The first has a run, which
`PROJECT.json` names with the line it quotes; for each of the others a definition
is given that TLC finds violated when it is put into the configuration of the
component.

* **A list that ends inside its transaction** (`task_download_message_list.cpp:252`,
  run `messages_exit`): after an entry that cannot be converted the files stay in a
  transaction, and what is stored until the next list that names them is lost when
  the program ends.
* **A pointer compared after deletion** (`pool.cpp:242`; `CodeAsserts` with
  `AddressReuse = TRUE`, one worker and one caller). With an allocator that returns
  the address of the task just deleted, the worker takes its own task for the
  single one: the assertion fails, or the caller returns before its task ran.
  Without reuse everything holds.
* **A batch that ends unannounced** (`pool.cpp:171-181`; `EndAnnounced` in
  `WorkerPool`, although `pool.h:165` says "Emitted when all enqueued jobs finished
  and queues are empty."): a task ends silently because another waits, and `clear()`
  removes that one. `DrainAnnounced` shows that it takes this. The window calls
  `clear()` only after `stop()`, when it closes (`datovka.cpp:6839-6841`).
* **A message sent while the window closes** (`datovka.cpp:2434`; `ProgramEnds` in
  `MainWindow`, 1 account, no files, depth 3) is downloaded by a pool that was
  stopped; `main()` waits for ever. `CloseEnds` shows that this is the only way not
  to end.
* **A message told as NOT sent** (`dlg_send_message.cpp:506`; `NotSentIsNot` in
  `DlgSendMessage`) was accepted by the server, but could not be stored
  (`task_send_message.cpp:188`). Who sends again sends it twice; a second attempt
  also goes to those who have been sent theirs.
* **Two instances** (`single_instance.cpp:98`; `OneInstance` in `SingleInstance`)
  when the owner leaves between `create()` and `attach()`.
* **A split that nobody can open** (`task_split_db.cpp:242-264`; `OpensAgain` in
  `DbMaintenance`): a death between the move of the new files and the removal of the
  original, or a removal that fails, leaves files of both organisations, and the next
  start opens neither (`MDS_ERR_MULTIPLE`, `message_db_set.cpp:816`). The user is told
  "Please remove the conflicting files." (`datovka.cpp:3767`) or, by the split,
  "Please, remove the origin database file manually" (`task_split_db.cpp:261`).
  `Mendable` shows that the remedies lose nothing, as long as transactions are
  committed: in every conflict the original is complete, so the new files may be
  removed; and where the split itself asks to remove the original, the new files are
  complete too. After a death during the move they need not be.
* **A split that is not set back** (`task_split_db.cpp:200`; `SetBackOnError` in
  `DbMaintenance`), **origins that are not restored** (`delayed_access_db.cpp:129`;
  `OriginsRestored`), **a commit that is not looked at** (`message_db.cpp:2851`;
  `AllCopied` with the fault `"commit"`).
* **A year drawn that is not selected** (`datovka.cpp:5303`; `TableShowsSelection`
  in `AccountList`): rows are inserted above an index that is used afterwards.
* **An account removed below a synchronisation** (`datovka.cpp:3247`; `NamesFound`
  in `AccountSettings`, 2 accounts, depth 3): the loop goes on to the number of rows
  there were, and its assertion fails. **An account removed while its tasks wait**
  (`datovka.cpp:4827`; `TasksHaveAccounts`): the tasks hold the deleted database
  set.
* **An account refused that is in no list** (`datovka.cpp:6952`; `RefusedWhenListed` in
  `AccountSettings`): a slot, a task or an open dialogue of a message that still has
  the name of a removed account looks it up with `operator[]`
  (`dlg_send_message.cpp:391`, `datovka.cpp:6719`), which leaves an empty entry, and
  the account cannot be added until the program is started again (`orphaned`).
* **A message in two files** (`message_db_set_delegated.cpp:1022`; `NeverTwice` in
  `MessageDbSetQueries`): the import of a message that has no time yet looks into the
  file of its year only (`task_import_zfo.cpp:194-205`), and the erasure of a row
  without a time may fail (`task_download_message.cpp:226`); `msgsMsgId()` asserts that
  neither happens. `OneFile` shows that it takes one of the two, and that the file
  without times is always one of the two files.
* **A message printed that is not stored** (`task_download_message_list.cpp:288`;
  `PrintedAdded` in `CommandLine`): a list does not look at the result of the insertion
  and appends the message to the new ones (line 301); the command line prints it and
  ends with success.

These have neither a run nor a definition, and are visible in the text of a module
or a proof.

* `clear()` wakes nobody (`pool.cpp:181`), so a second thread in `wait()` would
  sleep on; `WakeupsKept` therefore assumes that one thread calls both, as the
  application does. `finished()` is emitted only when the last task was the single
  one, although `pool.h:160` speaks of all jobs; the window relies on
  `assignedFinished()` (`DrainAnnounced`).
* Tasks that wait when the window is closed are removed by `clear()` after the user
  was asked; what they were to store or send is not done (`NothingDropped` is about
  what the pool holds). Messages to the first instance that it has not read when it
  ends go with the segment.
* The timer that reads the messages of later processes starts before the main
  window exists (`main.cpp:254-319`, `datovka.cpp:357`): a message read during the
  start-up is shown by nobody although its sender ended with success.
* "Notify only once." (`datovka.cpp:6755`) sets its flag on a copy
  that has been written back already. A session that is still open makes a log-in
  succeed with any password, which is then stored. A new PIN, and a password changed
  on the server, are not saved before the next save. The removal of quotes from the
  configuration file makes a path with a comma a list, which is read as nothing.
* The tags of an account's messages are removed even when its removal is cancelled
  (`datovka.cpp:4841`). Adding an account enables the synchronisation and import
  actions whatever runs (`datovka.cpp:4226`).
* A failed download is not tried again by a list; an insertion that was cut leaves
  a message that no list shows (`torn`); an import that was queued before an erasure
  brings the message back.
* Sets by years: files that are not open are listed by their names, also when they
  hold no message of the type; a message without a time in such a file is not
  listed; a message of a later year is shown by a single file only.
* Account list: the import of several accounts refreshes the last one only
  (`unasked`); an import of two yearly files of one account reports the second as
  created although it was refused.
* Command line: the success of a sending is that of its last recipient; a message
  that was sent and could not be stored is reported as an error; `getMsg` keeps the
  file it looked up before a download that moves the message, so its attachments
  are not written and its mark is lost; after a list that fails nothing is printed
  of the one before; failed downloads are not reported. A backslash in a value waits
  for the next quote or backslash, and a path cannot hold a quote.

Some properties have an exception, and it is part of their statement.
`ButtonsWhenQuiet` excepts a failed log-in, which writes back a value read before
the event loop was run (`datovka.cpp:3298-3322`), and `ImportWhenQuiet` an import
without a valid file. `AllTold` excepts imports that overlapped (`mixed`).
`DrainAnnounced` excepts a batch cut short by `clear()` (`cleared`).
`NothingForgotten`, `Served`, `Reopenable` and `Mendable` except a change of the
directory that went `astray`: the comments at `Relocated`, `Crash` and `SplitYear`
name the five ways, among them the crash between the move of the files and the saving
of the settings. The exception covers no step of a split but the early return above.
`MarksKept` excepts marks in a transaction that is rolled back, `Visible` and
`ListArrives` `torn` calls, `FileKept` a process that died while the file was
truncated, `ListAgrees` the `orphaned` accounts, `AnswersAgree` messages that are
`undeleted` or `imported` into a second file, `PrintedTold` the `uninserted` messages,
which are printed, `FilesTell` a message that the download moved or whose marking
failed. The hazards in `PROJECT.json` say which of them the exceptions concern.

## 5. Proofs

Each theorem is about every value of the constants that satisfies the assumptions
of its module; TLC evaluates these assumptions on the instances of the runs.

| Theorem | States | Beyond the module's assumptions |
|---|---|---|
| `WorkerPoolProofs!TypeCorrect` | `TypeOK` | |
| `RunningCounted` | `RunningCount` | |
| `WakeupsKept` | `NoLostWakeup` | `OneOwner` |
| `BookkeepingKept` | `Bookkeeping` | `NoReuse` |
| `DrainKept` | `DrainAnnounced` | `NoReuse` |
| `PoolImplementsService` | `ImplementsService` | `NoReuse` |
| `OneWorkerImplementsQueue` | `ImplementsQueue` | `NoReuse`, `OneWorker` |
| `NothingLost` | `NothingDropped` | |
| `WindowReady` | `ReadyWhenQuiet` | |
| `AllReported` | `AllTold` | |
| `SegmentKept`, `MessagesOnce` | `OwnersSegment`, `AcceptedOnce` | |
| `SmsMeant`, `ResentByNobody` | `SmsAcknowledged`, `NothingResent` | |
| `ListKept`, `PasswordsKept` | `ListAgrees`, `FileKept` | |
| `ErasureKept`, `MarkKept`, `VisibleAlways` | `ErasedStaysErased`, `MarksKept`, `Visible` | |
| `ContentKept`, `ReportedTrue` | `ContentOnlyErased`, `ReportsTrue` | |
| `ListsSettle` | `ListSettles`, the part of `ListArrives` without fairness | |
| `AllKept`, `AllServed` | `NothingForgotten`, `Served` | `CommitsHold` |
| `AllRecoverable` | `Recoverable` | |
| `AllPrinted`, `AllWritten` | `PrintedTold`, `FilesTell` | |

`SingleInstanceProofs`, `IsdsLoginProofs`, `AccountSettingsProofs`, `MainWindowProofs`,
`MessageTasksProofs` and `DbMaintenanceProofs` have a theorem `TypeCorrect` of their own.

Assumptions on constants, and why the code justifies them.

* `PoolAssumption`: finitely many workers, callers are not workers, owners are
  callers. `OneOwner`: the main thread alone calls `wait()` and `clear()`.
  `OneWorker`: `initialisation.cpp` creates the pool with one thread.
* `NoReuse`: `new` does not return the address of a task that a worker has deleted
  and whose pointer it still compares (`pool.cpp:242`). The code does not ensure
  it; it is the exact condition, since without it TLC shows the assertion of the
  pool to fail (section 4).
* `RecipientsAssumption`: finitely many recipients, and names that tell the
  dialogues apart, as the random numbers of transactions do. `ItemsAssumption`:
  the tasks of an import, of the dialogues and of the window are different, and
  none of them is an event. `Recipients` is a function on positive numbers, since
  0 in a frame is no dialogue.
* `TasksAssumption`: finitely many messages; the items of the pool are exactly the
  tasks of the program, and "none" is not one of them, nor a message, a key or a
  result. The settings are any that the program has.
* `StorageAssumption`, `MaintenanceAssumption`: the name of the single file is not a
  year, every message has a year; the bound on operations is a number.
  `CommitsHold`: the transaction that copies the messages of a year is committed,
  `"commit"` is not among `Faults`. The code does not ensure it:
  `copyRelevantMsgsToNewDb()` ignores the result of the commit
  (`message_db.cpp:2851`) and says that it succeeded. A split then deletes the
  original, and what was not committed is left in the backup only; with the fault
  TLC finds messages missing from the new files. The runs exclude the fault, and
  `AllRecoverable` holds with it.
* `CommandLineAssumption`: finitely many messages; requests have what
  `checkMandatoryAttributes()` insists on, and may name a recipient twice, which
  nothing forbids; the tasks are items of the pool and "none" is neither a task nor a
  request.
* `InstanceAssumption`, `SettingsAssumption`: the special values are not among
  processes, users, passwords or PINs; bounds are numbers.

### The pool

* `TypeCorrect`: `TypeOK` is inductive as it stands, because `ThreadsOK` ties the
  local pointer of a thread to its position: without that, the task a worker
  completes need not be an address. One step per operation, after `NextIsStep` has
  put the next-state relation into a list of operations by threads.
* `RunningCounted`: `m_running = Cardinality(Executing)`. Inductive together with
  the types. `SameExecuting` covers all actions that neither take nor complete;
  the others add or remove one element of a finite set.
* `WakeupsKept`: no sleeper without a reason, when there is one owner. The
  inductive invariant is `SleepersOK`, which adds that only owners are in `wait()`,
  and `RunningCount`: `Complete` may only be followed by sleepers whose condition is
  false, and `Clear` may leave `Busy` true for a sleeper only because that sleeper
  would be the thread that called it. `SleepOn` reduces each action that wakes
  nobody to the members of the pool that the conditions read.
* `BookkeepingKept`: what the assertions of `run()` compare are pointers, so the
  invariant, `Ownership`, says whose each address is: in one queue at most once and
  the pool's to delete, in the hand of one caller who keeps it, or in the hand of
  one worker; and which of `PENDING`, `EXECUTING` and `FINISHED` goes with which
  hand. None of its five parts is inductive without the others: the state of the
  slot, for one, stays right only while no two workers have the same task.
* `DrainKept`: from `Ownership`, which makes "the pool has become empty" and "some
  worker is between its task and the mutex" exclusive; `clear()` is the one operation
  that can make the first true while something is unannounced, and it is what
  `cleared` records.
* `PoolImplementsService`: `StatusOf` and what callers wait for are computed from
  queues, slot and hands; under `Ownership` an address has one status, and each
  action changes the status of the tasks it names only. `clear()` is one step of
  the service for all the tasks it drops.
* `OneWorkerImplementsQueue`: with one worker the position of the worker says what
  `current` is, and each region of the loop is one action of `PoolQueue` or none.

### The window

`WindowInv` is inductive: the types, which tasks each place of the pool may hold,
`StackOK` (where each slot may be, and that a slot is entered only from an event
loop, under a dialogue only by the timer and by reports), `MainInv` (no slot is
left when `main()` goes on) and `FormsInv` (a slot that is about a dialogue finds
it as it left it). It is needed because every continuation of a slot reads what it
left before the event loop: without `Nested` and `FrameFits` a box that asks for
another attempt could be about a dialogue that is sending.

* `NothingLost` follows from `MainInv`: `main()` passes `wait()` only when the pool
  is idle and no slot is left that could assign; after it nothing assigns. It says that
  the pool holds nothing at the end, not that everything was executed: `clear()` drops.
* `WindowReady`: `ReadyInv` says who will put things right. Timer, buttons and
  import are each as they should be, or a batch is on that ends in
  `backgroundWorkersFinished()`, or the slot that stopped them is on the stack and
  has not yet found that there is no batch. The two exceptions of the statement
  (`restored`, `fruitless`) are where the code does not.
* `AllReported`: a task that is reported is in one place at most (a queue, the
  worker, an event), and moves from one to the next; only closing drops it
  (`StepKeeps`). On this `ImportInv` counts a file as awaited or reported,
  as long as imports do not overlap, and `SendInv` says of each dialogue that it
  waits exactly for its own tasks that are somewhere, that its counters are those
  of the reports, and of each task that what is not executed is not sent and what
  is reported as sent is sent once. What is reported as not sent may have been
  accepted by the server (`NotSentIsNot`), and the theorem does not deny it. Since every dialogue hears every report, the
  step that collects one is proved for the dialogue that waits for it and for all
  the others.

### Instances, log-in, settings

* `SegmentKept`: the semaphore is held by the process in its constructor
  (`SemaphoreGuards`), and whoever is inside is attached (`SegmentUsed`); hence no
  clean-up removes a segment in use, and who creates one finds none.
  `MessagesOnce` is inductive with the types: what was written is what was
  delivered followed by what is in the memory.
* `SmsMeant`, `ResentByNobody`: an empty code is an agreement, one with characters
  is to be submitted. `LoginInv` ties both to the dialogue they came from
  (`CallsAreMeant`), and says that an empty one lives only from the consent to the
  call that requests the SMS (`EmptyIsAgreement`): otherwise a change of the method
  in the account dialogue could make HOTP submit it.
* `ListKept`: `MemoryInv` is about the stack of slots: the copy that a slot writes
  back has settings, its account is in the list or was removed under it, and a
  removal is entered only when no modal dialogue is open below; and the accounts that
  tasks and open dialogues of messages are about are in the list or `orphaned`.
* `PasswordsKept`: `FileInv` is about the file between its two writings: it is the
  new content or truncated, and what is to be written represents what the save was
  to keep.

### The life of a message

`IInv` of `MessageTasksProofs` is inductive. Its parts, and what each is for:

* `QueuesFit`, `CurrentFits`, `SendsOnce`: what waits in the pool. A task is about
  messages and the files of the current organisation; at most one message waits to
  be sent and the server does not have it; a message whose erasure waits is not
  marked, because the main thread waits in `runSingle()`.
* `CallFits`, `ProgFits`: what the running task has still to do. Each statement is
  of a kind its task may execute, on its message and in one of its files; an
  envelope is inserted just before its supplementary data, and a call that ends with
  the deletion of an envelope does nothing but delete. The calls of `MessageDb` are
  shown to be such (`InsertFits`, `UpdateFits`, `PutFits`), and executing the head of
  a call leaves such a rest.
* `Phase`: how far the running task is and what it then knows, one case for each
  kind of task: after `erasedIsds` the server has no such message, after `created`
  the server has the message that was sent.
* `ServerFits`, `Connected`, `AtHome`: a received message has a delivery time; the
  connections and the disk differ only in the files that a list has opened a
  transaction in; the content of a message and the envelope of a received one are in
  the file of the messages with a delivery time and nowhere else.
* `MarksBoth`, `ErasedGone`, `VisibleBoth`: the three properties for the connections
  *and* the disk. A property of what is shown now is not inductive alone: a crash
  makes the disk the state, and a commit makes the state the disk.

`ErasureKept` needs of them that no statement waits that inserts an erased message:
the server does not have it any more (`ErasedGone`), and what a list or a download
stores the server still had when the task asked (`EntryFits`, `DownloadPhase`); an
import says that the message is not counted as erased any more.
`MarkKept` needs that an update of an envelope leaves the supplementary data, and that
nothing but an erasure deletes rows in the file of the messages with a delivery time,
where the marks are: a list deletes in the file "invalid" only. `VisibleAlways` needs the order of the statements of a call. `ContentKept`
and `ReportedTrue` are about steps: the first from the verbs a task may execute on
"raw", the second from `Phase`. Whatever is assigned, fails or crashes between the
statements is one of the steps, so the theorems hold for every number of failures and
actions (`MaxFaults`, `MaxOps` are any numbers).

The proof of `ReportedTrue` has corrected its property: `EraseReported` spoke of every
step from a state in which an erasure is about to end, also those of the user and of
the server, which report nothing; now it speaks of the step that leaves nothing to do.

`ListsSettle` needs a second invariant on top of `IInv`, `ListRight`, about a list
that has its answer and with nothing failed since (`Lists`). `TodoRight`: the entries
to come are about different messages, none of them handed out before, and the server
is never behind them, so that a state that is stored is as old as the entry or newer.
Then one of three holds, from one entry to the next:

* `Looking`: the entries before this one are `Settled` (stored, and gone from the file
  of the messages without a delivery time), this one is still to be looked up, after
  the deletion of its undated row and the opening of its transaction;
* `Storing`: the next statement stores the entry (`ComesNext`) or it is stored, and
  all that follows is `Harmless`: neither takes it back nor makes it older;
* `Committing`: every entry is settled, and its file is committed already or is one of
  the `used` ones, which are committed now; so the disk has it too.

A transaction left open by an earlier list is the case that makes the `used` files
part of the invariant: an entry in a file that is open and not committed at the end
would be shown and then lost.

The proofs have corrected the model in four definitions, where two arms of a CASE
applied to the same state, so that the value was left open (`collected` of
`DlgSendMessage`, `Supplied` of `IsdsLogin`, `Set` of `CmdOptions`, and mutants of
them); TLC takes the first arm, which is what the code does, and now the text says
so.

### The maintenance of databases

The inductive invariant, `IInv`, has a part for each phase of a split beside what
holds between the operations.

* An operation of `MessageDbSet` has many outcomes: how far it came, which file
  failed, where the program died. The proofs do not go through them but through what
  `Transferred` says of any of them: files of other keys and other directories stay
  as they were; a copy leaves the origins alone however it ends; after a failure the
  directory of the set is as it was, no copy is left and each connection is on its
  own file, unless it is one that `copyDb()` could not restore; after a success the
  new directory has every file. `AtHome` is what the operations need for it: each
  connection on its own file in the directory of the set. One lemma for each action follows from these.
* `UsedThere` is `Served` and `Reopenable` in the phases in which the database is
  used. It is not inductive alone: a split is on its way for several steps, each
  of which may die or fail and go back.
* `Copying`: while years are copied, the set is on the copy and the original is
  untouched, so that a failure may go back to it; with the years yet to copy
  disjoint from those that have a file. Without the last conjunct the invariant is
  not inductive: a year that is copied again would replace what its file has. TLC
  does not reach such a state; the proof needs to be told why.
* `PartsThere`, `OnOriginal`, `Moving`: the new files have what the original has
  before the set returns to it and while the files come beside it.
  `Deleting`: only when the files of the years are all there does the original go;
  so a death before or after the removal leaves either.
  `Opening`: the original is gone and the next start finds a yearly database.
* `Beside`, inductive with `IInv`: where files of both organisations are left, the
  original has all messages, and while the program that could not remove it still runs
  the new files have them too. The original is complete until it is removed
  (`Removing`), and what comes beside it are copies.
* `BackupThere`: the copy the split was made from stays to the end, which is
  `Backup` and needs no commit.
* `SingleThere`: a change of the directory may leave a set in another directory than
  the settings name (`astray`); a split started then must still not lose what the
  file in use has.
* `CommitsHold => ...` in the parts marks what depends on the commit; everything
  else holds with the fault.

### The command line

`IInv` of `CommandLineProofs` is inductive. `Stages` says which part of the code a
request can be in, `PoolKept` which tasks the pool has then: downloads in the lower
queue, a list or a message in the slot, nothing when the main thread has gone on.

* `AllPrinted`: `Lists` relates what has come into the files (`Changed`) or could not
  be inserted (`uninserted`) to what is printed: it is `new`, and, from the moment the task of a list has run to the return
  of `runSingle()`, what its result adds; and each was tried or waits. For the first
  part downloads must not change `Changed`, although they run beside the lists and may
  store a message in another file. They do not, because of `Settled`: a message whose
  download waits is already in the file of its delivery time, which the list has seen
  to. `Sends` says that the recipients that remain are the last ones asked for, that
  the messages sent can be mapped, in their order, to the mentions before those, and
  that what was stored is what is printed and what the slot has to return. The map is
  extended by one mention with each task, whether the server accepts or not.
  The property had relied on recipients that are all different, which the code does
  not check; it is about mentions now, and about the identifiers that are printed.
* `AllWritten`: `Gets`, which remembers the file looked up before the download; after
  it the message is in that file, or has been moved, and then the ZFO file fails.

### Only model-checked

Liveness (`CallsReturn`, `CloseEnds`, `NobodyBlocked`, `CLIEnds`, `ListArrives`,
`CommandEnds`): the prover has no rule for fairness and `ENABLED`. What is built
with folds over sequences (`CmdOptions`, `MessageDbSetQueries`: `ReadersRight`,
`ComposeSurvives`, `NothingMissed`, `AnswersAgree`, `MarkTold`) needs induction over
data; so do `TreeSound`, `CountsShown` and `ImplementsTree`, since `updateYearNodes()`
and `updateExistingAccountModelUnread()` are folds over the years.
Of `ListArrives` this concerns `ListedAppears`; its other part is proved.

## 6. Plan

Done: (1) the pool, its abstractions, its proofs; (2) the window composed with
the pool, with imports, sending dialogues and closing, and its proofs; (3) the
single instance, (4) the log-in, and their proofs; (5) the database sets and their
maintenance, with proofs; (6) the life of a message; (7) the questions to sets; (8) the account
list and its abstraction; (9) the settings and their proofs; (10) the command line, with proofs.

Next: the sessions and their timeouts; the tasks and the database sets they point to.

## 7. Not modelled

* Sessions: the timeout that the main thread changes under a worker
  (`isds_sessions.cpp:188`) needs the time a transfer takes.
* Of the tasks: the import of messages from another database, vacuum, records
  management, keep-alive and those that only ask the server; one statement or one
  request each. Of the databases: HTML and PDF descriptions, certificates, the
  account and tag databases; they read or write a row.
* Of the settings: preferences, proxies, certificates, encryption itself.
* Dialogues, views, logging, exports, HTTP and JSON of records management, CMS and
  the conversion of types between libisds and the program, which together are most
  of the lines of the repository: sequential code without shared state. Its faults
  are found by reading and by unit tests, not by interleaving.

## 8. Running

    tlc -workers 2 -config MCWorkerPool.cfg MCWorkerPool
    tlapm WorkerPoolProofs.tla

and likewise for every run in `PROJECT.json`, which names its module and its
configuration, and for every module whose name ends with `Proofs`. A proof of an
extending module uses the theorems of the modules it extends and does not prove
them again. `MainWindowProofs` and
`DbMaintenanceProofs` take a few minutes each, `MessageTasksProofs` about ten.
