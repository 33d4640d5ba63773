--------------------------- MODULE DbMaintenance ---------------------------
(***************************************************************************)
(* What happens to the message database of one account while the program   *)
(* runs: messages are stored in it, it is split by years (the task of      *)
(* src/worker/task_split_db.cpp), its data directory is changed            *)
(* (src/gui/dlg_change_directory.cpp), the settings that name the          *)
(* directory are saved, and the program may die at any time and is started *)
(* again.  The split runs alone (WorkerPool::runSingle(), called in the    *)
(* GUI thread), so nothing else uses the database meanwhile; a task that   *)
(* uses it while the GUI changes the directory is not modelled.            *)
(***************************************************************************)
EXTENDS MessageDbSet, Naturals

CONSTANTS
  None,       \* no database set
  StartOrg,   \* how the database is organised at first
  MaxOps      \* bound: splits and changes of the directory

ASSUME MaintenanceAssumption ==
  /\ StartOrg \in {"SINGLE_FILE", "YEARLY"}
  /\ MaxOps \in Nat
  /\ None \notin DbSets

VARIABLES
  fs,         \* the files
  dbSet,      \* the database set of the account
  settings,   \* the data directory in the settings of the account
  saved,      \* and in the settings file
  phase,      \* where the maintenance stands
  newDbDir,   \* the directory a split works in
  yearList,   \* the years it has yet to copy
  dstDbSet,   \* the yearly set it builds
  result,     \* of the last split
  ops,        \* splits and changes of the directory so far
  stored,     \* history: the messages the account's database has taken
  original,   \* history: those it had when the last split began
  astray      \* history: a change of the directory left the files where the
              \* next start cannot use them (see Relocated and Crash)

split == <<newDbDir, yearList, dstDbSet, result, original>>
vars == <<fs, dbSet, settings, saved, phase, split, ops, stored, astray>>

Phases == {"idle", "years", "move", "delete", "open", "unsaved", "down"}

TypeOK ==
  /\ FilesOK(fs)
  /\ dbSet = None \/ SetOK(dbSet)
  /\ settings \in Dirs /\ saved \in Dirs
  /\ phase \in Phases
  /\ newDbDir \in Dirs \cup {None}
  /\ yearList \subseteq Years
  /\ dstDbSet = None \/ SetOK(dstDbSet)
  /\ result \in {"none", "ok", "failed", "moved away"}
  /\ ops \in 0 .. MaxOps
  /\ stored \subseteq Messages /\ original \subseteq Messages
  /\ astray \in BOOLEAN

\* A database with one message for each of some years.
Init ==
  /\ \E dir \in Dirs, ms \in SUBSET Messages :
       /\ settings = dir /\ saved = dir
       /\ stored = ms
       /\ fs = IF StartOrg = "SINGLE_FILE"
               THEN [p \in {<<dir, Single>>} |-> ms]
               ELSE [p \in {<<dir, YearOf[m]>> : m \in ms} |->
                       {m \in ms : YearOf[m] = p[2]}]
       /\ DOMAIN fs # {}
       /\ dbSet = Loaded(fs, dir)
  /\ phase = "idle"
  /\ newDbDir = None /\ yearList = {} /\ dstDbSet = None /\ result = "none"
  /\ original = {}
  /\ ops = 0
  /\ astray = FALSE

-----------------------------------------------------------------------------

\* The program is dead, with files left behind, and forgets all but them.
Die(files) ==
  /\ fs' = files
  /\ dbSet' = None
  /\ phase' = "down"
  /\ newDbDir' = None /\ yearList' = {} /\ dstDbSet' = None /\ result' = "none"
  /\ UNCHANGED <<settings, saved, original, stored>>

\* A task stores a downloaded message, in the file of its year or the only one.
Store(m) ==
  /\ phase \in {"idle", "unsaved"} /\ dbSet # None
  /\ m \notin stored
  /\ dbSet.org # "UNKNOWN"
  /\ \E o \in accessMessageDb(fs, dbSet, secondaryKey(dbSet, m)) :
       LET k == secondaryKey(dbSet, m)
           db == Accessed(o.set.open[k])
           files == Touch(o.fs, db.base)
       IN /\ o.res = "ok"
          /\ dbSet' = [o.set EXCEPT !.open[k] = db]
          /\ fs' = IF db.state = "open"
                   THEN Put(files, db.base, files[db.base] \cup {m}) ELSE o.fs
          /\ stored' = stored \cup {m}
  /\ UNCHANGED <<settings, saved, phase, split, ops, astray>>

-----------------------------------------------------------------------------
(* TaskSplitDb::splitMsgDbByYears() *)

\* The end of the task; the temporary container goes with it.
EndSplit(res) ==
  /\ phase' = "idle"
  /\ result' = res
  /\ dstDbSet' = None /\ yearList' = {}

\* MUTANT of SetBackOriginDb: the set stays in the new directory.
SetBackNothing(files) ==
  /\ fs' = files
  /\ dbSet' = dbSet
  /\ EndSplit("failed")

SetBackOriginDb(files) ==
  /\ fs' = files
  /\ dbSet' = openLocation(files, dbSet, settings, dbSet.org).set
  /\ EndSplit("failed")

\* A yearly database is not split; the directory must be another one.
SplitCopy(dir) ==
  /\ phase = "idle" /\ ops < MaxOps
  /\ dbSet # None /\ dir # settings
  /\ dbSet.org = "SINGLE_FILE"
  /\ ops' = ops + 1
  /\ \E o \in Transfer(fs, dbSet, dir, FALSE) :
       CASE o.res = "crash" -> Die(o.fs) /\ UNCHANGED astray
         [] OTHER ->
              /\ fs' = o.fs /\ dbSet' = o.set
              /\ newDbDir' = dir
              /\ original' = OnDisk(o.fs, settings)
              /\ IF o.res = "ok"
                 THEN /\ phase' = "years" /\ result' = "none"
                      /\ dstDbSet' = NewSet(dir, "YEARLY")
                      /\ yearList' = {YearOf[m] : m \in o.fs[<<dir, Single>>]}
                 ELSE EndSplit("failed")
              /\ UNCHANGED <<settings, saved, stored, astray>>

\* MUTANT of CopyRelevantMsgs: the messages are moved to the new file, not copied.
CopyRelevantMsgsMoves(files, y) ==
  LET p == <<newDbDir, y>>
      relevant == {m \in files[<<newDbDir, Single>>] : YearOf[m] = y}
  IN {Outcome("ok", Put(Put(files, p, files[p] \cup relevant), <<newDbDir, Single>>,
                          files[<<newDbDir, Single>>] \ relevant), None)}
     \cup (IF "insert" \in Faults THEN {Outcome("fail", files, None)} ELSE {})
     \cup (IF "commit" \in Faults THEN {Outcome("ok", files, None)} ELSE {})

\* What copyRelevantMsgsToNewDb() makes of the file; a failed commit is not
\* noticed.
CopyRelevantMsgs(files, y) ==
  LET p == <<newDbDir, y>>
      relevant == {m \in files[<<newDbDir, Single>>] : YearOf[m] = y}
  IN {Outcome("ok", Put(files, p, files[p] \cup relevant), None)}
     \cup (IF "insert" \in Faults THEN {Outcome("fail", files, None)} ELSE {})
     \cup (IF "commit" \in Faults THEN {Outcome("ok", files, None)} ELSE {})

SplitYear(y) ==
  LET p == <<newDbDir, y>> IN
  /\ phase = "years" /\ y \in yearList
  /\ \/ /\ UNCHANGED astray
        /\ \E o \in accessMessageDb(Erase(fs, {p}), dstDbSet, y) :
             \/ o.res = "fail" /\ SetBackOriginDb(o.fs)
             \/ /\ o.res = "ok"
                /\ \E c \in CopyRelevantMsgs(o.fs, y) :
                     \/ c.res = "fail" /\ SetBackOriginDb(c.fs)
                     \/ /\ c.res = "ok"
                        /\ fs' = c.fs
                        /\ dstDbSet' = o.set
                        /\ yearList' = yearList \ {y}
                        /\ UNCHANGED <<dbSet, phase, result>>
     \/ \* "Existing file could not be deleted.": the set stays in the new
        \* directory, where the next start does not look (see SetBackOnError).
        /\ "erase" \in Faults /\ p \in DOMAIN fs
        /\ EndSplit("failed")
        /\ astray' = TRUE
        /\ UNCHANGED <<fs, dbSet>>
  /\ UNCHANGED <<settings, saved, newDbDir, ops, stored, original>>

\* MUTANT of SplitSetBack: the original is deleted before the new files are moved.
SplitDeleteFirst ==
  /\ phase = "years" /\ yearList = {}
  /\ LET o == openLocation(fs, dbSet, settings, dbSet.org) IN
       /\ dbSet' = o.set
       /\ IF o.res = "ok"
          THEN phase' = "delete" /\ UNCHANGED <<result, dstDbSet, yearList>>
          ELSE EndSplit("moved away")
  /\ UNCHANGED <<fs, settings, saved, newDbDir, ops, stored, original, astray>>

\* The original is opened again before the new files come beside it.
SplitSetBack ==
  /\ phase = "years" /\ yearList = {}
  /\ LET o == openLocation(fs, dbSet, settings, dbSet.org) IN
       /\ dbSet' = o.set
       /\ IF o.res = "ok"
          THEN phase' = "move" /\ UNCHANGED <<result, dstDbSet, yearList>>
          ELSE EndSplit("moved away")
  /\ UNCHANGED <<fs, settings, saved, newDbDir, ops, stored, original, astray>>

\* MUTANT of SplitMove: the original is not deleted afterwards.
SplitMoveNoDelete ==
  /\ phase = "move"
  /\ \E o \in Transfer(fs, dstDbSet, settings, TRUE) :
       CASE o.res = "crash" -> Die(o.fs)
         [] OTHER ->
              /\ fs' = o.fs
              /\ IF o.res = "ok"
                 THEN phase' = "open" /\ dstDbSet' = o.set /\ UNCHANGED <<result, yearList>>
                 ELSE EndSplit("failed")
              /\ UNCHANGED <<dbSet, settings, saved, newDbDir, original, stored>>
  /\ UNCHANGED <<ops, astray>>

SplitMove ==
  /\ phase = "move"
  /\ \E o \in Transfer(fs, dstDbSet, settings, TRUE) :
       CASE o.res = "crash" -> Die(o.fs)
         [] OTHER ->
              /\ fs' = o.fs
              /\ IF o.res = "ok"
                 THEN phase' = "delete" /\ dstDbSet' = o.set /\ UNCHANGED <<result, yearList>>
                 ELSE EndSplit("failed")
              /\ UNCHANGED <<dbSet, settings, saved, newDbDir, original, stored>>
  /\ UNCHANGED <<ops, astray>>

SplitDelete ==
  /\ phase = "delete"
  /\ \E o \in deleteLocation(fs, dbSet) :
       CASE o.res = "crash" -> Die(o.fs)
         [] OTHER ->
              /\ fs' = o.fs /\ dbSet' = o.set
              /\ IF o.res = "ok"
                 THEN phase' = "open" /\ UNCHANGED <<result, dstDbSet, yearList>>
                 ELSE EndSplit("failed")
              /\ UNCHANGED <<settings, saved, newDbDir, original, stored>>
  /\ UNCHANGED <<ops, astray>>

SplitOpen ==
  /\ phase = "open"
  /\ LET o == openLocation(fs, dbSet, settings, dbSet.org) IN
       /\ dbSet' = o.set
       /\ EndSplit(IF o.res = "ok" THEN "ok" ELSE "failed")
  /\ UNCHANGED <<fs, settings, saved, newDbDir, ops, stored, original, astray>>

-----------------------------------------------------------------------------
(* DlgChangeDirectory::relocateDatabase() *)

\* The settings are changed when the operation succeeds and saved after the
\* user has closed the notice.  The files go astray when the operation dies after
\* it has begun to remove the origins; when it puts them beside files of the other
\* organisation, which it does not look for; when it gives up after a copy,
\* because the connection stays on the copy that is deleted (see OriginsRestored);
\* and when a new database cannot be created, since the set has left by then.
Relocated(dir, o, content) ==
  CASE o.res = "crash" -> Die(o.fs) /\ astray' = (astray \/ ~(stored \subseteq OnDisk(o.fs, saved)))
    [] OTHER ->
         /\ fs' = o.fs /\ dbSet' = o.set
         /\ IF o.res = "ok"
            THEN /\ phase' = "unsaved" /\ settings' = dir /\ stored' = content
                 /\ astray' = (astray \/ dbOrganisation(o.fs, dir) = "UNKNOWN")
            ELSE /\ astray' = (astray \/ o.set.dir # settings
                                 \/ \E k \in DOMAIN o.set.open :
                                      o.set.open[k].state = "unlinked")
                 /\ UNCHANGED <<phase, settings, stored>>
         /\ result' = "none"
         /\ UNCHANGED <<saved, newDbDir, yearList, dstDbSet, original>>

Relocate(dir, outcomes, content) ==
  /\ phase = "idle" /\ ops < MaxOps
  /\ dbSet # None /\ dir # settings
  /\ ops' = ops + 1
  /\ \E o \in outcomes : Relocated(dir, o, content)

MoveData(dir) == dbSet # None /\ Relocate(dir, Transfer(fs, dbSet, dir, TRUE), stored)
CopyData(dir) == dbSet # None /\ Relocate(dir, Transfer(fs, dbSet, dir, FALSE), stored)

\* A new database has no messages.
NewData(dir) == dbSet # None /\ Relocate(dir, reopenLocation(fs, dbSet, dir), {})

SaveSettings ==
  /\ phase = "unsaved"
  /\ phase' = "idle"
  /\ saved' = settings
  /\ UNCHANGED <<fs, dbSet, settings, split, ops, stored, astray>>

-----------------------------------------------------------------------------

Crash ==
  /\ "crash" \in Faults
  /\ phase # "down"
  /\ Die(fs)
  /\ astray' = (astray \/ (phase = "unsaved" /\ ~(stored \subseteq OnDisk(fs, saved))))
  /\ UNCHANGED ops

\* The next start; without a database set the account cannot be used.
Restart ==
  /\ phase = "down"
  /\ phase' = "idle"
  /\ settings' = saved
  /\ \E o \in accessDbSet(fs, saved) :
       /\ fs' = o.fs
       /\ dbSet' = IF o.res = "ok" THEN o.set ELSE None
  /\ UNCHANGED <<saved, split, ops, stored, astray>>

Split == \/ \E dir \in Dirs : SplitCopy(dir)
         \/ \E y \in Years : SplitYear(y)
         \/ SplitSetBack \/ SplitMove \/ SplitDelete \/ SplitOpen

ChangeDirectory == \E dir \in Dirs : MoveData(dir) \/ CopyData(dir) \/ NewData(dir)

Next == \/ \E m \in Messages : Store(m)
        \/ Split \/ ChangeDirectory \/ SaveSettings
        \/ Crash \/ Restart

Spec == Init /\ [][Next]_vars

-----------------------------------------------------------------------------

\* The directory the next start or the running program will look in.
Home == IF phase = "unsaved" THEN settings ELSE saved

\* No message is forgotten: at every moment of a split or a change of the
\* directory, when any step fails and after the program has died anywhere, what
\* the account has ever stored is complete in the directory its settings name.
\* The exception is a change of the directory that leads astray.
NothingForgotten == astray \/ stored \subseteq OnDisk(fs, Home)

\* Whenever the database can be used, it shows all messages, and all of its
\* connections are to files in the account's directory: none was left in the
\* directory of a copy that was given up, or on a file that has been removed.
Served ==
  phase = "idle" /\ dbSet # None /\ ~astray =>
    dbSet.org = "UNKNOWN" \/
      /\ \A k \in DOMAIN dbSet.open :
           LET db == Accessed(dbSet.open[k]) IN
           db.state = "open" /\ db.base = db.name /\ db.base[1] = Home
      /\ stored \subseteq UNION {fs[dbSet.open[k].name] : k \in DOMAIN dbSet.open}

\* A failed split or change leaves nothing beside a usable database that the next
\* start would stumble over: it finds the organisation that is in use.
Reopenable ==
  phase = "idle" /\ dbSet # None /\ ~astray /\ dbSet.org # "UNKNOWN" =>
    dbOrganisation(fs, Home) = dbSet.org

\* After a successful split the original is where the user is told: "Original
\* database file was backed up to:".
Backup ==
  result = "ok" => /\ <<newDbDir, Single>> \in DOMAIN fs
                   /\ original \subseteq fs[<<newDbDir, Single>>]

\* Files of both organisations lie in the directory.
Conflicting(dir) == Single \in KeysIn(fs, dir) /\ KeysIn(fs, dir) # {Single}

\* The transactions that copy messages to a new file are committed.
CommitsHold == "commit" \notin Faults

\* A split that dies beside its original, or cannot remove it, leaves files of both
\* organisations, and the next start opens neither (see OpensAgain).  What the user
\* is told then is safe: "Please remove the conflicting files." leaves everything in
\* the original once the new files are gone, and "Please, remove the origin database
\* file manually" leaves everything in the new files once the original is gone.
Mendable ==
  CommitsHold /\ phase \in {"idle", "down"} /\ ~astray /\ Conflicting(Home) =>
    /\ stored \subseteq fs[<<Home, Single>>]
    /\ dbSet # None =>
         stored \subseteq UNION {fs[<<Home, y>>] : y \in KeysIn(fs, Home) \ {Single}}

\* What a user or the next start goes back to is there: the organisation in use, a
\* complete one of two that are in each other's way, and the original of a split.
Recoverable == Reopenable /\ Mendable /\ Backup

\* The next start can open what it finds; it cannot where Mendable speaks.
OpensAgain == [][Restart /\ ~astray /\ KeysIn(fs, saved) # {} => dbSet' # None]_vars

\* Doc of setBackOriginDb(): "Set back original database path if error during
\* database splitting."
SetBackOnError == result = "failed" => dbSet.dir = settings

\* Doc of copyRelevantMsgsToNewDb(): "Copy all messages correspond with year and
\* their records from tables into new db. @return Return success or fail."
AllCopied ==
  phase = "move" =>
    original \subseteq UNION {fs[dstDbSet.open[y].name] : y \in DOMAIN dstDbSet.open}

\* Comment in copyToLocation() and moveToLocation(): "Restore origins."
OriginsRestored ==
  phase = "idle" /\ dbSet # None =>
    \A k \in DOMAIN dbSet.open : dbSet.open[k].base = dbSet.open[k].name
=============================================================================
