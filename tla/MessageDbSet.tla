---------------------------- MODULE MessageDbSet ----------------------------
(***************************************************************************)
(* The message database of an account (src/io/message_db_set.cpp): a set   *)
(* of SQLite files in one directory, either a single file or a file for    *)
(* each year of delivery, and the operations that copy, move, delete and   *)
(* re-open the whole set.                                                  *)
(*                                                                         *)
(* An operation maps the files and a set to the set of its outcomes, each  *)
(* with what the call returns and what it leaves behind.  "crash" outcomes *)
(* are the files as they are when the program dies between two accesses to *)
(* the file system; a single copy, removal or SQLite transaction is atomic *)
(* and an existing database file can be opened.                            *)
(***************************************************************************)
CONSTANTS
  Dirs,       \* directories
  Years,      \* years of delivery, the secondary keys of a yearly set
  Single,     \* the secondary key of a single file
  Messages,
  YearOf,     \* the year each message was delivered in
  Faults      \* the kinds of failure that may happen

FaultKinds == {"copy",     \* a file cannot be copied
               "create",   \* a database file cannot be created
               "insert",   \* messages cannot be inserted into a new database
               "commit",   \* the transaction that inserts them cannot be committed
               "erase",    \* a file in the way of a new database cannot be removed
               "delete",   \* a file of a deleted set cannot be removed
               "crash"}    \* the program dies

ASSUME StorageAssumption ==
  /\ Single \notin Years
  /\ YearOf \in [Messages -> Years]
  /\ Faults \subseteq FaultKinds

Keys == Years \cup {Single}
Paths == Dirs \X Keys

-----------------------------------------------------------------------------
(* The file system: the messages stored completely in each existing file.   *)

Put(fs, p, content) ==
  [q \in DOMAIN fs \cup {p} |-> IF q = p THEN content ELSE fs[q]]

Erase(fs, paths) == [q \in DOMAIN fs \ paths |-> fs[q]]

\* Opening a file for a database creates it, empty, when it is missing.
Touch(fs, p) == IF p \in DOMAIN fs THEN fs ELSE Put(fs, p, {})

KeysIn(fs, dir) == {k \in Keys : <<dir, k>> \in DOMAIN fs}
OnDisk(fs, dir) == UNION {fs[<<dir, k>>] : k \in KeysIn(fs, dir)}

FilesOK(fs) ==
  /\ DOMAIN fs \subseteq Paths
  /\ \A p \in DOMAIN fs : fs[p] \subseteq Messages

\* Files of both organisations in a directory are ambiguous.
dbOrganisation(fs, dir) ==
  LET found == KeysIn(fs, dir) IN
  IF found = {Single} THEN "SINGLE_FILE"
  ELSE IF found # {} /\ Single \notin found THEN "YEARLY"
  ELSE "UNKNOWN"

-----------------------------------------------------------------------------
(* A database of a set: name is the file it is said to use (m_fileName), base  *)
(* the one its connection is or was last opened on (databaseName()), which may *)
(* have been removed since.                                                    *)

Handles == [name : Paths, base : Paths, state : {"closed", "open", "unlinked"}]

Opened(p) == [name |-> p, base |-> p, state |-> "open"]

\* DelayedAccessSQLiteDb::openDb() of a new database only takes the name ...
Delayed(p) == [name |-> p, base |-> p, state |-> "closed"]

\* ... and so does that of one in use: its connection is left as it is.
openDb(h, p) == [h EXCEPT !.name = p]

\* DelayedAccessSQLiteDb::_accessDb()
Accessed(h) == IF h.state = "closed" THEN Opened(h.name) ELSE h

SetOK(set) ==
  /\ set.dir \in Dirs
  /\ set.org \in {"SINGLE_FILE", "YEARLY", "UNKNOWN"}
  /\ DOMAIN set.open \subseteq Keys
  /\ \A k \in DOMAIN set.open : set.open[k] \in Handles

DbSets == [dir : Dirs, org : {"SINGLE_FILE", "YEARLY", "UNKNOWN"},
           open : UNION {[keys -> Handles] : keys \in SUBSET Keys}]

NewSet(dir, org) == [dir |-> dir, org |-> org, open |-> [k \in {} |-> Delayed(<<dir, k>>)]]

\* The set with all the files of its directory.
Loaded(fs, dir) ==
  [dir |-> dir, org |-> dbOrganisation(fs, dir),
   open |-> [k \in KeysIn(fs, dir) |-> Delayed(<<dir, k>>)]]

Outcome(res, fs, set) == [res |-> res, fs |-> fs, set |-> set]

Crashes(set, files) ==
  {Outcome("crash", fs, set) : fs \in IF "crash" \in Faults THEN files ELSE {}}

secondaryKey(set, m) == IF set.org = "SINGLE_FILE" THEN Single ELSE YearOf[m]

\* accessMessageDb() with writeNew
accessMessageDb(fs, set, k) ==
  LET p == <<set.dir, k>> IN
  IF k \in DOMAIN set.open THEN {Outcome("ok", fs, set)}
  ELSE (IF set.org # "UNKNOWN"
        THEN {Outcome("ok", Touch(fs, p), [set EXCEPT !.open =
                [j \in DOMAIN @ \cup {k} |-> IF j = k THEN Opened(p) ELSE @[j]]])}
        ELSE {})
       \cup (IF set.org = "UNKNOWN" \/ "create" \in Faults
             THEN {Outcome("fail", fs, set)} ELSE {})

-----------------------------------------------------------------------------
(* Operations on the whole set *)

\* openLocation() with CM_MUST_EXIST; UNKNOWN asks for what is there.
openLocation(fs, set, dir, organisation) ==
  LET existing == dbOrganisation(fs, dir) IN
  IF existing = "UNKNOWN" \/ organisation \notin {"UNKNOWN", existing}
  THEN Outcome("fail", fs, set)
  ELSE Outcome("ok", fs, Loaded(fs, dir))

\* The file the database of key k is copied from, and the files that are copied
\* to and from.
Base(set, k) == Accessed(set.open[k]).base
Targets(dir, keys) == {<<dir, k>> : k \in keys}
Origins(set) == {set.open[k].name : k \in DOMAIN set.open}

Copyable(fs, set, dir) ==
  {k \in DOMAIN set.open : Base(set, k) # <<dir, k>> /\ Base(set, k) \in DOMAIN fs}

Copied(fs, set, dir, done) ==
  [p \in DOMAIN fs \cup Targets(dir, done) |->
     IF p \in Targets(dir, done) THEN fs[Base(set, p[2])] ELSE fs[p]]

\* A file in the way of a copy is removed first.
InTheWay(set, dir, k) == {<<dir, k>>} \ {Base(set, k)}

\* "Restore origins", "Delete new copies": the files in done were copied before
\* the one of key k, which fails.
Restored(fs, set, dir, done, k) ==
  Outcome("fail",
    Touch(Erase(Copied(fs, set, dir, done), Targets(dir, done) \cup InTheWay(set, dir, k)),
          Base(set, k)),
    [set EXCEPT !.open = [j \in DOMAIN @ |->
       IF j \in done
       THEN openDb([Opened(<<dir, j>>) EXCEPT !.state = "unlinked"], @[j].name)
       ELSE IF j = k THEN [Accessed(@[j]) EXCEPT !.state = "open"]
       ELSE @[j]]])

\* copyToLocation() and, with the origins removed, moveToLocation().
Transfer(fs, set, dir, move) ==
  LET keys == DOMAIN set.open
      copyable == Copyable(fs, set, dir)
      all == Copied(fs, set, dir, keys)
  IN IF set.org = "UNKNOWN" THEN {Outcome("fail", fs, set)} ELSE
     (IF keys = copyable
      THEN {Outcome("ok", IF move THEN Erase(all, Origins(set)) ELSE all,
              [set EXCEPT !.dir = dir, !.open = [k \in keys |-> Opened(<<dir, k>>)]])}
      ELSE {})
     \cup (UNION {{Restored(fs, set, dir, done, k) : done \in SUBSET (copyable \ {k})} :
                    k \in IF "copy" \in Faults THEN keys ELSE keys \ copyable})
     \cup Crashes(set, {Erase(Copied(fs, set, dir, done), lost) :
            done \in SUBSET copyable, lost \in {{}} \cup {InTheWay(set, dir, k) : k \in keys}})
     \cup Crashes(set, {Erase(all, lost) :
            lost \in IF move /\ keys = copyable THEN SUBSET Origins(set) ELSE {}})

\* reopenLocation() with DO_YEARLY and CM_CREATE_EMPTY_CURRENT.
reopenLocation(fs, set, dir) ==
  LET impeding == {<<dir, k>> : k \in Keys}
      emptied == Erase(fs, impeding)
  IN IF set.org = "UNKNOWN" THEN {Outcome("fail", fs, set)} ELSE
     (UNION {accessMessageDb(emptied, NewSet(dir, "YEARLY"), y) : y \in Years})
     \cup Crashes(set, {Erase(fs, lost) : lost \in SUBSET impeding})

deleteLocation(fs, set) ==
  LET files == {set.open[k].name : k \in DOMAIN set.open}
      gone == NewSet(set.dir, "UNKNOWN")
  IN {Outcome("ok", Erase(fs, files), gone)}
     \cup {Outcome("fail", Erase(fs, files \ kept), gone) :
             kept \in IF "delete" \in Faults THEN (SUBSET files) \ {{}} ELSE {}}
     \cup Crashes(set, {Erase(fs, lost) : lost \in SUBSET files})

\* AccountInteraction::accessDbSet() for an account that is not new.
accessDbSet(fs, dir) ==
  IF KeysIn(fs, dir) = {}
  THEN UNION {accessMessageDb(fs, NewSet(dir, "YEARLY"), y) : y \in Years}
  ELSE {IF dbOrganisation(fs, dir) = "UNKNOWN"
        THEN Outcome("fail", fs, NewSet(dir, "UNKNOWN"))
        ELSE Outcome("ok", fs, Loaded(fs, dir))}
=============================================================================
