------------------------- MODULE DbMaintenanceProofs -------------------------
(***************************************************************************)
(* What maintenance does to the database of an account, proved for any     *)
(* directories, years, messages and numbers of splits and changes of the   *)
(* directory, whatever step fails and wherever the program dies.           *)
(***************************************************************************)
EXTENDS DbMaintenance, TLAPS

-----------------------------------------------------------------------------
(* What files, databases and sets are made of. *)

\* Files by their paths.
IsFiles(f) == DOMAIN f \subseteq Paths /\ f \in [DOMAIN f -> SUBSET Messages]

Organisations == {"SINGLE_FILE", "YEARLY", "UNKNOWN"}

\* SetOK, and nothing but the fields of a set.
IsSet(set) ==
  /\ set = [dir |-> set.dir, org |-> set.org, open |-> set.open]
  /\ set.dir \in Dirs /\ set.org \in Organisations
  /\ DOMAIN set.open \subseteq Keys
  /\ set.open \in [DOMAIN set.open -> Handles]

\* Every database of the set uses its file in the directory of the set.
AtHome(f, set) ==
  /\ set.org # "UNKNOWN"
  /\ IF set.org = "SINGLE_FILE" THEN DOMAIN set.open = {Single}
     ELSE Single \notin DOMAIN set.open
  /\ \A k \in DOMAIN set.open :
       /\ set.open[k].name = <<set.dir, k>> /\ set.open[k].base = <<set.dir, k>>
       /\ set.open[k].state \in {"closed", "open"}
       /\ <<set.dir, k>> \in DOMAIN f

\* A message in a file of the set.
Holds(f, set, m) == \E k \in DOMAIN set.open : m \in f[<<set.dir, k>>]

\* A message in a file of a year in a directory.
Filed(f, dir, m) == \E y \in Years : <<dir, y>> \in DOMAIN f /\ m \in f[<<dir, y>>]

-----------------------------------------------------------------------------
(* The parts of the inductive invariant. *)

\* TypeOK, with sets and files spelled out for the proofs.
Typed ==
  /\ IsFiles(fs)
  /\ dbSet = None \/ IsSet(dbSet)
  /\ settings \in Dirs /\ saved \in Dirs
  /\ phase \in Phases
  /\ newDbDir \in Dirs \cup {None}
  /\ yearList \subseteq Years
  /\ dstDbSet = None \/ IsSet(dstDbSet)
  /\ result \in {"none", "ok", "failed", "moved away"}
  /\ ops \in 0 .. MaxOps
  /\ stored \subseteq Messages /\ original \subseteq Messages
  /\ astray \in BOOLEAN

\* The database can be used.
InUse == phase \in {"idle", "unsaved"} /\ dbSet # None /\ dbSet.org # "UNKNOWN"

\* The file of a single database is always there; when the set was left in
\* another directory, it has what the file in the directory of the settings has.
SingleThere ==
  InUse /\ dbSet.org = "SINGLE_FILE" =>
    /\ AtHome(fs, dbSet)
    /\ dbOrganisation(fs, settings) = "SINGLE_FILE" =>
         fs[<<settings, Single>>] \subseteq fs[<<dbSet.dir, Single>>]

\* What the program uses is in the directory of the settings, alone.
UsedThere ==
  InUse /\ ~astray =>
    /\ AtHome(fs, dbSet) /\ DOMAIN dbSet.open # {}
    /\ dbSet.dir = settings /\ dbOrganisation(fs, settings) = dbSet.org
    /\ CommitsHold => \A m \in stored : Holds(fs, dbSet, m)

\* The yearly files a split has made so far.
PartsThere ==
  phase \in {"years", "move"} =>
    /\ IsSet(dstDbSet) /\ dstDbSet.org = "YEARLY" /\ dstDbSet.dir = newDbDir
    /\ AtHome(fs, dstDbSet)

\* The set is on the copy; the original is left alone.
Copying ==
  phase = "years" =>
    /\ IsSet(dbSet) /\ dbSet.org = "SINGLE_FILE" /\ dbSet.dir = newDbDir
    /\ AtHome(fs, dbSet)
    /\ original = OnDisk(fs, settings)
    /\ dbOrganisation(fs, settings) = "SINGLE_FILE" =>
         original \subseteq fs[<<newDbDir, Single>>]
    /\ ~astray => dbOrganisation(fs, settings) = "SINGLE_FILE"
    /\ DOMAIN dstDbSet.open \cap yearList = {}
    /\ CommitsHold => \A m \in fs[<<newDbDir, Single>>] :
                        YearOf[m] \in yearList \/ Holds(fs, dstDbSet, m)

\* The set is on the original, beside which the new files come.
OnOriginal ==
  phase \in {"move", "delete"} =>
    /\ IsSet(dbSet) /\ dbSet.org = "SINGLE_FILE" /\ dbSet.dir = settings
    /\ AtHome(fs, dbSet)

\* The original and the copies of its years have what has been stored.
Moving ==
  phase = "move" =>
    /\ dbOrganisation(fs, settings) = "SINGLE_FILE"
    /\ original = fs[<<settings, Single>>]
    /\ CommitsHold => \A m \in original : Holds(fs, dstDbSet, m)

\* The files of the years have it, so the original may go.
Deleting ==
  phase = "delete" /\ ~astray /\ CommitsHold =>
    \A m \in stored : Filed(fs, settings, m)

\* The original is gone, and the set with it.
Opening ==
  phase = "open" =>
    /\ IsSet(dbSet) /\ dbSet.org = "UNKNOWN" /\ dbSet.dir = settings
    /\ <<settings, Single>> \notin DOMAIN fs

\* The settings are saved, except between the change and the notice.
Directories ==
  /\ phase \notin {"unsaved", "down"} => settings = saved
  /\ phase \in {"years", "move", "delete", "open"} =>
       newDbDir \in Dirs /\ newDbDir # settings
  /\ result = "ok" => phase = "idle"

\* The copy of the original stays where the user is told.
BackupThere ==
  result = "ok" \/ phase \in {"move", "delete", "open"} =>
    /\ <<newDbDir, Single>> \in DOMAIN fs
    /\ original \subseteq fs[<<newDbDir, Single>>]

\* The inductive invariant.
IInv ==
  /\ Typed /\ Directories
  /\ SingleThere /\ UsedThere
  /\ PartsThere /\ Copying /\ OnOriginal /\ Moving /\ Deleting /\ Opening
  /\ BackupThere
  /\ CommitsHold => NothingForgotten

-----------------------------------------------------------------------------
(* Files. *)

\* A file, and the files of a directory, are the same.
SameAt(f, g, p) ==
  /\ p \in DOMAIN f <=> p \in DOMAIN g
  /\ p \in DOMAIN f => g[p] = f[p]

SameIn(f, g, dir) == \A k \in Keys : SameAt(f, g, <<dir, k>>)

\* Writing a file.
LEMMA PutFacts ==
  ASSUME NEW f, IsFiles(f), NEW p \in Paths, NEW c \in SUBSET Messages
  PROVE  /\ IsFiles(Put(f, p, c))
         /\ DOMAIN Put(f, p, c) = DOMAIN f \cup {p} /\ Put(f, p, c)[p] = c
         /\ \A q \in DOMAIN f : q # p => Put(f, p, c)[q] = f[q]
BY DEF IsFiles, Put

\* Removing files.
LEMMA EraseFacts ==
  ASSUME NEW f, IsFiles(f), NEW paths, NEW g, g = Erase(f, paths)
  PROVE  IsFiles(g) /\ DOMAIN g = DOMAIN f \ paths /\ \A q \in DOMAIN g : g[q] = f[q]
BY DEF IsFiles, Erase

\* Opening a file.
IsTouched(g, f, p) ==
  /\ IsFiles(g) /\ DOMAIN g = DOMAIN f \cup {p}
  /\ \A q \in DOMAIN f : g[q] = f[q]
  /\ p \notin DOMAIN f => g[p] = {}

\* What opening a file gives.
LEMMA TouchFacts ==
  ASSUME NEW f, IsFiles(f), NEW p \in Paths
  PROVE  IsTouched(Touch(f, p), f, p)
<1>1. CASE p \in DOMAIN f
  BY <1>1 DEF Touch, IsTouched
<1>2. CASE p \notin DOMAIN f
  BY <1>2, PutFacts DEF Touch, IsTouched
<1> QED BY <1>1, <1>2

\* The names of files and directories are told apart by their parts.
LEMMA PathFacts ==
  /\ \A d \in Dirs, k \in Keys : <<d, k>> \in Paths
  /\ \A p \in Paths : p[1] \in Dirs /\ p[2] \in Keys /\ p = <<p[1], p[2]>>
  /\ Single \in Keys /\ Years \subseteq Keys /\ Single \notin Years
  /\ Keys = Years \cup {Single}
BY StorageAssumption DEF Paths, Keys

\* What the files in a directory say of its organisation.
LEMMA OrganisationFacts ==
  ASSUME NEW f, NEW dir
  PROVE  /\ KeysIn(f, dir) = {k \in Keys : <<dir, k>> \in DOMAIN f}
         /\ dbOrganisation(f, dir) \in Organisations
         /\ dbOrganisation(f, dir) = "SINGLE_FILE" <=> KeysIn(f, dir) = {Single}
         /\ dbOrganisation(f, dir) = "YEARLY" <=>
              KeysIn(f, dir) # {} /\ Single \notin KeysIn(f, dir)
BY DEF KeysIn, dbOrganisation, Organisations

\* A message on the disk is in one of the files.
LEMMA OnDiskFacts ==
  ASSUME NEW f, IsFiles(f), NEW dir
  PROVE  /\ \A m : m \in OnDisk(f, dir) <=>
              \E k \in Keys : <<dir, k>> \in DOMAIN f /\ m \in f[<<dir, k>>]
         /\ dbOrganisation(f, dir) = "SINGLE_FILE" =>
              /\ <<dir, Single>> \in DOMAIN f
              /\ OnDisk(f, dir) = f[<<dir, Single>>]
<1>1. \A m : m \in OnDisk(f, dir) <=>
              \E k \in Keys : <<dir, k>> \in DOMAIN f /\ m \in f[<<dir, k>>]
  BY DEF OnDisk, KeysIn
<1>2. dbOrganisation(f, dir) = "SINGLE_FILE" =>
        \A k \in Keys : <<dir, k>> \in DOMAIN f <=> k = Single
  BY OrganisationFacts, PathFacts
<1> QED BY <1>1, <1>2, PathFacts

\* What depends on the files of a directory only.
LEMMA SameFacts ==
  ASSUME NEW f, NEW g, IsFiles(f), IsFiles(g), NEW dir, SameIn(f, g, dir)
  PROVE  /\ KeysIn(g, dir) = KeysIn(f, dir)
         /\ dbOrganisation(g, dir) = dbOrganisation(f, dir)
         /\ OnDisk(g, dir) = OnDisk(f, dir)
         /\ \A set : set.dir = dir /\ IsSet(set) /\ AtHome(f, set) =>
              /\ AtHome(g, set)
              /\ \A m : Holds(g, set, m) <=> Holds(f, set, m)
<1>1. KeysIn(g, dir) = KeysIn(f, dir)
  BY DEF SameAt, SameIn, KeysIn
<1>2. OnDisk(g, dir) = OnDisk(f, dir)
  BY OnDiskFacts DEF SameAt, SameIn
<1>3. ASSUME NEW set, set.dir = dir, IsSet(set), AtHome(f, set)
      PROVE  /\ AtHome(g, set)
             /\ \A m : Holds(g, set, m) <=> Holds(f, set, m)
  <2>1. \A k \in DOMAIN set.open : /\ <<dir, k>> \in DOMAIN g
                                   /\ g[<<dir, k>>] = f[<<dir, k>>]
    BY <1>3 DEF SameAt, SameIn, AtHome, IsSet
  <2> QED BY <1>3, <2>1 DEF AtHome, Holds
<1> QED BY <1>1, <1>2, <1>3 DEF dbOrganisation

-----------------------------------------------------------------------------
(* Sets. *)

\* A set with all the files of its directory.
LEMMA LoadedFacts ==
  ASSUME NEW f, IsFiles(f), NEW dir \in Dirs, NEW set, set = Loaded(f, dir)
  PROVE  /\ IsSet(set) /\ set.dir = dir /\ set.org = dbOrganisation(f, dir)
         /\ DOMAIN set.open = KeysIn(f, dir)
         /\ set.org # "UNKNOWN" =>
              /\ AtHome(f, set) /\ DOMAIN set.open # {}
              /\ \A m \in OnDisk(f, dir) : Holds(f, set, m)
<1>1. /\ set = [dir |-> set.dir, org |-> set.org, open |-> set.open]
      /\ set.dir = dir /\ set.org = dbOrganisation(f, dir)
      /\ set.open = [k \in KeysIn(f, dir) |-> Delayed(<<dir, k>>)]
  BY DEF Loaded
<1>2. \A k \in KeysIn(f, dir) :
        /\ Delayed(<<dir, k>>) \in Handles /\ k \in Keys /\ <<dir, k>> \in DOMAIN f
        /\ Delayed(<<dir, k>>).name = <<dir, k>> /\ Delayed(<<dir, k>>).base = <<dir, k>>
        /\ Delayed(<<dir, k>>).state = "closed"
  BY PathFacts DEF KeysIn, Delayed, Handles
<1>3. IsSet(set)
  <2>1. DOMAIN set.open = KeysIn(f, dir) /\ KeysIn(f, dir) \subseteq Keys
    BY <1>1, <1>2
  <2>2. set.open \in [KeysIn(f, dir) -> Handles]
    BY <1>1, <1>2
  <2> QED BY <1>1, <2>1, <2>2, OrganisationFacts DEF IsSet
<1>4. set.org # "UNKNOWN" => AtHome(f, set) /\ DOMAIN set.open # {}
  BY <1>1, <1>2, OrganisationFacts DEF AtHome, Organisations
<1>5. \A m \in OnDisk(f, dir) : Holds(f, set, m)
  BY <1>1, OnDiskFacts DEF Holds, KeysIn
<1> QED BY <1>1, <1>3, <1>4, <1>5

\* An empty set.
LEMMA NewSetFacts ==
  ASSUME NEW dir \in Dirs, NEW org \in Organisations, NEW set, set = NewSet(dir, org)
  PROVE  IsSet(set) /\ set.dir = dir /\ set.org = org /\ DOMAIN set.open = {}
BY DEF NewSet, IsSet

\* Opening another directory loads what is there or leaves the set as it is.
LEMMA OpenFacts ==
  ASSUME NEW f, NEW set, NEW dir, NEW org, NEW o, o = openLocation(f, set, dir, org)
  PROVE  IF /\ dbOrganisation(f, dir) # "UNKNOWN"
            /\ org \in {"UNKNOWN", dbOrganisation(f, dir)}
         THEN o.res = "ok" /\ o.set = Loaded(f, dir)
         ELSE o.res = "fail" /\ o.set = set
BY DEF openLocation, Outcome

\* What accessMessageDb() does with the file of a key.
LEMMA AccessFacts ==
  ASSUME NEW f, IsFiles(f), NEW set, IsSet(set), NEW k \in Keys,
         NEW o \in accessMessageDb(f, set, k)
  PROVE  /\ IsFiles(o.fs) /\ IsSet(o.set)
         /\ o.set.dir = set.dir /\ o.set.org = set.org
         /\ o.res \in {"ok", "fail"}
         /\ o.res = "fail" => o.fs = f /\ o.set = set
         /\ o.res = "ok" =>
              /\ DOMAIN o.set.open = DOMAIN set.open \cup {k}
              /\ k \in DOMAIN set.open => o.fs = f
              /\ k \notin DOMAIN set.open => set.org # "UNKNOWN" /\ o.fs = Touch(f, <<set.dir, k>>)
              /\ \A j \in DOMAIN set.open : o.set.open[j] = set.open[j]
              /\ k \notin DOMAIN set.open => o.set.open[k] = Opened(<<set.dir, k>>)
<1> DEFINE p == <<set.dir, k>>
           added == [j \in DOMAIN set.open \cup {k} |-> IF j = k THEN Opened(p) ELSE set.open[j]]
           larger == [set EXCEPT !.open = added]
<1>1. \/ k \in DOMAIN set.open /\ o = Outcome("ok", f, set)
      \/ k \notin DOMAIN set.open /\ set.org # "UNKNOWN" /\ o = Outcome("ok", Touch(f, p), larger)
      \/ k \notin DOMAIN set.open /\ o = Outcome("fail", f, set)
  BY DEF accessMessageDb
<1>2. /\ larger = [dir |-> larger.dir, org |-> larger.org, open |-> larger.open]
      /\ larger.dir = set.dir /\ larger.org = set.org /\ larger.open = added
  BY DEF IsSet
<1>3. p \in Paths /\ Opened(p) \in Handles
  BY PathFacts DEF IsSet, Opened, Handles
<1>4. /\ DOMAIN added = DOMAIN set.open \cup {k} /\ added \in [DOMAIN added -> Handles]
      /\ added[k] = Opened(p) /\ \A j \in DOMAIN set.open \ {k} : added[j] = set.open[j]
  BY <1>3 DEF IsSet
<1> HIDE DEF added, larger
<1>5. IsSet(larger)
  BY <1>2, <1>4 DEF IsSet
<1>6. CASE o = Outcome("ok", f, set) /\ k \in DOMAIN set.open
  BY <1>6 DEF Outcome, IsSet
<1>7. CASE o = Outcome("fail", f, set)
  BY <1>7 DEF Outcome
<1>8. CASE k \notin DOMAIN set.open /\ set.org # "UNKNOWN" /\ o = Outcome("ok", Touch(f, p), larger)
  <2>1. o.res = "ok" /\ o.fs = Touch(f, p) /\ o.set = larger
    BY <1>8 DEF Outcome
  <2>2. IsFiles(Touch(f, p))
    BY <1>3, TouchFacts DEF IsTouched
  <2> QED BY <1>2, <1>4, <1>5, <1>8, <2>1, <2>2
<1> QED BY <1>1, <1>6, <1>7, <1>8

-----------------------------------------------------------------------------
(* Copying and moving a set. *)

\* The set after a copy.
OnTargets(set, dir) ==
  [set EXCEPT !.dir = dir, !.open = [k \in DOMAIN set.open |-> Opened(<<dir, k>>)]]

Done(f, set, dir, move) ==
  IF move THEN Erase(Copied(f, set, dir, DOMAIN set.open), Origins(set))
  ELSE Copied(f, set, dir, DOMAIN set.open)

\* How the copy of a set can end.
Succeeds(o, f, set, dir, move) ==
  /\ set.org # "UNKNOWN" /\ DOMAIN set.open = Copyable(f, set, dir)
  /\ o = Outcome("ok", Done(f, set, dir, move), OnTargets(set, dir))

GivesUp(o, f, set, dir) ==
  \E k \in DOMAIN set.open, done \in SUBSET Copyable(f, set, dir) :
    /\ set.org # "UNKNOWN" /\ k \notin done
    /\ o = Restored(f, set, dir, done, k)

DiesCopying(o, f, set, dir) ==
  \E done \in SUBSET Copyable(f, set, dir) : \E lost :
    /\ lost = {} \/ \E k \in DOMAIN set.open : lost = InTheWay(set, dir, k)
    /\ o = Outcome("crash", Erase(Copied(f, set, dir, done), lost), set)

DiesRemoving(o, f, set, dir, move) ==
  /\ move /\ DOMAIN set.open = Copyable(f, set, dir)
  /\ \E lost \in SUBSET Origins(set) :
       o = Outcome("crash", Erase(Copied(f, set, dir, DOMAIN set.open), lost), set)

\* A copy ends in one of these ways.
LEMMA TransferCases ==
  ASSUME NEW f, NEW set, NEW dir, NEW move, NEW o \in Transfer(f, set, dir, move)
  PROVE  \/ set.org = "UNKNOWN" /\ o = Outcome("fail", f, set)
         \/ Succeeds(o, f, set, dir, move)
         \/ GivesUp(o, f, set, dir)
         \/ DiesCopying(o, f, set, dir)
         \/ DiesRemoving(o, f, set, dir, move)
<1> DEFINE keys == DOMAIN set.open
           copyable == Copyable(f, set, dir)
           all == Copied(f, set, dir, keys)
           ended == IF keys = copyable
                    THEN {Outcome("ok", IF move THEN Erase(all, Origins(set)) ELSE all,
                            [set EXCEPT !.dir = dir, !.open = [k \in keys |-> Opened(<<dir, k>>)]])}
                    ELSE {}
           failing == IF "copy" \in Faults THEN keys ELSE keys \ copyable
           given == UNION {{Restored(f, set, dir, done, k) : done \in SUBSET (copyable \ {k})} :
                             k \in failing}
           partial == {Erase(Copied(f, set, dir, done), lost) :
                         done \in SUBSET copyable, lost \in {{}} \cup {InTheWay(set, dir, k) : k \in keys}}
           removing == {Erase(all, lost) :
                          lost \in IF move /\ keys = copyable THEN SUBSET Origins(set) ELSE {}}
<1>1. Transfer(f, set, dir, move) =
        IF set.org = "UNKNOWN" THEN {Outcome("fail", f, set)}
        ELSE ended \cup given \cup Crashes(set, partial) \cup Crashes(set, removing)
  BY DEF Transfer
<1>2. \/ set.org = "UNKNOWN" /\ o = Outcome("fail", f, set)
      \/ set.org # "UNKNOWN" /\ (o \in ended \/ o \in given
            \/ o \in Crashes(set, partial) \/ o \in Crashes(set, removing))
  <2> HIDE DEF ended, given, partial, removing
  <2> QED BY <1>1
<1>3. CASE set.org # "UNKNOWN" /\ o \in ended
  <2>1. /\ keys = copyable
        /\ o = Outcome("ok", Done(f, set, dir, move), OnTargets(set, dir))
    BY <1>3 DEF Done, OnTargets
  <2> QED BY <1>3, <2>1 DEF Succeeds
<1>4. CASE set.org # "UNKNOWN" /\ o \in given
  <2>1. PICK k \in failing : \E done \in SUBSET (copyable \ {k}) : o = Restored(f, set, dir, done, k)
    <3> HIDE DEF failing
    <3> QED BY <1>4
  <2>2. k \in keys
    OBVIOUS
  <2> QED BY <1>4, <2>1, <2>2 DEF GivesUp
<1>5. CASE o \in Crashes(set, partial)
  BY <1>5 DEF Crashes, DiesCopying
<1>6. CASE o \in Crashes(set, removing)
  BY <1>6 DEF Crashes, DiesRemoving
<1> QED BY <1>2, <1>3, <1>4, <1>5, <1>6

\* The handles of databases.
LEMMA HandleFacts ==
  ASSUME NEW set, IsSet(set), NEW k \in DOMAIN set.open
  PROVE  /\ k \in Keys /\ set.open[k] \in Handles /\ Accessed(set.open[k]) \in Handles
         /\ Base(set, k) \in Paths /\ set.open[k].name \in Paths
         /\ Accessed(set.open[k]).name = set.open[k].name
         /\ set.open[k].name = set.open[k].base => Base(set, k) = set.open[k].name
<1>1. k \in Keys /\ set.open[k] \in Handles
  BY DEF IsSet
<1>2. \A h \in Handles : /\ Accessed(h) \in Handles /\ Accessed(h).base \in Paths
                         /\ h.name \in Paths /\ Accessed(h).name = h.name
                         /\ h.name = h.base => Accessed(h).base = h.name
  BY DEF Handles, Accessed, Opened
<1> QED BY <1>1, <1>2 DEF Base

\* The copies, and all else as it was.
IsCopy(g, f, set, dir, done) ==
  /\ IsFiles(g)
  /\ DOMAIN g = DOMAIN f \cup Targets(dir, done)
  /\ \A k \in done : g[<<dir, k>>] = f[Base(set, k)]
  /\ \A p \in DOMAIN f \ Targets(dir, done) : g[p] = f[p]

\* Copying databases gives their copies.
LEMMA CopiedFacts ==
  ASSUME NEW f, IsFiles(f), NEW set, IsSet(set), NEW dir \in Dirs,
         NEW done, done \subseteq Copyable(f, set, dir)
  PROVE  IsCopy(Copied(f, set, dir, done), f, set, dir, done)
<1> DEFINE g == Copied(f, set, dir, done)
<1>1. \A k \in done : k \in DOMAIN set.open /\ k \in Keys /\ Base(set, k) \in DOMAIN f
  BY HandleFacts DEF Copyable
<1>2. \A p \in Targets(dir, done) : p[2] \in done /\ p = <<dir, p[2]>> /\ p \in Paths
  BY <1>1, PathFacts DEF Targets
<1>3. \A k \in done : <<dir, k>> \in Targets(dir, done)
  BY DEF Targets
<1>4. /\ DOMAIN g = DOMAIN f \cup Targets(dir, done)
      /\ \A p \in Targets(dir, done) : g[p] = f[Base(set, p[2])]
      /\ \A p \in DOMAIN f \ Targets(dir, done) : g[p] = f[p]
      /\ g = [p \in DOMAIN g |-> g[p]]
  BY DEF Copied
<1>5. \A p \in DOMAIN g : g[p] \in SUBSET Messages
  BY <1>1, <1>2, <1>4 DEF IsFiles
<1>6. IsFiles(g)
  BY <1>2, <1>4, <1>5 DEF IsFiles
<1>7. \A k \in done : g[<<dir, k>>] = f[Base(set, k)]
  BY <1>2, <1>3, <1>4
<1> QED BY <1>4, <1>6, <1>7 DEF IsCopy

\* A set with another directory or other databases.
LEMMA EditFacts ==
  ASSUME NEW set, IsSet(set), NEW d, NEW x
  PROVE  /\ [set EXCEPT !.dir = d, !.open = x] = [dir |-> d, org |-> set.org, open |-> x]
         /\ [set EXCEPT !.open = x] = [dir |-> set.dir, org |-> set.org, open |-> x]
<1> DEFINE a == set.dir
           b == set.org
           c == set.open
           t == [set EXCEPT !.dir = d]
<1>1. set = [dir |-> a, org |-> b, open |-> c]
  BY DEF IsSet
<1> HIDE DEF a, b, c
<1>2. t = [dir |-> d, org |-> b, open |-> c]
  BY <1>1
<1>3. [set EXCEPT !.dir = d, !.open = x] = [t EXCEPT !.open = x]
  OBVIOUS
<1> HIDE DEF t
<1>4. [t EXCEPT !.open = x] = [dir |-> d, org |-> b, open |-> x]
  BY <1>2
<1>5. [set EXCEPT !.open = x] = [dir |-> a, org |-> b, open |-> x]
  BY <1>1
<1> QED BY <1>3, <1>4, <1>5 DEF a, b

\* The set after a copy.
LEMMA OnTargetsFacts ==
  ASSUME NEW set, IsSet(set), NEW dir \in Dirs
  PROVE  LET n == OnTargets(set, dir)
         IN /\ IsSet(n) /\ n.dir = dir /\ n.org = set.org
            /\ DOMAIN n.open = DOMAIN set.open
            /\ \A k \in DOMAIN set.open : n.open[k] = Opened(<<dir, k>>)
<1> DEFINE n == OnTargets(set, dir)
           handles == [k \in DOMAIN set.open |-> Opened(<<dir, k>>)]
<1>1. /\ n = [dir |-> n.dir, org |-> n.org, open |-> n.open]
      /\ n.dir = dir /\ n.org = set.org /\ n.open = handles
  <2>1. n = [set EXCEPT !.dir = dir, !.open = handles]
    BY DEF OnTargets
  <2>2. n = [dir |-> dir, org |-> set.org, open |-> handles]
    <3> HIDE DEF n, handles
    <3> QED BY <2>1, EditFacts
  <2> HIDE DEF n, handles
  <2> QED BY <2>2
<1>2. \A p \in Paths : Opened(p) \in Handles
  BY DEF Opened, Handles
<1>3. \A k \in DOMAIN set.open : <<dir, k>> \in Paths
  BY PathFacts DEF IsSet
<1>4. handles \in [DOMAIN set.open -> Handles]
  BY <1>2, <1>3
<1> HIDE DEF n
<1>5. IsSet(n)
  BY <1>1, <1>4 DEF IsSet
<1>6. DOMAIN n.open = DOMAIN set.open /\ \A k \in DOMAIN set.open : n.open[k] = Opened(<<dir, k>>)
  BY <1>1
<1> QED BY <1>1, <1>5, <1>6 DEF n

\* The set after a copy that was given up: nothing changes but handles.
LEMMA GivenUpFacts ==
  ASSUME NEW f, NEW set, IsSet(set), NEW dir \in Dirs, NEW done \in SUBSET DOMAIN set.open,
         NEW k \in DOMAIN set.open, NEW n, n = Restored(f, set, dir, done, k).set
  PROVE  /\ IsSet(n) /\ n.dir = set.dir /\ n.org = set.org
         /\ DOMAIN n.open = DOMAIN set.open
         /\ \A j \in done : n.open[j].state = "unlinked"
         /\ \A j \in DOMAIN set.open \ done :
              /\ n.open[j].name = set.open[j].name
              /\ set.open[j].base = set.open[j].name => n.open[j].base = n.open[j].name
              /\ set.open[j].state \in {"closed", "open"} =>
                   n.open[j].state \in {"closed", "open"}
<1> DEFINE Given(j) == IF j \in done
                       THEN openDb([Opened(<<dir, j>>) EXCEPT !.state = "unlinked"], set.open[j].name)
                       ELSE IF j = k THEN [Accessed(set.open[j]) EXCEPT !.state = "open"]
                       ELSE set.open[j]
           handles == [j \in DOMAIN set.open |-> Given(j)]
<1>1. /\ n = [dir |-> n.dir, org |-> n.org, open |-> n.open]
      /\ n.dir = set.dir /\ n.org = set.org /\ n.open = handles
  <2>1. n = [set EXCEPT !.open = handles]
    BY DEF Restored, Outcome
  <2>2. n = [dir |-> set.dir, org |-> set.org, open |-> handles]
    <3> HIDE DEF handles
    <3> QED BY <2>1, EditFacts
  <2> HIDE DEF handles
  <2> QED BY <2>2
<1>2. ASSUME NEW j \in DOMAIN set.open
      PROVE  /\ Given(j) \in Handles
             /\ j \in done => Given(j).state = "unlinked"
             /\ j \notin done =>
                  /\ Given(j).name = set.open[j].name
                  /\ set.open[j].base = set.open[j].name => Given(j).base = Given(j).name
                  /\ set.open[j].state \in {"closed", "open"} =>
                       Given(j).state \in {"closed", "open"}
  <2>1. <<dir, j>> \in Paths /\ set.open[j] \in Handles
    BY HandleFacts, PathFacts
  <2>2. \A p, q \in Paths :
          /\ openDb([Opened(p) EXCEPT !.state = "unlinked"], q) \in Handles
          /\ openDb([Opened(p) EXCEPT !.state = "unlinked"], q).state = "unlinked"
    BY DEF openDb, Opened, Handles
  <2>3. \A h \in Handles :
          LET a == [Accessed(h) EXCEPT !.state = "open"]
          IN /\ a \in Handles /\ a.state = "open" /\ a.name = h.name
             /\ h.base = h.name => a.base = a.name
    BY DEF Accessed, Opened, Handles
  <2>4. set.open[j].name \in Paths
    BY HandleFacts
  <2>5. CASE j \in done
    BY <2>1, <2>2, <2>4, <2>5
  <2>6. CASE j \notin done /\ j = k
    BY <2>1, <2>3, <2>6
  <2>7. CASE j \notin done /\ j # k
    BY <2>1, <2>7
  <2> QED BY <2>5, <2>6, <2>7
<1> HIDE DEF Given
<1>3. handles \in [DOMAIN set.open -> Handles]
  BY <1>2
<1>4. IsSet(n)
  BY <1>1, <1>3 DEF IsSet
<1> QED BY <1>1, <1>2, <1>4

\* What the outcomes of a copy have in common, wherever the connections are.
IsOutcome(o, set, dir) ==
  /\ IsFiles(o.fs) /\ IsSet(o.set) /\ o.res \in {"ok", "fail", "crash"}
  /\ o.set.org = set.org /\ DOMAIN o.set.open = DOMAIN set.open
  /\ o.res = "ok" => o.set.dir = dir /\ set.org # "UNKNOWN"
  /\ o.res # "ok" => o.set.dir = set.dir

\* Every outcome has this form.
LEMMA TransferTyped ==
  ASSUME NEW f, IsFiles(f), NEW set, IsSet(set), NEW dir \in Dirs, NEW move \in BOOLEAN,
         NEW o \in Transfer(f, set, dir, move)
  PROVE  IsOutcome(o, set, dir)
<1> DEFINE keys == DOMAIN set.open
<1>1. \A done \in SUBSET Copyable(f, set, dir) : IsFiles(Copied(f, set, dir, done))
  BY CopiedFacts DEF IsCopy
<1>2. CASE set.org = "UNKNOWN" /\ o = Outcome("fail", f, set)
  BY <1>2 DEF Outcome, IsOutcome
<1>3. CASE Succeeds(o, f, set, dir, move)
  <2>1. IsFiles(Copied(f, set, dir, keys))
    BY <1>1, <1>3 DEF Succeeds
  <2>2. IsFiles(Done(f, set, dir, move))
    BY <2>1, EraseFacts DEF Done
  <2>3. o.res = "ok" /\ o.fs = Done(f, set, dir, move) /\ o.set = OnTargets(set, dir)
    BY <1>3 DEF Succeeds, Outcome
  <2>4. /\ IsSet(o.set) /\ o.set.dir = dir /\ o.set.org = set.org
        /\ DOMAIN o.set.open = DOMAIN set.open
    BY <2>3, OnTargetsFacts
  <2> QED BY <1>3, <2>2, <2>3, <2>4 DEF Succeeds, IsOutcome
<1>4. CASE GivesUp(o, f, set, dir)
  <2>1. PICK k \in keys, done \in SUBSET Copyable(f, set, dir) : o = Restored(f, set, dir, done, k)
    BY <1>4 DEF GivesUp
  <2>2. done \in SUBSET keys /\ Base(set, k) \in Paths
    BY HandleFacts DEF Copyable
  <2>3. /\ o.res = "fail"
        /\ o.fs = Touch(Erase(Copied(f, set, dir, done), Targets(dir, done) \cup InTheWay(set, dir, k)),
                        Base(set, k))
    <3> DEFINE g == Touch(Erase(Copied(f, set, dir, done), Targets(dir, done) \cup InTheWay(set, dir, k)),
                        Base(set, k))
    <3>1. o.res = "fail" /\ o.fs = g
      BY <2>1, Zenon DEF Restored, Outcome
    <3> QED BY <3>1
  <2>4. IsFiles(o.fs)
    <3> DEFINE g == Copied(f, set, dir, done)
               h == Erase(g, Targets(dir, done) \cup InTheWay(set, dir, k))
    <3>1. IsFiles(g)
      BY <1>1
    <3> HIDE DEF g
    <3>2. IsFiles(h)
      BY <3>1, EraseFacts
    <3> HIDE DEF h
    <3>3. IsFiles(Touch(h, Base(set, k)))
      BY <2>2, <3>2, TouchFacts DEF IsTouched
    <3> QED BY <2>3, <3>3 DEF g, h
  <2>5. IsSet(o.set) /\ o.set.dir = set.dir /\ o.set.org = set.org /\ DOMAIN o.set.open = keys
    <3>1. o.set = Restored(f, set, dir, done, k).set
      BY <2>1
    <3> QED BY <2>2, <3>1, GivenUpFacts
  <2> QED BY <2>3, <2>4, <2>5 DEF IsOutcome
<1>5. CASE DiesCopying(o, f, set, dir)
  <2>1. PICK done \in SUBSET Copyable(f, set, dir) : \E lost :
          o = Outcome("crash", Erase(Copied(f, set, dir, done), lost), set)
    BY <1>5, Zenon DEF DiesCopying
  <2>2. PICK lost : o = Outcome("crash", Erase(Copied(f, set, dir, done), lost), set)
    BY <2>1
  <2>3. IsFiles(Copied(f, set, dir, done))
    BY <1>1
  <2> QED BY <2>2, <2>3, EraseFacts DEF Outcome, IsOutcome
<1>6. CASE DiesRemoving(o, f, set, dir, move)
  <2>1. PICK lost : o = Outcome("crash", Erase(Copied(f, set, dir, keys), lost), set)
    BY <1>6 DEF DiesRemoving
  <2>2. IsFiles(Copied(f, set, dir, keys))
    BY <1>1, <1>6 DEF DiesRemoving
  <2> QED BY <2>1, <2>2, EraseFacts DEF Outcome, IsOutcome
<1> QED BY <1>2, <1>3, <1>4, <1>5, <1>6, TransferCases

\* A set at home is copied from its own directory.
LEMMA HomeFacts ==
  ASSUME NEW f, NEW set, IsSet(set), AtHome(f, set), NEW dir \in Dirs
  PROVE  /\ \A k \in DOMAIN set.open :
              k \in Keys /\ Base(set, k) = <<set.dir, k>> /\ <<set.dir, k>> \in DOMAIN f
         /\ dir = set.dir => /\ Copyable(f, set, dir) = {}
                             /\ \A k \in DOMAIN set.open : InTheWay(set, dir, k) = {}
         /\ dir # set.dir => /\ Copyable(f, set, dir) = DOMAIN set.open
                             /\ \A k \in DOMAIN set.open : InTheWay(set, dir, k) = {<<dir, k>>}
         /\ Origins(set) = Targets(set.dir, DOMAIN set.open)
<1>1. \A k \in DOMAIN set.open :
        /\ k \in Keys /\ Base(set, k) = <<set.dir, k>> /\ <<set.dir, k>> \in DOMAIN f
        /\ set.open[k].name = <<set.dir, k>>
  BY HandleFacts DEF AtHome
<1>2. Origins(set) = Targets(set.dir, DOMAIN set.open)
  BY <1>1 DEF Origins, Targets
<1>3. dir = set.dir => Copyable(f, set, dir) = {}
  <2>1. \A k \in Copyable(f, set, dir) : k \in DOMAIN set.open /\ Base(set, k) # <<dir, k>>
    BY DEF Copyable
  <2> QED BY <1>1, <2>1
<1>4. dir # set.dir => Copyable(f, set, dir) = DOMAIN set.open
  <2>1. \A k : <<set.dir, k>> = <<dir, k>> => set.dir = dir
    OBVIOUS
  <2>2. \A k \in DOMAIN set.open : dir # set.dir =>
          Base(set, k) # <<dir, k>> /\ Base(set, k) \in DOMAIN f
    BY <1>1, <2>1
  <2>3. dir # set.dir => \A k : k \in Copyable(f, set, dir) <=> k \in DOMAIN set.open
    BY <2>2 DEF Copyable
  <2> QED BY <2>3
<1>5. ASSUME NEW k \in DOMAIN set.open
      PROVE  InTheWay(set, dir, k) = IF dir = set.dir THEN {} ELSE {<<dir, k>>}
  <2>1. InTheWay(set, dir, k) = {<<dir, k>>} \ {<<set.dir, k>>}
    BY <1>1 DEF InTheWay
  <2>2. <<set.dir, k>> = <<dir, k>> <=> set.dir = dir
    OBVIOUS
  <2>3. CASE dir = set.dir
    BY <2>1, <2>3
  <2>4. CASE dir # set.dir
    <3>1. <<set.dir, k>> # <<dir, k>>
      BY <2>2, <2>4
    <3> QED BY <2>1, <2>4, <3>1, Zenon
  <2> QED BY <2>3, <2>4
<1> QED BY <1>1, <1>2, <1>3, <1>4, <1>5

\* Which paths the files of some keys have.
LEMMA TargetFacts ==
  \A d, e, k, keys : <<d, k>> \in Targets(e, keys) <=> d = e /\ k \in keys
BY DEF Targets

\* Where the copies of a set at home are, of which some are lost, and where
\* nothing changes.
IsRemainder(h, f, set, dir, done, lost) ==
  /\ IsFiles(h)
  /\ \A d, k : <<d, k>> \in DOMAIN h <=>
       <<d, k>> \notin lost /\ (<<d, k>> \in DOMAIN f \/ (d = dir /\ k \in done))
  /\ \A k : <<dir, k>> \in DOMAIN h /\ k \in done => h[<<dir, k>>] = f[<<set.dir, k>>]
  /\ \A d, k : <<d, k>> \notin lost /\ ~(d = dir /\ k \in done) => SameAt(f, h, <<d, k>>)

\* What copying and then losing some files leaves.
LEMMA CopiedAt ==
  ASSUME NEW f, IsFiles(f), NEW set, IsSet(set), AtHome(f, set), NEW dir \in Dirs,
         NEW done, done \subseteq Copyable(f, set, dir), NEW lost
  PROVE  IsRemainder(Erase(Copied(f, set, dir, done), lost), f, set, dir, done, lost)
<1> DEFINE g == Copied(f, set, dir, done)
           h == Erase(g, lost)
<1>1. /\ IsFiles(g) /\ DOMAIN g = DOMAIN f \cup Targets(dir, done)
      /\ \A j \in done : g[<<dir, j>>] = f[Base(set, j)]
      /\ \A q \in DOMAIN f \ Targets(dir, done) : g[q] = f[q]
  <2>1. IsCopy(g, f, set, dir, done)
    BY CopiedFacts
  <2> HIDE DEF g
  <2> QED BY ONLY <2>1 DEF IsCopy
<1>2. \A d, k : <<d, k>> \in Targets(dir, done) <=> d = dir /\ k \in done
  BY TargetFacts
<1>3. \A j \in done : Base(set, j) = <<set.dir, j>>
  BY HomeFacts DEF Copyable
<1> HIDE DEF g
<1>4. IsFiles(h) /\ DOMAIN h = DOMAIN g \ lost /\ \A q \in DOMAIN h : h[q] = g[q]
  BY ONLY <1>1 DEF h, Erase, IsFiles
<1> HIDE DEF h
<1>5. \A d, k : <<d, k>> \in DOMAIN h <=>
        <<d, k>> \notin lost /\ (<<d, k>> \in DOMAIN f \/ (d = dir /\ k \in done))
  BY <1>1, <1>2, <1>4
<1>6. \A k : <<dir, k>> \in DOMAIN h /\ k \in done => h[<<dir, k>>] = f[<<set.dir, k>>]
  BY <1>1, <1>3, <1>4
<1>7. \A d, k : <<d, k>> \in DOMAIN h /\ ~(d = dir /\ k \in done) =>
        h[<<d, k>>] = f[<<d, k>>]
  BY <1>1, <1>2, <1>4
<1>8. \A d, k : <<d, k>> \notin lost /\ ~(d = dir /\ k \in done) => SameAt(f, h, <<d, k>>)
  BY <1>5, <1>7 DEF SameAt
<1>9. IsRemainder(h, f, set, dir, done, lost)
  BY <1>4, <1>5, <1>6, <1>8 DEF IsRemainder
<1> QED BY <1>9 DEF g, h

\* What a copy of a set at home leaves alone, and what it brings.
Transferred(o, f, set, dir, move) ==
  /\ \A d \in Dirs, k \in Keys \ DOMAIN set.open : SameAt(f, o.fs, <<d, k>>)
  /\ \A d \in Dirs \ {dir, set.dir} : SameIn(f, o.fs, d)
  /\ \A d \in Dirs \ {dir} : ~move \/ o.res = "fail" => SameIn(f, o.fs, d)
  /\ o.res = "fail" =>
       /\ SameIn(f, o.fs, set.dir)
       /\ \A k \in Keys : <<dir, k>> \in DOMAIN o.fs => <<dir, k>> \in DOMAIN f
       /\ \/ AtHome(o.fs, o.set)
          \/ /\ set.org # "SINGLE_FILE"
             /\ \E k \in DOMAIN o.set.open : o.set.open[k].state = "unlinked"
  /\ o.res = "ok" =>
       /\ AtHome(o.fs, o.set)
       /\ \A k \in DOMAIN set.open : o.fs[<<dir, k>>] = f[<<set.dir, k>>]

\* A set whose files are all there is at home in another directory.
LEMMA SucceedsAtHome ==
  ASSUME NEW f, IsFiles(f), NEW set, IsSet(set), AtHome(f, set), NEW dir \in Dirs,
         NEW move \in BOOLEAN, NEW o, Succeeds(o, f, set, dir, move)
  PROVE  Transferred(o, f, set, dir, move)
<1> DEFINE keys == DOMAIN set.open
           g == Copied(f, set, dir, keys)
           lost == IF move THEN Targets(set.dir, keys) ELSE {}
           h == Erase(g, lost)
<1>1. /\ keys = Copyable(f, set, dir) /\ keys \in SUBSET Copyable(f, set, dir)
      /\ o.res = "ok" /\ o.fs = Done(f, set, dir, move) /\ o.set = OnTargets(set, dir)
  BY DEF Succeeds, Outcome
<1>2. dir = set.dir => keys = {}
  BY <1>1, HomeFacts
<1>3. IsFiles(g)
  BY <1>1, CopiedFacts DEF IsCopy
<1>4. o.fs = h
  <2>1. CASE move
    BY <1>1, <2>1, HomeFacts DEF Done
  <2>2. CASE ~move
    <3>1. o.fs = g /\ lost = {}
      BY <1>1, <2>2 DEF Done
    <3> HIDE DEF g
    <3>2. Erase(g, {}) = g
      BY <1>3 DEF IsFiles, Erase
    <3> QED BY <3>1, <3>2
  <2> QED BY <2>1, <2>2
<1>5. \A d, k : <<d, k>> \in lost <=> move /\ d = set.dir /\ k \in keys
  BY TargetFacts
<1> DEFINE r == o.fs
<1>6. /\ \A d, k : <<d, k>> \in DOMAIN r <=>
              <<d, k>> \notin lost /\ (<<d, k>> \in DOMAIN f \/ (d = dir /\ k \in keys))
      /\ \A k : <<dir, k>> \in DOMAIN r /\ k \in keys => r[<<dir, k>>] = f[<<set.dir, k>>]
      /\ \A d, k : <<d, k>> \notin lost /\ ~(d = dir /\ k \in keys) => SameAt(f, r, <<d, k>>)
  <2>1. IsRemainder(Erase(Copied(f, set, dir, keys), lost), f, set, dir, keys, lost)
    BY <1>1, CopiedAt
  <2>2. IsRemainder(r, f, set, dir, keys, lost)
    BY <1>4, <2>1
  <2> HIDE DEF r, keys, lost
  <2> QED BY ONLY <2>2 DEF IsRemainder
<1> HIDE DEF lost, r
<1>7. \A k \in keys : <<dir, k>> \in DOMAIN r
  BY <1>2, <1>5, <1>6
<1>8. AtHome(r, o.set)
  <2>1. /\ o.set.dir = dir /\ o.set.org = set.org /\ DOMAIN o.set.open = keys
        /\ \A k \in keys : o.set.open[k] = Opened(<<dir, k>>)
    BY <1>1, OnTargetsFacts
  <2>2. \A p : Opened(p).name = p /\ Opened(p).base = p /\ Opened(p).state = "open"
    BY DEF Opened
  <2> QED BY <1>7, <2>1, <2>2 DEF AtHome
<1>9. \A d \in Dirs, k \in Keys \ keys : SameAt(f, r, <<d, k>>)
  BY <1>5, <1>6
<1>10. \A d \in Dirs \ {dir} : d # set.dir \/ ~move => SameIn(f, r, d)
  BY <1>5, <1>6 DEF SameIn
<1> QED BY <1>1, <1>6, <1>7, <1>8, <1>9, <1>10 DEF Transferred, r

\* A copy that gives up.
LEMMA GivesUpAtHome ==
  ASSUME NEW f, IsFiles(f), NEW set, IsSet(set), AtHome(f, set), NEW dir \in Dirs,
         NEW move \in BOOLEAN, NEW o, GivesUp(o, f, set, dir)
  PROVE  Transferred(o, f, set, dir, move)
<1> DEFINE keys == DOMAIN set.open
<1>1. PICK k \in keys, done \in SUBSET Copyable(f, set, dir) :
        k \notin done /\ o = Restored(f, set, dir, done, k)
  BY DEF GivesUp
<1> DEFINE g == Copied(f, set, dir, done)
           lost == Targets(dir, done) \cup InTheWay(set, dir, k)
           h == Erase(g, lost)
           r == o.fs
<1>2. /\ k \in Keys /\ Base(set, k) = <<set.dir, k>> /\ <<set.dir, k>> \in DOMAIN f
      /\ dir = set.dir => done = {} /\ InTheWay(set, dir, k) = {}
      /\ dir # set.dir => InTheWay(set, dir, k) = {<<dir, k>>}
      /\ done \subseteq keys
  BY HomeFacts DEF Copyable
<1>3. o.res = "fail" /\ r = Touch(h, <<set.dir, k>>)
  <2> HIDE DEF h
  <2>1. o = Outcome("fail", Touch(h, Base(set, k)), Restored(f, set, dir, done, k).set)
    BY <1>1, Zenon DEF h, Restored, Outcome
  <2> QED BY <1>2, <2>1 DEF Outcome
<1>4. \A d, j : <<d, j>> \in lost => d = dir /\ d # set.dir /\ j \in done \cup {k}
  BY <1>2, TargetFacts
<1>5. /\ \A d, j : <<d, j>> \in DOMAIN h <=>
              <<d, j>> \notin lost /\ (<<d, j>> \in DOMAIN f \/ (d = dir /\ j \in done))
      /\ \A d, j : <<d, j>> \notin lost /\ ~(d = dir /\ j \in done) => SameAt(f, h, <<d, j>>)
  <2>1. IsRemainder(h, f, set, dir, done, lost)
    BY CopiedAt
  <2> HIDE DEF h, lost
  <2> QED BY ONLY <2>1 DEF IsRemainder
<1>6. r = h
  <2>1. <<set.dir, k>> \in DOMAIN h
    <3> HIDE DEF h, lost
    <3> QED BY <1>2, <1>4, <1>5
  <2> QED BY <1>3, <2>1 DEF Touch
<1>7. \A j \in done : <<dir, j>> \in lost
  BY TargetFacts
<1> HIDE DEF h, lost, r
<1>8. \A d \in Dirs \ {dir} : SameIn(f, r, d)
  BY <1>4, <1>5, <1>6 DEF SameIn
<1>9. SameIn(f, r, set.dir)
  BY <1>2, <1>4, <1>5, <1>6 DEF SameIn
<1>10. \A d \in Dirs, j \in Keys \ keys : SameAt(f, r, <<d, j>>)
  BY <1>1, <1>2, <1>4, <1>5, <1>6
<1>11. \A j \in Keys : <<dir, j>> \in DOMAIN r => <<dir, j>> \in DOMAIN f
  BY <1>5, <1>6, <1>7
<1>12. \/ AtHome(r, o.set)
       \/ set.org # "SINGLE_FILE" /\ \E j \in DOMAIN o.set.open : o.set.open[j].state = "unlinked"
  <2>1. o.set = Restored(f, set, dir, done, k).set /\ done \in SUBSET keys
    BY <1>1, <1>2
  <2>2. /\ o.set.dir = set.dir /\ o.set.org = set.org /\ DOMAIN o.set.open = keys
        /\ \A j \in done : o.set.open[j].state = "unlinked"
        /\ \A j \in keys \ done :
             /\ o.set.open[j].name = set.open[j].name
             /\ set.open[j].base = set.open[j].name => o.set.open[j].base = o.set.open[j].name
             /\ set.open[j].state \in {"closed", "open"} =>
                  o.set.open[j].state \in {"closed", "open"}
    BY <2>1, GivenUpFacts
  <2>3. CASE done = {}
    <3>1. \A j \in keys : <<set.dir, j>> \in DOMAIN r
      BY <1>9 DEF AtHome, SameIn, SameAt, IsSet
    <3> QED BY <2>2, <2>3, <3>1 DEF AtHome
  <2>4. CASE done # {}
    <3>1. set.org # "SINGLE_FILE"
      BY <1>1, <1>2, <2>4 DEF AtHome
    <3> QED BY <1>2, <2>2, <2>4, <3>1
  <2> QED BY <2>3, <2>4
<1> QED BY <1>3, <1>8, <1>9, <1>10, <1>11, <1>12 DEF Transferred, r

\* The program dies during a copy.
LEMMA DiesAtHome ==
  ASSUME NEW f, IsFiles(f), NEW set, IsSet(set), AtHome(f, set), NEW dir \in Dirs,
         NEW move \in BOOLEAN, NEW o,
         DiesCopying(o, f, set, dir) \/ DiesRemoving(o, f, set, dir, move)
  PROVE  o.res = "crash" /\ Transferred(o, f, set, dir, move)
<1> DEFINE keys == DOMAIN set.open
<1> DEFINE Lost(lost) == \/ lost = {}
                         \/ \E k \in keys : lost = InTheWay(set, dir, k)
                         \/ move /\ lost \subseteq Origins(set)
<1>a. PICK done \in SUBSET Copyable(f, set, dir) : \E lost :
        o = Outcome("crash", Erase(Copied(f, set, dir, done), lost), set) /\ Lost(lost)
  <2>1. CASE DiesCopying(o, f, set, dir)
    BY <2>1, Zenon DEF DiesCopying
  <2>2. CASE DiesRemoving(o, f, set, dir, move)
    <3>1. keys \in SUBSET Copyable(f, set, dir)
      BY <2>2 DEF DiesRemoving
    <3>2. PICK lost \in SUBSET Origins(set) :
            o = Outcome("crash", Erase(Copied(f, set, dir, keys), lost), set)
      BY <2>2 DEF DiesRemoving
    <3>3. move /\ lost \subseteq Origins(set)
      BY <2>2 DEF DiesRemoving
    <3> QED BY <3>1, <3>2, <3>3
  <2> QED BY <2>1, <2>2
<1>1. PICK lost :
        o = Outcome("crash", Erase(Copied(f, set, dir, done), lost), set) /\ Lost(lost)
  BY <1>a
<1> DEFINE g == Copied(f, set, dir, done)
           r == o.fs
<1>2. o.res = "crash" /\ r = Erase(g, lost)
  BY <1>1 DEF Outcome
<1>3. \A d, k : <<d, k>> \in lost => k \in keys /\ (d = dir \/ (move /\ d = set.dir))
  <2>1. CASE lost = {}
    BY <2>1
  <2>2. CASE \E k \in keys : lost = InTheWay(set, dir, k)
    BY <2>2 DEF InTheWay
  <2>3. CASE move /\ lost \subseteq Origins(set)
    BY <2>3, HomeFacts, TargetFacts
  <2> QED BY <1>1, <2>1, <2>2, <2>3
<1>4. done \subseteq keys
  BY DEF Copyable
<1>5. \A d, k : <<d, k>> \notin lost /\ ~(d = dir /\ k \in done) => SameAt(f, r, <<d, k>>)
  <2>1. IsRemainder(r, f, set, dir, done, lost)
    BY <1>2, CopiedAt
  <2> HIDE DEF r
  <2> QED BY ONLY <2>1 DEF IsRemainder
<1> HIDE DEF r
<1>6. \A d \in Dirs, k \in Keys \ keys : SameAt(f, r, <<d, k>>)
  BY <1>3, <1>4, <1>5
<1>7. \A d \in Dirs \ {dir} : d # set.dir \/ ~move => SameIn(f, r, d)
  BY <1>3, <1>5 DEF SameIn
<1> QED BY <1>2, <1>6, <1>7 DEF Transferred, r

\* Whatever the outcome of a copy of a set at home.
LEMMA TransferAtHome ==
  ASSUME NEW f, IsFiles(f), NEW set, IsSet(set), AtHome(f, set), NEW dir \in Dirs,
         NEW move \in BOOLEAN, NEW o \in Transfer(f, set, dir, move)
  PROVE  Transferred(o, f, set, dir, move)
<1>1. set.org # "UNKNOWN"
  BY DEF AtHome
<1> QED BY <1>1, TransferCases, SucceedsAtHome, GivesUpAtHome, DiesAtHome

-----------------------------------------------------------------------------
(* What the files hold. *)

\* What the files of a set at home hold is in its directory.
LEMMA HeldOnDisk ==
  ASSUME NEW f, IsFiles(f), NEW set, IsSet(set), AtHome(f, set), NEW m, Holds(f, set, m)
  PROVE  m \in OnDisk(f, set.dir)
<1>1. PICK k \in DOMAIN set.open : m \in f[<<set.dir, k>>]
  BY DEF Holds
<1>2. k \in Keys /\ <<set.dir, k>> \in DOMAIN f
  BY DEF AtHome, IsSet
<1> QED BY <1>1, <1>2, OnDiskFacts

\* What the files of the years hold is in their directory.
LEMMA FiledOnDisk ==
  ASSUME NEW f, IsFiles(f), NEW dir, NEW m, Filed(f, dir, m)
  PROVE  m \in OnDisk(f, dir)
BY OnDiskFacts, PathFacts DEF Filed

\* A set opened on the files of its directory is at home there, alone.
LEMMA LoadedAtHome ==
  ASSUME NEW f, IsFiles(f), NEW dir \in Dirs, NEW set, set = Loaded(f, dir),
         set.org # "UNKNOWN"
  PROVE  /\ AtHome(f, set) /\ DOMAIN set.open # {} /\ set.dir = dir
         /\ dbOrganisation(f, dir) = set.org
         /\ \A m \in OnDisk(f, dir) : Holds(f, set, m)
BY LoadedFacts

-----------------------------------------------------------------------------
(* The program dies and is started again. *)

\* Dying, with what has been stored still there or astray.
LEMMA DiePreserves ==
  ASSUME IInv, NEW files, IsFiles(files), Die(files), ops' \in 0 .. MaxOps, astray' \in BOOLEAN,
         CommitsHold => astray' \/ stored \subseteq OnDisk(files, saved)
  PROVE  IInv'
<1>1. phase' = "down" /\ result' = "none"
  BY DEF Die
<1>2. Typed'
  BY DEF IInv, Typed, Die, Phases
<1>3. Directories'
  BY <1>1 DEF Directories
<1>4. SingleThere' /\ UsedThere'
  BY <1>1 DEF SingleThere, UsedThere, InUse
<1>5. PartsThere' /\ Copying' /\ OnOriginal' /\ Moving' /\ Deleting' /\ Opening'
  BY <1>1 DEF PartsThere, Copying, OnOriginal, Moving, Deleting, Opening
<1>6. BackupThere'
  BY <1>1 DEF BackupThere
<1>7. CommitsHold => NothingForgotten'
  BY <1>1 DEF Die, NothingForgotten, Home
<1> QED BY <1>2, <1>3, <1>4, <1>5, <1>6, <1>7 DEF IInv

\* The program dies between two operations.
LEMMA CrashPreserves ==
  ASSUME IInv, Crash
  PROVE  IInv'
<1>1. /\ Die(fs) /\ IsFiles(fs) /\ ops' \in 0 .. MaxOps
      /\ astray' = (astray \/ (phase = "unsaved" /\ ~(stored \subseteq OnDisk(fs, saved))))
  BY DEF Crash, IInv, Typed
<1>2. CommitsHold => NothingForgotten
  BY DEF IInv
<1>3. phase # "unsaved" => Home = saved
  BY DEF Home
<1>4. astray' \in BOOLEAN /\ (CommitsHold => astray' \/ stored \subseteq OnDisk(fs, saved))
  BY <1>1, <1>2, <1>3 DEF NothingForgotten, IInv, Typed
<1> QED BY <1>1, <1>4, DiePreserves

\* A database created in an empty directory.
LEMMA CreatedAtHome ==
  ASSUME NEW f, IsFiles(f), NEW dir \in Dirs, KeysIn(f, dir) = {}, NEW y \in Years,
         NEW o \in accessMessageDb(f, NewSet(dir, "YEARLY"), y)
  PROVE  /\ IsFiles(o.fs) /\ IsSet(o.set) /\ o.set.dir = dir /\ o.set.org = "YEARLY"
         /\ o.res \in {"ok", "fail"}
         /\ o.res = "fail" => o.fs = f
         /\ o.res = "ok" => /\ AtHome(o.fs, o.set) /\ DOMAIN o.set.open # {}
                            /\ dbOrganisation(o.fs, dir) = "YEARLY"
                            /\ \A q \in DOMAIN f : q \in DOMAIN o.fs /\ o.fs[q] = f[q]
<1> DEFINE set == NewSet(dir, "YEARLY")
           p == <<dir, y>>
<1>1. IsSet(set) /\ set.dir = dir /\ set.org = "YEARLY" /\ DOMAIN set.open = {}
  BY NewSetFacts DEF Organisations
<1>2. y \in Keys /\ y # Single /\ p \in Paths
  BY PathFacts
<1> HIDE DEF set
<1>3. o \in accessMessageDb(f, set, y)
  BY DEF set
<1>4. /\ IsFiles(o.fs) /\ IsSet(o.set) /\ o.set.dir = dir /\ o.set.org = "YEARLY"
      /\ o.res \in {"ok", "fail"}
      /\ o.res = "fail" => o.fs = f
      /\ o.res = "ok" => /\ DOMAIN o.set.open = {y} /\ o.fs = Touch(f, p)
                         /\ o.set.open[y] = Opened(p)
  BY <1>1, <1>2, <1>3, AccessFacts
<1>5. CASE o.res = "ok"
  <2>1. DOMAIN o.fs = DOMAIN f \cup {p} /\ \A q \in DOMAIN f : o.fs[q] = f[q]
    <3>1. IsTouched(o.fs, f, p)
      BY <1>2, <1>4, <1>5, TouchFacts
    <3> QED BY ONLY <3>1 DEF IsTouched
  <2>2. KeysIn(o.fs, dir) = {y}
    <3>1. \A k \in Keys : <<dir, k>> \in DOMAIN o.fs <=> k = y
      BY <1>2, <2>1 DEF KeysIn
    <3> QED BY <1>2, <3>1 DEF KeysIn
  <2>3. dbOrganisation(o.fs, dir) = "YEARLY"
    BY <1>2, <2>2, OrganisationFacts
  <2>4. AtHome(o.fs, o.set)
    BY <1>2, <1>4, <1>5, <2>1 DEF AtHome, Opened
  <2> QED BY <1>4, <1>5, <2>1, <2>3, <2>4
<1>6. CASE o.res = "fail"
  BY <1>4, <1>6
<1> QED BY <1>4, <1>5, <1>6

\* The next start loads what it finds.
LEMMA RestartPreserves ==
  ASSUME IInv, Restart
  PROVE  IInv'
<1>1. PICK o \in accessDbSet(fs, saved) :
        fs' = o.fs /\ dbSet' = IF o.res = "ok" THEN o.set ELSE None
  BY DEF Restart
<1>2. /\ phase = "down" /\ phase' = "idle" /\ settings' = saved
      /\ UNCHANGED <<saved, newDbDir, yearList, dstDbSet, result, original, ops, stored, astray>>
      /\ IsFiles(fs) /\ saved \in Dirs /\ result # "ok"
  BY DEF Restart, split, IInv, Typed, Directories
<1>3. CommitsHold /\ ~astray => stored \subseteq OnDisk(fs, saved)
  <2>1. CommitsHold => NothingForgotten
    BY DEF IInv
  <2>2. Home = saved
    BY <1>2 DEF Home
  <2> QED BY <2>1, <2>2 DEF NothingForgotten
<1>4. /\ IsFiles(o.fs) /\ IsSet(o.set)
      /\ \A q \in DOMAIN fs : q \in DOMAIN o.fs /\ o.fs[q] = fs[q]
      /\ o.res = "ok" =>
           /\ AtHome(o.fs, o.set) /\ DOMAIN o.set.open # {} /\ o.set.dir = saved
           /\ dbOrganisation(o.fs, saved) = o.set.org
           /\ \A m \in OnDisk(fs, saved) : Holds(o.fs, o.set, m)
  <2>1. CASE KeysIn(fs, saved) = {}
    <3>1. PICK y \in Years : o \in accessMessageDb(fs, NewSet(saved, "YEARLY"), y)
      BY <2>1 DEF accessDbSet
    <3>2. OnDisk(fs, saved) = {}
      BY <2>1 DEF OnDisk
    <3> QED BY <1>2, <2>1, <3>1, <3>2, CreatedAtHome
  <2>2. CASE KeysIn(fs, saved) # {} /\ dbOrganisation(fs, saved) = "UNKNOWN"
    <3>1. o = Outcome("fail", fs, NewSet(saved, "UNKNOWN"))
      BY <2>2 DEF accessDbSet
    <3>2. IsSet(NewSet(saved, "UNKNOWN"))
      BY <1>2, NewSetFacts DEF Organisations
    <3> QED BY <1>2, <3>1, <3>2 DEF Outcome
  <2>3. CASE KeysIn(fs, saved) # {} /\ dbOrganisation(fs, saved) # "UNKNOWN"
    <3>1. o = Outcome("ok", fs, Loaded(fs, saved))
      BY <2>3 DEF accessDbSet
    <3>2. o.res = "ok" /\ o.fs = fs /\ o.set = Loaded(fs, saved)
      BY <3>1 DEF Outcome
    <3>3. IsSet(o.set) /\ o.set.org # "UNKNOWN"
      BY <1>2, <2>3, <3>2, LoadedFacts
    <3> QED BY <1>2, <3>2, <3>3, LoadedAtHome
  <2> QED BY <2>1, <2>2, <2>3
<1>5. InUse' => dbSet' = o.set /\ o.res = "ok"
  BY <1>1 DEF InUse
<1>6. Typed'
  BY <1>1, <1>2, <1>4 DEF IInv, Typed, Phases
<1>7. Directories'
  BY <1>2 DEF Directories
<1>8. SingleThere' /\ UsedThere'
  BY <1>1, <1>2, <1>3, <1>4, <1>5 DEF SingleThere, UsedThere
<1>9. PartsThere' /\ Copying' /\ OnOriginal' /\ Moving' /\ Deleting' /\ Opening'
  BY <1>2 DEF PartsThere, Copying, OnOriginal, Moving, Deleting, Opening
<1>10. BackupThere'
  BY <1>2 DEF BackupThere
<1>11. CommitsHold => NothingForgotten'
  <2>1. OnDisk(fs, saved) \subseteq OnDisk(o.fs, saved)
    <3>1. ASSUME NEW m \in OnDisk(fs, saved)
          PROVE  m \in OnDisk(o.fs, saved)
      <4>1. PICK k \in Keys : <<saved, k>> \in DOMAIN fs /\ m \in fs[<<saved, k>>]
        BY <1>2, OnDiskFacts
      <4>2. <<saved, k>> \in DOMAIN o.fs /\ m \in o.fs[<<saved, k>>]
        BY <1>4, <4>1
      <4> QED BY <1>4, <4>2, OnDiskFacts
    <3> QED BY <3>1
  <2> QED BY <1>1, <1>2, <1>3, <2>1 DEF NothingForgotten, Home
<1> QED BY <1>6, <1>7, <1>8, <1>9, <1>10, <1>11 DEF IInv

-----------------------------------------------------------------------------
(* The beginning, saving the settings, and doing nothing. *)

\* The invariant holds at first.
LEMMA InitInvariant ==
  ASSUME Init
  PROVE  IInv
<1>1. PICK dir \in Dirs, ms \in SUBSET Messages :
       /\ settings = dir /\ saved = dir
       /\ stored = ms
       /\ fs = IF StartOrg = "SINGLE_FILE"
               THEN [p \in {<<dir, Single>>} |-> ms]
               ELSE [p \in {<<dir, YearOf[m]>> : m \in ms} |->
                       {m \in ms : YearOf[m] = p[2]}]
       /\ DOMAIN fs # {}
       /\ dbSet = Loaded(fs, dir)
  BY DEF Init
<1>2. /\ phase = "idle" /\ newDbDir = None /\ yearList = {} /\ dstDbSet = None
      /\ result = "none" /\ original = {} /\ ops = 0 /\ astray = FALSE
  BY DEF Init
<1>3. \A m \in ms : YearOf[m] \in Years
  BY StorageAssumption
<1>4. /\ IsFiles(fs) /\ dbOrganisation(fs, dir) # "UNKNOWN"
      /\ \A m \in ms : m \in OnDisk(fs, dir)
  <2>1. CASE StartOrg = "SINGLE_FILE"
    <3>1. DOMAIN fs = {<<dir, Single>>} /\ fs[<<dir, Single>>] = ms
          /\ fs \in [DOMAIN fs -> SUBSET Messages]
      BY <1>1, <2>1
    <3>2. IsFiles(fs)
      BY <3>1, PathFacts DEF IsFiles
    <3>3. \A k \in Keys : <<dir, k>> \in DOMAIN fs <=> k = Single
      BY <3>1
    <3>4. KeysIn(fs, dir) = {Single}
      BY <3>3, PathFacts DEF KeysIn
    <3>5. dbOrganisation(fs, dir) = "SINGLE_FILE"
      BY <3>4, OrganisationFacts
    <3> QED BY <3>1, <3>2, <3>5, OnDiskFacts
  <2>2. CASE StartOrg # "SINGLE_FILE"
    <3> DEFINE paths == {<<dir, YearOf[m]>> : m \in ms}
    <3>1. fs = [p \in paths |-> {m \in ms : YearOf[m] = p[2]}]
      BY <1>1, <2>2
    <3>2. \A m \in ms : <<dir, YearOf[m]>> \in paths
      OBVIOUS
    <3>3. \A p \in paths : p[1] = dir /\ p[2] \in Years /\ p = <<dir, p[2]>> /\ p \in Paths
      BY <1>3, PathFacts
    <3>4. paths # {}
      BY <1>1, <3>1
    <3> HIDE DEF paths
    <3>5. IsFiles(fs)
      BY <3>1, <3>3 DEF IsFiles
    <3>6. DOMAIN fs = paths
      BY <3>1
    <3>7. Single \notin KeysIn(fs, dir)
      <4>1. <<dir, Single>>[2] = Single
        OBVIOUS
      <4>2. <<dir, Single>> \notin paths
        BY <3>3, <4>1, PathFacts
      <4> QED BY <3>6, <4>2 DEF KeysIn
    <3>8. KeysIn(fs, dir) # {}
      <4>1. PICK p : p \in paths
        BY <3>4
      <4>2. p[2] \in KeysIn(fs, dir)
        BY <3>3, <3>6, <4>1, PathFacts DEF KeysIn
      <4> QED BY <4>2
    <3>9. dbOrganisation(fs, dir) # "UNKNOWN"
      BY <3>7, <3>8 DEF dbOrganisation
    <3>10. ASSUME NEW m \in ms
           PROVE  m \in OnDisk(fs, dir)
      <4>1. YearOf[m] \in Keys /\ <<dir, YearOf[m]>> \in DOMAIN fs
        BY <1>3, <3>2, <3>6, PathFacts
      <4>2. <<dir, YearOf[m]>>[2] = YearOf[m]
        OBVIOUS
      <4>3. m \in fs[<<dir, YearOf[m]>>]
        BY <3>1, <3>2, <4>2
      <4> QED BY <3>5, <4>1, <4>3, OnDiskFacts
    <3> QED BY <3>5, <3>9, <3>10
  <2> QED BY <2>1, <2>2
<1>5. /\ IsSet(dbSet) /\ dbSet.dir = dir /\ dbSet.org = dbOrganisation(fs, dir)
      /\ AtHome(fs, dbSet) /\ DOMAIN dbSet.open # {}
      /\ \A m \in ms : Holds(fs, dbSet, m)
  <2>1. /\ IsSet(dbSet) /\ dbSet.dir = dir /\ dbSet.org = dbOrganisation(fs, dir)
        /\ dbSet.org # "UNKNOWN" =>
             /\ AtHome(fs, dbSet) /\ DOMAIN dbSet.open # {}
             /\ \A m \in OnDisk(fs, dir) : Holds(fs, dbSet, m)
    <3>1. dbSet = Loaded(fs, dir) /\ IsFiles(fs) /\ dir \in Dirs
      BY <1>1, <1>4
    <3> QED BY ONLY <3>1, LoadedFacts
  <2> QED BY <1>4, <2>1
<1>6. Typed
  <2>1. /\ settings \in Dirs /\ saved \in Dirs /\ phase \in Phases /\ yearList \subseteq Years
        /\ stored \subseteq Messages /\ original \subseteq Messages /\ astray \in BOOLEAN
        /\ newDbDir \in Dirs \cup {None} /\ result \in {"none", "ok", "failed", "moved away"}
    BY <1>1, <1>2 DEF Phases
  <2>2. ops \in 0 .. MaxOps
    BY <1>2, MaintenanceAssumption
  <2> QED BY <1>2, <1>4, <1>5, <2>1, <2>2 DEF Typed
<1>7. Directories /\ BackupThere
  BY <1>1, <1>2 DEF Directories, BackupThere
<1>8. SingleThere /\ UsedThere
  BY <1>1, <1>5 DEF SingleThere, UsedThere
<1>9. PartsThere /\ Copying /\ OnOriginal /\ Moving /\ Deleting /\ Opening
  BY <1>2 DEF PartsThere, Copying, OnOriginal, Moving, Deleting, Opening
<1>10. NothingForgotten
  BY <1>1, <1>2, <1>4 DEF NothingForgotten, Home
<1> QED BY <1>6, <1>7, <1>8, <1>9, <1>10 DEF IInv

\* Nothing happens.
LEMMA StutteringPreserves ==
  ASSUME IInv, UNCHANGED vars
  PROVE  IInv'
<1>1. /\ UNCHANGED <<fs, dbSet, settings, saved, phase, newDbDir, yearList, dstDbSet, result>>
      /\ UNCHANGED <<ops, stored, original, astray>>
  BY DEF vars, split
<1>2. InUse' <=> InUse
  BY <1>1 DEF InUse
<1>3. Typed' /\ Directories' /\ BackupThere'
  BY <1>1 DEF IInv, Typed, Directories, BackupThere
<1>4. SingleThere' /\ UsedThere'
  BY <1>1, <1>2 DEF IInv, SingleThere, UsedThere
<1>5. PartsThere' /\ Copying' /\ OnOriginal' /\ Moving' /\ Deleting' /\ Opening'
  BY <1>1 DEF IInv, PartsThere, Copying, OnOriginal, Moving, Deleting, Opening
<1>6. CommitsHold => NothingForgotten'
  BY <1>1 DEF IInv, NothingForgotten, Home
<1> QED BY <1>3, <1>4, <1>5, <1>6 DEF IInv

\* The settings that name the directory are saved.
LEMMA SaveSettingsPreserves ==
  ASSUME IInv, SaveSettings
  PROVE  IInv'
<1>1. /\ UNCHANGED <<fs, dbSet, settings, newDbDir, yearList, dstDbSet, result>>
      /\ UNCHANGED <<ops, stored, original, astray>>
      /\ phase = "unsaved" /\ phase' = "idle" /\ saved' = settings
  BY DEF SaveSettings, split
<1>2. InUse' <=> InUse
  BY <1>1 DEF InUse
<1>3. Typed' /\ Directories' /\ BackupThere'
  BY <1>1 DEF IInv, Typed, Directories, BackupThere, Phases
<1>4. SingleThere' /\ UsedThere'
  BY <1>1, <1>2 DEF IInv, SingleThere, UsedThere
<1>5. PartsThere' /\ Copying' /\ OnOriginal' /\ Moving' /\ Deleting' /\ Opening'
  BY <1>1 DEF PartsThere, Copying, OnOriginal, Moving, Deleting, Opening
<1>6. CommitsHold => NothingForgotten'
  BY <1>1 DEF IInv, NothingForgotten, Home
<1> QED BY <1>3, <1>4, <1>5, <1>6 DEF IInv

-----------------------------------------------------------------------------
(* The end of a split. *)

\* The yearly files are opened in place of the deleted original.
LEMMA SplitOpenPreserves ==
  ASSUME IInv, SplitOpen
  PROVE  IInv'
<1> DEFINE o == openLocation(fs, dbSet, settings, dbSet.org)
<1>1. /\ phase = "open" /\ phase' = "idle" /\ dbSet' = o.set
      /\ result' = IF o.res = "ok" THEN "ok" ELSE "failed"
      /\ dstDbSet' = None /\ yearList' = {}
      /\ UNCHANGED <<fs, settings, saved, newDbDir, ops, stored, original, astray>>
  BY DEF SplitOpen, EndSplit
<1>2. /\ IsFiles(fs) /\ settings \in Dirs /\ saved = settings
      /\ IsSet(dbSet) /\ dbSet.org = "UNKNOWN"
  BY <1>1 DEF IInv, Typed, Directories, Opening
<1>3. CommitsHold => NothingForgotten
  BY DEF IInv
<1>4. CommitsHold /\ ~astray => stored \subseteq OnDisk(fs, settings)
  BY <1>1, <1>2, <1>3 DEF NothingForgotten, Home
<1>5. \/ o.res = "ok" /\ o.set = Loaded(fs, settings) /\ dbOrganisation(fs, settings) # "UNKNOWN"
      \/ o.res = "fail" /\ o.set = dbSet
  BY <1>2, OpenFacts
<1> HIDE DEF o
<1>6. IsSet(dbSet') /\ (InUse' => dbSet' = Loaded(fs, settings))
  BY <1>1, <1>2, <1>5, LoadedFacts DEF InUse
<1>7. Typed'
  BY <1>1, <1>2, <1>6 DEF IInv, Typed, Phases
<1>8. Directories'
  BY <1>1, <1>2 DEF Directories
<1>9. BackupThere'
  BY <1>1 DEF IInv, BackupThere
<1>10. InUse' => /\ AtHome(fs, dbSet') /\ DOMAIN (dbSet').open # {} /\ (dbSet').dir = settings
                 /\ dbOrganisation(fs, settings) = (dbSet').org
                 /\ \A m \in OnDisk(fs, settings) : Holds(fs, dbSet', m)
  BY <1>2, <1>6, LoadedAtHome DEF InUse
<1>11. SingleThere' /\ UsedThere'
  BY <1>1, <1>4, <1>10 DEF SingleThere, UsedThere
<1>12. PartsThere' /\ Copying' /\ OnOriginal' /\ Moving' /\ Deleting' /\ Opening'
  BY <1>1 DEF PartsThere, Copying, OnOriginal, Moving, Deleting, Opening
<1>13. CommitsHold => NothingForgotten'
  BY <1>1, <1>2, <1>3, <1>4 DEF NothingForgotten, Home
<1> QED BY <1>7, <1>8, <1>9, <1>11, <1>12, <1>13 DEF IInv

\* What is left when files of a single database in use are removed.
LEMMA DeletedFacts ==
  ASSUME NEW f, IsFiles(f), NEW set, IsSet(set), AtHome(f, set), set.org = "SINGLE_FILE",
         NEW o \in deleteLocation(f, set)
  PROVE  /\ o.res \in {"ok", "fail", "crash"}
         /\ IsFiles(o.fs)
         /\ \A q \in DOMAIN f : q # <<set.dir, Single>> => q \in DOMAIN o.fs /\ o.fs[q] = f[q]
         /\ o.res = "ok" => <<set.dir, Single>> \notin DOMAIN o.fs
         /\ \A q \in DOMAIN o.fs : q \in DOMAIN f /\ o.fs[q] = f[q]
         /\ o.res # "crash" => o.set = NewSet(set.dir, "UNKNOWN")
<1> DEFINE files == {set.open[k].name : k \in DOMAIN set.open}
           p == <<set.dir, Single>>
<1>1. files = {p}
  BY DEF AtHome
<1>2. \/ o = Outcome("ok", Erase(f, files), NewSet(set.dir, "UNKNOWN"))
      \/ \E kept \in SUBSET files : o = Outcome("fail", Erase(f, files \ kept), NewSet(set.dir, "UNKNOWN"))
      \/ \E lost \in SUBSET files : o = Outcome("crash", Erase(f, lost), set)
  BY DEF deleteLocation, Crashes
<1> HIDE DEF files
<1>3. PICK lost \in SUBSET {p} :
        /\ o.res \in {"ok", "fail", "crash"}
        /\ o.fs = Erase(f, lost)
        /\ o.res = "ok" => lost = {p}
        /\ o.res # "crash" => o.set = NewSet(set.dir, "UNKNOWN")
  <2>1. CASE o = Outcome("ok", Erase(f, files), NewSet(set.dir, "UNKNOWN"))
    BY <1>1, <2>1 DEF Outcome
  <2>2. CASE \E kept \in SUBSET files : o = Outcome("fail", Erase(f, files \ kept), NewSet(set.dir, "UNKNOWN"))
    <3>1. PICK kept : o = Outcome("fail", Erase(f, files \ kept), NewSet(set.dir, "UNKNOWN"))
      BY <2>2
    <3>2. files \ kept \in SUBSET {p}
      BY <1>1
    <3> QED BY <3>1, <3>2 DEF Outcome
  <2>3. CASE \E lost \in SUBSET files : o = Outcome("crash", Erase(f, lost), set)
    BY <1>1, <2>3 DEF Outcome
  <2> QED BY <1>2, <2>1, <2>2, <2>3
<1>4. /\ IsFiles(o.fs) /\ DOMAIN o.fs = DOMAIN f \ lost
      /\ \A q \in DOMAIN o.fs : o.fs[q] = f[q]
  <2>1. IsFiles(f) /\ o.fs = Erase(f, lost)
    BY <1>3
  <2> QED BY ONLY <2>1 DEF Erase, IsFiles
<1> QED BY <1>3, <1>4

\* The original is deleted, or stays when that fails.
LEMMA SplitDeletePreserves ==
  ASSUME IInv, SplitDelete
  PROVE  IInv'
<1>1. PICK o \in deleteLocation(fs, dbSet) :
       CASE o.res = "crash" -> Die(o.fs)
         [] OTHER ->
              /\ fs' = o.fs /\ dbSet' = o.set
              /\ IF o.res = "ok"
                 THEN phase' = "open" /\ UNCHANGED <<result, dstDbSet, yearList>>
                 ELSE EndSplit("failed")
              /\ UNCHANGED <<settings, saved, newDbDir, original, stored>>
  BY DEF SplitDelete
<1>2. phase = "delete" /\ UNCHANGED <<ops, astray>>
  BY DEF SplitDelete
<1>3. /\ IsFiles(fs) /\ settings \in Dirs /\ saved = settings /\ result # "ok"
      /\ newDbDir \in Dirs /\ newDbDir # settings
      /\ IsSet(dbSet) /\ dbSet.org = "SINGLE_FILE" /\ dbSet.dir = settings /\ AtHome(fs, dbSet)
      /\ ops \in 0 .. MaxOps /\ astray \in BOOLEAN
  BY <1>2 DEF IInv, Typed, Directories, OnOriginal
<1>4. CommitsHold /\ ~astray => \A m \in stored : Filed(fs, settings, m)
  BY <1>2 DEF IInv, Deleting
<1>5. /\ o.res \in {"ok", "fail", "crash"}
      /\ IsFiles(o.fs)
      /\ \A q \in DOMAIN fs : q # <<settings, Single>> => q \in DOMAIN o.fs /\ o.fs[q] = fs[q]
      /\ o.res = "ok" => <<settings, Single>> \notin DOMAIN o.fs
      /\ o.res # "crash" => o.set = NewSet(settings, "UNKNOWN")
  BY <1>3, DeletedFacts
<1>6. CommitsHold /\ ~astray => stored \subseteq OnDisk(o.fs, settings)
  <2>1. SUFFICES ASSUME CommitsHold, ~astray, NEW m \in stored
                 PROVE  m \in OnDisk(o.fs, settings)
    OBVIOUS
  <2>2. PICK y \in Years : <<settings, y>> \in DOMAIN fs /\ m \in fs[<<settings, y>>]
    BY <1>4, <2>1 DEF Filed
  <2>3. <<settings, y>> # <<settings, Single>>
    BY PathFacts
  <2>4. Filed(o.fs, settings, m)
    BY <1>5, <2>2, <2>3 DEF Filed
  <2> QED BY <1>5, <2>4, FiledOnDisk
<1>7. CASE o.res = "crash"
  <2>1. Die(o.fs)
    BY <1>1, <1>7
  <2>2. CommitsHold => astray' \/ stored \subseteq OnDisk(o.fs, saved)
    BY <1>2, <1>3, <1>6
  <2> QED BY <1>2, <1>3, <1>5, <2>1, <2>2, DiePreserves
<1>8. CASE o.res # "crash"
  <2>1. /\ fs' = o.fs /\ dbSet' = NewSet(settings, "UNKNOWN")
        /\ UNCHANGED <<settings, saved, newDbDir, original, stored, ops, astray>>
        /\ \/ /\ o.res = "ok" /\ phase' = "open" /\ UNCHANGED <<result, dstDbSet, yearList>>
           \/ /\ o.res # "ok" /\ phase' = "idle" /\ result' = "failed"
              /\ dstDbSet' = None /\ yearList' = {}
    BY <1>1, <1>2, <1>5, <1>8 DEF EndSplit
  <2>2. IsSet(dbSet') /\ (dbSet').org = "UNKNOWN" /\ (dbSet').dir = settings
    BY <1>3, <2>1, NewSetFacts DEF Organisations
  <2>3. Typed'
    BY <1>2, <1>5, <2>1, <2>2 DEF IInv, Typed, Phases
  <2>4. Directories'
    BY <1>3, <2>1 DEF Directories
  <2>5. SingleThere' /\ UsedThere'
    BY <2>2 DEF SingleThere, UsedThere, InUse
  <2>6. PartsThere' /\ Copying' /\ OnOriginal' /\ Moving' /\ Deleting'
    BY <2>1 DEF PartsThere, Copying, OnOriginal, Moving, Deleting
  <2>7. Opening'
    BY <1>5, <2>1, <2>2 DEF Opening
  <2>8. BackupThere'
    <3>1. <<newDbDir, Single>> # <<settings, Single>>
      BY <1>3
    <3> QED BY <1>2, <1>3, <1>5, <2>1, <3>1 DEF IInv, BackupThere
  <2>9. CommitsHold => NothingForgotten'
    BY <1>3, <1>6, <2>1 DEF NothingForgotten, Home
  <2> QED BY <2>3, <2>4, <2>5, <2>6, <2>7, <2>8, <2>9 DEF IInv
<1> QED BY <1>7, <1>8

-----------------------------------------------------------------------------
(* The new files are moved beside the original. *)

\* The only file of the original says what has been stored.
LEMMA OriginalHas ==
  ASSUME IInv, phase = "move"
  PROVE  /\ IsFiles(fs) /\ settings \in Dirs /\ saved = settings /\ result # "ok"
         /\ newDbDir \in Dirs /\ newDbDir # settings
         /\ IsSet(dbSet) /\ dbSet.org = "SINGLE_FILE" /\ dbSet.dir = settings
         /\ AtHome(fs, dbSet)
         /\ IsSet(dstDbSet) /\ dstDbSet.org = "YEARLY" /\ dstDbSet.dir = newDbDir
         /\ AtHome(fs, dstDbSet)
         /\ \A k \in Keys : <<settings, k>> \in DOMAIN fs <=> k = Single
         /\ original = fs[<<settings, Single>>]
         /\ CommitsHold /\ ~astray => stored \subseteq original
         /\ CommitsHold => \A m \in original : Holds(fs, dstDbSet, m)
         /\ ops \in 0 .. MaxOps /\ astray \in BOOLEAN
<1>1. /\ IsFiles(fs) /\ settings \in Dirs /\ saved = settings /\ result # "ok"
      /\ newDbDir \in Dirs /\ newDbDir # settings
      /\ IsSet(dbSet) /\ dbSet.org = "SINGLE_FILE" /\ dbSet.dir = settings
      /\ AtHome(fs, dbSet)
      /\ IsSet(dstDbSet) /\ dstDbSet.org = "YEARLY" /\ dstDbSet.dir = newDbDir
      /\ AtHome(fs, dstDbSet)
      /\ ops \in 0 .. MaxOps /\ astray \in BOOLEAN
  BY DEF IInv, Typed, Directories, OnOriginal, PartsThere
<1>2. /\ dbOrganisation(fs, settings) = "SINGLE_FILE"
      /\ original = fs[<<settings, Single>>]
      /\ CommitsHold => \A m \in original : Holds(fs, dstDbSet, m)
  BY DEF IInv, Moving
<1>3. \A k \in Keys : <<settings, k>> \in DOMAIN fs <=> k = Single
  BY <1>2, OrganisationFacts, PathFacts
<1>4. OnDisk(fs, settings) = original
  BY <1>1, <1>2, OnDiskFacts
<1>5. CommitsHold => NothingForgotten
  BY DEF IInv
<1>6. Home = settings
  BY <1>1 DEF Home
<1>7. CommitsHold /\ ~astray => stored \subseteq original
  BY <1>4, <1>5, <1>6 DEF NothingForgotten
<1> QED BY <1>1, <1>2, <1>3, <1>7

\* The files of the years come beside the original.
LEMMA SplitMovePreserves ==
  ASSUME IInv, SplitMove
  PROVE  IInv'
<1>1. PICK o \in Transfer(fs, dstDbSet, settings, TRUE) :
       CASE o.res = "crash" -> Die(o.fs)
         [] OTHER ->
              /\ fs' = o.fs
              /\ IF o.res = "ok"
                 THEN phase' = "delete" /\ dstDbSet' = o.set /\ UNCHANGED <<result, yearList>>
                 ELSE EndSplit("failed")
              /\ UNCHANGED <<dbSet, settings, saved, newDbDir, original, stored>>
  BY DEF SplitMove
<1>2. phase = "move" /\ UNCHANGED <<ops, astray>>
  BY DEF SplitMove
<1>3. /\ IsFiles(fs) /\ settings \in Dirs /\ saved = settings /\ result # "ok"
      /\ newDbDir \in Dirs /\ newDbDir # settings
      /\ IsSet(dbSet) /\ dbSet.org = "SINGLE_FILE" /\ dbSet.dir = settings
      /\ AtHome(fs, dbSet)
      /\ IsSet(dstDbSet) /\ dstDbSet.org = "YEARLY" /\ dstDbSet.dir = newDbDir
      /\ AtHome(fs, dstDbSet)
  BY <1>2, OriginalHas
<1>4. /\ \A k \in Keys : <<settings, k>> \in DOMAIN fs <=> k = Single
      /\ original = fs[<<settings, Single>>]
      /\ CommitsHold /\ ~astray => stored \subseteq original
      /\ CommitsHold => \A m \in original : Holds(fs, dstDbSet, m)
      /\ ops \in 0 .. MaxOps /\ astray \in BOOLEAN
  BY <1>2, OriginalHas
<1>5. IsFiles(o.fs) /\ IsSet(o.set) /\ o.res \in {"ok", "fail", "crash"}
  BY <1>3, TransferTyped DEF IsOutcome
<1>6. Transferred(o, fs, dstDbSet, settings, TRUE)
  BY <1>3, TransferAtHome
<1>7. Single \notin DOMAIN dstDbSet.open /\ Single \in Keys
  BY <1>3, PathFacts DEF AtHome
<1>8. /\ <<settings, Single>> \in DOMAIN o.fs /\ o.fs[<<settings, Single>>] = original
      /\ SameAt(fs, o.fs, <<newDbDir, Single>>)
  <2>1. SameAt(fs, o.fs, <<settings, Single>>) /\ SameAt(fs, o.fs, <<newDbDir, Single>>)
    BY <1>3, <1>6, <1>7 DEF Transferred
  <2> QED BY <1>4, <1>7, <2>1 DEF SameAt
<1>9. AtHome(o.fs, dbSet)
  BY <1>3, <1>8 DEF AtHome
<1>10. original \subseteq OnDisk(o.fs, settings)
  BY <1>5, <1>7, <1>8, OnDiskFacts
<1>11. CASE o.res = "crash"
  <2>1. Die(o.fs)
    BY <1>1, <1>11
  <2>2. CommitsHold => astray' \/ stored \subseteq OnDisk(o.fs, saved)
    BY <1>2, <1>3, <1>4, <1>10
  <2> QED BY <1>2, <1>4, <1>5, <2>1, <2>2, DiePreserves
<1>12. CASE o.res # "crash"
  <2>1. /\ fs' = o.fs
        /\ UNCHANGED <<dbSet, settings, saved, newDbDir, original, stored, ops, astray>>
        /\ \/ /\ o.res = "ok" /\ phase' = "delete" /\ dstDbSet' = o.set
              /\ UNCHANGED <<result, yearList>>
           \/ /\ o.res = "fail" /\ phase' = "idle" /\ result' = "failed"
              /\ dstDbSet' = None /\ yearList' = {}
    BY <1>1, <1>2, <1>5, <1>12 DEF EndSplit
  <2>2. Typed'
    BY <1>2, <1>5, <2>1 DEF IInv, Typed, Phases
  <2>3. Directories'
    BY <1>3, <2>1 DEF Directories
  <2>4. SingleThere'
    BY <1>3, <1>9, <2>1 DEF SingleThere
  <2>5. UsedThere'
    <3>1. SUFFICES ASSUME InUse', ~astray'
                   PROVE  /\ AtHome(fs', dbSet') /\ DOMAIN (dbSet').open # {}
                          /\ (dbSet').dir = settings'
                          /\ dbOrganisation(fs', settings') = (dbSet').org
                          /\ CommitsHold => \A m \in stored' : Holds(fs', dbSet', m)
      BY DEF UsedThere
    <3>2. o.res = "fail"
      BY <2>1, <3>1 DEF InUse
    <3>3. DOMAIN dbSet.open = {Single}
      BY <1>3 DEF AtHome
    <3>4. \A k \in Keys : <<settings, k>> \in DOMAIN o.fs <=> k = Single
      BY <1>4, <1>6, <1>8, <3>2 DEF Transferred
    <3>5. dbOrganisation(o.fs, settings) = "SINGLE_FILE"
      <4>1. KeysIn(o.fs, settings) = {Single}
        BY <1>7, <3>4 DEF KeysIn
      <4> QED BY <4>1, OrganisationFacts
    <3>6. CommitsHold => \A m \in stored : Holds(o.fs, dbSet, m)
      BY <1>3, <1>4, <1>8, <2>1, <3>1, <3>3 DEF Holds
    <3> QED BY <1>3, <1>9, <2>1, <3>3, <3>5, <3>6
  <2>6. PartsThere' /\ Copying' /\ Moving' /\ Opening'
    BY <2>1 DEF PartsThere, Copying, Moving, Opening
  <2>7. OnOriginal'
    BY <1>3, <1>9, <2>1 DEF OnOriginal
  <2>8. Deleting'
    <3>1. SUFFICES ASSUME phase' = "delete", ~astray', CommitsHold, NEW m \in stored
                   PROVE  Filed(o.fs, settings, m)
      BY <2>1 DEF Deleting
    <3>2. o.res = "ok" /\ Holds(fs, dstDbSet, m)
      BY <1>4, <2>1, <3>1
    <3>3. PICK k \in DOMAIN dstDbSet.open : m \in fs[<<newDbDir, k>>]
      BY <1>3, <3>2 DEF Holds
    <3>4. k \in Years
      BY <1>3, <1>7, PathFacts DEF IsSet
    <3>5. o.fs[<<settings, k>>] = fs[<<newDbDir, k>>]
      BY <1>3, <1>6, <3>2 DEF Transferred
    <3>6. <<settings, k>> \in DOMAIN o.fs
      <4>1. AtHome(o.fs, o.set)
        BY <1>6, <3>2 DEF Transferred
      <4>2. o.set.dir = settings /\ DOMAIN o.set.open = DOMAIN dstDbSet.open
        <5>1. IsOutcome(o, dstDbSet, settings)
          BY <1>3, TransferTyped
        <5> QED BY <3>2, <5>1 DEF IsOutcome
      <4> QED BY <4>1, <4>2 DEF AtHome
    <3> QED BY <3>3, <3>4, <3>5, <3>6 DEF Filed
  <2>9. BackupThere'
    BY <1>2, <1>8, <2>1 DEF IInv, BackupThere, SameAt
  <2>10. CommitsHold => NothingForgotten'
    BY <1>3, <1>4, <1>10, <2>1 DEF NothingForgotten, Home
  <2> QED BY <2>2, <2>3, <2>4, <2>5, <2>6, <2>7, <2>8, <2>9, <2>10 DEF IInv
<1> QED BY <1>11, <1>12

-----------------------------------------------------------------------------
(* The original is opened again. *)

\* What holds while the years are copied.
LEMMA CopyingFacts ==
  ASSUME IInv, phase = "years"
  PROVE  /\ IsFiles(fs) /\ settings \in Dirs /\ saved = settings /\ result # "ok"
         /\ newDbDir \in Dirs /\ newDbDir # settings
         /\ IsSet(dbSet) /\ dbSet.org = "SINGLE_FILE" /\ dbSet.dir = newDbDir
         /\ AtHome(fs, dbSet) /\ DOMAIN dbSet.open = {Single}
         /\ IsSet(dstDbSet) /\ dstDbSet.org = "YEARLY" /\ dstDbSet.dir = newDbDir
         /\ AtHome(fs, dstDbSet)
         /\ <<newDbDir, Single>> \in DOMAIN fs
         /\ original = OnDisk(fs, settings)
         /\ dbOrganisation(fs, settings) = "SINGLE_FILE" =>
              original = fs[<<settings, Single>>] /\ original \subseteq fs[<<newDbDir, Single>>]
         /\ ~astray => dbOrganisation(fs, settings) = "SINGLE_FILE"
         /\ CommitsHold /\ ~astray => stored \subseteq original
<1>1. /\ IsFiles(fs) /\ settings \in Dirs /\ saved = settings /\ result # "ok"
      /\ newDbDir \in Dirs /\ newDbDir # settings
      /\ IsSet(dstDbSet) /\ dstDbSet.org = "YEARLY" /\ dstDbSet.dir = newDbDir
      /\ AtHome(fs, dstDbSet)
  BY DEF IInv, Typed, Directories, PartsThere
<1>2. /\ IsSet(dbSet) /\ dbSet.org = "SINGLE_FILE" /\ dbSet.dir = newDbDir
      /\ AtHome(fs, dbSet)
      /\ original = OnDisk(fs, settings)
      /\ dbOrganisation(fs, settings) = "SINGLE_FILE" => original \subseteq fs[<<newDbDir, Single>>]
      /\ ~astray => dbOrganisation(fs, settings) = "SINGLE_FILE"
  BY DEF IInv, Copying
<1>3. DOMAIN dbSet.open = {Single} /\ <<newDbDir, Single>> \in DOMAIN fs
  BY <1>2 DEF AtHome
<1>4. dbOrganisation(fs, settings) = "SINGLE_FILE" => original = fs[<<settings, Single>>]
  BY <1>1, <1>2, OnDiskFacts
<1>5. CommitsHold => NothingForgotten
  BY DEF IInv
<1>6. Home = settings
  BY <1>1 DEF Home
<1>7. CommitsHold /\ ~astray => stored \subseteq original
  BY <1>2, <1>5, <1>6 DEF NothingForgotten
<1> QED BY <1>1, <1>2, <1>3, <1>4, <1>7

\* The set returns to the original or finds it gone.
LEMMA SplitSetBackPreserves ==
  ASSUME IInv, SplitSetBack
  PROVE  IInv'
<1> DEFINE o == openLocation(fs, dbSet, settings, dbSet.org)
<1>1. /\ phase = "years" /\ yearList = {} /\ dbSet' = o.set
      /\ \/ /\ o.res = "ok" /\ phase' = "move" /\ UNCHANGED <<result, dstDbSet, yearList>>
         \/ /\ o.res # "ok" /\ phase' = "idle" /\ result' = "moved away"
            /\ dstDbSet' = None /\ yearList' = {}
      /\ UNCHANGED <<fs, settings, saved, newDbDir, ops, stored, original, astray>>
  BY DEF SplitSetBack, EndSplit
<1>2. /\ IsFiles(fs) /\ settings \in Dirs /\ saved = settings /\ result # "ok"
      /\ newDbDir \in Dirs /\ newDbDir # settings
      /\ IsSet(dbSet) /\ dbSet.org = "SINGLE_FILE" /\ dbSet.dir = newDbDir
      /\ AtHome(fs, dbSet)
      /\ <<newDbDir, Single>> \in DOMAIN fs
  BY <1>1, CopyingFacts
<1>3. /\ dbOrganisation(fs, settings) = "SINGLE_FILE" =>
           original = fs[<<settings, Single>>] /\ original \subseteq fs[<<newDbDir, Single>>]
      /\ ~astray => dbOrganisation(fs, settings) = "SINGLE_FILE"
  BY <1>1, CopyingFacts
<1>4. \/ /\ dbOrganisation(fs, settings) = "SINGLE_FILE"
         /\ o.res = "ok" /\ o.set = Loaded(fs, settings)
      \/ dbOrganisation(fs, settings) # "SINGLE_FILE" /\ o.res = "fail" /\ o.set = dbSet
  BY <1>2, OpenFacts, OrganisationFacts
<1> HIDE DEF o
<1>5. CASE dbOrganisation(fs, settings) = "SINGLE_FILE"
  <2>1. /\ phase' = "move" /\ dbSet' = Loaded(fs, settings)
        /\ UNCHANGED <<result, dstDbSet, yearList>>
    BY <1>1, <1>4, <1>5
  <2>2. /\ IsSet(dbSet') /\ (dbSet').org = "SINGLE_FILE" /\ (dbSet').dir = settings
        /\ AtHome(fs, dbSet')
    BY <1>2, <1>5, <2>1, LoadedFacts
  <2>3. Typed'
    BY <1>1, <2>1, <2>2 DEF IInv, Typed, Phases
  <2>4. Directories'
    BY <1>1, <1>2, <2>1 DEF Directories
  <2>5. SingleThere' /\ UsedThere' /\ Copying' /\ Deleting' /\ Opening'
    BY <2>1 DEF SingleThere, UsedThere, InUse, Copying, Deleting, Opening
  <2>6. PartsThere'
    BY <1>1, <2>1 DEF IInv, PartsThere
  <2>7. OnOriginal'
    BY <1>1, <2>2 DEF OnOriginal
  <2>8. Moving'
    <3>1. CommitsHold => \A m \in fs[<<newDbDir, Single>>] : Holds(fs, dstDbSet, m)
      BY <1>1 DEF IInv, Copying
    <3> QED BY <1>1, <1>3, <1>5, <2>1, <3>1 DEF Moving
  <2>9. BackupThere'
    BY <1>1, <1>2, <1>3, <1>5 DEF BackupThere
  <2>10. CommitsHold => NothingForgotten'
    BY <1>1, <2>1 DEF IInv, NothingForgotten, Home
  <2> QED BY <2>3, <2>4, <2>5, <2>6, <2>7, <2>8, <2>9, <2>10 DEF IInv
<1>6. CASE dbOrganisation(fs, settings) # "SINGLE_FILE"
  <2>1. /\ phase' = "idle" /\ result' = "moved away" /\ dstDbSet' = None /\ yearList' = {}
        /\ dbSet' = dbSet
    BY <1>1, <1>4, <1>6
  <2>2. Typed'
    BY <1>1, <2>1 DEF IInv, Typed, Phases
  <2>3. Directories'
    BY <1>1, <1>2, <2>1 DEF Directories
  <2>4. SingleThere' /\ UsedThere'
    <3>1. astray'
      BY <1>1, <1>3, <1>6
    <3> QED BY <1>1, <1>2, <1>6, <2>1, <3>1 DEF SingleThere, UsedThere
  <2>5. PartsThere' /\ Copying' /\ OnOriginal' /\ Moving' /\ Deleting' /\ Opening'
    BY <2>1 DEF PartsThere, Copying, OnOriginal, Moving, Deleting, Opening
  <2>6. BackupThere'
    BY <2>1 DEF BackupThere
  <2>7. CommitsHold => NothingForgotten'
    BY <1>1, <2>1 DEF IInv, NothingForgotten, Home
  <2> QED BY <2>2, <2>3, <2>4, <2>5, <2>6, <2>7 DEF IInv
<1> QED BY <1>5, <1>6

-----------------------------------------------------------------------------
(* A year is copied. *)

\* After a failure the set returns to the original, if it is there.
LEMMA SetBackPreserves ==
  ASSUME IInv, phase = "years", NEW f, IsFiles(f),
         SameIn(fs, f, settings), SameAt(fs, f, <<newDbDir, Single>>),
         SetBackOriginDb(f),
         UNCHANGED <<settings, saved, newDbDir, ops, stored, original, astray>>
  PROVE  IInv'
<1> DEFINE o == openLocation(f, dbSet, settings, dbSet.org)
<1>1. /\ fs' = f /\ dbSet' = o.set /\ phase' = "idle" /\ result' = "failed"
      /\ dstDbSet' = None /\ yearList' = {}
  BY DEF SetBackOriginDb, EndSplit
<1>2. /\ IsFiles(fs) /\ settings \in Dirs /\ saved = settings
      /\ IsSet(dbSet) /\ dbSet.org = "SINGLE_FILE" /\ dbSet.dir = newDbDir
      /\ AtHome(fs, dbSet) /\ DOMAIN dbSet.open = {Single}
      /\ <<newDbDir, Single>> \in DOMAIN fs
      /\ original = OnDisk(fs, settings)
  BY CopyingFacts
<1>3. /\ ~astray => dbOrganisation(fs, settings) = "SINGLE_FILE"
      /\ CommitsHold /\ ~astray => stored \subseteq original
  BY CopyingFacts
<1>4. /\ dbOrganisation(f, settings) = dbOrganisation(fs, settings)
      /\ OnDisk(f, settings) = original
  BY <1>2, SameFacts
<1>5. AtHome(f, dbSet)
  BY <1>2 DEF AtHome, SameAt
<1>6. \/ /\ dbOrganisation(fs, settings) = "SINGLE_FILE"
         /\ o.set = Loaded(f, settings)
      \/ dbOrganisation(fs, settings) # "SINGLE_FILE" /\ o.set = dbSet
  BY <1>2, <1>4, OpenFacts, OrganisationFacts
<1> HIDE DEF o
<1>7. /\ IsSet(dbSet')
      /\ dbOrganisation(fs, settings) = "SINGLE_FILE" =>
           /\ AtHome(f, dbSet') /\ DOMAIN (dbSet').open # {} /\ (dbSet').dir = settings
           /\ (dbSet').org = "SINGLE_FILE"
           /\ \A m \in OnDisk(f, settings) : Holds(f, dbSet', m)
  <2>1. CASE dbOrganisation(fs, settings) = "SINGLE_FILE"
    BY <1>1, <1>2, <1>4, <1>6, <2>1, LoadedFacts
  <2>2. CASE dbOrganisation(fs, settings) # "SINGLE_FILE"
    BY <1>1, <1>2, <1>6, <2>2
  <2> QED BY <2>1, <2>2
<1>8. Typed'
  BY <1>1, <1>7 DEF IInv, Typed, Phases
<1>9. Directories' /\ BackupThere'
  BY <1>1, <1>2 DEF Directories, BackupThere
<1>10. SingleThere'
  <2>1. CASE dbOrganisation(fs, settings) = "SINGLE_FILE"
    BY <1>1, <1>7, <2>1 DEF SingleThere
  <2>2. CASE dbOrganisation(fs, settings) # "SINGLE_FILE"
    BY <1>1, <1>2, <1>4, <1>5, <1>6, <2>2 DEF SingleThere
  <2> QED BY <2>1, <2>2
<1>11. UsedThere'
  BY <1>1, <1>3, <1>4, <1>7 DEF UsedThere
<1>12. PartsThere' /\ Copying' /\ OnOriginal' /\ Moving' /\ Deleting' /\ Opening'
  BY <1>1 DEF PartsThere, Copying, OnOriginal, Moving, Deleting, Opening
<1>13. CommitsHold => NothingForgotten'
  BY <1>1, <1>2, <1>3, <1>4 DEF NothingForgotten, Home
<1> QED BY <1>8, <1>9, <1>10, <1>11, <1>12, <1>13 DEF IInv

\* How the copying of a year ends.
Relevant(f, y) == {m \in f[<<newDbDir, Single>>] : YearOf[m] = y}

\* A copied year, one that failed, and one whose commit failed unnoticed.
LEMMA CopyCases ==
  ASSUME NEW f, NEW y, NEW c \in CopyRelevantMsgs(f, y)
  PROVE  \/ c.res = "fail" /\ c.fs = f
         \/ ~CommitsHold /\ c.res = "ok" /\ c.fs = f
         \/ c.res = "ok" /\ c.fs = Put(f, <<newDbDir, y>>, f[<<newDbDir, y>>] \cup Relevant(f, y))
<1> DEFINE copied == Put(f, <<newDbDir, y>>, f[<<newDbDir, y>>] \cup Relevant(f, y))
<1>1. \/ c = Outcome("ok", copied, None)
      \/ c = Outcome("fail", f, None)
      \/ "commit" \in Faults /\ c = Outcome("ok", f, None)
  BY DEF CopyRelevantMsgs, Relevant
<1> HIDE DEF copied
<1>2. \/ c.res = "fail" /\ c.fs = f
      \/ ~CommitsHold /\ c.res = "ok" /\ c.fs = f
      \/ c.res = "ok" /\ c.fs = copied
  BY <1>1 DEF Outcome, CommitsHold
<1> QED BY <1>2 DEF copied

\* The file of the year is new, and all else is as it was.
LEMMA YearCopied ==
  ASSUME IInv, phase = "years", NEW y \in yearList, NEW f, IsFiles(f), NEW set, IsSet(set),
         \A q \in DOMAIN fs : q # <<newDbDir, y>> => q \in DOMAIN f /\ f[q] = fs[q],
         \A q \in DOMAIN f : q # <<newDbDir, y>> => q \in DOMAIN fs,
         <<newDbDir, y>> \in DOMAIN f,
         CommitsHold => {m \in fs[<<newDbDir, Single>>] : YearOf[m] = y} \subseteq f[<<newDbDir, y>>],
         set.dir = newDbDir, set.org = "YEARLY",
         DOMAIN set.open = DOMAIN dstDbSet.open \cup {y},
         \A j \in DOMAIN dstDbSet.open : set.open[j] = dstDbSet.open[j],
         set.open[y] = Opened(<<newDbDir, y>>),
         fs' = f, dstDbSet' = set, yearList' = yearList \ {y},
         UNCHANGED <<dbSet, phase, result, settings, saved, newDbDir, ops, stored, original, astray>>
  PROVE  IInv'
<1>1. /\ IsFiles(fs) /\ settings \in Dirs /\ saved = settings /\ result # "ok"
      /\ newDbDir \in Dirs /\ newDbDir # settings
      /\ IsSet(dbSet) /\ dbSet.org = "SINGLE_FILE" /\ dbSet.dir = newDbDir
      /\ AtHome(fs, dbSet) /\ DOMAIN dbSet.open = {Single}
      /\ IsSet(dstDbSet) /\ dstDbSet.org = "YEARLY" /\ dstDbSet.dir = newDbDir
      /\ AtHome(fs, dstDbSet)
      /\ <<newDbDir, Single>> \in DOMAIN fs
  BY CopyingFacts
<1>2. /\ original = OnDisk(fs, settings)
      /\ dbOrganisation(fs, settings) = "SINGLE_FILE" => original \subseteq fs[<<newDbDir, Single>>]
      /\ ~astray => dbOrganisation(fs, settings) = "SINGLE_FILE"
      /\ CommitsHold /\ ~astray => stored \subseteq original
  BY CopyingFacts
<1>3. /\ DOMAIN dstDbSet.open \cap yearList = {}
      /\ CommitsHold => \A m \in fs[<<newDbDir, Single>>] :
                          YearOf[m] \in yearList \/ Holds(fs, dstDbSet, m)
      /\ yearList \subseteq Years
  BY DEF IInv, Copying, Typed
<1>4. y \in Years /\ y # Single /\ y \notin DOMAIN dstDbSet.open
  BY <1>3, PathFacts
<1>5. \A k : <<newDbDir, k>> = <<newDbDir, y>> => k = y
  OBVIOUS
<1>6. \A k : <<settings, k>> # <<newDbDir, y>>
  BY <1>1
<1>7. /\ <<newDbDir, Single>> \in DOMAIN f /\ f[<<newDbDir, Single>>] = fs[<<newDbDir, Single>>]
      /\ \A k \in DOMAIN dstDbSet.open :
           /\ <<newDbDir, k>> \in DOMAIN f /\ f[<<newDbDir, k>>] = fs[<<newDbDir, k>>]
           /\ <<newDbDir, k>> \in DOMAIN fs
  BY <1>1, <1>4, <1>5 DEF AtHome
<1>8. SameIn(fs, f, settings)
  BY <1>6 DEF SameIn, SameAt
<1>9. /\ dbOrganisation(f, settings) = dbOrganisation(fs, settings)
      /\ OnDisk(f, settings) = original
  BY <1>1, <1>2, <1>8, SameFacts
<1>10. AtHome(f, set)
  <2>1. Single \notin DOMAIN set.open
    BY <1>1, <1>4 DEF AtHome
  <2>2. ASSUME NEW k \in DOMAIN set.open
        PROVE  /\ set.open[k].name = <<newDbDir, k>> /\ set.open[k].base = <<newDbDir, k>>
               /\ set.open[k].state \in {"closed", "open"}
               /\ <<newDbDir, k>> \in DOMAIN f
    <3>1. CASE k = y
      BY <3>1 DEF Opened
    <3>2. CASE k # y
      BY <1>1, <1>7, <3>2 DEF AtHome
    <3> QED BY <3>1, <3>2
  <2> QED BY <2>1, <2>2 DEF AtHome
<1>11. AtHome(f, dbSet)
  BY <1>1, <1>7 DEF AtHome
<1>12. Typed'
  BY <1>3 DEF IInv, Typed
<1>13. Directories'
  BY DEF IInv, Directories
<1>14. PartsThere'
  BY <1>10 DEF PartsThere
<1>15. Copying'
  <2>1. DOMAIN set.open \cap (yearList \ {y}) = {}
    BY <1>3
  <2>2. ASSUME CommitsHold, NEW m \in fs[<<newDbDir, Single>>]
        PROVE  YearOf[m] \in yearList \ {y} \/ Holds(f, set, m)
    <3>1. CASE YearOf[m] = y
      BY <2>2, <3>1 DEF Holds
    <3>2. CASE Holds(fs, dstDbSet, m)
      <4>1. PICK k \in DOMAIN dstDbSet.open : m \in fs[<<newDbDir, k>>]
        BY <1>1, <3>2 DEF Holds
      <4> QED BY <1>7, <4>1 DEF Holds
    <3> QED BY <1>3, <2>2, <3>1, <3>2
  <2>3. phase' = "years" => /\ original' = OnDisk(fs', settings')
                            /\ dbOrganisation(fs', settings') = "SINGLE_FILE" =>
                                 original' \subseteq fs'[<<newDbDir', Single>>]
                            /\ ~astray' => dbOrganisation(fs', settings') = "SINGLE_FILE"
    BY <1>2, <1>7, <1>9
  <2>4. CommitsHold => \A m \in fs'[<<newDbDir', Single>>] :
                          YearOf[m] \in yearList' \/ Holds(fs', dstDbSet', m)
    BY <1>7, <2>2
  <2>5. AtHome(fs', dbSet')
    BY <1>11
  <2> QED BY <1>1, <2>1, <2>3, <2>4, <2>5 DEF Copying
<1>16. SingleThere' /\ UsedThere' /\ OnOriginal' /\ Moving' /\ Deleting' /\ Opening'
  BY DEF SingleThere, UsedThere, InUse, OnOriginal, Moving, Deleting, Opening
<1>17. BackupThere'
  BY <1>1 DEF BackupThere
<1>18. CommitsHold => NothingForgotten'
  BY <1>1, <1>2, <1>9 DEF NothingForgotten, Home
<1> QED BY <1>12, <1>13, <1>14, <1>15, <1>16, <1>17, <1>18 DEF IInv

\* "Existing file could not be deleted."
LEMMA NotErasedPreserves ==
  ASSUME IInv, phase = "years", EndSplit("failed"), astray' = TRUE,
         UNCHANGED <<fs, dbSet, settings, saved, newDbDir, ops, stored, original>>
  PROVE  IInv'
<1>1. phase' = "idle" /\ result' = "failed" /\ dstDbSet' = None /\ yearList' = {}
  BY DEF EndSplit
<1>2. /\ IsFiles(fs) /\ saved = settings
      /\ IsSet(dbSet) /\ dbSet.dir = newDbDir /\ AtHome(fs, dbSet)
  BY CopyingFacts
<1>3. dbOrganisation(fs, settings) = "SINGLE_FILE" =>
        fs[<<settings, Single>>] \subseteq fs[<<newDbDir, Single>>]
  BY CopyingFacts
<1>4. Typed'
  BY <1>1 DEF IInv, Typed, Phases
<1>5. Directories' /\ BackupThere'
  BY <1>1, <1>2 DEF Directories, BackupThere
<1>6. SingleThere' /\ UsedThere'
  BY <1>2, <1>3 DEF SingleThere, UsedThere
<1>7. PartsThere' /\ Copying' /\ OnOriginal' /\ Moving' /\ Deleting' /\ Opening'
  BY <1>1 DEF PartsThere, Copying, OnOriginal, Moving, Deleting, Opening
<1>8. NothingForgotten'
  BY DEF NothingForgotten
<1> QED BY <1>4, <1>5, <1>6, <1>7, <1>8 DEF IInv

\* A year is copied or the split fails.
LEMMA SplitYearPreserves ==
  ASSUME IInv, NEW y \in Years, SplitYear(y)
  PROVE  IInv'
<1> DEFINE p == <<newDbDir, y>>
           e == Erase(fs, {p})
<1>1. /\ phase = "years" /\ y \in yearList
      /\ UNCHANGED <<settings, saved, newDbDir, ops, stored, original>>
      /\ \/ /\ UNCHANGED astray
            /\ \E o \in accessMessageDb(e, dstDbSet, y) :
                 \/ o.res = "fail" /\ SetBackOriginDb(o.fs)
                 \/ /\ o.res = "ok"
                    /\ \E c \in CopyRelevantMsgs(o.fs, y) :
                         \/ c.res = "fail" /\ SetBackOriginDb(c.fs)
                         \/ /\ c.res = "ok" /\ fs' = c.fs /\ dstDbSet' = o.set
                            /\ yearList' = yearList \ {y}
                            /\ UNCHANGED <<dbSet, phase, result>>
         \/ EndSplit("failed") /\ astray' = TRUE /\ UNCHANGED <<fs, dbSet>>
  BY DEF SplitYear
<1>2. CASE EndSplit("failed") /\ astray' = TRUE /\ UNCHANGED <<fs, dbSet>>
  BY <1>1, <1>2, NotErasedPreserves
<1>3. ASSUME UNCHANGED astray, NEW o \in accessMessageDb(e, dstDbSet, y),
             \/ o.res = "fail" /\ SetBackOriginDb(o.fs)
             \/ /\ o.res = "ok"
                /\ \E c \in CopyRelevantMsgs(o.fs, y) :
                     \/ c.res = "fail" /\ SetBackOriginDb(c.fs)
                     \/ /\ c.res = "ok" /\ fs' = c.fs /\ dstDbSet' = o.set
                        /\ yearList' = yearList \ {y}
                        /\ UNCHANGED <<dbSet, phase, result>>
      PROVE  IInv'
  <2>1. /\ IsFiles(fs) /\ newDbDir \in Dirs /\ newDbDir # settings
        /\ IsSet(dstDbSet) /\ dstDbSet.dir = newDbDir /\ dstDbSet.org = "YEARLY"
        /\ <<newDbDir, Single>> \in DOMAIN fs
    BY <1>1, CopyingFacts
  <2>2. y \notin DOMAIN dstDbSet.open /\ y \in Keys /\ y # Single /\ p \in Paths
    BY <1>1, <2>1, PathFacts DEF IInv, Copying
  <2>3. IsFiles(e) /\ DOMAIN e = DOMAIN fs \ {p} /\ \A q \in DOMAIN e : e[q] = fs[q]
    BY ONLY <2>1 DEF Erase, IsFiles
  <2> HIDE DEF e
  <2>4. /\ IsFiles(o.fs) /\ IsSet(o.set)
        /\ o.set.dir = newDbDir /\ o.set.org = "YEARLY"
        /\ o.res = "fail" => o.fs = e
        /\ o.res = "ok" =>
             /\ DOMAIN o.set.open = DOMAIN dstDbSet.open \cup {y}
             /\ o.fs = Touch(e, p)
             /\ \A j \in DOMAIN dstDbSet.open : o.set.open[j] = dstDbSet.open[j]
             /\ o.set.open[y] = Opened(p)
    BY <2>1, <2>2, <2>3, AccessFacts
  <2>5. o.res = "ok" => /\ DOMAIN o.fs = DOMAIN fs \cup {p} /\ o.fs[p] = {}
                        /\ \A q \in DOMAIN fs : q # p => o.fs[q] = fs[q]
    <3>1. ASSUME o.res = "ok"
          PROVE  IsTouched(o.fs, e, p)
      BY <2>2, <2>3, <2>4, <3>1, TouchFacts
    <3> QED BY <2>3, <3>1 DEF IsTouched
  <2>6. /\ \A k : <<settings, k>> # p
        /\ <<newDbDir, Single>> # p
    BY <2>1, <2>2
  <2>7. o.res \in {"ok", "fail"} =>
          SameIn(fs, o.fs, settings) /\ SameAt(fs, o.fs, <<newDbDir, Single>>)
    BY <2>3, <2>4, <2>5, <2>6 DEF SameIn, SameAt
  <2>8. CASE o.res = "fail" /\ SetBackOriginDb(o.fs)
    BY <1>1, <1>3, <2>4, <2>7, <2>8, SetBackPreserves
  <2>9. ASSUME o.res = "ok", NEW c \in CopyRelevantMsgs(o.fs, y),
               \/ c.res = "fail" /\ SetBackOriginDb(c.fs)
               \/ /\ c.res = "ok" /\ fs' = c.fs /\ dstDbSet' = o.set
                  /\ yearList' = yearList \ {y}
                  /\ UNCHANGED <<dbSet, phase, result>>
        PROVE  IInv'
    <3> DEFINE relevant == {m \in fs[<<newDbDir, Single>>] : YearOf[m] = y}
    <3>1. o.fs[<<newDbDir, Single>>] = fs[<<newDbDir, Single>>]
      BY <2>1, <2>5, <2>6, <2>9
    <3>2. \/ c.res = "fail" /\ c.fs = o.fs
          \/ ~CommitsHold /\ c.res = "ok" /\ c.fs = o.fs
          \/ c.res = "ok" /\ c.fs = Put(o.fs, p, o.fs[p] \cup relevant)
      <4>1. \/ c.res = "fail" /\ c.fs = o.fs
            \/ ~CommitsHold /\ c.res = "ok" /\ c.fs = o.fs
            \/ c.res = "ok" /\ c.fs = Put(o.fs, p, o.fs[p] \cup Relevant(o.fs, y))
        BY <2>9, CopyCases
      <4>2. Relevant(o.fs, y) = relevant
        BY <3>1 DEF Relevant
      <4> HIDE DEF relevant
      <4> QED BY <4>1, <4>2
    <3>3. CASE c.res = "fail"
      <4>1. c.fs = o.fs /\ SetBackOriginDb(o.fs)
        BY <2>9, <3>2, <3>3
      <4> QED BY <1>1, <1>3, <2>4, <2>7, <2>9, <4>1, SetBackPreserves
    <3>4. CASE c.res = "ok"
      <4>1. relevant \subseteq Messages
        BY <2>1 DEF IsFiles
      <4>2. /\ IsFiles(c.fs) /\ DOMAIN c.fs = DOMAIN fs \cup {p}
            /\ \A q \in DOMAIN fs : q # p => c.fs[q] = fs[q]
            /\ CommitsHold => relevant \subseteq c.fs[p]
        <5>1. CASE ~CommitsHold /\ c.fs = o.fs
          BY <2>4, <2>5, <2>9, <5>1
        <5>2. CASE c.fs = Put(o.fs, p, o.fs[p] \cup relevant)
          <6>1. o.fs[p] \cup relevant = relevant
            BY <2>5, <2>9
          <6>2. /\ IsFiles(Put(o.fs, p, relevant))
                /\ DOMAIN Put(o.fs, p, relevant) = DOMAIN o.fs \cup {p}
                /\ Put(o.fs, p, relevant)[p] = relevant
                /\ \A q \in DOMAIN o.fs : q # p => Put(o.fs, p, relevant)[q] = o.fs[q]
            <7> HIDE DEF relevant
            <7> QED BY <2>2, <2>4, <4>1, PutFacts
          <6> QED BY <2>5, <2>9, <5>2, <6>1, <6>2
        <5> QED BY <3>2, <3>4, <5>1, <5>2
      <4>3. /\ fs' = c.fs /\ dstDbSet' = o.set /\ yearList' = yearList \ {y}
            /\ UNCHANGED <<dbSet, phase, result>>
        BY <2>9, <3>4
      <4> QED BY <1>1, <1>3, <2>4, <2>9, <4>2, <4>3, YearCopied
    <3> QED BY <3>2, <3>3, <3>4
  <2> QED BY <1>3, <2>8, <2>9
<1> QED BY <1>1, <1>2, <1>3

-----------------------------------------------------------------------------
(* A split begins with a copy of the set in another directory. *)

\* The single file is copied, or the split fails.
LEMMA SplitCopyPreserves ==
  ASSUME IInv, NEW dir \in Dirs, SplitCopy(dir)
  PROVE  IInv'
<1>1. PICK o \in Transfer(fs, dbSet, dir, FALSE) :
       CASE o.res = "crash" -> Die(o.fs) /\ UNCHANGED astray
         [] OTHER ->
              /\ fs' = o.fs /\ dbSet' = o.set
              /\ newDbDir' = dir
              /\ original' = OnDisk(o.fs, settings)
              /\ IF o.res = "ok"
                 THEN /\ phase' = "years" /\ result' = "none"
                      /\ dstDbSet' = NewSet(dir, "YEARLY")
                      /\ yearList' = {YearOf[m] : m \in o.fs[<<dir, Single>>]}
                 ELSE EndSplit("failed")
              /\ UNCHANGED <<settings, saved, stored, astray>>
  BY DEF SplitCopy
<1>2. /\ phase = "idle" /\ ops < MaxOps /\ ops' = ops + 1
      /\ dbSet # None /\ dir # settings /\ dbSet.org = "SINGLE_FILE"
  BY DEF SplitCopy
<1>3. /\ IsFiles(fs) /\ IsSet(dbSet) /\ settings \in Dirs /\ saved = settings
      /\ ops' \in 0 .. MaxOps /\ astray \in BOOLEAN
  <2>1. ops \in 0 .. MaxOps
    BY DEF IInv, Typed
  <2>2. ops' \in 0 .. MaxOps
    BY <1>2, <2>1, MaintenanceAssumption
  <2> QED BY <1>2, <2>2 DEF IInv, Typed, Directories
<1>4. InUse
  BY <1>2 DEF InUse
<1>5. /\ AtHome(fs, dbSet)
      /\ dbOrganisation(fs, settings) = "SINGLE_FILE" =>
           fs[<<settings, Single>>] \subseteq fs[<<dbSet.dir, Single>>]
  BY <1>2, <1>4 DEF IInv, SingleThere
<1>6. ~astray => /\ DOMAIN dbSet.open # {} /\ dbSet.dir = settings
                 /\ dbOrganisation(fs, settings) = "SINGLE_FILE"
                 /\ CommitsHold => \A m \in stored : Holds(fs, dbSet, m)
  BY <1>2, <1>4 DEF IInv, UsedThere
<1>7. CommitsHold /\ ~astray => stored \subseteq OnDisk(fs, settings)
  <2>1. CommitsHold => NothingForgotten
    BY DEF IInv
  <2> QED BY <1>2, <1>3, <2>1 DEF NothingForgotten, Home
<1>8. /\ IsFiles(o.fs) /\ IsSet(o.set) /\ o.res \in {"ok", "fail", "crash"}
      /\ o.set.org = "SINGLE_FILE" /\ DOMAIN o.set.open = DOMAIN dbSet.open
      /\ o.res = "ok" => o.set.dir = dir
      /\ o.res # "ok" => o.set.dir = dbSet.dir
  <2>1. IsOutcome(o, dbSet, dir)
    BY <1>3, TransferTyped
  <2> QED BY <1>2, <2>1 DEF IsOutcome
<1>9. Transferred(o, fs, dbSet, dir, FALSE)
  BY <1>3, <1>5, TransferAtHome
<1>10. SameIn(fs, o.fs, settings)
  BY <1>2, <1>3, <1>9 DEF Transferred
<1>11. /\ dbOrganisation(o.fs, settings) = dbOrganisation(fs, settings)
       /\ OnDisk(o.fs, settings) = OnDisk(fs, settings)
  BY <1>3, <1>8, <1>10, SameFacts
<1>12. OnDisk(o.fs, settings) \subseteq Messages
  BY <1>8, OnDiskFacts DEF IsFiles
<1>13. Single \in Keys /\ DOMAIN dbSet.open = {Single}
  BY <1>2, <1>5, PathFacts DEF AtHome
<1>14. CASE o.res = "crash"
  <2>1. Die(o.fs) /\ UNCHANGED astray
    BY <1>1, <1>14
  <2>2. CommitsHold => astray' \/ stored \subseteq OnDisk(o.fs, saved)
    BY <1>3, <1>7, <1>11, <2>1
  <2> QED BY <1>3, <1>8, <2>1, <2>2, DiePreserves
<1>15. CASE o.res = "ok"
  <2>1. /\ fs' = o.fs /\ dbSet' = o.set /\ newDbDir' = dir
        /\ original' = OnDisk(o.fs, settings)
        /\ phase' = "years" /\ result' = "none" /\ dstDbSet' = NewSet(dir, "YEARLY")
        /\ yearList' = {YearOf[m] : m \in o.fs[<<dir, Single>>]}
        /\ UNCHANGED <<settings, saved, stored, astray>>
    BY <1>1, <1>15
  <2>2. /\ IsSet(dstDbSet') /\ (dstDbSet').dir = dir /\ (dstDbSet').org = "YEARLY"
        /\ DOMAIN (dstDbSet').open = {}
    BY <2>1, NewSetFacts DEF Organisations
  <2>3. AtHome(o.fs, o.set) /\ o.fs[<<dir, Single>>] = fs[<<dbSet.dir, Single>>]
    BY <1>9, <1>13, <1>15 DEF Transferred
  <2>4. o.fs[<<dir, Single>>] \subseteq Messages
    <3>1. <<dir, Single>> \in DOMAIN o.fs
      BY <1>8, <1>13, <1>15, <2>3 DEF AtHome
    <3> QED BY <1>8, <3>1 DEF IsFiles
  <2>5. yearList' \subseteq Years
    BY <2>1, <2>4, StorageAssumption
  <2>6. Typed'
    BY <1>3, <1>8, <1>12, <2>1, <2>2, <2>5 DEF IInv, Typed, Phases
  <2>7. Directories'
    BY <1>2, <1>3, <2>1 DEF Directories
  <2>8. PartsThere'
    BY <2>1, <2>2 DEF PartsThere, AtHome
  <2>9. Copying'
    <3>1. dbOrganisation(o.fs, settings) = "SINGLE_FILE" =>
            OnDisk(o.fs, settings) \subseteq o.fs[<<dir, Single>>]
      <4>1. dbOrganisation(fs, settings) = "SINGLE_FILE" =>
              OnDisk(fs, settings) = fs[<<settings, Single>>]
        BY <1>3, OnDiskFacts
      <4> QED BY <1>5, <1>11, <2>3, <4>1
    <3>2. \A m \in o.fs[<<dir, Single>>] : YearOf[m] \in yearList'
      BY <2>1
    <3> QED BY <1>6, <1>8, <1>11, <1>15, <2>1, <2>2, <2>3, <3>1, <3>2 DEF Copying
  <2>10. /\ SingleThere' /\ UsedThere' /\ OnOriginal' /\ Moving' /\ Deleting' /\ Opening'
         /\ BackupThere'
    BY <2>1 DEF SingleThere, UsedThere, InUse, OnOriginal, Moving, Deleting, Opening, BackupThere
  <2>11. CommitsHold => NothingForgotten'
    BY <1>3, <1>7, <1>11, <2>1 DEF NothingForgotten, Home
  <2> QED BY <2>6, <2>7, <2>8, <2>9, <2>10, <2>11 DEF IInv
<1>16. CASE o.res = "fail"
  <2>1. /\ fs' = o.fs /\ dbSet' = o.set /\ newDbDir' = dir
        /\ original' = OnDisk(o.fs, settings)
        /\ phase' = "idle" /\ result' = "failed" /\ dstDbSet' = None /\ yearList' = {}
        /\ UNCHANGED <<settings, saved, stored, astray>>
    BY <1>1, <1>16 DEF EndSplit
  <2>2. /\ AtHome(o.fs, o.set) /\ o.set.dir = dbSet.dir
        /\ o.fs[<<dbSet.dir, Single>>] = fs[<<dbSet.dir, Single>>]
    <3>1. AtHome(o.fs, o.set) /\ SameIn(fs, o.fs, dbSet.dir)
      BY <1>2, <1>9, <1>16 DEF Transferred
    <3>2. <<dbSet.dir, Single>> \in DOMAIN fs
      BY <1>5, <1>13 DEF AtHome
    <3> QED BY <1>8, <1>13, <1>16, <3>1, <3>2 DEF SameIn, SameAt
  <2>3. Typed'
    BY <1>3, <1>8, <1>12, <2>1 DEF IInv, Typed, Phases
  <2>4. Directories'
    BY <1>2, <1>3, <2>1 DEF Directories
  <2>5. SingleThere'
    <3>1. dbOrganisation(fs, settings) = "SINGLE_FILE" =>
            /\ <<settings, Single>> \in DOMAIN fs
            /\ o.fs[<<settings, Single>>] = fs[<<settings, Single>>]
      BY <1>3, <1>10, <1>13, OnDiskFacts DEF SameIn, SameAt
    <3> QED BY <1>5, <1>11, <2>1, <2>2, <3>1 DEF SingleThere
  <2>6. UsedThere'
    <3>1. CommitsHold /\ ~astray => \A m \in stored : Holds(o.fs, o.set, m)
      BY <1>6, <1>8, <1>13, <2>2 DEF Holds
    <3> QED BY <1>6, <1>8, <1>11, <2>1, <2>2, <3>1 DEF UsedThere
  <2>7. PartsThere' /\ Copying' /\ OnOriginal' /\ Moving' /\ Deleting' /\ Opening' /\ BackupThere'
    BY <2>1 DEF PartsThere, Copying, OnOriginal, Moving, Deleting, Opening, BackupThere
  <2>8. CommitsHold => NothingForgotten'
    BY <1>3, <1>7, <1>11, <2>1 DEF NothingForgotten, Home
  <2> QED BY <2>3, <2>4, <2>5, <2>6, <2>7, <2>8 DEF IInv
<1> QED BY <1>8, <1>14, <1>15, <1>16

-----------------------------------------------------------------------------
(* A message is stored. *)

\* The set with the database of the key in use.
LEMMA UsedFacts ==
  ASSUME NEW set, IsSet(set), NEW k \in DOMAIN set.open, NEW h \in Handles,
         NEW n, n = [set EXCEPT !.open[k] = h]
  PROVE  /\ IsSet(n) /\ n.dir = set.dir /\ n.org = set.org /\ DOMAIN n.open = DOMAIN set.open
         /\ n.open[k] = h /\ \A j \in DOMAIN set.open \ {k} : n.open[j] = set.open[j]
<1> DEFINE handles == [set.open EXCEPT ![k] = h]
<1>1. n = [dir |-> set.dir, org |-> set.org, open |-> handles]
  <2>1. n = [set EXCEPT !.open = handles]
    OBVIOUS
  <2> HIDE DEF handles
  <2> QED BY <2>1, EditFacts
<1>2. /\ handles \in [DOMAIN set.open -> Handles] /\ DOMAIN handles = DOMAIN set.open
      /\ handles[k] = h /\ \A j \in DOMAIN set.open \ {k} : handles[j] = set.open[j]
  BY DEF IsSet
<1> HIDE DEF handles
<1>3. /\ n = [dir |-> n.dir, org |-> n.org, open |-> n.open]
      /\ n.dir = set.dir /\ n.org = set.org /\ n.open = handles
  BY ONLY <1>1
<1>4. IsSet(n)
  BY <1>2, <1>3 DEF IsSet
<1> QED BY <1>2, <1>3, <1>4

\* A file a message has been added to.
IsAdded(g, f, p, m) ==
  /\ IsFiles(g)
  /\ \A q \in DOMAIN f : q \in DOMAIN g /\ f[q] \subseteq g[q]
  /\ \A q \in DOMAIN f : q # p => g[q] = f[q]
  /\ \A q \in DOMAIN g : q \in DOMAIN f \/ q = p
  /\ p \in DOMAIN g /\ m \in g[p]

\* What adding a message gives.
LEMMA AddedFacts ==
  ASSUME NEW f, IsFiles(f), NEW p \in Paths, NEW m \in Messages
  PROVE  IsAdded(Put(Touch(f, p), p, Touch(f, p)[p] \cup {m}), f, p, m)
<1> DEFINE e == Touch(f, p)
           c == e[p] \cup {m}
           g == Put(e, p, c)
<1>1. IsTouched(e, f, p)
  BY TouchFacts
<1> HIDE DEF e
<1>2. /\ IsFiles(e) /\ DOMAIN e = DOMAIN f \cup {p}
      /\ \A q \in DOMAIN f : e[q] = f[q]
  BY ONLY <1>1 DEF IsTouched
<1>3. c \in SUBSET Messages /\ e[p] \subseteq c /\ m \in c
  BY <1>2 DEF IsFiles
<1> HIDE DEF c
<1>4. /\ IsFiles(g) /\ DOMAIN g = DOMAIN e \cup {p} /\ g[p] = c
      /\ \A q \in DOMAIN e : q # p => g[q] = e[q]
  BY <1>2, <1>3, PutFacts
<1> HIDE DEF g
<1>5. \A q \in DOMAIN f : f[q] \subseteq g[q]
  BY <1>2, <1>3, <1>4
<1>6. IsAdded(g, f, p, m)
  BY <1>2, <1>3, <1>4, <1>5 DEF IsAdded
<1> QED BY <1>6 DEF g, c, e

\* A message is stored in the file of its year or the only one.
LEMMA StorePreserves ==
  ASSUME IInv, NEW m \in Messages, Store(m)
  PROVE  /\ IInv'
         /\ IsSet(dbSet') /\ (dbSet').org = dbSet.org
         /\ AtHome(fs, dbSet) =>
              \A q \in DOMAIN fs' : q \in DOMAIN fs \/ q[1] = dbSet.dir
<1> DEFINE k == secondaryKey(dbSet, m)
<1>1. PICK o \in accessMessageDb(fs, dbSet, k) :
        LET db == Accessed(o.set.open[k])
            files == Touch(o.fs, db.base)
        IN /\ o.res = "ok"
           /\ dbSet' = [o.set EXCEPT !.open[k] = db]
           /\ fs' = IF db.state = "open"
                    THEN Put(files, db.base, files[db.base] \cup {m}) ELSE o.fs
           /\ stored' = stored \cup {m}
  BY DEF Store
<1>2. /\ phase \in {"idle", "unsaved"} /\ dbSet # None /\ dbSet.org # "UNKNOWN"
      /\ UNCHANGED <<settings, saved, phase, newDbDir, yearList, dstDbSet, result, original>>
      /\ UNCHANGED <<ops, astray>>
  BY DEF Store, split
<1>3. /\ IsFiles(fs) /\ IsSet(dbSet) /\ settings \in Dirs /\ InUse
      /\ phase = "idle" => settings = saved
  BY <1>2 DEF IInv, Typed, InUse, Directories
<1>4. /\ k \in Keys /\ (dbSet.org = "SINGLE_FILE" => k = Single)
      /\ dbSet.org # "SINGLE_FILE" => k \in Years
  BY StorageAssumption, PathFacts DEF secondaryKey
<1> HIDE DEF k
<1>5. /\ IsFiles(o.fs) /\ IsSet(o.set)
      /\ o.set.dir = dbSet.dir /\ o.set.org = dbSet.org
      /\ DOMAIN o.set.open = DOMAIN dbSet.open \cup {k}
      /\ k \in DOMAIN dbSet.open => o.fs = fs
      /\ k \notin DOMAIN dbSet.open => o.fs = Touch(fs, <<dbSet.dir, k>>)
      /\ \A j \in DOMAIN dbSet.open : o.set.open[j] = dbSet.open[j]
      /\ k \notin DOMAIN dbSet.open => o.set.open[k] = Opened(<<dbSet.dir, k>>)
  BY <1>1, <1>3, <1>4, AccessFacts
<1> DEFINE p == <<dbSet.dir, k>>
           db == Accessed(o.set.open[k])
<1>6. /\ p \in Paths /\ db \in Handles /\ db.base \in Paths
      /\ o.set.open[k].name = o.set.open[k].base => db.base = o.set.open[k].name
      /\ db.name = o.set.open[k].name
  <2>1. /\ Accessed(o.set.open[k]) \in Handles /\ Base(o.set, k) \in Paths
        /\ Accessed(o.set.open[k]).name = o.set.open[k].name
        /\ o.set.open[k].name = o.set.open[k].base => Base(o.set, k) = o.set.open[k].name
    BY <1>5, HandleFacts
  <2> QED BY <1>3, <1>4, <2>1, PathFacts DEF Base, IsSet
<1>7. /\ \A q \in DOMAIN fs : q \in DOMAIN o.fs /\ o.fs[q] = fs[q]
      /\ \A q \in DOMAIN o.fs : q \in DOMAIN fs \/ q = p
      /\ k \notin DOMAIN dbSet.open => p \in DOMAIN o.fs
  <2>1. CASE k \in DOMAIN dbSet.open
    BY <1>5, <2>1
  <2>2. CASE k \notin DOMAIN dbSet.open
    <3>1. IsTouched(o.fs, fs, p)
      BY <1>3, <1>5, <1>6, <2>2, TouchFacts
    <3> QED BY ONLY <3>1 DEF IsTouched
  <2> QED BY <2>1, <2>2
<1>8. /\ dbSet' = [o.set EXCEPT !.open[k] = db]
      /\ stored' = stored \cup {m}
  BY <1>1
<1>9. fs' = IF db.state = "open"
            THEN Put(Touch(o.fs, db.base), db.base, Touch(o.fs, db.base)[db.base] \cup {m})
            ELSE o.fs
  BY <1>1
<1>10. /\ IsFiles(fs')
       /\ \A q \in DOMAIN o.fs : q \in DOMAIN fs' /\ o.fs[q] \subseteq fs'[q]
       /\ \A q \in DOMAIN o.fs : q # db.base => fs'[q] = o.fs[q]
       /\ \A q \in DOMAIN fs' : q \in DOMAIN o.fs \/ q = db.base
       /\ db.state = "open" => db.base \in DOMAIN fs' /\ m \in fs'[db.base]
  <2> HIDE DEF db
  <2>1. CASE db.state = "open"
    <3>1. IsAdded(Put(Touch(o.fs, db.base), db.base, Touch(o.fs, db.base)[db.base] \cup {m}),
                  o.fs, db.base, m)
      BY <1>5, <1>6, AddedFacts
    <3>2. IsAdded(fs', o.fs, db.base, m)
      BY <1>9, <2>1, <3>1
    <3> QED BY ONLY <3>2 DEF IsAdded
  <2>2. CASE db.state # "open"
    BY <1>5, <1>9, <2>2
  <2> QED BY <2>1, <2>2
<1>11. /\ IsSet(dbSet') /\ (dbSet').dir = dbSet.dir /\ (dbSet').org = dbSet.org
       /\ DOMAIN (dbSet').open = DOMAIN dbSet.open \cup {k}
       /\ (dbSet').open[k] = db
       /\ \A j \in DOMAIN dbSet.open \ {k} : (dbSet').open[j] = dbSet.open[j]
  <2> HIDE DEF db
  <2> QED BY <1>5, <1>6, <1>8, UsedFacts
<1>12. \A q \in DOMAIN fs : q \in DOMAIN fs' /\ fs[q] \subseteq fs'[q]
  BY <1>7, <1>10
<1>13. ASSUME AtHome(fs, dbSet)
       PROVE  /\ AtHome(fs', dbSet') /\ m \in fs'[p] /\ p \in DOMAIN fs'
              /\ \A q \in DOMAIN fs : q # p => fs'[q] = fs[q]
              /\ \A q \in DOMAIN fs' : q \in DOMAIN fs \/ q = p
  <2>1. /\ o.set.open[k].name = p /\ o.set.open[k].base = p
        /\ o.set.open[k].state \in {"closed", "open"}
    <3>1. CASE k \in DOMAIN dbSet.open
      BY <1>5, <1>13, <3>1 DEF AtHome
    <3>2. CASE k \notin DOMAIN dbSet.open
      BY <1>5, <3>2 DEF Opened
    <3> QED BY <3>1, <3>2
  <2>2. db.name = p /\ db.base = p /\ db.state = "open"
    BY <1>6, <2>1 DEF Accessed, Opened
  <2> HIDE DEF db
  <2>3. p \in DOMAIN fs' /\ m \in fs'[p]
    BY <1>10, <2>2
  <2>4. AtHome(fs', dbSet')
    <3>1. ASSUME NEW j \in DOMAIN (dbSet').open
          PROVE  /\ (dbSet').open[j].name = <<dbSet.dir, j>>
                 /\ (dbSet').open[j].base = <<dbSet.dir, j>>
                 /\ (dbSet').open[j].state \in {"closed", "open"}
                 /\ <<dbSet.dir, j>> \in DOMAIN fs'
      <4>1. CASE j = k
        BY <1>11, <2>2, <2>3, <4>1
      <4>2. CASE j # k
        BY <1>11, <1>12, <1>13, <4>2 DEF AtHome
      <4> QED BY <4>1, <4>2
    <3>2. IF (dbSet').org = "SINGLE_FILE" THEN DOMAIN (dbSet').open = {Single}
          ELSE Single \notin DOMAIN (dbSet').open
      BY <1>4, <1>11, <1>13, PathFacts DEF AtHome
    <3> QED BY <1>2, <1>11, <3>1, <3>2 DEF AtHome
  <2> QED BY <1>7, <1>10, <2>2, <2>3, <2>4
<1>22. AtHome(fs, dbSet) => \A q \in DOMAIN fs' : q \in DOMAIN fs \/ q[1] = dbSet.dir
  BY <1>13
<1> HIDE DEF p, db
<1>14. Typed'
  BY <1>2, <1>8, <1>10, <1>11 DEF IInv, Typed
<1>15. Directories'
  BY <1>2 DEF IInv, Directories
<1>16. SingleThere'
  <2>1. SUFFICES ASSUME dbSet.org = "SINGLE_FILE"
                 PROVE  /\ AtHome(fs', dbSet')
                        /\ dbOrganisation(fs', settings) = "SINGLE_FILE" =>
                             fs'[<<settings, Single>>] \subseteq fs'[<<dbSet.dir, Single>>]
    BY <1>2, <1>11 DEF SingleThere
  <2>2. /\ AtHome(fs, dbSet)
        /\ dbOrganisation(fs, settings) = "SINGLE_FILE" =>
             fs[<<settings, Single>>] \subseteq fs[<<dbSet.dir, Single>>]
    BY <1>3, <2>1 DEF IInv, SingleThere
  <2>3. AtHome(fs', dbSet')
    BY <1>13, <2>2
  <2>4. p = <<dbSet.dir, Single>> /\ p \in DOMAIN fs
    BY <1>4, <2>1, <2>2 DEF p, AtHome
  <2>5. CASE settings = dbSet.dir
    BY <2>3, <2>5
  <2>6. CASE settings # dbSet.dir
    <3>1. SameIn(fs, fs', settings)
      <4>1. \A j : <<settings, j>> # p
        BY <2>6 DEF p
      <4> QED BY <1>12, <1>13, <2>2, <4>1 DEF SameIn, SameAt
    <3>2. dbOrganisation(fs', settings) = dbOrganisation(fs, settings)
      BY <1>3, <1>10, <3>1, SameFacts
    <3>3. dbOrganisation(fs, settings) = "SINGLE_FILE" =>
            /\ <<settings, Single>> \in DOMAIN fs
            /\ fs'[<<settings, Single>>] = fs[<<settings, Single>>]
      BY <1>3, <3>1, PathFacts, OnDiskFacts DEF SameIn, SameAt
    <3> QED BY <1>12, <2>2, <2>3, <2>4, <3>2, <3>3
  <2> QED BY <2>5, <2>6
<1>17. ASSUME ~astray
       PROVE  /\ AtHome(fs', dbSet') /\ DOMAIN (dbSet').open # {} /\ dbSet.dir = settings
              /\ dbOrganisation(fs', settings) = dbSet.org
              /\ CommitsHold => \A n \in stored' : Holds(fs', dbSet', n)
  <2>1. /\ AtHome(fs, dbSet) /\ dbSet.dir = settings
        /\ dbOrganisation(fs, settings) = dbSet.org
        /\ CommitsHold => \A n \in stored : Holds(fs, dbSet, n)
    BY <1>3, <1>17 DEF IInv, UsedThere
  <2>2. /\ AtHome(fs', dbSet') /\ m \in fs'[p] /\ p \in DOMAIN fs'
        /\ \A q \in DOMAIN fs' : q \in DOMAIN fs \/ q = p
    BY <1>13, <2>1
  <2>3. \A j \in Keys : <<settings, j>> \in DOMAIN fs' <=> <<settings, j>> \in DOMAIN fs \/ j = k
    BY <1>12, <2>1, <2>2 DEF p
  <2>4. KeysIn(fs', settings) = KeysIn(fs, settings) \cup {k}
    BY <1>4, <2>3 DEF KeysIn
  <2>5. dbOrganisation(fs', settings) = dbSet.org
    BY <1>2, <1>4, <2>1, <2>4, PathFacts DEF dbOrganisation
  <2>6. ASSUME CommitsHold, NEW n \in stored'
        PROVE  Holds(fs', dbSet', n)
    <3>1. CASE n = m
      BY <1>11, <2>2, <3>1 DEF Holds, p
    <3>2. CASE n # m
      <4>1. PICK j \in DOMAIN dbSet.open : n \in fs[<<dbSet.dir, j>>]
        BY <1>8, <2>1, <2>6, <3>2 DEF Holds
      <4>2. <<dbSet.dir, j>> \in DOMAIN fs
        BY <2>1 DEF AtHome
      <4> QED BY <1>11, <1>12, <4>1, <4>2 DEF Holds
    <3> QED BY <3>1, <3>2
  <2> QED BY <1>11, <2>1, <2>2, <2>5, <2>6
<1>18. UsedThere'
  BY <1>2, <1>11, <1>17 DEF UsedThere
<1>19. PartsThere' /\ Copying' /\ OnOriginal' /\ Moving' /\ Deleting' /\ Opening'
  BY <1>2 DEF PartsThere, Copying, OnOriginal, Moving, Deleting, Opening
<1>20. BackupThere'
  BY <1>2, <1>12 DEF IInv, BackupThere
<1>21. CommitsHold => NothingForgotten'
  <2> HAVE CommitsHold
  <2>0. Home' = settings
    BY <1>2, <1>3 DEF Home
  <2>1. SUFFICES ASSUME ~astray, NEW n \in stored'
                 PROVE  n \in OnDisk(fs', settings)
    BY <1>2, <2>0 DEF NothingForgotten
  <2>2. AtHome(fs', dbSet') /\ (dbSet').dir = settings /\ Holds(fs', dbSet', n)
    BY <1>11, <1>17, <2>1
  <2> QED BY <1>10, <1>11, <2>2, HeldOnDisk
<1>23. IInv'
  BY <1>14, <1>15, <1>16, <1>18, <1>19, <1>20, <1>21 DEF IInv
<1> QED BY <1>11, <1>22, <1>23

-----------------------------------------------------------------------------
(* The data directory is changed. *)

\* The set is in the new directory.
LEMMA ArrivedPreserves ==
  ASSUME IInv, phase = "idle", NEW dir \in Dirs, NEW f, IsFiles(f), NEW set, IsSet(set),
         NEW content \in SUBSET Messages, set.dir = dir,
         set.org = "SINGLE_FILE" => AtHome(f, set),
         ~astray' => /\ AtHome(f, set) /\ DOMAIN set.open # {}
                     /\ dbOrganisation(f, dir) # "UNKNOWN"
                     /\ CommitsHold => \A m \in content : Holds(f, set, m),
         fs' = f, dbSet' = set, phase' = "unsaved", settings' = dir, stored' = content,
         astray' \in BOOLEAN, ops' \in 0 .. MaxOps, result' = "none",
         UNCHANGED <<saved, newDbDir, yearList, dstDbSet, original>>
  PROVE  IInv'
<1>1. Typed'
  BY DEF IInv, Typed, Phases
<1>2. Directories' /\ BackupThere'
  BY DEF Directories, BackupThere
<1>3. SingleThere'
  BY DEF SingleThere
<1>4. ~astray' => dbOrganisation(f, dir) = set.org
  <2>1. SUFFICES ASSUME ~astray'
                 PROVE  dbOrganisation(f, dir) = set.org
    OBVIOUS
  <2>2. AtHome(f, set) /\ DOMAIN set.open # {} /\ dbOrganisation(f, dir) # "UNKNOWN"
    BY <2>1
  <2>3. DOMAIN set.open \subseteq KeysIn(f, dir)
    BY <2>2 DEF AtHome, IsSet, KeysIn
  <2>4. \/ set.org = "SINGLE_FILE" /\ Single \in KeysIn(f, dir)
        \/ set.org = "YEARLY" /\ KeysIn(f, dir) # {Single}
    BY <2>2, <2>3 DEF AtHome, IsSet, Organisations
  <2> QED BY <2>2, <2>4, OrganisationFacts DEF Organisations
<1>5. UsedThere'
  BY <1>4 DEF UsedThere
<1>6. PartsThere' /\ Copying' /\ OnOriginal' /\ Moving' /\ Deleting' /\ Opening'
  BY DEF PartsThere, Copying, OnOriginal, Moving, Deleting, Opening
<1>7. CommitsHold => NothingForgotten'
  <2> HAVE CommitsHold
  <2>1. Home' = dir
    BY DEF Home
  <2>2. ASSUME ~astray', NEW m \in content
        PROVE  m \in OnDisk(f, dir)
    BY <2>2, HeldOnDisk
  <2> QED BY <2>1, <2>2 DEF NothingForgotten
<1> QED BY <1>1, <1>2, <1>3, <1>5, <1>6, <1>7 DEF IInv

\* The set has not left.
LEMMA StayedPreserves ==
  ASSUME IInv, phase = "idle", NEW f, IsFiles(f), NEW set, IsSet(set),
         SameIn(fs, f, settings),
         set.org = "SINGLE_FILE" =>
           /\ AtHome(f, set)
           /\ dbOrganisation(f, settings) = "SINGLE_FILE" =>
                f[<<settings, Single>>] \subseteq f[<<set.dir, Single>>],
         ~astray' => ~astray,
         ~astray' /\ set.org # "UNKNOWN" =>
           /\ AtHome(f, set) /\ DOMAIN set.open # {} /\ set.dir = settings
           /\ dbOrganisation(fs, settings) = set.org
           /\ CommitsHold => \A m \in stored : Holds(f, set, m),
         fs' = f, dbSet' = set, astray' \in BOOLEAN, ops' \in 0 .. MaxOps, result' = "none",
         UNCHANGED <<phase, settings, stored, saved, newDbDir, yearList, dstDbSet, original>>
  PROVE  IInv'
<1>1. IsFiles(fs) /\ settings = saved
  BY DEF IInv, Typed, Directories
<1>2. /\ dbOrganisation(f, settings) = dbOrganisation(fs, settings)
      /\ OnDisk(f, settings) = OnDisk(fs, settings)
  BY <1>1, SameFacts
<1>3. Typed'
  BY DEF IInv, Typed
<1>4. Directories' /\ BackupThere'
  BY <1>1 DEF Directories, BackupThere
<1>5. SingleThere'
  BY DEF SingleThere
<1>6. UsedThere'
  BY <1>2 DEF UsedThere, InUse
<1>7. PartsThere' /\ Copying' /\ OnOriginal' /\ Moving' /\ Deleting' /\ Opening'
  BY DEF PartsThere, Copying, OnOriginal, Moving, Deleting, Opening
<1>8. CommitsHold => NothingForgotten'
  <2> HAVE CommitsHold
  <2>1. NothingForgotten
    BY DEF IInv
  <2>2. Home = settings /\ Home' = settings
    BY <1>1 DEF Home
  <2> QED BY <1>2, <2>1, <2>2 DEF NothingForgotten
<1> QED BY <1>3, <1>4, <1>5, <1>6, <1>7, <1>8 DEF IInv

\* A yearly set that is or has gone astray.
LEMMA AstrayPreserves ==
  ASSUME IInv, phase = "idle", NEW f, IsFiles(f), NEW set, IsSet(set), set.org = "YEARLY",
         astray', astray' \in BOOLEAN, ops' \in 0 .. MaxOps, result' = "none",
         fs' = f, dbSet' = set,
         UNCHANGED <<phase, settings, stored, saved, newDbDir, yearList, dstDbSet, original>>
  PROVE  IInv'
<1>1. Typed'
  BY DEF IInv, Typed
<1>2. Directories' /\ BackupThere'
  BY DEF IInv, Directories, BackupThere
<1>3. SingleThere' /\ UsedThere'
  BY DEF SingleThere, UsedThere
<1>4. PartsThere' /\ Copying' /\ OnOriginal' /\ Moving' /\ Deleting' /\ Opening'
  BY DEF PartsThere, Copying, OnOriginal, Moving, Deleting, Opening
<1>5. NothingForgotten'
  BY DEF NothingForgotten
<1> QED BY <1>1, <1>2, <1>3, <1>4, <1>5 DEF IInv

\* What a change of the directory begins with.
LEMMA RelocateFacts ==
  ASSUME IInv, NEW dir \in Dirs, NEW outcomes, NEW content, Relocate(dir, outcomes, content)
  PROVE  /\ phase = "idle" /\ dbSet # None /\ dir # settings
         /\ IsFiles(fs) /\ IsSet(dbSet) /\ settings \in Dirs /\ saved = settings
         /\ stored \in SUBSET Messages /\ astray \in BOOLEAN /\ ops' \in 0 .. MaxOps
         /\ \E o \in outcomes : Relocated(dir, o, content)
<1>1. /\ phase = "idle" /\ dbSet # None /\ dir # settings /\ ops < MaxOps /\ ops' = ops + 1
      /\ \E o \in outcomes : Relocated(dir, o, content)
  BY DEF Relocate
<1>2. ops \in 0 .. MaxOps
  BY DEF IInv, Typed
<1>3. ops' \in 0 .. MaxOps
  BY <1>1, <1>2, MaintenanceAssumption
<1> QED BY <1>1, <1>3 DEF IInv, Typed, Directories

\* How it ends.
LEMMA RelocatedFacts ==
  ASSUME NEW dir, NEW o, NEW content, Relocated(dir, o, content)
  PROVE  \/ /\ o.res = "crash" /\ Die(o.fs)
            /\ astray' = (astray \/ ~(stored \subseteq OnDisk(o.fs, saved)))
         \/ /\ o.res = "ok" /\ fs' = o.fs /\ dbSet' = o.set
            /\ phase' = "unsaved" /\ settings' = dir /\ stored' = content /\ result' = "none"
            /\ astray' = (astray \/ dbOrganisation(o.fs, dir) = "UNKNOWN")
            /\ UNCHANGED <<saved, newDbDir, yearList, dstDbSet, original>>
         \/ /\ o.res \notin {"ok", "crash"} /\ fs' = o.fs /\ dbSet' = o.set /\ result' = "none"
            /\ astray' = (astray \/ o.set.dir # settings
                            \/ \E k \in DOMAIN o.set.open : o.set.open[k].state = "unlinked")
            /\ UNCHANGED <<phase, settings, stored, saved, newDbDir, yearList, dstDbSet, original>>
BY DEF Relocated

\* The program dies during a change.
LEMMA DiesRelocating ==
  ASSUME IInv, NEW f, IsFiles(f), Die(f), ops' \in 0 .. MaxOps,
         astray' = (astray \/ ~(stored \subseteq OnDisk(f, saved)))
  PROVE  IInv'
<1>1. astray' \in BOOLEAN /\ (astray' \/ stored \subseteq OnDisk(f, saved))
  BY DEF IInv, Typed
<1> QED BY <1>1, DiePreserves

\* The set in use in a change of the directory.
LEMMA SetInUse ==
  ASSUME IInv, phase = "idle", dbSet # None, dbSet.org # "UNKNOWN"
  PROVE  /\ dbSet.org = "SINGLE_FILE" =>
              /\ AtHome(fs, dbSet)
              /\ dbOrganisation(fs, settings) = "SINGLE_FILE" =>
                   fs[<<settings, Single>>] \subseteq fs[<<dbSet.dir, Single>>]
         /\ ~astray =>
              /\ AtHome(fs, dbSet) /\ DOMAIN dbSet.open # {}
              /\ dbSet.dir = settings /\ dbOrganisation(fs, settings) = dbSet.org
              /\ CommitsHold => \A m \in stored : Holds(fs, dbSet, m)
BY DEF IInv, SingleThere, UsedThere, InUse

\* Moving or copying the data, that is copyToLocation() and moveToLocation().
LEMMA TransferPreserves ==
  ASSUME IInv, NEW dir \in Dirs, NEW move \in BOOLEAN, dbSet # None,
         Relocate(dir, Transfer(fs, dbSet, dir, move), stored)
  PROVE  IInv'
<1>1. /\ phase = "idle" /\ dir # settings
      /\ IsFiles(fs) /\ IsSet(dbSet) /\ settings \in Dirs /\ saved = settings
      /\ stored \in SUBSET Messages /\ astray \in BOOLEAN /\ ops' \in 0 .. MaxOps
  BY RelocateFacts
<1>2. PICK o \in Transfer(fs, dbSet, dir, move) : Relocated(dir, o, stored)
  BY RelocateFacts
<1>3. /\ IsFiles(o.fs) /\ IsSet(o.set) /\ o.res \in {"ok", "fail", "crash"}
      /\ o.set.org = dbSet.org /\ DOMAIN o.set.open = DOMAIN dbSet.open
      /\ o.res = "ok" => o.set.dir = dir /\ dbSet.org # "UNKNOWN"
      /\ o.res # "ok" => o.set.dir = dbSet.dir
  <2>1. IsOutcome(o, dbSet, dir)
    BY <1>1, TransferTyped
  <2> QED BY <2>1 DEF IsOutcome
<1>4. AtHome(fs, dbSet) => Transferred(o, fs, dbSet, dir, move)
  BY <1>1, TransferAtHome
<1>5. dbSet.org = "SINGLE_FILE" =>
        /\ AtHome(fs, dbSet)
        /\ dbOrganisation(fs, settings) = "SINGLE_FILE" =>
             fs[<<settings, Single>>] \subseteq fs[<<dbSet.dir, Single>>]
  BY <1>1, SetInUse
<1>6. dbSet.org # "UNKNOWN" /\ ~astray =>
        /\ AtHome(fs, dbSet) /\ DOMAIN dbSet.open # {}
        /\ dbSet.dir = settings /\ dbOrganisation(fs, settings) = dbSet.org
        /\ CommitsHold => \A m \in stored : Holds(fs, dbSet, m)
  BY <1>1, SetInUse
<1>7. CASE o.res = "crash"
  <2>1. Die(o.fs) /\ astray' = (astray \/ ~(stored \subseteq OnDisk(o.fs, saved)))
    BY <1>2, <1>7, RelocatedFacts
  <2> QED BY <1>1, <1>3, <2>1, DiesRelocating
<1>8. CASE o.res = "ok"
  <2>1. /\ fs' = o.fs /\ dbSet' = o.set /\ result' = "none"
        /\ phase' = "unsaved" /\ settings' = dir /\ stored' = stored
        /\ astray' = (astray \/ dbOrganisation(o.fs, dir) = "UNKNOWN")
        /\ UNCHANGED <<saved, newDbDir, yearList, dstDbSet, original>>
    BY <1>2, <1>8, RelocatedFacts
  <2>2. o.set.org = "SINGLE_FILE" => AtHome(o.fs, o.set)
    BY <1>3, <1>4, <1>5, <1>8 DEF Transferred
  <2>3. astray' \in BOOLEAN
    BY <1>1, <2>1
  <2>4. ~astray' => ~astray /\ dbOrganisation(o.fs, dir) # "UNKNOWN"
    BY <2>1
  <2>5. ASSUME ~astray
        PROVE  /\ AtHome(o.fs, o.set) /\ DOMAIN o.set.open # {}
               /\ CommitsHold => \A m \in stored : Holds(o.fs, o.set, m)
    <3>1. /\ AtHome(fs, dbSet) /\ DOMAIN dbSet.open # {} /\ dbSet.dir = settings
          /\ CommitsHold => \A m \in stored : Holds(fs, dbSet, m)
      BY <1>3, <1>6, <1>8, <2>5
    <3>2. /\ AtHome(o.fs, o.set)
          /\ \A k \in DOMAIN dbSet.open : o.fs[<<dir, k>>] = fs[<<dbSet.dir, k>>]
      BY <1>4, <1>8, <3>1 DEF Transferred
    <3>3. \A m : Holds(fs, dbSet, m) => Holds(o.fs, o.set, m)
      BY <1>3, <1>8, <3>2 DEF Holds
    <3> QED BY <1>3, <3>1, <3>2, <3>3
  <2> QED BY <1>1, <1>3, <1>8, <2>1, <2>2, <2>3, <2>4, <2>5, ArrivedPreserves
<1>9. CASE o.res = "fail"
  <2>1. /\ fs' = o.fs /\ dbSet' = o.set /\ result' = "none"
        /\ astray' = (astray \/ o.set.dir # settings
                        \/ \E k \in DOMAIN o.set.open : o.set.open[k].state = "unlinked")
        /\ UNCHANGED <<phase, settings, stored, saved, newDbDir, yearList, dstDbSet, original>>
    BY <1>2, <1>9, RelocatedFacts
  <2>2. astray' \in BOOLEAN
    BY <1>1, <2>1
  <2>3. ~astray' => /\ ~astray
                    /\ ~(\E k \in DOMAIN o.set.open : o.set.open[k].state = "unlinked")
    BY <2>1
  <2>4. AtHome(fs, dbSet) =>
          /\ SameIn(fs, o.fs, settings) /\ SameIn(fs, o.fs, dbSet.dir)
          /\ \/ AtHome(o.fs, o.set)
             \/ /\ dbSet.org # "SINGLE_FILE"
                /\ \E k \in DOMAIN o.set.open : o.set.open[k].state = "unlinked"
    BY <1>1, <1>4, <1>9 DEF Transferred
  <2>5. CASE dbSet.org = "SINGLE_FILE"
    <3>1. /\ AtHome(fs, dbSet) /\ AtHome(o.fs, o.set)
          /\ SameIn(fs, o.fs, settings) /\ SameIn(fs, o.fs, dbSet.dir)
      BY <1>5, <2>4, <2>5
    <3>2. /\ dbOrganisation(o.fs, settings) = dbOrganisation(fs, settings)
          /\ \A m : Holds(o.fs, dbSet, m) <=> Holds(fs, dbSet, m)
      BY <1>1, <1>3, <3>1, SameFacts
    <3>3. \A m : Holds(o.fs, dbSet, m) <=> Holds(o.fs, o.set, m)
      BY <1>3, <1>9 DEF Holds
    <3>4. /\ dbOrganisation(fs, settings) = "SINGLE_FILE" =>
               /\ <<settings, Single>> \in DOMAIN fs
               /\ o.fs[<<settings, Single>>] = fs[<<settings, Single>>]
          /\ o.fs[<<dbSet.dir, Single>>] = fs[<<dbSet.dir, Single>>]
      <4>1. <<dbSet.dir, Single>> \in DOMAIN fs
        BY <2>5, <3>1 DEF AtHome
      <4> QED BY <1>1, <3>1, <4>1, PathFacts, OnDiskFacts DEF SameIn, SameAt
    <3>5. dbOrganisation(o.fs, settings) = "SINGLE_FILE" =>
            o.fs[<<settings, Single>>] \subseteq o.fs[<<o.set.dir, Single>>]
      BY <1>3, <1>5, <1>9, <2>5, <3>2, <3>4
    <3>6. ~astray' => /\ AtHome(o.fs, o.set) /\ DOMAIN o.set.open # {} /\ o.set.dir = settings
                      /\ dbOrganisation(fs, settings) = o.set.org
                      /\ CommitsHold => \A m \in stored : Holds(o.fs, o.set, m)
      BY <1>3, <1>6, <1>9, <2>3, <2>5, <3>1, <3>2, <3>3
    <3> QED BY <1>1, <1>3, <2>1, <2>2, <2>3, <3>1, <3>5, <3>6, StayedPreserves
  <2>6. CASE dbSet.org = "UNKNOWN"
    <3>1. o = Outcome("fail", fs, dbSet)
      BY <2>6 DEF Transfer
    <3>2. o.fs = fs
      BY <3>1 DEF Outcome
    <3>3. SameIn(fs, o.fs, settings)
      BY <3>2 DEF SameIn, SameAt
    <3> QED BY <1>1, <1>3, <2>1, <2>2, <2>3, <2>6, <3>3, StayedPreserves
  <2>7. CASE dbSet.org = "YEARLY" /\ ~astray
    <3>1. /\ AtHome(fs, dbSet) /\ DOMAIN dbSet.open # {}
          /\ dbSet.dir = settings /\ dbOrganisation(fs, settings) = dbSet.org
          /\ CommitsHold => \A m \in stored : Holds(fs, dbSet, m)
      BY <1>6, <2>7
    <3>2. SameIn(fs, o.fs, settings)
      BY <2>4, <3>1
    <3>3. \A m : Holds(o.fs, dbSet, m) <=> Holds(fs, dbSet, m)
      BY <1>1, <1>3, <3>1, <3>2, SameFacts
    <3>4. \A m : Holds(o.fs, dbSet, m) <=> Holds(o.fs, o.set, m)
      BY <1>3, <1>9 DEF Holds
    <3>5. ~astray' => AtHome(o.fs, o.set)
      BY <2>3, <2>4, <3>1
    <3>6. ~astray' => /\ AtHome(o.fs, o.set) /\ DOMAIN o.set.open # {} /\ o.set.dir = settings
                      /\ dbOrganisation(fs, settings) = o.set.org
                      /\ CommitsHold => \A m \in stored : Holds(o.fs, o.set, m)
      BY <1>3, <1>9, <3>1, <3>3, <3>4, <3>5
    <3> QED BY <1>1, <1>3, <2>1, <2>2, <2>3, <2>7, <3>2, <3>6, StayedPreserves
  <2>8. CASE dbSet.org = "YEARLY" /\ astray
    <3>1. astray'
      BY <2>1, <2>8
    <3> QED BY <1>1, <1>3, <2>1, <2>2, <2>8, <3>1, AstrayPreserves
  <2> QED BY <1>1, <2>5, <2>6, <2>7, <2>8 DEF IsSet, Organisations
<1> QED BY <1>3, <1>7, <1>8, <1>9

\* A new database, that is reopenLocation().
LEMMA NewDataPreserves ==
  ASSUME IInv, NEW dir \in Dirs, NewData(dir)
  PROVE  IInv'
<1>1. Relocate(dir, reopenLocation(fs, dbSet, dir), {}) /\ dbSet # None
  BY DEF NewData
<1>2. /\ phase = "idle" /\ dir # settings
      /\ IsFiles(fs) /\ IsSet(dbSet) /\ settings \in Dirs /\ saved = settings
      /\ astray \in BOOLEAN /\ ops' \in 0 .. MaxOps
  BY <1>1, RelocateFacts
<1>3. PICK o \in reopenLocation(fs, dbSet, dir) : Relocated(dir, o, {})
  BY <1>1, RelocateFacts
<1> DEFINE impeding == {<<dir, k>> : k \in Keys}
           emptied == Erase(fs, impeding)
<1>4. \/ dbSet.org = "UNKNOWN" /\ o = Outcome("fail", fs, dbSet)
      \/ \E y \in Years : o \in accessMessageDb(emptied, NewSet(dir, "YEARLY"), y)
      \/ \E lost : o = Outcome("crash", Erase(fs, lost), dbSet)
  BY DEF reopenLocation, Crashes
<1>5. IsFiles(emptied) /\ KeysIn(emptied, dir) = {}
  <2>1. IsFiles(emptied) /\ DOMAIN emptied = DOMAIN fs \ impeding
    <3> HIDE DEF impeding
    <3> QED BY ONLY <1>2 DEF Erase, IsFiles
  <2>2. \A k \in Keys : <<dir, k>> \in impeding
    OBVIOUS
  <2> QED BY <2>1, <2>2 DEF KeysIn
<1> HIDE DEF emptied
<1>6. CASE dbSet.org = "UNKNOWN" /\ o = Outcome("fail", fs, dbSet)
  <2>1. o.fs = fs /\ o.set = dbSet /\ o.res = "fail"
    BY <1>6 DEF Outcome
  <2>2. /\ fs' = fs /\ dbSet' = dbSet /\ result' = "none"
        /\ astray' = (astray \/ dbSet.dir # settings
                        \/ \E k \in DOMAIN dbSet.open : dbSet.open[k].state = "unlinked")
        /\ UNCHANGED <<phase, settings, stored, saved, newDbDir, yearList, dstDbSet, original>>
    BY <1>3, <2>1, RelocatedFacts
  <2>3. astray' \in BOOLEAN /\ (~astray' => ~astray)
    BY <1>2, <2>2
  <2>4. SameIn(fs, fs, settings)
    BY DEF SameIn, SameAt
  <2> QED BY <1>2, <1>6, <2>2, <2>3, <2>4, StayedPreserves
<1>7. ASSUME NEW y \in Years, o \in accessMessageDb(emptied, NewSet(dir, "YEARLY"), y)
      PROVE  IInv'
  <2>1. /\ IsFiles(o.fs) /\ IsSet(o.set) /\ o.set.dir = dir /\ o.set.org = "YEARLY"
        /\ o.res \in {"ok", "fail"}
        /\ o.res = "ok" => /\ AtHome(o.fs, o.set) /\ DOMAIN o.set.open # {}
                           /\ dbOrganisation(o.fs, dir) = "YEARLY"
    BY <1>5, <1>7, CreatedAtHome
  <2>2. CASE o.res = "ok"
    <3>1. /\ fs' = o.fs /\ dbSet' = o.set /\ result' = "none"
          /\ phase' = "unsaved" /\ settings' = dir /\ stored' = {}
          /\ astray' = (astray \/ dbOrganisation(o.fs, dir) = "UNKNOWN")
          /\ UNCHANGED <<saved, newDbDir, yearList, dstDbSet, original>>
      BY <1>3, <2>2, RelocatedFacts
    <3>2. astray' \in BOOLEAN /\ {} \in SUBSET Messages
      BY <1>2, <3>1
    <3>3. AtHome(o.fs, o.set) /\ DOMAIN o.set.open # {} /\ dbOrganisation(o.fs, dir) # "UNKNOWN"
      BY <2>1, <2>2
    <3>4. \A m \in {} : Holds(o.fs, o.set, m)
      OBVIOUS
    <3> QED BY <1>2, <2>1, <3>1, <3>2, <3>3, <3>4, ArrivedPreserves
  <2>3. CASE o.res = "fail"
    <3>1. /\ fs' = o.fs /\ dbSet' = o.set /\ result' = "none"
          /\ astray' = (astray \/ o.set.dir # settings
                          \/ \E k \in DOMAIN o.set.open : o.set.open[k].state = "unlinked")
          /\ UNCHANGED <<phase, settings, stored, saved, newDbDir, yearList, dstDbSet, original>>
      BY <1>3, <2>3, RelocatedFacts
    <3>2. astray' /\ astray' \in BOOLEAN
      BY <1>2, <2>1, <3>1
    <3> QED BY <1>2, <2>1, <3>1, <3>2, AstrayPreserves
  <2> QED BY <2>1, <2>2, <2>3
<1>8. ASSUME NEW lost, o = Outcome("crash", Erase(fs, lost), dbSet)
      PROVE  IInv'
  <2>1. o.res = "crash" /\ o.fs = Erase(fs, lost)
    BY <1>8 DEF Outcome
  <2>2. IsFiles(o.fs)
    BY <1>2, <2>1, EraseFacts
  <2>3. Die(o.fs) /\ astray' = (astray \/ ~(stored \subseteq OnDisk(o.fs, saved)))
    BY <1>3, <2>1, RelocatedFacts
  <2> QED BY <1>2, <2>2, <2>3, DiesRelocating
<1> QED BY <1>4, <1>6, <1>7, <1>8

\* Any change of the directory.
LEMMA ChangeDirectoryPreserves ==
  ASSUME IInv, NEW dir \in Dirs, MoveData(dir) \/ CopyData(dir) \/ NewData(dir)
  PROVE  IInv'
<1>1. CASE MoveData(dir)
  BY <1>1, TransferPreserves DEF MoveData
<1>2. CASE CopyData(dir)
  BY <1>2, TransferPreserves DEF CopyData
<1> QED BY <1>1, <1>2, NewDataPreserves

-----------------------------------------------------------------------------
(* Files of both organisations. *)

\* A dead program has no set.
Forgets == phase = "down" => dbSet = None

\* The directory that is left while the new one is not yet saved is in order.
LeftInOrder ==
  phase = "unsaved" =>
    /\ IsSet(dbSet) /\ dbSet.org # "UNKNOWN"
    /\ ~astray => ~Conflicting(saved)

\* The original is complete until it is removed.
Removing ==
  phase = "delete" /\ ~astray /\ CommitsHold => stored \subseteq fs[<<saved, Single>>]

\* Where files of both organisations lie, the original is complete, because beside it
\* come only copies; so are the new files when the program could not remove it.
BothComplete ==
  phase \in {"idle", "down"} /\ ~astray /\ CommitsHold /\ Conflicting(saved) =>
    /\ stored \subseteq fs[<<saved, Single>>]
    /\ dbSet # None => \A m \in stored : Filed(fs, saved, m)

\* Inductive with IInv.
Beside == Forgets /\ LeftInOrder /\ Removing /\ BothComplete

\* None is not a set.
LEMMA SetIsSome ==
  ASSUME NEW set, IsSet(set)
  PROVE  set # None
<1>1. set.open \in UNION {[keys -> Handles] : keys \in SUBSET Keys}
  BY DEF IsSet
<1>2. set \in DbSets
  BY <1>1 DEF IsSet, DbSets, Organisations
<1> QED BY <1>2, MaintenanceAssumption

\* One organisation does not conflict.
LEMMA OrganisedFacts ==
  ASSUME NEW dir, dbOrganisation(fs, dir) # "UNKNOWN"
  PROVE  ~Conflicting(dir)
BY DEF Conflicting, dbOrganisation

\* A database in use is in order.
LEMMA InUseBeside ==
  ASSUME IInv', phase' = "idle", IsSet(dbSet'), (dbSet').org # "UNKNOWN"
  PROVE  Beside'
<1>1. saved' = settings' /\ InUse'
  BY SetIsSome DEF IInv, Directories, InUse
<1>2. ~astray' => dbOrganisation(fs', saved') # "UNKNOWN"
  BY <1>1 DEF IInv, UsedThere
<1>3. ~astray' => ~Conflicting(saved)'
  BY <1>2 DEF Conflicting, dbOrganisation
<1> QED BY <1>3 DEF Beside, Forgets, LeftInOrder, Removing, BothComplete

\* A directory stays in order when only files of its organisation come or go.
LEMMA StaysInOrder ==
  ASSUME NEW dir, dbOrganisation(fs, dir) # "UNKNOWN",
         \/ \A k \in Keys : <<dir, k>> \in DOMAIN fs' => <<dir, k>> \in DOMAIN fs
         \/ /\ dbOrganisation(fs, dir) = "SINGLE_FILE"
            /\ \A k \in Keys \ {Single} : <<dir, k>> \in DOMAIN fs' => <<dir, k>> \in DOMAIN fs
         \/ /\ dbOrganisation(fs, dir) = "YEARLY"
            /\ <<dir, Single>> \in DOMAIN fs' => <<dir, Single>> \in DOMAIN fs
  PROVE  ~(Single \in KeysIn(fs', dir) /\ KeysIn(fs', dir) # {Single})
BY PathFacts DEF dbOrganisation, KeysIn

\* Dying in a directory that is in order, or with all in the original.
LEMMA DeadBeside ==
  ASSUME NEW files, Die(files),
         ~astray' /\ CommitsHold /\ Single \in KeysIn(files, saved) /\ KeysIn(files, saved) # {Single} =>
           stored \subseteq files[<<saved, Single>>]
  PROVE  Beside'
BY DEF Die, Beside, Forgets, LeftInOrder, Removing, BothComplete, Conflicting

\* The program dies between two operations.
LEMMA CrashBeside ==
  ASSUME IInv, Beside, Crash
  PROVE  Beside'
<1>1. /\ Die(fs) /\ phase \in Phases /\ phase # "down"
      /\ astray \in BOOLEAN /\ (~astray' => ~astray)
  BY DEF Crash, IInv, Typed
<1>2. CASE phase = "idle"
  BY <1>1, <1>2, DeadBeside DEF Beside, BothComplete, Conflicting
<1>3. CASE phase = "unsaved"
  BY <1>1, <1>3, DeadBeside DEF Beside, LeftInOrder, Conflicting
<1>4. CASE phase \in {"years", "move"}
  <2>1. settings = saved /\ (~astray => dbOrganisation(fs, saved) = "SINGLE_FILE")
    BY <1>4 DEF IInv, Directories, Copying, Moving
  <2> QED BY <1>1, <2>1, DeadBeside, OrganisedFacts DEF Conflicting
<1>5. CASE phase = "delete"
  BY <1>1, <1>5, DeadBeside DEF Beside, Removing
<1>6. CASE phase = "open"
  <2>1. Single \notin KeysIn(fs, saved)
    BY <1>6 DEF IInv, Directories, Opening, KeysIn
  <2> QED BY <1>1, <2>1, DeadBeside
<1> QED BY <1>1, <1>2, <1>3, <1>4, <1>5, <1>6 DEF Phases

\* The next start.
LEMMA RestartBeside ==
  ASSUME IInv, Beside, IInv', Restart
  PROVE  Beside'
<1>1. PICK o \in accessDbSet(fs, saved) :
        fs' = o.fs /\ dbSet' = IF o.res = "ok" THEN o.set ELSE None
  BY DEF Restart
<1>2. /\ phase = "down" /\ phase' = "idle"
      /\ UNCHANGED <<saved, stored, astray>>
      /\ IsFiles(fs) /\ saved \in Dirs
  BY DEF Restart, IInv, Typed
<1>3. CASE KeysIn(fs, saved) = {}
  <2>1. PICK y \in Years : o \in accessMessageDb(fs, NewSet(saved, "YEARLY"), y)
    BY <1>3 DEF accessDbSet
  <2>2. /\ IsSet(o.set) /\ o.set.org = "YEARLY" /\ o.res \in {"ok", "fail"}
        /\ o.res = "fail" => o.fs = fs
    BY <1>2, <1>3, <2>1, CreatedAtHome
  <2>3. CASE o.res = "ok"
    BY <1>1, <1>2, <2>2, <2>3, InUseBeside
  <2>4. CASE o.res = "fail"
    <3>1. fs' = fs /\ ~Conflicting(saved)'
      BY <1>1, <1>2, <1>3, <2>2, <2>4 DEF Conflicting
    <3> QED BY <1>2, <3>1 DEF Beside, Forgets, LeftInOrder, Removing, BothComplete
  <2> QED BY <2>2, <2>3, <2>4
<1>4. CASE KeysIn(fs, saved) # {} /\ dbOrganisation(fs, saved) = "UNKNOWN"
  <2>1. fs' = fs /\ dbSet' = None
    BY <1>1, <1>4 DEF accessDbSet, Outcome
  <2> QED BY <1>2, <2>1 DEF Beside, Forgets, LeftInOrder, Removing, BothComplete, Conflicting
<1>5. CASE KeysIn(fs, saved) # {} /\ dbOrganisation(fs, saved) # "UNKNOWN"
  <2>1. dbSet' = Loaded(fs, saved)
    BY <1>1, <1>5 DEF accessDbSet, Outcome
  <2> QED BY <1>2, <1>5, <2>1, LoadedFacts, InUseBeside
<1> QED BY <1>3, <1>4, <1>5

\* A message is stored.
LEMMA StoreBeside ==
  ASSUME IInv, Beside, IInv', NEW m \in Messages, Store(m)
  PROVE  Beside'
<1>1. /\ phase \in {"idle", "unsaved"} /\ dbSet # None /\ dbSet.org # "UNKNOWN"
      /\ UNCHANGED <<settings, saved, phase, astray>>
  BY DEF Store
<1>2. /\ IsSet(dbSet') /\ (dbSet').org = dbSet.org
      /\ AtHome(fs, dbSet) => \A q \in DOMAIN fs' : q \in DOMAIN fs \/ q[1] = dbSet.dir
  BY StorePreserves
<1>3. CASE phase = "idle"
  BY <1>1, <1>2, <1>3, InUseBeside
<1>4. CASE phase = "unsaved"
  <2>1. ASSUME ~astray
        PROVE  ~Conflicting(saved)'
    <3>1. AtHome(fs, dbSet) /\ dbSet.dir = settings
      BY <1>1, <1>4, <2>1 DEF IInv, UsedThere, InUse
    <3>2. CASE saved = settings
      <4>1. InUse'
        BY <1>1, <1>2, <1>4, SetIsSome DEF InUse
      <4>2. dbOrganisation(fs', saved') # "UNKNOWN"
        BY <1>1, <2>1, <3>2, <4>1 DEF IInv, UsedThere, InUse
      <4> QED BY <4>2 DEF Conflicting, dbOrganisation
    <3>3. CASE saved # settings
      <4>1. \A k \in Keys : <<saved, k>> \in DOMAIN fs' => <<saved, k>> \in DOMAIN fs
        BY <1>2, <3>1, <3>3
      <4>2. ~Conflicting(saved)
        BY <1>4, <2>1 DEF Beside, LeftInOrder
      <4>3. KeysIn(fs', saved) \subseteq KeysIn(fs, saved)
        BY <4>1 DEF KeysIn
      <4> QED BY <1>1, <4>2, <4>3 DEF Conflicting
    <3> QED BY <3>2, <3>3
  <2> QED BY <1>1, <1>2, <1>4, <2>1 DEF Beside, Forgets, LeftInOrder, Removing, BothComplete
<1> QED BY <1>1, <1>3, <1>4

\* A split.
LEMMA SplitBeside ==
  ASSUME IInv, Beside, IInv', Split
  PROVE  Beside'
<1>a. IsFiles(fs) /\ settings \in Dirs /\ saved \in Dirs /\ IsFiles(fs')
  BY DEF IInv, Typed
<1>1. ASSUME phase' \in {"years", "move", "open"}
      PROVE  Beside'
  BY <1>1 DEF Beside, Forgets, LeftInOrder, Removing, BothComplete
<1>2. ASSUME NEW dir \in Dirs, SplitCopy(dir)
      PROVE  Beside'
  <2>1. PICK o \in Transfer(fs, dbSet, dir, FALSE) :
          CASE o.res = "crash" -> Die(o.fs) /\ UNCHANGED astray
            [] OTHER ->
                 /\ dbSet' = o.set
                 /\ IF o.res = "ok" THEN phase' = "years" ELSE phase' = "idle"
    BY <1>2 DEF SplitCopy, EndSplit
  <2>2. /\ phase = "idle" /\ dbSet # None /\ dir # settings /\ dbSet.org = "SINGLE_FILE"
        /\ IsSet(dbSet) /\ saved = settings /\ InUse
    BY <1>2 DEF SplitCopy, IInv, Typed, Directories, InUse
  <2>3. IsSet(o.set) /\ o.set.org = "SINGLE_FILE" /\ IsFiles(o.fs)
    <3>1. IsOutcome(o, dbSet, dir)
      BY <1>a, <2>2, TransferTyped
    <3> QED BY <2>2, <3>1 DEF IsOutcome
  <2>4. CASE o.res = "crash"
    <3>1. Die(o.fs) /\ UNCHANGED astray
      BY <2>1, <2>4
    <3>2. Transferred(o, fs, dbSet, dir, FALSE)
      BY <1>a, <2>2, TransferAtHome DEF IInv, SingleThere
    <3>3. SameIn(fs, o.fs, saved)
      BY <1>a, <2>2, <3>2 DEF Transferred
    <3>4. ~astray => dbOrganisation(o.fs, saved) # "UNKNOWN"
      <4>1. dbOrganisation(o.fs, saved) = dbOrganisation(fs, saved)
        BY <1>a, <2>3, <3>3, SameFacts
      <4> QED BY <2>2, <4>1 DEF IInv, UsedThere
    <3> QED BY <3>1, <3>4, DeadBeside DEF dbOrganisation
  <2>5. CASE o.res = "ok"
    BY <1>1, <2>1, <2>5
  <2>6. CASE o.res \notin {"crash", "ok"}
    BY <2>1, <2>3, <2>6, InUseBeside
  <2> QED BY <2>4, <2>5, <2>6
<1>3. ASSUME NEW y \in Years, SplitYear(y)
      PROVE  Beside'
  <2>1. phase = "years" /\ IsSet(dbSet) /\ dbSet.org = "SINGLE_FILE"
    BY <1>3 DEF SplitYear, IInv, Copying
  <2>2. \/ phase' = phase
        \/ dbSet' = dbSet /\ phase' = "idle"
        \/ \E f : SetBackOriginDb(f)
    BY <1>3 DEF SplitYear, EndSplit
  <2>3. ASSUME NEW f, SetBackOriginDb(f)
        PROVE  Beside'
    <3>1. /\ fs' = f /\ phase' = "idle"
          /\ dbSet' = openLocation(f, dbSet, settings, dbSet.org).set
      BY <2>3 DEF SetBackOriginDb, EndSplit
    <3>2. \/ dbSet' = Loaded(f, settings) /\ dbOrganisation(f, settings) # "UNKNOWN"
          \/ dbSet' = dbSet
      BY <3>1, OpenFacts
    <3>3. IsSet(dbSet') /\ (dbSet').org # "UNKNOWN"
      BY <1>a, <2>1, <3>1, <3>2, LoadedFacts
    <3> QED BY <3>1, <3>3, InUseBeside
  <2> QED BY <1>1, <2>1, <2>2, <2>3, InUseBeside
<1>4. ASSUME SplitSetBack
      PROVE  Beside'
  <2>1. /\ phase = "years" /\ IsSet(dbSet) /\ dbSet.org = "SINGLE_FILE"
        /\ dbSet' = openLocation(fs, dbSet, settings, dbSet.org).set
        /\ phase' = "move" \/ phase' = "idle"
    BY <1>4 DEF SplitSetBack, EndSplit, IInv, Copying
  <2>2. \/ dbSet' = Loaded(fs, settings) /\ dbOrganisation(fs, settings) # "UNKNOWN"
        \/ dbSet' = dbSet
    BY <2>1, OpenFacts
  <2>3. IsSet(dbSet') /\ (dbSet').org # "UNKNOWN"
    BY <1>a, <2>1, <2>2, LoadedFacts
  <2> QED BY <1>1, <2>1, <2>3, InUseBeside
<1>5. ASSUME SplitMove
      PROVE  Beside'
  <2>1. PICK o \in Transfer(fs, dstDbSet, settings, TRUE) :
          CASE o.res = "crash" -> Die(o.fs)
            [] OTHER -> /\ fs' = o.fs
                        /\ IF o.res = "ok" THEN phase' = "delete" ELSE phase' = "idle"
                        /\ UNCHANGED <<dbSet, saved, stored>>
    BY <1>5 DEF SplitMove, EndSplit
  <2>2. phase = "move" /\ UNCHANGED astray
    BY <1>5 DEF SplitMove
  <2>3. /\ saved = settings /\ newDbDir \in Dirs /\ newDbDir # settings
        /\ IsSet(dbSet) /\ dbSet.org = "SINGLE_FILE"
        /\ IsSet(dstDbSet) /\ dstDbSet.org = "YEARLY" /\ AtHome(fs, dstDbSet)
        /\ original = fs[<<settings, Single>>]
        /\ CommitsHold /\ ~astray => stored \subseteq original
    BY <2>2, OriginalHas
  <2>4. CommitsHold /\ ~astray => stored \subseteq o.fs[<<saved, Single>>]
    <3>1. Transferred(o, fs, dstDbSet, settings, TRUE)
      BY <1>a, <2>3, TransferAtHome
    <3>2. Single \in Keys \ DOMAIN dstDbSet.open
      BY <2>3, PathFacts DEF AtHome
    <3>3. SameAt(fs, o.fs, <<settings, Single>>)
      BY <1>a, <3>1, <3>2 DEF Transferred
    <3>4. <<settings, Single>> \in DOMAIN fs
      BY <2>2, PathFacts, OriginalHas
    <3> QED BY <2>3, <3>3, <3>4 DEF SameAt
  <2>5. CASE o.res = "crash"
    <3>1. Die(o.fs)
      BY <2>1, <2>5
    <3> QED BY <2>2, <2>4, <3>1, DeadBeside
  <2>6. CASE o.res = "ok"
    <3>1. fs' = o.fs /\ phase' = "delete" /\ UNCHANGED <<saved, stored, astray>>
      BY <2>1, <2>2, <2>6
    <3> QED BY <2>4, <3>1 DEF Beside, Forgets, LeftInOrder, Removing, BothComplete
  <2>7. CASE o.res \notin {"crash", "ok"}
    <3>1. phase' = "idle" /\ dbSet' = dbSet
      BY <2>1, <2>7
    <3> QED BY <2>3, <3>1, InUseBeside
  <2> QED BY <2>5, <2>6, <2>7
<1>6. ASSUME SplitDelete
      PROVE  Beside'
  <2>1. PICK o \in deleteLocation(fs, dbSet) :
          CASE o.res = "crash" -> Die(o.fs)
            [] OTHER -> /\ fs' = o.fs
                        /\ IF o.res = "ok" THEN phase' = "open" ELSE phase' = "idle"
                        /\ UNCHANGED <<saved, stored>>
    BY <1>6 DEF SplitDelete, EndSplit
  <2>2. phase = "delete" /\ UNCHANGED astray
    BY <1>6 DEF SplitDelete
  <2>3. /\ saved = settings
        /\ IsSet(dbSet) /\ dbSet.org = "SINGLE_FILE" /\ dbSet.dir = settings /\ AtHome(fs, dbSet)
    BY <2>2 DEF IInv, Directories, OnOriginal
  <2>4. /\ o.res \in {"ok", "fail", "crash"}
        /\ IsFiles(o.fs)
        /\ \A q \in DOMAIN fs : q # <<settings, Single>> => q \in DOMAIN o.fs /\ o.fs[q] = fs[q]
        /\ o.res = "ok" => <<settings, Single>> \notin DOMAIN o.fs
        /\ \A q \in DOMAIN o.fs : q \in DOMAIN fs /\ o.fs[q] = fs[q]
        /\ o.res # "crash" => o.set = NewSet(settings, "UNKNOWN")
    BY <1>a, <2>3, DeletedFacts
  <2>5. CommitsHold /\ ~astray /\ Single \in KeysIn(o.fs, saved) =>
          stored \subseteq o.fs[<<saved, Single>>]
    BY <2>2, <2>4 DEF Beside, Removing, KeysIn
  <2>6. CASE o.res = "crash"
    <3>1. Die(o.fs)
      BY <2>1, <2>6
    <3> QED BY <2>2, <2>5, <3>1, DeadBeside
  <2>7. CASE o.res = "ok"
    BY <1>1, <2>1, <2>7
  <2>8. CASE o.res \notin {"crash", "ok"}
    <3>1. fs' = o.fs /\ phase' = "idle" /\ UNCHANGED <<saved, stored, astray>>
      BY <2>1, <2>2, <2>8
    <3>2. CommitsHold /\ ~astray => \A m \in stored : Filed(fs, saved, m)
      BY <2>2, <2>3 DEF IInv, Deleting
    <3>3. ASSUME NEW m, Filed(fs, saved, m)
          PROVE  Filed(fs', saved, m)
      <4>1. PICK y \in Years : <<saved, y>> \in DOMAIN fs /\ m \in fs[<<saved, y>>]
        BY <3>3 DEF Filed
      <4>2. <<saved, y>> # <<settings, Single>>
        BY PathFacts
      <4> QED BY <2>4, <3>1, <4>1, <4>2 DEF Filed
    <3>4. CommitsHold /\ ~astray => \A m \in stored : Filed(fs', saved, m)
      BY <3>2, <3>3
    <3> QED BY <2>5, <3>1, <3>4
            DEF Beside, Forgets, LeftInOrder, Removing, BothComplete, Conflicting
  <2> QED BY <2>6, <2>7, <2>8
<1>7. ASSUME SplitOpen
      PROVE  Beside'
  <2>1. /\ phase = "open" /\ phase' = "idle" /\ UNCHANGED <<fs, settings, saved>>
    BY <1>7 DEF SplitOpen, EndSplit
  <2>2. Single \notin KeysIn(fs, saved)
    BY <2>1 DEF IInv, Directories, Opening, KeysIn
  <2> QED BY <2>1, <2>2 DEF Beside, Forgets, LeftInOrder, Removing, BothComplete, Conflicting
<1> QED BY <1>2, <1>3, <1>4, <1>5, <1>6, <1>7 DEF Split

\* A change of the directory.
LEMMA ChangeDirectoryBeside ==
  ASSUME IInv, Beside, IInv', NEW dir \in Dirs, NEW outcomes, NEW content,
         Relocate(dir, outcomes, content),
         \/ \E move \in BOOLEAN : outcomes = Transfer(fs, dbSet, dir, move)
         \/ outcomes = reopenLocation(fs, dbSet, dir)
  PROVE  Beside'
<1>1. /\ phase = "idle" /\ dbSet # None /\ dir # settings
      /\ IsFiles(fs) /\ IsSet(dbSet) /\ settings \in Dirs /\ saved = settings
      /\ astray \in BOOLEAN
  BY RelocateFacts
<1>2. PICK o \in outcomes : Relocated(dir, o, content)
  BY RelocateFacts
<1>3. CASE dbSet.org = "UNKNOWN"
  <2>1. o = Outcome("fail", fs, dbSet)
    BY <1>3 DEF Transfer, reopenLocation
  <2>2. o.res = "fail" /\ o.fs = fs /\ o.set = dbSet
    BY <2>1 DEF Outcome
  <2>3. UNCHANGED <<fs, dbSet, phase, saved, stored>> /\ (~astray' => ~astray)
    BY <1>1, <1>2, <2>2, RelocatedFacts
  <2> QED BY <1>1, <2>3
          DEF Beside, Forgets, LeftInOrder, Removing, BothComplete, Conflicting, Filed
<1>4. CASE dbSet.org # "UNKNOWN"
  <2>1. ~astray => /\ AtHome(fs, dbSet) /\ dbSet.dir = saved
                   /\ dbOrganisation(fs, saved) = dbSet.org
    BY <1>1, <1>4, SetInUse
  <2>2. /\ o.res # "crash" => IsSet(o.set) /\ o.set.org # "UNKNOWN"
        /\ ~astray => ~(Single \in KeysIn(o.fs, saved) /\ KeysIn(o.fs, saved) # {Single})
    <3>1. ASSUME NEW move \in BOOLEAN, outcomes = Transfer(fs, dbSet, dir, move)
          PROVE  /\ IsSet(o.set) /\ o.set.org # "UNKNOWN"
                 /\ ~astray => ~(Single \in KeysIn(o.fs, saved) /\ KeysIn(o.fs, saved) # {Single})
      <4>1. IsSet(o.set) /\ o.set.org # "UNKNOWN"
        BY <1>1, <1>4, <3>1, TransferTyped DEF IsOutcome
      <4>2. ASSUME ~astray
            PROVE  ~(Single \in KeysIn(o.fs, saved) /\ KeysIn(o.fs, saved) # {Single})
        <5>1. \A k \in Keys \ DOMAIN dbSet.open : SameAt(fs, o.fs, <<saved, k>>)
          BY <1>1, <2>1, <3>1, <4>2, TransferAtHome DEF Transferred
        <5>2. /\ dbSet.org = "SINGLE_FILE" => DOMAIN dbSet.open = {Single}
              /\ dbSet.org # "SINGLE_FILE" => Single \notin DOMAIN dbSet.open
          BY <2>1, <4>2 DEF AtHome
        <5>3. \A k \in Keys \ DOMAIN dbSet.open :
                <<saved, k>> \in DOMAIN o.fs => <<saved, k>> \in DOMAIN fs
          BY <5>1 DEF SameAt
        <5>4. CASE dbSet.org = "SINGLE_FILE"
          <6>1. \A k \in Keys : <<saved, k>> \in DOMAIN fs => k = Single
            BY <2>1, <4>2, <5>4, OrganisationFacts
          <6> QED BY <5>2, <5>3, <5>4, <6>1 DEF KeysIn
        <5>5. CASE dbSet.org # "SINGLE_FILE"
          <6>1. Single \notin KeysIn(fs, saved)
            BY <1>1, <1>4, <2>1, <4>2, <5>5, OrganisationFacts DEF IsSet, Organisations
          <6> QED BY <5>2, <5>3, <5>5, <6>1, PathFacts DEF KeysIn
        <5> QED BY <5>4, <5>5
      <4> QED BY <4>1, <4>2
    <3>2. ASSUME outcomes = reopenLocation(fs, dbSet, dir)
          PROVE  /\ o.res # "crash" => IsSet(o.set) /\ o.set.org # "UNKNOWN"
                 /\ ~astray => ~(Single \in KeysIn(o.fs, saved) /\ KeysIn(o.fs, saved) # {Single})
      <4> DEFINE impeding == {<<dir, k>> : k \in Keys}
                 emptied == Erase(fs, impeding)
      <4>1. \/ \E y \in Years : o \in accessMessageDb(emptied, NewSet(dir, "YEARLY"), y)
            \/ \E lost : o = Outcome("crash", Erase(fs, lost), dbSet)
        BY <1>4, <3>2 DEF reopenLocation, Crashes
      <4>2. IsFiles(emptied) /\ \A q \in DOMAIN emptied : q \in DOMAIN fs
        <5> HIDE DEF impeding
        <5> QED BY ONLY <1>1 DEF Erase, IsFiles
      <4>3. KeysIn(emptied, dir) = {}
        <5>1. \A k \in Keys : <<dir, k>> \in impeding
          OBVIOUS
        <5>2. DOMAIN emptied = DOMAIN fs \ impeding
          BY DEF Erase
        <5> QED BY <5>1, <5>2 DEF KeysIn
      <4> HIDE DEF emptied
      <4>4. ASSUME NEW y \in Years, o \in accessMessageDb(emptied, NewSet(dir, "YEARLY"), y)
            PROVE  /\ o.res # "crash" /\ IsSet(o.set) /\ o.set.org # "UNKNOWN"
                   /\ \A k \in Keys : <<saved, k>> \in DOMAIN o.fs => <<saved, k>> \in DOMAIN fs
        <5>1. IsSet(NewSet(dir, "YEARLY")) /\ NewSet(dir, "YEARLY").dir = dir
          BY NewSetFacts DEF Organisations
        <5>2. /\ o.res \in {"ok", "fail"} /\ IsSet(o.set) /\ o.set.org = "YEARLY"
          BY <4>2, <4>3, <4>4, CreatedAtHome
        <5>3. o.fs = emptied \/ o.fs = Touch(emptied, <<dir, y>>)
          BY <4>2, <4>4, <5>1, <5>2, PathFacts, AccessFacts
        <5>4. \A q \in DOMAIN o.fs : q \in DOMAIN emptied \/ q = <<dir, y>>
          <6>1. IsTouched(Touch(emptied, <<dir, y>>), emptied, <<dir, y>>)
            BY <4>2, PathFacts, TouchFacts
          <6> QED BY <5>3, <6>1 DEF IsTouched
        <5>5. \A k \in Keys : <<saved, k>> # <<dir, y>>
          BY <1>1
        <5> QED BY <4>2, <5>2, <5>4, <5>5
      <4>5. ASSUME NEW lost, o = Outcome("crash", Erase(fs, lost), dbSet)
            PROVE  /\ o.res = "crash"
                   /\ \A k \in Keys : <<saved, k>> \in DOMAIN o.fs => <<saved, k>> \in DOMAIN fs
        BY <4>5 DEF Outcome, Erase
      <4>6. /\ o.res # "crash" => IsSet(o.set) /\ o.set.org # "UNKNOWN"
            /\ \A k \in Keys : <<saved, k>> \in DOMAIN o.fs => <<saved, k>> \in DOMAIN fs
        BY <4>1, <4>4, <4>5
      <4>7. KeysIn(o.fs, saved) \subseteq KeysIn(fs, saved)
        BY <4>6 DEF KeysIn
      <4>8. ~astray => ~(Single \in KeysIn(fs, saved) /\ KeysIn(fs, saved) # {Single})
        BY <1>4, <2>1 DEF dbOrganisation
      <4> QED BY <4>6, <4>7, <4>8
    <3> QED BY <3>1, <3>2
  <2>3. \/ o.res = "crash" /\ Die(o.fs) /\ (~astray' => ~astray)
        \/ /\ o.res = "ok" /\ fs' = o.fs /\ dbSet' = o.set /\ phase' = "unsaved"
           /\ UNCHANGED saved /\ (~astray' => ~astray)
        \/ o.res \notin {"ok", "crash"} /\ dbSet' = o.set /\ phase' = "idle"
    BY <1>1, <1>2, RelocatedFacts
  <2>4. CASE o.res = "crash"
    BY <2>2, <2>3, <2>4, DeadBeside
  <2>5. CASE o.res = "ok"
    BY <2>2, <2>3, <2>5
       DEF Beside, Forgets, LeftInOrder, Removing, BothComplete, Conflicting
  <2>6. CASE o.res \notin {"ok", "crash"}
    BY <2>2, <2>3, <2>6, InUseBeside
  <2> QED BY <2>4, <2>5, <2>6
<1> QED BY <1>3, <1>4

\* Every step keeps it.
LEMMA StepBeside ==
  ASSUME IInv, Beside, IInv', [Next]_vars
  PROVE  Beside'
<1>1. CASE \E m \in Messages : Store(m)
  BY <1>1, StoreBeside
<1>2. CASE Split
  BY <1>2, SplitBeside
<1>3. CASE ChangeDirectory
  <2>1. PICK dir \in Dirs : MoveData(dir) \/ CopyData(dir) \/ NewData(dir)
    BY <1>3 DEF ChangeDirectory
  <2>2. TRUE \in BOOLEAN /\ FALSE \in BOOLEAN
    OBVIOUS
  <2> QED BY <2>1, <2>2, ChangeDirectoryBeside DEF MoveData, CopyData, NewData
<1>4. CASE SaveSettings
  <2>1. phase = "unsaved" /\ phase' = "idle" /\ UNCHANGED dbSet
    BY <1>4 DEF SaveSettings
  <2> QED BY <2>1, InUseBeside DEF Beside, LeftInOrder
<1>5. CASE Crash \/ Restart
  BY <1>5, CrashBeside, RestartBeside
<1>6. CASE UNCHANGED vars
  BY <1>6 DEF vars, Beside, Forgets, LeftInOrder, Removing, BothComplete, Conflicting, Filed
<1> QED BY <1>1, <1>2, <1>3, <1>4, <1>5, <1>6 DEF Next

\* It holds at first.
LEMMA InitBeside ==
  ASSUME Init
  PROVE  Beside
<1>1. PICK dir \in Dirs, ms \in SUBSET Messages :
       /\ saved = dir
       /\ fs = IF StartOrg = "SINGLE_FILE"
               THEN [p \in {<<dir, Single>>} |-> ms]
               ELSE [p \in {<<dir, YearOf[m]>> : m \in ms} |->
                       {m \in ms : YearOf[m] = p[2]}]
  BY DEF Init
<1>2. CASE StartOrg = "SINGLE_FILE"
  <2>1. DOMAIN fs = {<<dir, Single>>}
    BY <1>1, <1>2
  <2> QED BY <1>1, <2>1
          DEF Init, Beside, Forgets, LeftInOrder, Removing, BothComplete, Conflicting, KeysIn
<1>3. CASE StartOrg # "SINGLE_FILE"
  <2>1. DOMAIN fs = {<<dir, YearOf[m]>> : m \in ms}
    BY <1>1, <1>3
  <2>2. \A m \in ms : YearOf[m] # Single
    BY StorageAssumption
  <2>3. <<dir, Single>> \notin DOMAIN fs
    BY <2>1, <2>2
  <2>4. ~Conflicting(saved) /\ phase = "idle"
    BY <1>1, <2>3 DEF Init, Conflicting, KeysIn
  <2> QED BY <2>4 DEF Beside, Forgets, LeftInOrder, Removing, BothComplete
<1> QED BY <1>2, <1>3

-----------------------------------------------------------------------------
(* The theorems. *)

\* Every step keeps the invariant.
LEMMA StepPreserves ==
  ASSUME IInv, [Next]_vars
  PROVE  IInv'
<1>1. CASE \E m \in Messages : Store(m)
  BY <1>1, StorePreserves
<1>2. CASE Split
  BY <1>2, SplitCopyPreserves, SplitYearPreserves, SplitSetBackPreserves, SplitMovePreserves,
     SplitDeletePreserves, SplitOpenPreserves DEF Split
<1>3. CASE ChangeDirectory
  BY <1>3, ChangeDirectoryPreserves DEF ChangeDirectory
<1>4. CASE SaveSettings \/ Crash \/ Restart
  BY <1>4, SaveSettingsPreserves, CrashPreserves, RestartPreserves
<1>5. CASE UNCHANGED vars
  BY <1>5, StutteringPreserves
<1> QED BY <1>1, <1>2, <1>3, <1>4, <1>5 DEF Next

\* The invariant holds throughout.
LEMMA Invariant == Spec => []IInv
<1>1. Init => IInv
  BY InitInvariant
<1>2. IInv /\ [Next]_vars => IInv'
  BY StepPreserves
<1> QED BY <1>1, <1>2, PTL DEF Spec

\* The sets and the files keep their form: a set is in a directory, its databases
\* have the keys of its files, and a file has messages.
THEOREM TypeCorrect == Spec => []TypeOK
<1>1. \A set : IsSet(set) => SetOK(set)
  BY DEF IsSet, SetOK, Organisations
<1>2. IsFiles(fs) => FilesOK(fs)
  BY DEF IsFiles, FilesOK
<1>3. IInv => TypeOK
  BY <1>1, <1>2 DEF IInv, Typed, TypeOK
<1> QED BY <1>3, Invariant, PTL

\* If transactions are committed, no message is forgotten: at every moment of a
\* split or a change of the directory (TaskSplitDb::splitMsgDbByYears(),
\* DlgChangeDirectory::relocateDatabase()), whatever step fails and wherever the
\* program dies, all that has been stored is in the directory the next start or
\* the running program looks in.
THEOREM AllKept == ASSUME CommitsHold PROVE Spec => []NothingForgotten
<1>1. IInv => NothingForgotten
  BY DEF IInv
<1> QED BY <1>1, Invariant, PTL

\* If transactions are committed, a database that can be used has all messages,
\* and all its connections are to files in the directory of the account: those
\* made for a copy that was given up are gone.
THEOREM AllServed == ASSUME CommitsHold PROVE Spec => []Served
<1>1. ASSUME IInv, phase = "idle", dbSet # None, ~astray, dbSet.org # "UNKNOWN"
      PROVE  /\ \A k \in DOMAIN dbSet.open :
                  LET db == Accessed(dbSet.open[k]) IN
                  db.state = "open" /\ db.base = db.name /\ db.base[1] = Home
             /\ stored \subseteq UNION {fs[dbSet.open[k].name] : k \in DOMAIN dbSet.open}
  <2>1. /\ AtHome(fs, dbSet) /\ dbSet.dir = settings
        /\ \A m \in stored : Holds(fs, dbSet, m)
    BY <1>1 DEF IInv, UsedThere, InUse
  <2>2. Home = settings
    BY <1>1 DEF IInv, Directories, Home
  <2>3. ASSUME NEW k \in DOMAIN dbSet.open
        PROVE  LET db == Accessed(dbSet.open[k]) IN
               db.state = "open" /\ db.base = db.name /\ db.base[1] = Home
    <3>1. /\ dbSet.open[k].name = <<settings, k>> /\ dbSet.open[k].base = <<settings, k>>
          /\ dbSet.open[k].state \in {"closed", "open"}
      BY <2>1 DEF AtHome
    <3>2. \A p : Opened(p).state = "open" /\ Opened(p).base = p /\ Opened(p).name = p
      BY DEF Opened
    <3> QED BY <2>2, <3>1, <3>2 DEF Accessed
  <2>4. ASSUME NEW m \in stored
        PROVE  \E k \in DOMAIN dbSet.open : m \in fs[dbSet.open[k].name]
    <3>1. PICK k \in DOMAIN dbSet.open : m \in fs[<<dbSet.dir, k>>]
      BY <2>1 DEF Holds
    <3> QED BY <2>1, <3>1 DEF AtHome
  <2> QED BY <2>3, <2>4
<1>2. IInv => Served
  BY <1>1 DEF Served
<1> QED BY <1>2, Invariant, PTL

\* What a user or the next start goes back to is there: a usable database can be
\* opened again as it is; where a split that died, or could not remove its original,
\* has left files of both organisations, which no start opens, the original is
\* complete, and so are the new files as long as the program that made them runs; and
\* the original of a successful split is where the user is told.
THEOREM AllRecoverable == Spec => []Recoverable
<1>1. IInv => Reopenable
  <2>1. SUFFICES ASSUME IInv, phase = "idle", dbSet # None, ~astray, dbSet.org # "UNKNOWN"
                 PROVE  dbOrganisation(fs, Home) = dbSet.org
    BY DEF Reopenable
  <2>2. Home = settings
    BY <2>1 DEF IInv, Directories, Home
  <2> QED BY <2>1, <2>2 DEF IInv, UsedThere, InUse
<1>2. IInv => Backup
  BY DEF IInv, BackupThere, Backup
<1>3. ASSUME Beside, CommitsHold, phase \in {"idle", "down"}, ~astray, Conflicting(Home)
      PROVE  /\ stored \subseteq fs[<<Home, Single>>]
             /\ dbSet # None =>
                  stored \subseteq UNION {fs[<<Home, y>>] : y \in KeysIn(fs, Home) \ {Single}}
  <2>1. Home = saved
    BY <1>3 DEF Home
  <2>2. /\ stored \subseteq fs[<<Home, Single>>]
        /\ dbSet # None => \A m \in stored : Filed(fs, Home, m)
    BY <1>3, <2>1 DEF Beside, BothComplete
  <2>3. ASSUME NEW m, Filed(fs, Home, m)
        PROVE  \E y \in KeysIn(fs, Home) \ {Single} : m \in fs[<<Home, y>>]
    BY <2>3, PathFacts DEF Filed, KeysIn
  <2> QED BY <2>2, <2>3
<1>4. IInv /\ Beside => Recoverable
  BY <1>1, <1>2, <1>3 DEF Recoverable, Mendable
<1>5. Init => Beside
  BY InitBeside
<1>6. IInv /\ Beside /\ IInv' /\ [Next]_vars => Beside'
  BY StepBeside
<1> QED BY <1>4, <1>5, <1>6, Invariant, PTL DEF Spec

=============================================================================
