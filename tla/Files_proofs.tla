------------------------------ MODULE Files_proofs ------------------------------
(***************************************************************************)
(* What a node keeps in files.                                             *)
(*   The database: for any number of processes and versions, who migrates  *)
(* holds the lock, so what a migration has found out stays true until it   *)
(* ends, and each statement leaves what the next ones rely on.             *)
(*   The settings: what a configure found and wrote is there as long as    *)
(* nobody else writes, also when a write of its own fails half-way.        *)
(*   A project's configuration: what is saved reads back as it was         *)
(* submitted, and who holds config_mutations knows what the files say.     *)
(***************************************************************************)
EXTENDS MCFiles, TLAPS, SequenceTheorems, FiniteSetTheorems, WellFoundedInduction
-----------------------------------------------------------------------------
(* Opening the database. *)

Locked == Migrating \cup {"locked"}
FromFindId == {"find id", "id", "settings", "user version"}
Executing == FromFindId \cup {"metadata", "tables", "columns", "version"}

\* A process past the lock holds it.
HasLock == \A o \in Opener : opener[o] \in Locked => lock = o

\* The objects there are when a statement's turn has come, and when the version is written.
ObjectsInOrder ==
    /\ db.version = Current => db.objects = Objects
    /\ \A o \in Opener :
         /\ opener[o] = "tables" => "metadata" \in db.objects
         /\ opener[o] = "columns" => {"metadata", "tables"} \subseteq db.objects
         /\ opener[o] \in FromFindId \cup {"version", "open"} => db.objects = Objects

\* An id is drawn only where none is stored.
DrawsWhereNone == \A o \in Opener : opener[o] = "id" => db.id = Nobody

FoundOlder == found.version \in 1..(Current - 1)

\* What makes the backup one of the database as it was found.
BackupInOrder ==
    /\ BackupIsTheOriginal
    /\ db.version # found.version => db.version = Current
    /\ db.objects = {} => db.version = 0
    /\ \A o \in Opener : /\ opener[o] \in {"backup", "copying"} => IsOlder
                         /\ opener[o] = "copying" => backup.state # "none"
                         /\ opener[o] \in Executing /\ FoundOlder => backup.state # "none"

StoreInv == StoreTypeOK /\ HasLock /\ ObjectsInOrder /\ DrawsWhereNone /\ BackupInOrder
-----------------------------------------------------------------------------
LEMMA StoreInvInit == StoreInit => StoreInv
<1>. USE DEF Migrating, Locked, FromFindId, Executing, Objects, FoundOlder, IsOlder
<1>. USE VersionAssumption, NobodyAssumption
<1>. SUFFICES ASSUME StoreInit PROVE StoreInv
  OBVIOUS
<1>1. /\ db \in Databases
      /\ db.version = Current => db.objects = Objects
      /\ db.objects = {} => db.version = 0
  <2>1. CASE db = Absent
    BY <2>1 DEF Absent, Databases
  <2>2. ASSUME NEW v \in Version, NEW u \in Version \cup {0}, NEW i \in Id, db = Existing(v, u, i)
        PROVE  <1>1
    BY <2>2 DEF Existing, Databases
  <2>3. QED
    BY <2>1, <2>2, Zenon DEF StoreInit
<1>2. StoreTypeOK
  <2>1. Absent \in Databases
    BY DEF Absent, Databases
  <2>2. QED
    BY <1>1, <2>1 DEF StoreInit, StoreTypeOK
<1>3. ObjectsInOrder
  BY <1>1 DEF StoreInit, ObjectsInOrder
<1>4. HasLock /\ DrawsWhereNone
  BY DEF StoreInit, HasLock, DrawsWhereNone
<1>5. BackupInOrder
  BY <1>1 DEF StoreInit, BackupInOrder, BackupIsTheOriginal
<1>6. QED
  BY <1>2, <1>3, <1>4, <1>5 DEF StoreInv

(* What a step leaves alone. *)

Places == Migrating \cup {"closed", "probed", "locked", "open"}

LEMMA Moved ==
  ASSUME StoreTypeOK, NEW o \in Opener, NEW pc \in Places, GoesTo(o, pc)
  PROVE  /\ opener' \in [Opener -> Places] /\ opener'[o] = pc
         /\ \A p \in Opener : p # o => opener'[p] = opener[p]
BY DEF StoreTypeOK, Places, GoesTo

LEMMA Released ==
  ASSUME StoreTypeOK, NEW o \in Opener, Release(o)
  PROVE  lock' \in Opener \cup {Nobody} /\ (lock # o => lock' = lock)
BY DEF StoreTypeOK, Release

\* Where the other processes are, seen from one that is past the lock.
LEMMA OthersAreNotPast ==
  ASSUME HasLock, NEW o \in Opener, opener[o] \in Locked
  PROVE  \A p \in Opener : p # o => opener[p] \notin Locked
BY DEF HasLock
-----------------------------------------------------------------------------
(* One lemma for each action. *)

LEMMA ProbeStep == ASSUME StoreInv, NEW o \in Opener, Probe(o) PROVE StoreInv'
<1>. USE DEF StoreInv
<1>1. /\ opener' \in [Opener -> Places] /\ opener'[o] \in {"probed", "open"}
      /\ opener'[o] = "open" => db.version = Current
      /\ \A p \in Opener : p # o => opener'[p] = opener[p]
      /\ UNCHANGED <<db, backup, lock, found>>
  BY Moved DEF Probe, Places
<1>2. StoreTypeOK'
  BY <1>1 DEF StoreTypeOK, Places
<1>3. HasLock'
  BY <1>1 DEF HasLock, Locked, Migrating
<1>4. ObjectsInOrder'
  BY <1>1 DEF ObjectsInOrder, FromFindId
<1>5. DrawsWhereNone'
  BY <1>1 DEF DrawsWhereNone
<1>6. BackupInOrder'
  BY <1>1 DEF BackupInOrder, BackupIsTheOriginal, IsOlder, FoundOlder, Executing, FromFindId
<1>7. QED
  BY <1>2, <1>3, <1>4, <1>5, <1>6

LEMMA TryLockStep == ASSUME StoreInv, NEW o \in Opener, TryLock(o) PROVE StoreInv'
<1>. USE DEF StoreInv
<1>1. /\ opener[o] = "probed" /\ UNCHANGED <<db, backup, found>>
      /\ \/ lock = Nobody /\ lock' = o /\ opener'[o] = "locked"
         \/ lock' = lock /\ opener'[o] = "closed"
      /\ opener' \in [Opener -> Places]
      /\ \A p \in Opener : p # o => opener'[p] = opener[p]
  BY Moved DEF TryLock, Places, Migrating
<1>2. StoreTypeOK'
  BY <1>1 DEF StoreTypeOK, Places
<1>3. HasLock'
  <2>1. lock = Nobody => \A p \in Opener : opener[p] \notin Locked
    BY NobodyAssumption DEF HasLock
  <2>2. SUFFICES ASSUME NEW p \in Opener, opener'[p] \in Locked PROVE lock' = p
    BY DEF HasLock
  <2>3. CASE p = o
    BY <1>1, <2>2, <2>3 DEF Locked, Migrating
  <2>4. CASE p # o
    <3>1. opener[p] \in Locked
      BY <1>1, <2>2, <2>4
    <3>2. lock # Nobody /\ lock = p
      BY <2>1, <3>1 DEF HasLock
    <3>3. QED
      BY <1>1, <3>2
  <2>5. QED
    BY <2>3, <2>4
<1>4. ObjectsInOrder'
  BY <1>1 DEF ObjectsInOrder, Objects, FromFindId, Locked, Migrating
<1>5. DrawsWhereNone'
  BY <1>1 DEF DrawsWhereNone, Locked, Migrating
<1>6. BackupInOrder'
  BY <1>1, VersionAssumption DEF BackupInOrder, BackupIsTheOriginal, IsOlder, FoundOlder, Executing,
     FromFindId, Locked, Migrating, Objects
<1>7. QED
  BY <1>2, <1>3, <1>4, <1>5, <1>6

LEMMA ProbeAgainStep == ASSUME StoreInv, NEW o \in Opener, ProbeAgain(o) PROVE StoreInv'
<1>. USE DEF StoreInv
<1>1. /\ opener[o] = "locked" /\ UNCHANGED <<db, backup, found>>
      /\ \/ opener'[o] = "closed" /\ lock' \in Opener \cup {Nobody} /\ (lock # o => lock' = lock)
         \/ opener'[o] = "backup" /\ IsOlder /\ lock' = lock
         \/ opener'[o] = "metadata" /\ ~IsOlder /\ lock' = lock
      /\ opener' \in [Opener -> Places]
      /\ \A p \in Opener : p # o => opener'[p] = opener[p]
  BY Moved, Released DEF ProbeAgain, Places, Migrating
<1>2. StoreTypeOK'
  BY <1>1 DEF StoreTypeOK, Places
<1>3. HasLock'
  BY <1>1, OthersAreNotPast DEF HasLock, Locked, Migrating
<1>4. ObjectsInOrder'
  BY <1>1, OthersAreNotPast DEF ObjectsInOrder, Objects, FromFindId, Locked, Migrating
<1>5. DrawsWhereNone'
  BY <1>1, OthersAreNotPast DEF DrawsWhereNone, Locked, Migrating
<1>6. BackupInOrder'
  <2>1. ~IsOlder /\ FoundOlder => backup.state # "none"
    <3>1. SUFFICES ASSUME ~IsOlder, FoundOlder PROVE backup.state # "none"
      OBVIOUS
    <3>2. found.version # 0 /\ found.version < Current
      BY <3>1, VersionAssumption DEF FoundOlder
    <3>3. db.version # found.version
      BY <3>1, <3>2 DEF IsOlder
    <3>4. QED
      BY <3>1, <3>3 DEF BackupInOrder, BackupIsTheOriginal, FoundOlder
  <2>2. QED
    BY <1>1, <2>1, OthersAreNotPast DEF BackupInOrder, BackupIsTheOriginal, IsOlder, FoundOlder, Executing,
       FromFindId, Locked, Migrating
<1>7. QED
  BY <1>2, <1>3, <1>4, <1>5, <1>6

LEMMA CreateBackupStep == ASSUME StoreInv, NEW o \in Opener, CreateBackup(o) PROVE StoreInv'
<1>. USE DEF StoreInv
<1>1. /\ opener[o] = "backup" /\ UNCHANGED <<db, lock, found>>
      /\ \/ backup' = [state |-> "torn", of |-> db] /\ opener'[o] = "copying" /\ backup.state = "none"
         \/ backup' = backup /\ opener'[o] = "metadata" /\ backup.state # "none"
      /\ opener' \in [Opener -> Places]
      /\ \A p \in Opener : p # o => opener'[p] = opener[p]
  BY Moved DEF CreateBackup, Places, Migrating
<1>2. StoreTypeOK'
  BY <1>1 DEF StoreTypeOK, Places
<1>3. HasLock'
  BY <1>1, OthersAreNotPast DEF HasLock, Locked, Migrating
<1>4. ObjectsInOrder'
  BY <1>1, OthersAreNotPast DEF ObjectsInOrder, Objects, FromFindId, Locked, Migrating
<1>5. DrawsWhereNone'
  BY <1>1, OthersAreNotPast DEF DrawsWhereNone, Locked, Migrating
<1>6. BackupInOrder'
  <2>1. backup.state = "none" => db = found
    <3>1. db.version \in Nat /\ db.version # 0 /\ db.version < Current
      BY <1>1, VersionAssumption DEF BackupInOrder, IsOlder, StoreTypeOK, Databases
    <3>2. found.version = db.version
      BY <3>1, VersionAssumption DEF BackupInOrder
    <3>3. found.version \in 1..(Current - 1)
      BY <3>1, <3>2, VersionAssumption
    <3>4. QED
      BY <3>3, Zenon DEF BackupInOrder, BackupIsTheOriginal
  <2>2. /\ backup'.state # "none"
        /\ backup' = backup \/ backup'.of = found
    BY <1>1, <2>1
  <2>3. QED
    BY <1>1, <2>2, OthersAreNotPast DEF BackupInOrder, BackupIsTheOriginal, IsOlder, FoundOlder, Executing,
       FromFindId, Locked, Migrating
<1>7. QED
  BY <1>2, <1>3, <1>4, <1>5, <1>6

LEMMA FinishCopyStep == ASSUME StoreInv, NEW o \in Opener, FinishCopy(o) PROVE StoreInv'
<1>. USE DEF StoreInv
<1>1. /\ opener[o] = "copying" /\ opener'[o] = "metadata" /\ UNCHANGED <<db, lock, found>>
      /\ backup' \in [state : {"whole"}, of : {backup.of}]
      /\ opener' \in [Opener -> Places]
      /\ \A p \in Opener : p # o => opener'[p] = opener[p]
  BY Moved DEF FinishCopy, Places, Migrating, StoreTypeOK
<1>2. StoreTypeOK'
  BY <1>1 DEF StoreTypeOK, Places
<1>3. HasLock'
  BY <1>1, OthersAreNotPast DEF HasLock, Locked, Migrating
<1>4. ObjectsInOrder'
  BY <1>1, OthersAreNotPast DEF ObjectsInOrder, Objects, FromFindId, Locked, Migrating
<1>5. DrawsWhereNone'
  BY <1>1, OthersAreNotPast DEF DrawsWhereNone, Locked, Migrating
<1>6. BackupInOrder'
  BY <1>1, OthersAreNotPast, VersionAssumption DEF BackupInOrder, BackupIsTheOriginal, IsOlder, FoundOlder, Executing,
     FromFindId, Locked, Migrating, Objects
<1>7. QED
  BY <1>2, <1>3, <1>4, <1>5, <1>6

LEMMA CreateObjectsStep == ASSUME StoreInv, NEW o \in Opener, CreateObjects(o) PROVE StoreInv'
<1>. USE DEF StoreInv
<1>1. /\ opener[o] \in Objects /\ UNCHANGED <<backup, lock, found>>
      /\ \/ opener[o] = "metadata" /\ opener'[o] = "tables"
         \/ opener[o] = "tables" /\ opener'[o] = "columns"
         \/ opener[o] = "columns" /\ opener'[o] = "version"
      /\ opener' \in [Opener -> Places]
      /\ \A p \in Opener : p # o => opener'[p] = opener[p]
      /\ db' \in Databases /\ db'.objects = db.objects \cup {opener[o]} /\ db'.version = db.version /\ db'.id = db.id
  <2>1. opener[o] \in Objects /\ GoesTo(o, Following(opener[o])) /\ UNCHANGED <<backup, lock, found>>
    BY Zenon DEF CreateObjects, Continue
  <2>2. db \in Databases
    BY DEF StoreTypeOK
  <2>3. db' \in Databases /\ db'.objects = db.objects \cup {opener[o]} /\ db'.version = db.version /\ db'.id = db.id
    BY <2>2, VersionAssumption DEF CreateObjects, Databases, Objects
  <2>4. \/ opener[o] = "metadata" /\ Following(opener[o]) = "tables"
        \/ opener[o] = "tables" /\ Following(opener[o]) = "columns"
        \/ opener[o] = "columns" /\ Following(opener[o]) = "version"
    BY <2>1 DEF Objects, Following
  <2>5. QED
    BY <2>4, <2>1, <2>3, Moved DEF Places, Migrating, Objects
<1>2. StoreTypeOK'
  BY <1>1 DEF StoreTypeOK, Places
<1>3. HasLock'
  BY <1>1, OthersAreNotPast DEF HasLock, Locked, Migrating
<1>4. ObjectsInOrder'
  <2>1. db.objects \subseteq db'.objects /\ (db.objects = Objects => db'.objects = Objects)
    BY <1>1 DEF Objects
  <2>2. /\ opener[o] = "tables" => "metadata" \in db.objects
        /\ opener[o] = "columns" => {"metadata", "tables"} \subseteq db.objects
    BY DEF ObjectsInOrder
  <2>3. db'.objects \subseteq Objects
    BY <1>1 DEF Databases
  <2>4. /\ opener'[o] = "tables" => "metadata" \in db'.objects
        /\ opener'[o] = "columns" => {"metadata", "tables"} \subseteq db'.objects
        /\ opener'[o] = "version" => db'.objects = Objects
    BY <1>1, <2>1, <2>2, <2>3 DEF Objects
  <2>5. opener'[o] \notin FromFindId \cup {"open"}
    BY <1>1 DEF FromFindId
  <2>6. \A p \in Opener : p # o =>
          /\ opener'[p] \notin Locked
          /\ opener'[p] = "open" => db'.objects = Objects
    BY <1>1, <2>1, OthersAreNotPast DEF ObjectsInOrder, Locked, Migrating
  <2>7. QED
    BY <1>1, <2>1, <2>4, <2>5, <2>6 DEF ObjectsInOrder, FromFindId, Locked, Migrating
<1>5. DrawsWhereNone'
  BY <1>1, OthersAreNotPast DEF DrawsWhereNone, Locked, Migrating
<1>6. BackupInOrder'
  BY <1>1, OthersAreNotPast, VersionAssumption DEF BackupInOrder, BackupIsTheOriginal, IsOlder, FoundOlder, Executing,
     FromFindId, Locked, Migrating, Objects
<1>7. QED
  BY <1>2, <1>3, <1>4, <1>5, <1>6

LEMMA SetVersionStep == ASSUME StoreInv, NEW o \in Opener, SetVersion(o) PROVE StoreInv'
<1>. USE DEF StoreInv
<1>1. /\ opener[o] = "version" /\ opener'[o] = "find id" /\ UNCHANGED <<backup, lock, found>>
      /\ opener' \in [Opener -> Places]
      /\ \A p \in Opener : p # o => opener'[p] = opener[p]
      /\ db' \in Databases /\ db'.objects = db.objects /\ db'.version = Current /\ db'.id = db.id
  <2>1. opener[o] = "version" /\ GoesTo(o, Following(opener[o])) /\ UNCHANGED <<backup, lock, found>>
    BY Zenon DEF SetVersion, Continue
  <2>2. db \in Databases
    BY DEF StoreTypeOK
  <2>3. db' \in Databases /\ db'.objects = db.objects /\ db'.version = Current /\ db'.id = db.id
    BY <2>2, VersionAssumption DEF SetVersion, Databases, Objects
  <2>4. Following(opener[o]) = "find id"
    BY <2>1 DEF Following
  <2>5. QED
    BY <2>4, <2>1, <2>3, Moved DEF Places, Migrating, Objects
<1>2. StoreTypeOK'
  BY <1>1 DEF StoreTypeOK, Places
<1>3. HasLock'
  BY <1>1, OthersAreNotPast DEF HasLock, Locked, Migrating
<1>4. ObjectsInOrder'
  BY <1>1, OthersAreNotPast DEF ObjectsInOrder, Objects, FromFindId, Locked, Migrating
<1>5. DrawsWhereNone'
  BY <1>1, OthersAreNotPast DEF DrawsWhereNone, Locked, Migrating
<1>6. BackupInOrder'
  BY <1>1, OthersAreNotPast, VersionAssumption DEF BackupInOrder, BackupIsTheOriginal, IsOlder, FoundOlder, Executing,
     FromFindId, Locked, Migrating, Objects, ObjectsInOrder
<1>7. QED
  BY <1>2, <1>3, <1>4, <1>5, <1>6

LEMMA FindIdStep == ASSUME StoreInv, NEW o \in Opener, FindId(o) PROVE StoreInv'
<1>. USE DEF StoreInv
<1>1. /\ opener[o] = "find id" /\ UNCHANGED <<db, backup, lock, found>>
      /\ \/ opener'[o] = "id" /\ db.id = Nobody
         \/ opener'[o] = "user version"
      /\ opener' \in [Opener -> Places]
      /\ \A p \in Opener : p # o => opener'[p] = opener[p]
  BY Moved DEF FindId, Places, Migrating
<1>2. StoreTypeOK'
  BY <1>1 DEF StoreTypeOK, Places
<1>3. HasLock'
  BY <1>1, OthersAreNotPast DEF HasLock, Locked, Migrating
<1>4. ObjectsInOrder'
  BY <1>1, OthersAreNotPast DEF ObjectsInOrder, Objects, FromFindId, Locked, Migrating
<1>5. DrawsWhereNone'
  BY <1>1, OthersAreNotPast DEF DrawsWhereNone, Locked, Migrating
<1>6. BackupInOrder'
  BY <1>1, OthersAreNotPast, VersionAssumption DEF BackupInOrder, BackupIsTheOriginal, IsOlder, FoundOlder, Executing,
     FromFindId, Locked, Migrating, Objects
<1>7. QED
  BY <1>2, <1>3, <1>4, <1>5, <1>6

LEMMA SetIdStep == ASSUME StoreInv, NEW o \in Opener, SetId(o) PROVE StoreInv'
<1>. USE DEF StoreInv
<1>1. /\ opener[o] = "id" /\ opener'[o] = "settings" /\ UNCHANGED <<backup, lock, found>>
      /\ opener' \in [Opener -> Places]
      /\ \A p \in Opener : p # o => opener'[p] = opener[p]
      /\ db' \in Databases /\ db'.objects = db.objects /\ db'.version = db.version
  <2>1. opener[o] = "id" /\ GoesTo(o, "settings") /\ UNCHANGED <<backup, lock, found>>
    BY Zenon DEF SetId
  <2>2. db \in Databases
    BY DEF StoreTypeOK
  <2>3. db' \in Databases /\ db'.objects = db.objects /\ db'.version = db.version
    BY <2>2, VersionAssumption DEF SetId, Databases, Objects
  <2>4. QED
    BY <2>1, <2>3, Moved DEF Places, Migrating, Objects
<1>2. StoreTypeOK'
  BY <1>1 DEF StoreTypeOK, Places
<1>3. HasLock'
  BY <1>1, OthersAreNotPast DEF HasLock, Locked, Migrating
<1>4. ObjectsInOrder'
  BY <1>1, OthersAreNotPast DEF ObjectsInOrder, Objects, FromFindId, Locked, Migrating
<1>5. DrawsWhereNone'
  BY <1>1, OthersAreNotPast DEF DrawsWhereNone, Locked, Migrating
<1>6. BackupInOrder'
  BY <1>1, OthersAreNotPast, VersionAssumption DEF BackupInOrder, BackupIsTheOriginal, IsOlder, FoundOlder, Executing,
     FromFindId, Locked, Migrating, Objects
<1>7. QED
  BY <1>2, <1>3, <1>4, <1>5, <1>6

LEMMA SetSettingsStep == ASSUME StoreInv, NEW o \in Opener, SetSettings(o) PROVE StoreInv'
<1>. USE DEF StoreInv
<1>1. /\ opener[o] = "settings" /\ opener'[o] = "user version" /\ UNCHANGED <<backup, lock, found>>
      /\ opener' \in [Opener -> Places]
      /\ \A p \in Opener : p # o => opener'[p] = opener[p]
      /\ db' \in Databases /\ db'.objects = db.objects /\ db'.version = db.version /\ db'.id = db.id
  <2>1. opener[o] = "settings" /\ GoesTo(o, "user version") /\ UNCHANGED <<backup, lock, found>>
    BY Zenon DEF SetSettings
  <2>2. db \in Databases
    BY DEF StoreTypeOK
  <2>3. db' \in Databases /\ db'.objects = db.objects /\ db'.version = db.version /\ db'.id = db.id
    BY <2>2, VersionAssumption DEF SetSettings, Databases, Objects
  <2>4. QED
    BY <2>1, <2>3, Moved DEF Places, Migrating, Objects
<1>2. StoreTypeOK'
  BY <1>1 DEF StoreTypeOK, Places
<1>3. HasLock'
  BY <1>1, OthersAreNotPast DEF HasLock, Locked, Migrating
<1>4. ObjectsInOrder'
  BY <1>1, OthersAreNotPast DEF ObjectsInOrder, Objects, FromFindId, Locked, Migrating
<1>5. DrawsWhereNone'
  BY <1>1, OthersAreNotPast DEF DrawsWhereNone, Locked, Migrating
<1>6. BackupInOrder'
  BY <1>1, OthersAreNotPast, VersionAssumption DEF BackupInOrder, BackupIsTheOriginal, IsOlder, FoundOlder, Executing,
     FromFindId, Locked, Migrating, Objects
<1>7. QED
  BY <1>2, <1>3, <1>4, <1>5, <1>6

LEMMA SetUserVersionStep == ASSUME StoreInv, NEW o \in Opener, SetUserVersion(o) PROVE StoreInv'
<1>. USE DEF StoreInv
<1>1. /\ opener[o] = "user version" /\ opener'[o] = "open" /\ UNCHANGED <<backup, found>>
      /\ lock' \in Opener \cup {Nobody} /\ (lock # o => lock' = lock)
      /\ opener' \in [Opener -> Places]
      /\ \A p \in Opener : p # o => opener'[p] = opener[p]
      /\ db' \in Databases /\ db'.objects = db.objects /\ db'.version = db.version /\ db'.id = db.id
  <2>1. opener[o] = "user version" /\ GoesTo(o, "open") /\ Release(o) /\ UNCHANGED <<backup, found>>
    BY Zenon DEF SetUserVersion
  <2>2. db \in Databases
    BY DEF StoreTypeOK
  <2>3. db' \in Databases /\ db'.objects = db.objects /\ db'.version = db.version /\ db'.id = db.id
    BY <2>2, VersionAssumption DEF SetUserVersion, Databases, Objects
  <2>4. QED
    BY <2>1, <2>3, Moved, Released DEF Places, Migrating, Objects
<1>2. StoreTypeOK'
  BY <1>1 DEF StoreTypeOK, Places
<1>3. HasLock'
  BY <1>1, OthersAreNotPast DEF HasLock, Locked, Migrating
<1>4. ObjectsInOrder'
  BY <1>1, OthersAreNotPast DEF ObjectsInOrder, Objects, FromFindId, Locked, Migrating
<1>5. DrawsWhereNone'
  BY <1>1, OthersAreNotPast DEF DrawsWhereNone, Locked, Migrating
<1>6. BackupInOrder'
  BY <1>1, OthersAreNotPast, VersionAssumption DEF BackupInOrder, BackupIsTheOriginal, IsOlder, FoundOlder, Executing,
     FromFindId, Locked, Migrating, Objects
<1>7. QED
  BY <1>2, <1>3, <1>4, <1>5, <1>6

LEMMA ExitStep == ASSUME StoreInv, NEW o \in Opener, Exit(o) PROVE StoreInv'
<1>. USE DEF StoreInv
<1>1. /\ opener'[o] = "closed" /\ UNCHANGED <<db, backup, found>>
      /\ lock' \in Opener \cup {Nobody} /\ (lock # o => lock' = lock)
      /\ opener' \in [Opener -> Places]
      /\ \A p \in Opener : p # o => opener'[p] = opener[p]
  BY Moved, Released DEF Exit, Places, Migrating
<1>2. StoreTypeOK'
  BY <1>1 DEF StoreTypeOK, Places
<1>3. HasLock'
  BY <1>1 DEF HasLock, Locked, Migrating
<1>4. ObjectsInOrder'
  BY <1>1 DEF ObjectsInOrder, Objects, FromFindId, Locked, Migrating
<1>5. DrawsWhereNone'
  BY <1>1 DEF DrawsWhereNone, Locked, Migrating
<1>6. BackupInOrder'
  BY <1>1, VersionAssumption DEF BackupInOrder, BackupIsTheOriginal, IsOlder, FoundOlder, Executing,
     FromFindId, Locked, Migrating, Objects
<1>7. QED
  BY <1>2, <1>3, <1>4, <1>5, <1>6
-----------------------------------------------------------------------------
LEMMA StoreInvNext == StoreInv /\ [StoreNext]_storeVars => StoreInv'
<1>. SUFFICES ASSUME StoreInv, [StoreNext]_storeVars PROVE StoreInv'
  OBVIOUS
<1>1. CASE UNCHANGED storeVars
  BY <1>1 DEF storeVars, StoreInv, StoreTypeOK, HasLock, ObjectsInOrder, DrawsWhereNone,
     BackupInOrder, BackupIsTheOriginal, IsOlder, FoundOlder
<1>2. CASE StoreNext
  BY <1>2, ProbeStep, TryLockStep, ProbeAgainStep, CreateBackupStep, FinishCopyStep,
     CreateObjectsStep, SetVersionStep, FindIdStep, SetIdStep, SetSettingsStep,
     SetUserVersionStep, ExitStep, Zenon DEF StoreNext
<1>3. QED
  BY <1>1, <1>2

LEMMA StoreInvAlways == StoreSpec => []StoreInv
BY StoreInvInit, StoreInvNext, PTL DEF StoreSpec

\* The variables of the store have their types in every reachable state (StoreOpen::open).
THEOREM StoreTypeCorrect == StoreSpec => []StoreTypeOK
<1>1. StoreInv => StoreTypeOK
  BY DEF StoreInv
<1>2. QED
  BY <1>1, StoreInvAlways, PTL

\* A process that opened the database, with the lock or without, has every table and column,
\* for any number of processes, versions found, and kills (schema.rs, probe and statements).
THEOREM OpenStoreHasTables == StoreSpec => []OpenHasTables
<1>1. StoreInv => OpenHasTables
  BY DEF StoreInv, ObjectsInOrder, OpenHasTables
<1>2. QED
  BY <1>1, StoreInvAlways, PTL

\* An older database is not touched before there is a backup of it as it was found
\* (create_backup, and a migration that is started again after a kill).
THEOREM BackupIsMade == StoreSpec => []BackupIsTheOriginal
<1>1. StoreInv => BackupIsTheOriginal
  BY DEF StoreInv, BackupInOrder
<1>2. QED
  BY <1>1, StoreInvAlways, PTL

\* A node's id is drawn once (migrate.rs, initialize).
THEOREM IdentityIsDrawnOnce == StoreSpec => IdentityIsFinal
<1>1. ASSUME StoreInv, [StoreNext]_storeVars
      PROVE  [db.id # Nobody => db'.id = db.id]_db
  <2>1. SUFFICES ASSUME NEW o \in Opener,
                        \/ Probe(o) \/ TryLock(o) \/ ProbeAgain(o) \/ CreateBackup(o)
                        \/ FinishCopy(o) \/ CreateObjects(o) \/ SetVersion(o) \/ FindId(o)
                        \/ SetId(o) \/ SetSettings(o) \/ SetUserVersion(o) \/ Exit(o)
                 PROVE  [db.id # Nobody => db'.id = db.id]_db
    BY <1>1, Zenon DEF StoreNext, storeVars
  <2>2. db \in Databases
    BY <1>1 DEF StoreInv, StoreTypeOK
  <2>3. CASE SetId(o)
    BY <1>1, <2>3 DEF SetId, StoreInv, DrawsWhereNone
  <2>4. CASE CreateObjects(o)
    BY <2>2, <2>4 DEF CreateObjects, Databases, Objects
  <2>5. CASE SetVersion(o)
    BY <2>2, <2>5 DEF SetVersion, Databases
  <2>6. CASE SetSettings(o)
    BY <2>2, <2>6 DEF SetSettings, Databases
  <2>7. CASE SetUserVersion(o)
    BY <2>2, <2>7 DEF SetUserVersion, Databases
  <2>8. CASE Probe(o) \/ TryLock(o) \/ ProbeAgain(o) \/ CreateBackup(o) \/ FinishCopy(o) \/ FindId(o)
             \/ Exit(o)
    BY <2>8, Zenon DEF Probe, TryLock, ProbeAgain, CreateBackup, FinishCopy, FindId, Exit
  <2>9. QED
    BY <2>1, <2>3, <2>4, <2>5, <2>6, <2>7, <2>8
<1>2. QED
  BY <1>1, StoreInvAlways, PTL DEF StoreSpec, IdentityIsFinal
-----------------------------------------------------------------------------
(* The settings of a node. *)

Requests == [pc : {"file", "database", "restore"}, settings : Settings, previous : Files,
             network : BOOLEAN, file : Files, before : [settings : Settings, file : Files],
             alone : BOOLEAN]

SettingsInv ==
    /\ stored \in Settings /\ file \in Files \cup {NoFile}
    /\ request \in [Process -> Requests \cup {NoRequest}]

LEMMA UpdatedType ==
  ASSUME NEW s \in Settings, NEW u \in Updates PROVE Updated(s, u) \in Settings
<1>. DEFINE role == [s EXCEPT !.role = Over(@, u.role)]
            fit  == IF u.role = Keep THEN role ELSE Normalized(role)
<1>1. role \in Settings
  BY DEF Settings, Updates, Optional, Over, Keep, Roles
<1>2. Normalized(role) \in Settings
  BY <1>1 DEF Settings, Normalized, Modes
<1>3. fit \in Settings
  BY <1>1, <1>2
<1>4. QED
  BY <1>3 DEF Updated, Settings, Updates, Optional, Over, Keep, Modes, Hosts

LEMMA FileOrType ==
  ASSUME stored \in Settings, file \in Files \cup {NoFile} PROVE FileOr(stored, file) \in Files
BY DEF FileOr, Legacy, Settings, Files

LEMMA BaseType ==
  ASSUME NEW s \in Settings, NEW f, FileOr(s, f) \in Files PROVE Base(s, f) \in Settings
BY DEF Base, Settings, Files

LEMMA NewFileType ==
  ASSUME NEW previous \in Files, NEW settings \in Settings, NEW u \in Updates
  PROVE  NewFile(previous, settings, u) \in Files
BY DEF NewFile, Files, Settings, Updates, Optional, Keep

LEMMA ConfigureStep ==
  ASSUME SettingsInv, NEW p \in Process, NEW u \in Updates, Configure(p, u) PROVE SettingsInv'
<1>. DEFINE previous == FileOr(stored, file)
            settings == Updated(Base(stored, previous), u)
            new == [pc |-> IF ChangesNetwork(u) THEN "file" ELSE "database",
                    settings |-> settings, previous |-> previous, network |-> ChangesNetwork(u),
                    file |-> IF ChangesNetwork(u) THEN NewFile(previous, settings, u) ELSE previous,
                    before |-> [settings |-> stored, file |-> previous],
                    alone |-> \A q \in Process : request[q] = NoRequest]
<1>1. previous \in Files
  BY FileOrType DEF SettingsInv
<1>2. FileOr(stored, previous) \in Files
  BY <1>1, Zenon DEF FileOr
<1>3. settings \in Settings
  BY <1>2, BaseType, UpdatedType DEF SettingsInv
<1>4. NewFile(previous, settings, u) \in Files
  BY <1>1, <1>3, NewFileType
<1>5. file' = previous /\ stored' = stored /\ request' = [request EXCEPT ![p] = new]
  BY Zenon DEF Configure
<1>6. ChangesNetwork(u) \in BOOLEAN /\ stored \in Settings
  BY DEF ChangesNetwork, SettingsInv
<1>. HIDE DEF previous, settings
<1>7. new \in Requests
  BY <1>1, <1>3, <1>4, <1>6 DEF Requests
<1>. HIDE DEF new
<1>8. QED
  BY <1>1, <1>5, <1>7 DEF SettingsInv

LEMMA Disturbed ==
  ASSUME SettingsInv, NEW p \in Process
  PROVE  /\ Disturb(p) \in [Process -> Requests \cup {NoRequest}]
         /\ Disturb(p)[p] = request[p]
<1>1. ASSUME NEW q \in Process, request[q] # NoRequest
      PROVE  [request[q] EXCEPT !.alone = FALSE] \in Requests
  <2>1. request[q] \in Requests
    BY <1>1 DEF SettingsInv
  <2>2. QED
    BY <2>1 DEF Requests
<1>2. QED
  BY <1>1 DEF SettingsInv, Disturb

LEMMA WriteFileStep == ASSUME SettingsInv, NEW p \in Process, WriteFile(p) PROVE SettingsInv'
<1>1. request[p] # NoRequest /\ request[p] \in Requests
  BY DEF WriteFile, SettingsInv, NoRequest
<1>2. [request[p] EXCEPT !.pc = "database"] \in Requests /\ request[p].file \in Files
  BY <1>1 DEF Requests
<1>3. /\ request' = [Disturb(p) EXCEPT ![p] = [request[p] EXCEPT !.pc = "database"]]
      /\ file' = request[p].file /\ stored' = stored
  BY Disturbed DEF WriteFile
<1>4. QED
  BY <1>1, <1>2, <1>3, Disturbed DEF SettingsInv

\* A process that ends its request, with an answer or without.
LEMMA IdleAgain ==
  ASSUME SettingsInv, NEW p \in Process, NEW r \in {request, Disturb(p)},
         stored' \in Settings, file' \in Files \cup {NoFile},
         request' = [r EXCEPT ![p] = NoRequest]
  PROVE  SettingsInv'
<1>1. r \in [Process -> Requests \cup {NoRequest}]
  BY Disturbed DEF SettingsInv
<1>2. QED
  BY <1>1 DEF SettingsInv

LEMMA ReturnStep ==
  ASSUME SettingsInv, NEW p \in Process, NEW outcome, Return(p, outcome), request[p] # NoRequest,
         stored' \in {stored, request[p].settings},
         file' \in {file, request[p].file, request[p].previous}
  PROVE  SettingsInv'
<1>1. request[p] \in Requests
  BY DEF SettingsInv
<1>2. /\ request[p].settings \in Settings /\ request[p].file \in Files
      /\ request[p].previous \in Files
  BY <1>1 DEF Requests
<1>3. QED
  BY <1>2, IdleAgain DEF Return, SettingsInv

LEMMA CommitFailsStep == ASSUME SettingsInv, NEW p \in Process, CommitFails(p) PROVE SettingsInv'
<1>1. request[p] # NoRequest /\ request[p] \in Requests
  BY DEF CommitFails, SettingsInv, NoRequest
<1>2. CASE request[p].network
  <2>1. [request[p] EXCEPT !.pc = "restore"] \in Requests
    BY <1>1 DEF Requests
  <2>2. /\ request' = [request EXCEPT ![p] = [request[p] EXCEPT !.pc = "restore"]]
        /\ file' = file /\ stored' = stored
    BY <1>2 DEF CommitFails, SettingsInv
  <2>3. QED
    BY <1>1, <2>1, <2>2 DEF SettingsInv
<1>3. CASE ~request[p].network
  BY <1>1, <1>3, ReturnStep DEF CommitFails
<1>4. QED
  BY <1>2, <1>3

\* The steps that end a configure.
Ends(p) ==
    WriteFileFails(p) \/ DatabaseFails(p) \/ Commit(p) \/ Restore(p) \/ RestoreFails(p)

LEMMA EndStep == ASSUME SettingsInv, NEW p \in Process, Ends(p) PROVE SettingsInv'
<1>1. request[p] # NoRequest
  BY DEF Ends, WriteFileFails, DatabaseFails, Commit, Restore, RestoreFails, NoRequest
<1>2. CASE WriteFileFails(p)
  BY <1>1, <1>2, ReturnStep DEF WriteFileFails
<1>3. CASE DatabaseFails(p)
  BY <1>1, <1>3, ReturnStep DEF DatabaseFails
<1>4. CASE Commit(p)
  BY <1>1, <1>4, ReturnStep DEF Commit
<1>5. CASE Restore(p)
  BY <1>1, <1>5, ReturnStep DEF Restore
<1>6. CASE RestoreFails(p)
  BY <1>1, <1>6, ReturnStep DEF RestoreFails
<1>7. QED
  BY <1>2, <1>3, <1>4, <1>5, <1>6 DEF Ends

LEMMA KilledStep == ASSUME SettingsInv, NEW p \in Process, Killed(p) PROVE SettingsInv'
BY IdleAgain DEF Killed, SettingsInv

LEMMA EditFileStep ==
  ASSUME SettingsInv, NEW f \in Files \cup {NoFile}, EditFile(f) PROVE SettingsInv'
<1>1. ASSUME NEW q \in Process, request[q] # NoRequest
      PROVE  [request[q] EXCEPT !.alone = FALSE] \in Requests
  <2>1. request[q] \in Requests
    BY <1>1 DEF SettingsInv
  <2>2. QED
    BY <2>1 DEF Requests
<1>2. QED
  BY <1>1 DEF EditFile, SettingsInv

LEMMA SettingsInvNext == ASSUME SettingsInv, [SettingsNext]_settingsVars PROVE SettingsInv'
<1>1. CASE SettingsNext
  <2>1. ASSUME NEW p \in Process, NEW u \in Updates, Configure(p, u) PROVE SettingsInv'
    BY <2>1, ConfigureStep
  <2>2. ASSUME NEW p \in Process, WriteFile(p) \/ Ends(p) \/ CommitFails(p) \/ Killed(p)
        PROVE  SettingsInv'
    BY <2>2, WriteFileStep, EndStep, CommitFailsStep, KilledStep
  <2>3. ASSUME NEW f \in Files \cup {NoFile}, EditFile(f) PROVE SettingsInv'
    BY <2>3, EditFileStep
  <2>4. CASE ChangeRegistrations
    BY <2>4 DEF ChangeRegistrations, SettingsInv
  <2>5. CASE RestartNode(NoEnvironment)
    BY <2>5, FileOrType DEF RestartNode, SettingsInv
  <2>6. QED
    BY <1>1, <2>1, <2>2, <2>3, <2>4, <2>5 DEF SettingsNext, Ends
<1>2. CASE UNCHANGED settingsVars
  BY <1>2 DEF settingsVars, SettingsInv
<1>3. QED
  BY <1>1, <1>2

LEMMA SettingsInvInit == SettingsInit => SettingsInv
BY DEF SettingsInit, SettingsInv, Settings, Roles, Modes, Hosts, NoRequest
-----------------------------------------------------------------------------
Pair == [settings : Settings, file : Files]
Answers == [known : BOOLEAN, outcome : Outcomes, before : Pair, asked : Pair]

\* What a configure has found and written is still there as long as it is alone, whatever it
\* has come to; and so is what it answered, until something else is written.
StillThere(p) ==
    request[p] # NoRequest /\ request[p].alone =>
        /\ stored = request[p].before.settings
        /\ file = IF request[p].pc = "file" THEN request[p].before.file ELSE request[p].file
        /\ request[p].previous = request[p].before.file
        /\ ~request[p].network => request[p].file = request[p].before.file
FileFirst(p) ==
    request[p] # NoRequest => request[p].network \/ request[p].pc = "database"
AnswerInv ==
    /\ SettingsInv
    /\ answer \in Answers \cup {NoAnswer}
    /\ AnswerIsTrue
    /\ \A p \in Process : StillThere(p) /\ FileFirst(p)

\* Whoever writes disturbs the others.
LEMMA DisturbedOthers ==
  ASSUME SettingsInv, NEW p \in Process, NEW q \in Process, q # p
  PROVE  /\ Disturb(p)[q] # NoRequest => ~Disturb(p)[q].alone
         /\ Disturb(p)[q] = NoRequest <=> request[q] = NoRequest
         /\ Disturb(p)[q] # NoRequest => /\ Disturb(p)[q].network = request[q].network
                                        /\ Disturb(p)[q].pc = request[q].pc
<1>1. ASSUME request[q] # NoRequest
      PROVE  /\ [request[q] EXCEPT !.alone = FALSE] # NoRequest
             /\ ~[request[q] EXCEPT !.alone = FALSE].alone
             /\ [request[q] EXCEPT !.alone = FALSE].network = request[q].network
             /\ [request[q] EXCEPT !.alone = FALSE].pc = request[q].pc
  <2>1. request[q] \in Requests
    BY <1>1 DEF SettingsInv
  <2>2. QED
    BY <2>1 DEF Requests, NoRequest
<1>2. QED
  BY <1>1 DEF Disturb


\* A process that writes: nobody else is alone any more.
LEMMA Writes ==
  ASSUME AnswerInv, SettingsInv', NEW p \in Process, NEW r,
         request' = [Disturb(p) EXCEPT ![p] = r],
         answer' \in Answers \cup {NoAnswer}, AnswerIsTrue', StillThere(p)', FileFirst(p)'
  PROVE  AnswerInv'
<1>1. /\ SettingsInv /\ Disturb(p) \in [Process -> Requests \cup {NoRequest}]
      /\ request \in [Process -> Requests \cup {NoRequest}]
  BY Disturbed DEF AnswerInv, SettingsInv
<1>2. SUFFICES ASSUME NEW q \in Process, q # p PROVE StillThere(q)' /\ FileFirst(q)'
  BY DEF AnswerInv
<1>3. request'[q] = Disturb(p)[q]
  BY <1>1, <1>2
<1>4. StillThere(q)'
  BY <1>1, <1>2, <1>3, DisturbedOthers DEF StillThere
<1>5. request[q] # NoRequest => request[q].network \/ request[q].pc = "database"
  BY DEF AnswerInv, FileFirst
<1>6. FileFirst(q)'
  BY <1>1, <1>2, <1>3, <1>5, DisturbedOthers DEF FileFirst
<1>7. QED
  BY <1>4, <1>6

\* The file of a configure that is alone is a file, so that reading it writes nothing.
LEMMA AloneHasTheFile ==
  ASSUME AnswerInv, NEW p \in Process, request[p] # NoRequest, request[p].alone
  PROVE  FileOr(stored, file) = file
<1>1. request[p] \in Requests
  BY DEF AnswerInv, SettingsInv
<1>2. file \in Files
  BY <1>1 DEF AnswerInv, StillThere, Requests
<1>3. CASE file # NoFile
  BY <1>3, Zenon DEF FileOr
<1>4. CASE file = NoFile
  BY <1>2, <1>4, NoFileIsNoFile
<1>5. QED
  BY <1>3, <1>4

LEMMA AnswerConfigure ==
  ASSUME AnswerInv, SettingsInv', NEW p \in Process, NEW u \in Updates, Configure(p, u)
  PROVE  AnswerInv'
<1>. DEFINE previous == FileOr(stored, file)
            settings == Updated(Base(stored, previous), u)
            new == [pc |-> IF ChangesNetwork(u) THEN "file" ELSE "database",
                    settings |-> settings, previous |-> previous, network |-> ChangesNetwork(u),
                    file |-> IF ChangesNetwork(u) THEN NewFile(previous, settings, u) ELSE previous,
                    before |-> [settings |-> stored, file |-> previous],
                    alone |-> \A q \in Process : request[q] = NoRequest]
<1>1. /\ file' = previous /\ stored' = stored /\ answer' = NoAnswer
      /\ request' = [request EXCEPT ![p] = new]
      /\ request \in [Process -> Requests \cup {NoRequest}]
  BY Zenon DEF Configure, AnswerInv, SettingsInv
<1>2. request'[p] = new /\ \A q \in Process : q # p => request'[q] = request[q]
  BY <1>1
<1>3. /\ new.before = [settings |-> stored, file |-> previous] /\ new.previous = previous
      /\ new.network = ChangesNetwork(u)
      /\ new.pc = IF ChangesNetwork(u) THEN "file" ELSE "database"
      /\ ~ChangesNetwork(u) => new.file = previous /\ new.pc = "database"
      /\ ChangesNetwork(u) => new.pc = "file"
  OBVIOUS
<1>. HIDE DEF previous, settings, new
<1>4. StillThere(p)' /\ FileFirst(p)'
  BY <1>1, <1>2, <1>3 DEF StillThere, FileFirst
<1>5. ASSUME NEW q \in Process, q # p PROVE StillThere(q)' /\ FileFirst(q)'
  <2>1. StillThere(q) /\ FileFirst(q)
    BY <1>5 DEF AnswerInv
  <2>2. request[q] # NoRequest /\ request[q].alone => file' = file
    BY <1>1, <1>5, AloneHasTheFile DEF previous
  <2>3. QED
    BY <1>1, <1>2, <1>5, <2>1, <2>2 DEF StillThere, FileFirst
<1>6. QED
  BY <1>1, <1>4, <1>5 DEF AnswerInv, AnswerIsTrue, NoAnswer

LEMMA AnswerWriteFile ==
  ASSUME AnswerInv, SettingsInv', NEW p \in Process, WriteFile(p) PROVE AnswerInv'
<1>. DEFINE r == [request[p] EXCEPT !.pc = "database"]
<1>1. request[p] # NoRequest /\ request[p] \in Requests /\ SettingsInv
  BY DEF WriteFile, AnswerInv, SettingsInv, NoRequest
<1>2. /\ r.pc = "database" /\ r.file = request[p].file /\ r.before = request[p].before
      /\ r.previous = request[p].previous /\ r.network = request[p].network
      /\ r.alone = request[p].alone
  BY <1>1 DEF Requests
<1>. HIDE DEF r
<1>3. /\ request' = [Disturb(p) EXCEPT ![p] = r] /\ request'[p] = r
      /\ file' = request[p].file /\ stored' = stored /\ answer' = NoAnswer
      /\ request[p].pc = "file"
  BY <1>1, Disturbed DEF WriteFile, r
<1>4. StillThere(p) /\ FileFirst(p)
  BY DEF AnswerInv
<1>5. StillThere(p)' /\ FileFirst(p)'
  BY <1>1, <1>2, <1>3, <1>4 DEF StillThere, FileFirst
<1>6. QED
  BY <1>3, <1>5, Writes DEF AnswerIsTrue, NoAnswer

\* What AnswerIsTrue says of an outcome, before it is answered.
Agrees(p, outcome) ==
    IF outcome = "done"
    THEN stored' = request[p].settings /\ file' = request[p].file
    ELSE /\ stored' = request[p].before.settings
         /\ file' \in {request[p].before.file, request[p].file}
         /\ outcome = "commit" => file' = request[p].before.file

\* A configure returns with what is true of the two stores.
LEMMA AnswerReturn ==
  ASSUME AnswerInv, SettingsInv', NEW p \in Process, NEW outcome \in Outcomes, Return(p, outcome),
         request[p] # NoRequest, request[p].alone => Agrees(p, outcome)
  PROVE  AnswerInv'
<1>1. request[p] \in Requests /\ SettingsInv
  BY DEF AnswerInv, SettingsInv
<1>. DEFINE asked == [settings |-> request[p].settings, file |-> request[p].file]
<1>2. /\ answer' = [known |-> request[p].alone, outcome |-> outcome, before |-> request[p].before,
                    asked |-> asked]
      /\ request' = [Disturb(p) EXCEPT ![p] = NoRequest]
  BY DEF Return
<1>3. asked \in Pair /\ request[p].before \in Pair /\ request[p].alone \in BOOLEAN
  BY <1>1 DEF Requests, Pair
<1>4. asked.settings = request[p].settings /\ asked.file = request[p].file
  OBVIOUS
<1>. HIDE DEF asked
<1>5. answer' \in Answers /\ AnswerIsTrue'
  BY <1>2, <1>3, <1>4 DEF Answers, AnswerIsTrue, Agrees
<1>6. request'[p] = NoRequest
  BY <1>1, <1>2, Disturbed
<1>7. QED
  BY <1>2, <1>5, <1>6, Writes DEF StillThere, FileFirst

LEMMA AnswerEnds ==
  ASSUME AnswerInv, SettingsInv', NEW p \in Process, Ends(p) PROVE AnswerInv'
<1>1. request[p] # NoRequest /\ StillThere(p)
  BY DEF Ends, WriteFileFails, DatabaseFails, Commit, Restore, RestoreFails, AnswerInv, NoRequest
<1>2. CASE WriteFileFails(p)
  <2>1. request[p].alone => Agrees(p, "file")
    BY <1>1, <1>2 DEF WriteFileFails, StillThere, Agrees
  <2>2. QED
    BY <1>1, <1>2, <2>1, AnswerReturn DEF WriteFileFails, Outcomes
<1>3. CASE DatabaseFails(p)
  <2>1. request[p].alone => Agrees(p, "database")
    BY <1>1, <1>3 DEF DatabaseFails, StillThere, Agrees
  <2>2. QED
    BY <1>1, <1>3, <2>1, AnswerReturn DEF DatabaseFails, Outcomes
<1>4. CASE Commit(p)
  <2>1. request[p].alone => Agrees(p, "done")
    BY <1>1, <1>4 DEF Commit, StillThere, Agrees
  <2>2. QED
    BY <1>1, <1>4, <2>1, AnswerReturn DEF Commit, Outcomes
<1>5. CASE Restore(p)
  <2>1. request[p].alone => Agrees(p, "commit")
    BY <1>1, <1>5 DEF Restore, StillThere, Agrees
  <2>2. QED
    BY <1>1, <1>5, <2>1, AnswerReturn DEF Restore, Outcomes
<1>6. CASE RestoreFails(p)
  <2>1. request[p].alone => Agrees(p, "restore")
    BY <1>1, <1>6 DEF RestoreFails, StillThere, Agrees
  <2>2. QED
    BY <1>1, <1>6, <2>1, AnswerReturn DEF RestoreFails, Outcomes
<1>7. QED
  BY <1>2, <1>3, <1>4, <1>5, <1>6 DEF Ends

LEMMA AnswerCommitFails ==
  ASSUME AnswerInv, SettingsInv', NEW p \in Process, CommitFails(p) PROVE AnswerInv'
<1>1. request[p] # NoRequest /\ StillThere(p) /\ request[p] \in Requests
      /\ request \in [Process -> Requests \cup {NoRequest}] /\ request[p].pc = "database"
  BY DEF CommitFails, AnswerInv, SettingsInv, NoRequest
<1>2. CASE ~request[p].network
  <2>1. request[p].alone => Agrees(p, "commit")
    BY <1>1, <1>2 DEF CommitFails, StillThere, Agrees
  <2>2. QED
    BY <1>1, <1>2, <2>1, AnswerReturn DEF CommitFails, Outcomes
<1>3. CASE request[p].network
  <2>. DEFINE r == [request[p] EXCEPT !.pc = "restore"]
  <2>1. /\ r.pc = "restore" /\ r.file = request[p].file /\ r.before = request[p].before
        /\ r.previous = request[p].previous /\ r.network = request[p].network
        /\ r.alone = request[p].alone
    BY <1>1 DEF Requests
  <2>2. request' = [request EXCEPT ![p] = r] /\ UNCHANGED <<stored, file, answer>>
    BY <1>3 DEF CommitFails
  <2>. HIDE DEF r
  <2>3. ASSUME NEW q \in Process PROVE StillThere(q)' /\ FileFirst(q)'
    <3>1. StillThere(q) /\ FileFirst(q)
      BY DEF AnswerInv
    <3>2. CASE q = p
      BY <1>1, <1>3, <2>1, <2>2, <3>2 DEF StillThere, FileFirst
    <3>3. CASE q # p
      BY <1>1, <2>2, <3>1, <3>3 DEF StillThere, FileFirst
    <3>4. QED
      BY <3>2, <3>3
  <2>4. QED
    BY <2>2, <2>3 DEF AnswerInv, AnswerIsTrue
<1>4. QED
  BY <1>2, <1>3

\* A process that only goes away, or a node that only reads.
LEMMA AnswerStays ==
  ASSUME AnswerInv, SettingsInv', UNCHANGED <<stored, answer>>,
         \A p \in Process : request'[p] \in {request[p], NoRequest},
         \A p \in Process : request[p] # NoRequest /\ request[p].alone => file' = file,
         answer.known => file' = file
  PROVE  AnswerInv'
<1>1. ASSUME NEW q \in Process PROVE StillThere(q)' /\ FileFirst(q)'
  <2>1. StillThere(q) /\ FileFirst(q)
    BY DEF AnswerInv
  <2>2. QED
    BY <2>1 DEF StillThere, FileFirst
<1>2. QED
  BY <1>1 DEF AnswerInv, AnswerIsTrue

LEMMA AnswerEditFile ==
  ASSUME AnswerInv, SettingsInv', NEW f \in Files \cup {NoFile}, EditFile(f) PROVE AnswerInv'
<1>1. request \in [Process -> Requests \cup {NoRequest}]
  BY DEF AnswerInv, SettingsInv
<1>2. ASSUME NEW q \in Process, request[q] # NoRequest
      PROVE  /\ ~[request[q] EXCEPT !.alone = FALSE].alone
             /\ [request[q] EXCEPT !.alone = FALSE].network = request[q].network
             /\ [request[q] EXCEPT !.alone = FALSE].pc = request[q].pc
  <2>1. request[q] \in Requests
    BY <1>1, <1>2
  <2>2. QED
    BY <2>1 DEF Requests
<1>3. ASSUME NEW q \in Process PROVE StillThere(q)' /\ FileFirst(q)'
  <2>1. FileFirst(q)
    BY DEF AnswerInv
  <2>2. request'[q] = IF request[q] = NoRequest THEN NoRequest
                      ELSE [request[q] EXCEPT !.alone = FALSE]
    BY DEF EditFile
  <2>3. QED
    BY <1>2, <2>1, <2>2 DEF StillThere, FileFirst
<1>4. QED
  BY <1>3 DEF EditFile, AnswerInv, AnswerIsTrue, NoAnswer

LEMMA AnswerStep ==
  ASSUME AnswerInv, [SettingsNext]_settingsVars PROVE AnswerInv'
<1>1. SettingsInv'
  BY SettingsInvNext DEF AnswerInv
<1>2. CASE SettingsNext
  <2>1. ASSUME NEW p \in Process, NEW u \in Updates, Configure(p, u) PROVE AnswerInv'
    BY <1>1, <2>1, AnswerConfigure
  <2>2. ASSUME NEW p \in Process, Killed(p) PROVE AnswerInv'
    <3>1. request \in [Process -> Requests \cup {NoRequest}]
      BY DEF AnswerInv, SettingsInv
    <3>2. QED
      BY <1>1, <2>2, <3>1, AnswerStays DEF Killed
  <2>3. ASSUME NEW p \in Process, WriteFile(p) \/ Ends(p) \/ CommitFails(p) PROVE AnswerInv'
    BY <1>1, <2>3, AnswerWriteFile, AnswerEnds, AnswerCommitFails
  <2>4. ASSUME NEW f \in Files \cup {NoFile}, EditFile(f) PROVE AnswerInv'
    BY <1>1, <2>4, AnswerEditFile
  <2>5. CASE ChangeRegistrations
    BY <1>1, <2>5, AnswerStays DEF ChangeRegistrations
  <2>6. CASE RestartNode(NoEnvironment)
    <3>1. answer.known => file \in Files
      BY DEF AnswerInv, AnswerIsTrue, Answers, Pair, NoAnswer
    <3>2. answer.known => FileOr(stored, file) = file
      BY <3>1, NoFileIsNoFile, Zenon DEF FileOr
    <3>3. \A p \in Process : request[p] # NoRequest /\ request[p].alone => FileOr(stored, file) = file
      BY AloneHasTheFile
    <3>4. QED
      BY <1>1, <2>6, <3>2, <3>3, AnswerStays DEF RestartNode
  <2>7. QED
    BY <1>2, <2>1, <2>2, <2>3, <2>4, <2>5, <2>6 DEF SettingsNext, Ends
<1>3. CASE UNCHANGED settingsVars
  BY <1>1, <1>3, AnswerStays DEF settingsVars
<1>4. QED
  BY <1>2, <1>3

\* What a configure answers that nobody interfered with (configure and its restore,
\* state/node.rs) is true of the database and of the file, wherever one of its writes failed.
THEOREM AnswersAreTrue == SettingsSpec => []AnswerIsTrue
<1>1. SettingsInit => AnswerInv
  BY SettingsInvInit DEF SettingsInit, AnswerInv, StillThere, FileFirst, AnswerIsTrue, NoAnswer
<1>2. AnswerInv => AnswerIsTrue
  BY DEF AnswerInv
<1>3. QED
  BY <1>1, <1>2, AnswerStep, PTL DEF SettingsSpec
-----------------------------------------------------------------------------
(* What saving writes. *)

LEMMA LeastNatural ==
  ASSUME NEW S, S \subseteq Nat, S # {}
  PROVE  \E n \in S : \A m \in S : n <= m
<1>1. PICK n \in S : \A m \in S : <<m, n>> \notin OpToRel(<, Nat)
  BY NatLessThanWellFounded, WFMin, Zenon
<1>2. \A m \in S : ~(m < n)
  BY <1>1 DEF OpToRel
<1>3. QED
  BY <1>2

\* The community module's choice of an order is a sequence, for a finite set.
LEMMA SetToSeqIsSeq ==
  ASSUME NEW S, IsFiniteSet(S) PROVE SetToSeq(S) \in Seq(S)
<1>1. Cardinality(S) \in Nat /\ ExistsBijection(1..Cardinality(S), S)
  BY FS_CardinalityType
<1>2. PICK g \in Bijection(1..Cardinality(S), S) : TRUE
  BY <1>1, Zenon DEF ExistsBijection
<1>3. g \in [1..Cardinality(S) -> S] /\ IsInjective(g)
  BY <1>2 DEF Bijection, Injection, IsInjective
<1>4. SetToSeq(S) \in [1..Cardinality(S) -> S]
  BY <1>3, Zenon DEF SetToSeq
<1>5. QED
  BY <1>1, <1>4

\* Of a sequence, nothing is in the empty set.
LEMMA NothingLeft ==
  ASSUME NEW s, Len(s) \in Nat PROVE Only(s, {}) = <<>>
<1>. DEFINE N == Len(s)
            body(f) == [i \in 0..N |-> IF i = 0 THEN <<>>
                                       ELSE IF s[i] \in {} THEN Append(f[i - 1], s[i]) ELSE f[i - 1]]
            only == CHOOSE f : f = body(f)
            none == [i \in 0..N |-> <<>>]
<1>1. Only(s, {}) = only[N]
  BY Zenon DEF Only
<1>. HIDE DEF N
<1>2. N \in Nat
  BY DEF N
<1>3. none = body(none)
  BY <1>2
<1>4. only = body(only)
  <2>1. \E f : f = body(f)
    BY <1>3
  <2>2. QED
    BY <2>1, Zenon
<1>. HIDE DEF only
<1>5. only[0] = <<>>
  BY <1>2, <1>4
<1>6. \A i \in 1..N : only[i] = only[i - 1]
  BY <1>2, <1>4
<1>7. \A i \in 0..N : only[i] = <<>>
  <2>. DEFINE Bad == {i \in 0..N : only[i] # <<>>}
  <2>. SUFFICES ASSUME NEW bad \in 0..N, only[bad] # <<>> PROVE FALSE
    OBVIOUS
  <2>1. Bad \subseteq Nat /\ bad \in Bad
    BY <1>2
  <2>2. PICK i \in Bad : \A j \in Bad : i <= j
    BY <2>1, LeastNatural
  <2>3. i \in 0..N /\ i # 0 /\ only[i] # <<>>
    BY <1>5, <2>2
  <2>4. i \in 1..N /\ i - 1 \in 0..N /\ ~(i <= i - 1)
    BY <1>2, <2>3
  <2>5. only[i - 1] = <<>>
    BY <2>2, <2>4
  <2>6. QED
    BY <1>6, <2>3, <2>4, <2>5
<1>8. QED
  BY <1>1, <1>2, <1>7
-----------------------------------------------------------------------------
\* What a difference to an import does: it turns the import into what was submitted.
LEMMA DifferenceApplies ==
  ASSUME NEW base \in Task, NEW s \in Submission
  PROVE  /\ Apply(base, ImportedPatch(base, s)) = [command |-> s.command, env |-> s.env]
         /\ ImportedPatch(base, s) = NoPatch => base = [command |-> s.command, env |-> s.env]
         /\ ~ImportedPatch(base, s).disabled
<1>. DEFINE diff == ImportedEnv(base, s)
            same(x) == ~s.clear /\ x \in DOMAIN base.env /\ base.env[x] = s.env[x]
<1>1. /\ s.env \in [DOMAIN s.env -> Value] /\ base.env \in [DOMAIN base.env -> Value]
      /\ s.command \in Command /\ base.command \in Command
      /\ base = [command |-> base.command, env |-> base.env]
  BY DEF Task, Submission, Maps
<1>2. /\ DOMAIN diff = {x \in DOMAIN s.env : ~same(x)} \cup (DOMAIN base.env \ DOMAIN s.env)
      /\ \A x \in DOMAIN s.env : ~same(x) => diff[x] = s.env[x]
      /\ \A x \in DOMAIN base.env \ DOMAIN s.env : diff[x] = Unset
  BY DEF ImportedEnv, Overlay, Restrict
<1>3. /\ ImportedPatch(base, s).env = diff /\ ~ImportedPatch(base, s).disabled
      /\ ImportedPatch(base, s).command = IF s.command = base.command THEN Unset ELSE s.command
  BY DEF ImportedPatch
<1>. HIDE DEF diff
<1>4. Apply(base, ImportedPatch(base, s)).command = s.command
  BY <1>1, <1>3, UnsetIsNothing DEF Apply
<1>5. Apply(base, ImportedPatch(base, s)).env = s.env
  <2>. DEFINE all == Overlay(diff, base.env)
              left == {x \in DOMAIN all : all[x] # Unset}
  <2>1. Apply(base, ImportedPatch(base, s)).env = [x \in left |-> all[x]]
    BY <1>3 DEF Apply, Restrict
  <2>2. /\ DOMAIN all = DOMAIN s.env \cup DOMAIN base.env
        /\ \A x \in DOMAIN s.env : all[x] = s.env[x]
        /\ \A x \in DOMAIN base.env \ DOMAIN s.env : all[x] = Unset
    BY <1>2 DEF Overlay
  <2>. HIDE DEF all
  <2>3. \A x \in DOMAIN s.env : s.env[x] # Unset
    BY <1>1, UnsetIsNothing
  <2>4. left = DOMAIN s.env
    BY <2>2, <2>3
  <2>5. QED
    BY <1>1, <2>1, <2>2, <2>4
<1>6. Apply(base, ImportedPatch(base, s)) = [command |-> s.command, env |-> s.env]
  BY <1>4, <1>5 DEF Apply
<1>7. ASSUME ImportedPatch(base, s) = NoPatch PROVE base = [command |-> s.command, env |-> s.env]
  <2>1. diff = <<>> /\ s.command = base.command
    BY <1>1, <1>3, <1>7, UnsetIsNothing DEF NoPatch, Empty
  <2>2. \A x : x \in DOMAIN diff <=> FALSE
    BY <2>1
  <2>3. DOMAIN base.env = DOMAIN s.env /\ \A x \in DOMAIN s.env : base.env[x] = s.env[x]
    BY <1>2, <2>2
  <2>4. base.env = s.env
    BY <1>1, <2>3
  <2>5. QED
    BY <1>1, <2>1, <2>4
<1>8. QED
  BY <1>3, <1>6, <1>7

\* What a whole entry does: it is the task that was submitted, but for an environment it keeps.
LEMMA EntryApplies ==
  ASSUME NEW before, NEW s \in Submission
  PROVE  /\ Apply(DefaultTask, YamlPatch(before, s)).command = s.command
         /\ s.env = Empty \/ Apply(DefaultTask, YamlPatch(before, s)).env = s.env
         /\ s.clear => Apply(DefaultTask, YamlPatch(before, s)) = [command |-> s.command, env |-> s.env]
         /\ YamlPatch(before, s) # NoPatch /\ ~YamlPatch(before, s).disabled
<1>1. s.env \in [DOMAIN s.env -> Value] /\ s.command \in Command /\ s.command # Unset
  BY UnsetIsNothing DEF Submission, Maps
<1>2. /\ YamlPatch(before, s).command = s.command /\ ~YamlPatch(before, s).disabled
      /\ s.clear \/ s.env # Empty => YamlPatch(before, s).env = s.env
  BY DEF YamlPatch
<1>3. ASSUME NEW e, e = s.env
      PROVE  Restrict(Overlay(e, Empty), {x \in DOMAIN Overlay(e, Empty) : Overlay(e, Empty)[x] # Unset}) = s.env
  <2>1. /\ DOMAIN Overlay(e, Empty) = DOMAIN s.env
        /\ \A x \in DOMAIN s.env : Overlay(e, Empty)[x] = s.env[x]
    BY <1>3 DEF Overlay, Empty
  <2>2. {x \in DOMAIN Overlay(e, Empty) : Overlay(e, Empty)[x] # Unset} = DOMAIN s.env
    BY <1>1, <2>1, UnsetIsNothing
  <2>3. QED
    BY <1>1, <2>1, <2>2 DEF Restrict
<1>4. Apply(DefaultTask, YamlPatch(before, s)).command = s.command
  BY <1>1, <1>2 DEF Apply
<1>5. s.clear \/ s.env # Empty => Apply(DefaultTask, YamlPatch(before, s)).env = s.env
  BY <1>2, <1>3 DEF Apply, DefaultTask
<1>6. YamlPatch(before, s) # NoPatch
  BY <1>1, <1>2 DEF NoPatch
<1>7. QED
  BY <1>2, <1>4, <1>5, <1>6 DEF Apply

LEMMA SubmittedTask ==
  ASSUME NEW s \in Seq(Submission), NEW l \in Labels(s)
  PROVE  TaskOf(s, l) \in Submission /\ TaskOf(s, l).label = l /\ l \in Label
         /\ \E n \in DOMAIN s : TaskOf(s, l) = s[n]
<1>1. \E n \in DOMAIN s : s[n].label = l
  BY DEF Labels
<1>2. PICK n \in DOMAIN s : TaskOf(s, l) = s[n] /\ s[n].label = l
  BY <1>1, Zenon DEF TaskOf
<1>3. s[n] \in Submission
  BY <1>2
<1>4. QED
  BY <1>2, <1>3 DEF Submission

\* The file that is written merges with the imports to the tasks that were submitted.
LEMMA WrittenMerges ==
  ASSUME NEW i \in Imports, NEW d, NEW s \in Seq(Submission), NEW new, new = Written(i, d, s)
  PROVE  /\ DOMAIN MergeTasks(i, new) = Labels(s)
         /\ \A l \in Labels(s) :
              /\ MergeTasks(i, new)[l].command = TaskOf(s, l).command
              /\ \/ MergeTasks(i, new)[l].env = TaskOf(s, l).env
                 \/ TaskOf(s, l).env = Empty /\ l \notin DOMAIN i.tasks
              /\ TaskOf(s, l).clear =>
                    MergeTasks(i, new)[l] = [command |-> TaskOf(s, l).command, env |-> TaskOf(s, l).env]
<1>. DEFINE imported(l) == l \in DOMAIN i.tasks
            patch(l) == IF l \notin Labels(s) THEN DisabledPatch
                        ELSE IF imported(l) THEN ImportedPatch(i.tasks[l], TaskOf(s, l))
                        ELSE YamlPatch(d, TaskOf(s, l))
            all == Labels(s) \cup DOMAIN i.tasks
            written == {l \in all : patch(l) # NoPatch}
            disabled == {l \in DOMAIN new.tasks : new.tasks[l].disabled}
            base(l) == IF l \in DOMAIN i.tasks THEN i.tasks[l] ELSE DefaultTask
<1>1. new.tasks = [l \in written |-> patch(l)]
  BY DEF Written, Restrict
<1>2. \A l \in DOMAIN i.tasks : i.tasks[l] \in Task
  BY DEF Imports, Maps
<1>3. ASSUME NEW l \in DOMAIN i.tasks, l \notin Labels(s)
      PROVE  l \in written /\ patch(l).disabled
  BY <1>3 DEF DisabledPatch, NoPatch
<1>4. ASSUME NEW l \in Labels(s) PROVE ~patch(l).disabled
  <2>1. TaskOf(s, l) \in Submission
    BY SubmittedTask
  <2>2. CASE imported(l)
    BY <1>2, <2>1, <2>2, DifferenceApplies
  <2>3. CASE ~imported(l)
    BY <2>1, <2>3, EntryApplies
  <2>4. QED
    BY <2>2, <2>3
<1>5. disabled = all \ Labels(s)
  BY <1>1, <1>3, <1>4
<1>6. /\ DOMAIN MergeTasks(i, new) = (DOMAIN i.tasks \cup DOMAIN new.tasks) \ disabled
      /\ \A l \in DOMAIN MergeTasks(i, new) :
            MergeTasks(i, new)[l] = IF l \in DOMAIN new.tasks THEN Apply(base(l), new.tasks[l]) ELSE base(l)
  BY DEF MergeTasks
<1>. HIDE DEF disabled
<1>7. ASSUME NEW l \in Labels(s), ~imported(l) PROVE l \in written
  <2>1. TaskOf(s, l) \in Submission
    BY SubmittedTask
  <2>2. QED
    BY <1>7, <2>1, EntryApplies
<1>8. DOMAIN MergeTasks(i, new) = Labels(s)
  BY <1>1, <1>5, <1>6, <1>7
<1>9. ASSUME NEW l \in Labels(s)
      PROVE  /\ MergeTasks(i, new)[l].command = TaskOf(s, l).command
             /\ \/ MergeTasks(i, new)[l].env = TaskOf(s, l).env
                \/ TaskOf(s, l).env = Empty /\ l \notin DOMAIN i.tasks
             /\ TaskOf(s, l).clear =>
                   MergeTasks(i, new)[l] = [command |-> TaskOf(s, l).command, env |-> TaskOf(s, l).env]
  <2>1. TaskOf(s, l) \in Submission
    BY SubmittedTask
  <2>2. CASE imported(l)
    <3>1. patch(l) = ImportedPatch(i.tasks[l], TaskOf(s, l)) /\ base(l) = i.tasks[l]
      BY <2>2
    <3>2. MergeTasks(i, new)[l] = IF patch(l) = NoPatch THEN base(l) ELSE Apply(base(l), patch(l))
      BY <1>1, <1>6, <1>8
    <3>3. MergeTasks(i, new)[l] = [command |-> TaskOf(s, l).command, env |-> TaskOf(s, l).env]
      BY <1>2, <2>1, <2>2, <3>1, <3>2, DifferenceApplies
    <3>4. QED
      BY <3>3
  <2>3. CASE ~imported(l)
    <3>1. patch(l) = YamlPatch(d, TaskOf(s, l)) /\ base(l) = DefaultTask
      BY <2>3
    <3>2. MergeTasks(i, new)[l] = Apply(base(l), patch(l))
      BY <1>1, <1>6, <1>7, <1>8, <2>3
    <3>3. TaskOf(s, l).env = Empty \/ MergeTasks(i, new)[l].env = TaskOf(s, l).env
      BY <2>1, <3>1, <3>2, EntryApplies
    <3>4. QED
      BY <2>1, <2>3, <3>1, <3>2, <3>3, EntryApplies
  <2>4. QED
    BY <2>2, <2>3
<1>10. QED
  BY <1>8, <1>9

\* A configuration that was saved reads back as what was submitted, whatever the file said before.
LEMMA SavedReadsBack ==
  ASSUME NEW i \in Imports, NEW d, NEW s \in Seq(Submission) PROVE RoundTrip(i, d, s)
<1>. DEFINE new == Written(i, d, s)
            tasks == MergeTasks(i, new)
            order == [n \in DOMAIN s |-> s[n].label]
            rest == DOMAIN tasks \ Range(new.order)
<1>1. SUFFICES ASSUME Valid(s)
               PROVE  /\ Loads(i, new)
                      /\ AgreesButKeptEnv(Submitted(s), Definition(i, new), i)
                      /\ (\A n \in DOMAIN s : s[n].clear) => Definition(i, new) = Submitted(s)
  BY DEF RoundTrip
<1>2. new.order = order /\ IsInjective(order)
  BY <1>1 DEF Written, Valid
<1>3. /\ DOMAIN tasks = Labels(s)
      /\ \A l \in Labels(s) :
              /\ tasks[l].command = TaskOf(s, l).command
              /\ \/ tasks[l].env = TaskOf(s, l).env
                 \/ TaskOf(s, l).env = Empty /\ l \notin DOMAIN i.tasks
              /\ TaskOf(s, l).clear =>
                    tasks[l] = [command |-> TaskOf(s, l).command, env |-> TaskOf(s, l).env]
  BY WrittenMerges
<1>4. Range(order) = Labels(s)
  BY DEF Range, Labels
<1>5. TaskOrder(i, new) = new.order \o Only(i.order, rest) \o
                          Only(SetToSeq(DOMAIN tasks), rest \ Range(i.order))
  BY DEF TaskOrder
<1>6. Definition(i, new) = [tasks |-> tasks, order |-> TaskOrder(i, new)]
  BY DEF Definition
<1>7. tasks = [l \in DOMAIN tasks |-> tasks[l]]
  BY DEF MergeTasks
<1>. HIDE DEF new, tasks
<1>8. rest = {}
  BY <1>2, <1>3, <1>4
<1>9. Len(i.order) \in Nat /\ Len(SetToSeq(DOMAIN tasks)) \in Nat
  <2>1. PICK t \in Maps(Label, Task) : i = [tasks |-> t, order |-> SetToSeq(DOMAIN t)]
    BY DEF Imports
  <2>2. DOMAIN t \subseteq Label
    BY DEF Maps
  <2>3. Labels(s) \subseteq Label
    BY SubmittedTask
  <2>4. IsFiniteSet(DOMAIN t) /\ IsFiniteSet(DOMAIN tasks)
    BY <1>3, <2>2, <2>3, LabelsAreFinite, FS_Subset
  <2>5. SetToSeq(DOMAIN t) \in Seq(DOMAIN t) /\ SetToSeq(DOMAIN tasks) \in Seq(DOMAIN tasks)
    BY <2>4, SetToSeqIsSeq
  <2>6. QED
    BY <2>1, <2>5
<1>10. order \in Seq(Label)
  <2>1. ASSUME NEW n \in DOMAIN s PROVE s[n].label \in Label
    <3>1. s[n] \in Submission
      OBVIOUS
    <3>2. QED
      BY <3>1 DEF Submission
  <2>2. DOMAIN s = 1..Len(s) /\ Len(s) \in Nat
    OBVIOUS
  <2>3. QED
    BY <2>1, <2>2
<1>. HIDE DEF order, rest
<1>11. Only(i.order, rest) = <<>> /\ Only(SetToSeq(DOMAIN tasks), rest \ Range(i.order)) = <<>>
  <2>1. rest \ Range(i.order) = {}
    BY <1>8
  <2>2. Only(i.order, {}) = <<>> /\ Only(SetToSeq(DOMAIN tasks), {}) = <<>>
    BY <1>9, NothingLeft
  <2>3. QED
    BY <1>8, <2>1, <2>2
<1>12. TaskOrder(i, new) = order
  <2>1. order \o <<>> = order
    BY <1>10, ConcatEmptySeq
  <2>2. QED
    BY <1>2, <1>5, <1>11, <2>1, Zenon
<1>13. Loads(i, new)
  <2>1. \A l \in DOMAIN tasks : tasks[l].command # Unset
    <3>1. ASSUME NEW l \in Labels(s) PROVE TaskOf(s, l).command # Unset
      <4>1. TaskOf(s, l) \in Submission
        BY SubmittedTask
      <4>2. QED
        BY <4>1, UnsetIsNothing DEF Submission
    <3>2. QED
      BY <1>3, <3>1
  <2>2. QED
    BY <1>2, <1>3, <1>4, <2>1 DEF Loads, tasks
<1>14. /\ Submitted(s).order = order /\ DOMAIN Submitted(s).tasks = Labels(s)
       /\ \A l \in Labels(s) : Submitted(s).tasks[l] = [command |-> TaskOf(s, l).command, env |-> TaskOf(s, l).env]
       /\ Submitted(s) = [tasks |-> [l \in Labels(s) |-> [command |-> TaskOf(s, l).command, env |-> TaskOf(s, l).env]],
                          order |-> order]
  BY DEF Submitted, order
<1>15. AgreesButKeptEnv(Submitted(s), Definition(i, new), i)
  BY <1>3, <1>6, <1>12, <1>14 DEF AgreesButKeptEnv
<1>16. ASSUME \A n \in DOMAIN s : s[n].clear PROVE Definition(i, new) = Submitted(s)
  <2>1. \A l \in Labels(s) : TaskOf(s, l).clear
    BY <1>16, SubmittedTask
  <2>2. tasks = [l \in Labels(s) |-> [command |-> TaskOf(s, l).command, env |-> TaskOf(s, l).env]]
    BY <1>3, <1>7, <2>1
  <2>3. QED
    BY <1>6, <1>12, <1>14, <2>2
<1>17. QED
  BY <1>13, <1>15, <1>16
-----------------------------------------------------------------------------
SavePcs == {"finalize", "rename", "reconcile"}
Save(pc, revision, new, definition, names, edited) ==
    [pc |-> pc, revision |-> revision, doc |-> new, def |-> definition, names |-> names, edited |-> edited]
Loading(pc, s, definition, edited) ==
    [pc |-> pc, session |-> s, def |-> definition, edited |-> edited]

\* A request that holds config_mutations saves a configuration or loads a session.
Shape ==
    \/ mutation = Idle
    \/ \E pc \in SavePcs : \E r, w, f, n, e : mutation = Save(pc, r, w, f, n, e)
    \/ \E pc \in {"register", "update"}, s \in Session : \E f, e : mutation = Loading(pc, s, f, e)

\* What is saved agrees with what the sessions will be told, for all that can be loaded then.
SaveAgrees ==
    mutation.pc \in SavePcs =>
        /\ Loads(mutation.revision[1], mutation.doc)
        /\ AgreesButKeptEnv(mutation.def, Definition(mutation.revision[1], mutation.doc), mutation.revision[1])
        /\ Loaded \subseteq mutation.names

\* Between the last look and the rename, and then until the sessions have it, the files are as
\* the request believes, unless somebody edits them.
SaveIsCurrent ==
    /\ mutation.pc = "rename" /\ ~mutation.edited => files = mutation.revision
    /\ mutation.pc = "reconcile" /\ ~mutation.edited => files = <<mutation.revision[1], mutation.doc>>

\* A session is loaded with what the files say.
LoadIsCurrent ==
    mutation.pc \in {"register", "update"} /\ ~apart => mutation.def = Definition(imports, doc)

\* Outside the section from the rename to the sessions, they have the file.
HaveTheFile ==
    ~apart /\ mutation.pc # "reconcile" =>
        /\ Loads(imports, doc)
        /\ \A s \in Loaded : AgreesButKeptEnv(def[s], Definition(imports, doc), imports)

ConfigInv ==
    /\ imports \in Imported /\ def = [s \in Session |-> def[s]]
    /\ Shape /\ SaveAgrees /\ SaveIsCurrent /\ LoadIsCurrent /\ HaveTheFile

LEMMA AgreesWithItself ==
  ASSUME NEW definition, NEW i PROVE AgreesButKeptEnv(definition, definition, i)
BY DEF AgreesButKeptEnv

LEMMA IdleIsIdle ==
  /\ Idle.pc = "idle" /\ "idle" \notin SavePcs
  /\ \A pc, r, w, f, n, e :
       LET m == Save(pc, r, w, f, n, e)
       IN  /\ m.pc = pc /\ m.revision = r /\ m.doc = w /\ m.def = f /\ m.names = n /\ m.edited = e
           /\ m # Idle
           /\ \A x : /\ [m EXCEPT !.pc = x] = Save(x, r, w, f, n, e)
                     /\ [m EXCEPT !.edited = x] = Save(pc, r, w, f, n, x)
  /\ \A pc, s, f, e :
       LET m == Loading(pc, s, f, e)
       IN  /\ m.pc = pc /\ m.session = s /\ m.def = f /\ m.edited = e
           /\ m # Idle
           /\ \A x : [m EXCEPT !.edited = x] = Loading(pc, s, f, x)
BY DEF Idle, SavePcs, Save, Loading

LEMMA ConfigInvInit == ASSUME ConfigInit PROVE ConfigInv
<1>1. imports \in Imported /\ def = [s \in Session |-> def[s]] /\ mutation = Idle
  BY DEF ConfigInit
<1>2. Loads(imports, doc) /\ \A s \in Loaded : AgreesButKeptEnv(def[s], Definition(imports, doc), imports)
  BY AgreesWithItself DEF ConfigInit, Loaded
<1>3. QED
  BY <1>1, <1>2, IdleIsIdle DEF ConfigInv, Shape, SaveAgrees, SaveIsCurrent, LoadIsCurrent, HaveTheFile,
     SavePcs

\* A request that ends where the sessions have the file.
LEMMA EndsRequest ==
  ASSUME ConfigInv, mutation' = Idle, imports' \in Imported, def' = [s \in Session |-> def'[s]],
         ~apart' => /\ Loads(imports, doc)'
                    /\ \A s \in Loaded' : AgreesButKeptEnv(def'[s], Definition(imports, doc)', imports')
  PROVE  ConfigInv'
<1>1. Shape' /\ SaveAgrees' /\ SaveIsCurrent' /\ LoadIsCurrent'
  BY IdleIsIdle DEF Shape, SaveAgrees, SaveIsCurrent, LoadIsCurrent, SavePcs
<1>2. HaveTheFile'
  BY DEF HaveTheFile
<1>3. QED
  BY <1>1, <1>2 DEF ConfigInv

LEMMA PutStep ==
  ASSUME ConfigInv, NEW cl \in Client, NEW draft \in Drafts, PutSessionConfig(cl, draft)
  PROVE  ConfigInv'
<1>. DEFINE new == Save("finalize", files, Written(imports, doc, draft), Submitted(draft), OfProject, FALSE)
<1>1. mutation' = new /\ UNCHANGED <<imports, doc, def, apart>> /\ Valid(draft) /\ mutation = Idle
  BY DEF PutSessionConfig, Save
<1>2. RoundTrip(imports, doc, draft)
  <2>1. imports \in Imports /\ draft \in Seq(Submission)
    BY ImportsAreImports, DraftsAreSubmissions DEF ConfigInv
  <2>2. QED
    BY <2>1, SavedReadsBack
<1>3. /\ new.pc = "finalize" /\ new.revision[1] = imports /\ new.doc = Written(imports, doc, draft)
      /\ new.def = Submitted(draft) /\ new.names = Loaded
  BY DEF Save, files, OfProject
<1>4. Shape'
  BY <1>1, Zenon DEF Shape, SavePcs
<1>. HIDE DEF new
<1>5. SaveAgrees'
  <2>1. /\ Loads(imports, Written(imports, doc, draft))
        /\ AgreesButKeptEnv(Submitted(draft), Definition(imports, Written(imports, doc, draft)), imports)
    BY <1>1, <1>2, Zenon DEF RoundTrip
  <2>2. Loaded' = Loaded
    BY <1>1 DEF Loaded
  <2>3. mutation'.names = Loaded
    BY <1>1, <1>3
  <2>4. QED
    BY <1>1, <1>3, <2>1, <2>2, <2>3 DEF SaveAgrees
<1>6. SaveIsCurrent' /\ LoadIsCurrent'
  BY <1>1, <1>3 DEF SaveIsCurrent, LoadIsCurrent
<1>7. HaveTheFile'
  <2>1. mutation.pc # "reconcile"
    BY <1>1, IdleIsIdle
  <2>2. QED
    BY <1>1, <1>3, <2>1 DEF ConfigInv, HaveTheFile, Loaded
<1>8. QED
  BY <1>1, <1>4, <1>5, <1>6, <1>7 DEF ConfigInv

LEMMA FinalizeStep == ASSUME ConfigInv, Finalize PROVE ConfigInv'
<1>1. UNCHANGED <<imports, doc, def, apart>> /\ mutation.pc = "finalize"
  BY DEF Finalize
<1>2. CASE mutation' = Idle
  BY <1>1, <1>2, EndsRequest DEF ConfigInv, HaveTheFile, Loaded
<1>3. CASE mutation' = [mutation EXCEPT !.pc = "rename"] /\ files = mutation.revision
  <2>1. PICK r, w, f, n, e : mutation = Save("finalize", r, w, f, n, e)
    BY <1>1, IdleIsIdle DEF ConfigInv, Shape
  <2>2. mutation' = Save("rename", r, w, f, n, e)
    BY <1>3, <2>1, IdleIsIdle
  <2>3. /\ mutation'.pc = "rename" /\ mutation'.revision = mutation.revision
        /\ mutation'.doc = mutation.doc /\ mutation'.def = mutation.def
        /\ mutation'.names = mutation.names
    BY <2>1, <2>2, IdleIsIdle
  <2>4. Shape'
    BY <2>2, Zenon DEF Shape, SavePcs
  <2>5. SaveAgrees'
    BY <1>1, <2>3 DEF ConfigInv, SaveAgrees, SavePcs, Loaded
  <2>6. SaveIsCurrent' /\ LoadIsCurrent'
    BY <1>1, <1>3, <2>3 DEF SaveIsCurrent, LoadIsCurrent, files
  <2>7. HaveTheFile'
    BY <1>1, <2>3 DEF ConfigInv, HaveTheFile, Loaded
  <2>8. QED
    BY <1>1, <2>4, <2>5, <2>6, <2>7 DEF ConfigInv
<1>4. QED
  BY <1>2, <1>3 DEF Finalize

LEMMA RenameStep == ASSUME ConfigInv, Rename PROVE ConfigInv'
<1>1. /\ UNCHANGED <<imports, def, apart>> /\ mutation.pc = "rename"
      /\ doc' = mutation.doc /\ mutation' = [mutation EXCEPT !.pc = "reconcile"]
  BY DEF Rename
<1>2. PICK r, w, f, n, e : mutation = Save("rename", r, w, f, n, e)
  BY <1>1, IdleIsIdle DEF ConfigInv, Shape
<1>3. mutation' = Save("reconcile", r, w, f, n, e)
  BY <1>1, <1>2, IdleIsIdle
<1>4. /\ mutation'.pc = "reconcile" /\ mutation'.revision = mutation.revision
      /\ mutation'.doc = mutation.doc /\ mutation'.def = mutation.def
      /\ mutation'.names = mutation.names /\ mutation'.edited = mutation.edited
  BY <1>2, <1>3, IdleIsIdle
<1>5. Shape'
  BY <1>3, Zenon DEF Shape, SavePcs
<1>6. SaveAgrees'
  BY <1>1, <1>4 DEF ConfigInv, SaveAgrees, SavePcs, Loaded
<1>7. SaveIsCurrent' /\ LoadIsCurrent'
  BY <1>1, <1>4 DEF ConfigInv, SaveIsCurrent, LoadIsCurrent, files
<1>8. HaveTheFile'
  BY <1>4 DEF HaveTheFile
<1>9. QED
  BY <1>1, <1>5, <1>6, <1>7, <1>8 DEF ConfigInv

LEMMA ReconcileStep ==
  ASSUME ConfigInv, NEW failed \in SUBSET Session, Reconcile(failed) PROVE ConfigInv'
<1>1. /\ UNCHANGED <<imports, doc>> /\ mutation.pc = "reconcile" /\ mutation' = Idle
      /\ apart' = (mutation.edited \/ failed # {})
      /\ def' = [s \in Session |->
                   IF s \in failed THEN Partial
                   ELSE IF s \in Loaded \cap mutation.names THEN mutation.def ELSE def[s]]
  BY DEF Reconcile
<1>2. ASSUME ~apart'
      PROVE  /\ Loads(imports, doc)'
             /\ \A s \in Loaded' : AgreesButKeptEnv(def'[s], Definition(imports, doc)', imports')
  <2>1. failed = {} /\ ~mutation.edited
    BY <1>1, <1>2
  <2>2. imports = mutation.revision[1] /\ doc = mutation.doc
    BY <1>1, <2>1 DEF ConfigInv, SaveIsCurrent, files
  <2>3. /\ Loads(imports, doc) /\ AgreesButKeptEnv(mutation.def, Definition(imports, doc), imports)
        /\ Loaded \subseteq mutation.names
    BY <1>1, <2>2 DEF ConfigInv, SaveAgrees, SavePcs
  <2>4. \A s \in Loaded' : def'[s] = mutation.def
    BY <1>1, <2>1, <2>3 DEF Loaded
  <2>5. QED
    BY <1>1, <2>3, <2>4
<1>3. def' = [s \in Session |-> def'[s]]
  BY <1>1
<1>4. QED
  BY <1>1, <1>2, <1>3, EndsRequest DEF ConfigInv

LEMMA StartsLoading ==
  ASSUME ConfigInv, NEW s \in Session, NEW pc \in {"register", "update"}, mutation = Idle,
         Loads(imports, doc), mutation' = Loading(pc, s, Definition(imports, doc), FALSE),
         UNCHANGED <<imports, doc, def, apart>>
  PROVE  ConfigInv'
<1>1. mutation'.pc = pc /\ mutation'.def = Definition(imports, doc) /\ pc \notin SavePcs
  BY DEF Loading, SavePcs
<1>2. Shape'
  BY Zenon DEF Shape
<1>3. SaveAgrees' /\ SaveIsCurrent' /\ LoadIsCurrent'
  BY <1>1 DEF SaveAgrees, SaveIsCurrent, LoadIsCurrent, SavePcs
<1>4. mutation.pc # "reconcile"
  BY IdleIsIdle
<1>5. HaveTheFile'
  BY <1>1, <1>4 DEF ConfigInv, HaveTheFile, Loaded
<1>6. QED
  BY <1>2, <1>3, <1>5 DEF ConfigInv

LEMMA RegisterStep == ASSUME ConfigInv, NEW s \in Session, Register(s) \/ Update(s) PROVE ConfigInv'
BY StartsLoading DEF Register, Update, Loading, Discovers

LEMMA LoadStep == ASSUME ConfigInv, Load \/ LoadFails PROVE ConfigInv'
<1>1. mutation.pc \in {"register", "update"}
  BY DEF Load, LoadFails
<1>2. PICK pc \in {"register", "update"}, s \in Session :
              \E f, e : mutation = Loading(pc, s, f, e)
  BY <1>1, IdleIsIdle DEF ConfigInv, Shape, SavePcs
<1>3. PICK f, e : mutation = Loading(pc, s, f, e)
  BY <1>2
<1>4. mutation.session = s /\ mutation.def = f
  BY <1>3, IdleIsIdle
<1>5. /\ UNCHANGED <<imports, doc>> /\ mutation' = Idle
      /\ \/ def' = [def EXCEPT ![s] = f] /\ apart' = apart
         \/ def' = [def EXCEPT ![s] = Partial] /\ apart'
         \/ UNCHANGED <<def, apart>>
  BY <1>4 DEF Load, LoadFails
<1>6. ASSUME ~apart'
      PROVE  /\ Loads(imports, doc)
             /\ \A x \in Loaded' : AgreesButKeptEnv(def'[x], Definition(imports, doc), imports)
  <2>1. ~apart
    BY <1>5, <1>6
  <2>2. f = Definition(imports, doc)
    BY <1>1, <1>4, <2>1 DEF ConfigInv, LoadIsCurrent
  <2>3. AgreesButKeptEnv(f, Definition(imports, doc), imports)
    BY <2>2, AgreesWithItself
  <2>4. Loads(imports, doc) /\ \A x \in Loaded : AgreesButKeptEnv(def[x], Definition(imports, doc), imports)
    BY <1>1, <2>1 DEF ConfigInv, HaveTheFile
  <2>5. \A x \in Session : def'[x] = def[x] \/ def'[x] = f
    BY <1>5, <1>6 DEF ConfigInv
  <2>6. QED
    BY <2>3, <2>4, <2>5 DEF Loaded
<1>7. def' = [x \in Session |-> def'[x]]
  BY <1>5 DEF ConfigInv
<1>8. QED
  BY <1>5, <1>6, <1>7, EndsRequest DEF ConfigInv

LEMMA RemoveStep == ASSUME ConfigInv, NEW s \in Session, RemoveSession(s) PROVE ConfigInv'
<1>1. UNCHANGED <<imports, doc, mutation, apart>> /\ def' = [def EXCEPT ![s] = None]
  BY DEF RemoveSession
<1>2. Loaded' \subseteq Loaded /\ \A x \in Loaded' : def'[x] = def[x]
  BY <1>1 DEF Loaded, ConfigInv
<1>3. def' = [x \in Session |-> def'[x]]
  BY <1>1 DEF ConfigInv
<1>4. Shape' /\ SaveIsCurrent' /\ LoadIsCurrent'
  BY <1>1 DEF ConfigInv, Shape, SaveIsCurrent, LoadIsCurrent, files
<1>5. SaveAgrees' /\ HaveTheFile'
  BY <1>1, <1>2 DEF ConfigInv, SaveAgrees, HaveTheFile
<1>6. QED
  BY <1>1, <1>3, <1>4, <1>5 DEF ConfigInv

LEMMA EditStep ==
  ASSUME ConfigInv, NEW i \in Imported, NEW d, Edit(i, d) PROVE ConfigInv'
<1>1. /\ imports' = i /\ doc' = d /\ apart' = TRUE /\ def' = def /\ Loaded' = Loaded
      /\ mutation' = IF mutation = Idle THEN Idle
                     ELSE [mutation EXCEPT !.edited = mutation.pc # "finalize"]
  BY DEF Edit, Loaded
<1>2. LoadIsCurrent' /\ HaveTheFile'
  BY <1>1 DEF LoadIsCurrent, HaveTheFile
<1>3. CASE mutation = Idle
  BY <1>1, <1>3, EndsRequest DEF ConfigInv
<1>4. ASSUME NEW pc \in SavePcs, NEW r, NEW w, NEW f, NEW n, NEW e, mutation = Save(pc, r, w, f, n, e)
      PROVE  ConfigInv'
  <2>1. mutation' = Save(pc, r, w, f, n, pc # "finalize") /\ mutation.pc = pc
    BY <1>1, <1>4, IdleIsIdle
  <2>2. /\ mutation'.pc = pc /\ mutation'.revision = mutation.revision
        /\ mutation'.doc = mutation.doc /\ mutation'.def = mutation.def
        /\ mutation'.names = mutation.names /\ mutation'.edited = (pc # "finalize")
    BY <1>4, <2>1, IdleIsIdle
  <2>3. Shape'
    BY <2>1, Zenon DEF Shape
  <2>4. SaveAgrees'
    BY <1>1, <1>4, <2>1, <2>2 DEF ConfigInv, SaveAgrees
  <2>5. SaveIsCurrent'
    BY <2>2 DEF SaveIsCurrent
  <2>6. QED
    BY <1>1, <1>2, <2>3, <2>4, <2>5 DEF ConfigInv
<1>5. ASSUME NEW pc \in {"register", "update"}, NEW s \in Session, NEW f, NEW e,
             mutation = Loading(pc, s, f, e)
      PROVE  ConfigInv'
  <2>1. mutation.pc = pc /\ mutation # Idle
    BY <1>5, IdleIsIdle
  <2>2. mutation' = Loading(pc, s, f, pc # "finalize")
    BY <1>1, <1>5, <2>1, IdleIsIdle
  <2>3. mutation'.pc = pc /\ pc \notin SavePcs
    BY <2>2, IdleIsIdle DEF SavePcs
  <2>4. Shape'
    BY <2>2, Zenon DEF Shape
  <2>5. SaveAgrees' /\ SaveIsCurrent'
    BY <2>3 DEF SaveAgrees, SaveIsCurrent, SavePcs
  <2>6. QED
    BY <1>1, <1>2, <2>4, <2>5 DEF ConfigInv
<1>6. QED
  BY <1>3, <1>4, <1>5, Zenon DEF ConfigInv, Shape

LEMMA RestartStep == ASSUME ConfigInv, Restart PROVE ConfigInv'
<1>1. /\ UNCHANGED <<imports, doc>> /\ mutation' = Idle /\ apart' = ~Loads(imports, doc)
      /\ def' = [s \in Session |->
                   IF s \in Loaded /\ Discovers(imports, doc) THEN Definition(imports, doc) ELSE None]
  BY DEF Restart
<1>2. \A s \in Loaded' : def'[s] = Definition(imports, doc)
  BY <1>1 DEF Loaded
<1>3. QED
  BY <1>1, <1>2, AgreesWithItself, EndsRequest DEF ConfigInv

LEMMA ConfigStays ==
  ASSUME ConfigInv, UNCHANGED <<imports, doc, def, mutation, apart>> PROVE ConfigInv'
BY DEF ConfigInv, Shape, SaveAgrees, SaveIsCurrent, LoadIsCurrent, HaveTheFile, Loaded, files

LEMMA ConfigInvNext == ASSUME ConfigInv, [ConfigNext]_configVars PROVE ConfigInv'
<1>1. CASE ConfigNext
  <2>1. ASSUME NEW cl \in Client, GetSessionConfig(cl) PROVE ConfigInv'
    BY <2>1, ConfigStays DEF GetSessionConfig
  <2>2. ASSUME NEW cl \in Client, NEW draft \in Drafts, PutSessionConfig(cl, draft) PROVE ConfigInv'
    BY <2>2, PutStep
  <2>3. ASSUME NEW failed \in SUBSET Session, Reconcile(failed) PROVE ConfigInv'
    BY <2>3, ReconcileStep
  <2>4. ASSUME NEW s \in Session, Register(s) \/ Update(s) \/ RemoveSession(s) PROVE ConfigInv'
    BY <2>4, RegisterStep, RemoveStep
  <2>5. ASSUME NEW i \in Imported, NEW d, Edit(i, d) PROVE ConfigInv'
    BY <2>5, EditStep
  <2>6. imports \in Imported
    BY DEF ConfigInv
  <2>7. QED
    BY <1>1, <2>1, <2>2, <2>3, <2>4, <2>5, <2>6, FinalizeStep, RenameStep, LoadStep, RestartStep
       DEF ConfigNext
<1>2. CASE UNCHANGED configVars
  BY <1>2, ConfigStays DEF configVars
<1>3. QED
  BY <1>1, <1>2

\* What clients save through prepare_session_config_write and its finalize, and what Register
\* and Update load (daemon/handle.rs), keeps every session at what the files say, for any number
\* of sessions and clients, any files and any drafts.
THEOREM SessionsFollowTheFile == ConfigSpec => []SessionsHaveTheFile
<1>1. ConfigInit => ConfigInv
  BY ConfigInvInit
<1>2. ConfigInv => SessionsHaveTheFile
  BY IdleIsIdle DEF ConfigInv, HaveTheFile, SessionsHaveTheFile, Settled
<1>3. QED
  BY <1>1, <1>2, ConfigInvNext, PTL DEF ConfigSpec

\* A save never replaces what its client has not read, but for the gap that finalize leaves
\* between its last look at the revision and the rename (config/write.rs).
THEOREM EditsAreKept == ConfigSpec => NoEditIsLost
<1>1. ConfigInit => ConfigInv
  BY ConfigInvInit
<1>2. ConfigInv /\ [ConfigNext]_configVars =>
        [mutation.pc = "rename" /\ ~mutation.edited /\ doc' # doc => files = mutation.revision]_configVars
  BY DEF ConfigInv, SaveIsCurrent
<1>3. QED
  BY <1>1, <1>2, ConfigInvNext, PTL DEF ConfigSpec, NoEditIsLost

\* Saving and reading back (config/write.rs, config/merge.rs) agree for every import, every
\* document and any number of submitted tasks, in every state of the run that enumerates them.
THEOREM FilesAlwaysAgree == Spec => []FilesAgree
<1>1. AllSubmissions \subseteq Seq(Submission)
  <2>. DEFINE few == {s \in Submission : s.label = LabelA} \cup
                     {s \in Submission : s.label = LabelB /\ s.env \in {Empty, Env}
                                         /\ (s.command = CommandC <=> s.env = Empty)}
  <2>1. few \subseteq Submission /\ AllSubmissions = UNION {[1..n -> few] : n \in 0..2}
    BY DEF AllSubmissions
  <2>. HIDE DEF few
  <2>2. ASSUME NEW s \in AllSubmissions PROVE s \in Seq(Submission)
    <3>1. PICK n \in 0..2 : s \in [1..n -> few]
      BY <2>1
    <3>2. s \in [1..n -> Submission]
      BY <2>1, <3>1
    <3>3. QED
      BY <3>2
  <2>3. QED
    BY <2>2
<1>. DEFINE Inv == part = "files" => imports \in Imports
<1>2. Init => Inv
  BY DEF Init, AllImports
<1>3. Inv /\ [Next]_vars => Inv'
  BY DEF Next, vars, configVars
<1>4. Inv => FilesAgree
  BY <1>1, SavedReadsBack DEF FilesAgree
<1>5. QED
  BY <1>2, <1>3, <1>4, PTL DEF Spec
=============================================================================
