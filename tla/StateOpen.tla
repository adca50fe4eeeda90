------------------------------ MODULE StateOpen -------------------------------
(***************************************************************************)
(* Opening the state database (state/schema.rs, state/migrate.rs): probe,  *)
(* migration lock, backup, schema and metadata, by several processes (the  *)
(* daemon and command-line clients) any of which may be killed.  Each      *)
(* statement of a migration commits on its own.                            *)
(***************************************************************************)
EXTENDS Naturals

CONSTANTS
    Opener,     \* processes that open the database
    Id,         \* node ids a process may draw
    Nobody,     \* no process, no id
    Version,    \* schema versions, positive
    Current     \* SCHEMA_VERSION of this binary

ASSUME VersionAssumption == Version \subseteq Nat \ {0} /\ Current \in Version
ASSUME NobodyAssumption == Nobody \notin Opener /\ Nobody \notin Id

VARIABLES
    db,         \* the file: its objects, schema_version and user_version (0: none), node id, settings
    backup,     \* the backup of the version found: none, torn by a kill, or a whole copy
    lock,       \* who has locked state-migration.lock
    opener,     \* each process: closed, or where it is in open
    found       \* the database as it was at first (history)

storeVars == <<db, backup, lock, opener, found>>

Objects == {"metadata", "tables", "columns"}
Databases == [objects : SUBSET Objects, version : Version \cup {0}, user : Version \cup {0},
              id : Id \cup {Nobody}, settings : BOOLEAN]
Absent == [objects |-> {}, version |-> 0, user |-> 0, id |-> Nobody, settings |-> FALSE]

\* What a migration executes after each of its first statements.
Following_VersionFirst(statement) ==
    CASE statement = "metadata" -> "version" [] statement = "version" -> "tables"
      [] statement = "tables" -> "columns" [] OTHER -> "find id"
Following(statement) ==
    CASE statement = "metadata" -> "tables" [] statement = "tables" -> "columns"
      [] statement = "columns" -> "version" [] OTHER -> "find id"
Migrating == {"backup", "copying", "metadata", "tables", "columns", "version",
              "find id", "id", "settings", "user version"}

StoreTypeOK ==
    /\ db \in Databases /\ found \in Databases
    /\ backup \in [state : {"none", "torn", "whole"}, of : Databases]
    /\ lock \in Opener \cup {Nobody}
    /\ opener \in [Opener -> Migrating \cup {"closed", "probed", "locked", "open"}]

\* Nothing, or what a binary left: older ones did not all set user_version.
Existing(v, u, i) ==
    [objects |-> IF v < Current THEN {"metadata"} ELSE Objects,
     version |-> v, user |-> u, id |-> i, settings |-> TRUE]

StoreInit ==
    /\ \/ db = Absent
       \/ \E v \in Version, u \in Version \cup {0}, i \in Id :
             u \in {v} \cup (IF v < Current THEN {0} ELSE {}) /\ db = Existing(v, u, i)
    /\ found = db
    /\ backup = [state |-> "none", of |-> Absent]
    /\ lock = Nobody
    /\ opener = [o \in Opener |-> "closed"]
-----------------------------------------------------------------------------
(* probe_existing_database: what it refuses, and when it tells open to migrate. *)

Refused ==
    /\ db.objects # {}
    /\ \/ db.user > Current
       \/ "metadata" \notin db.objects
       \/ db.version = 0 \/ db.version > Current
       \/ db.user # 0 /\ db.user # db.version

IsOlder == db.version # 0 /\ db.version < Current

GoesTo(o, pc) == opener' = [opener EXCEPT ![o] = pc]

\* Refused, the process ends; nothing has changed.
Probe(o) ==
    /\ opener[o] = "closed" /\ ~Refused
    /\ GoesTo(o, IF db.version = Current THEN "open" ELSE "probed")
    /\ UNCHANGED <<db, backup, lock, found>>

\* acquire_migration_lock: "already in progress; retry shortly", or the lock.
TryLock_Shared(o) ==
    /\ opener[o] = "probed"
    /\ lock' = o /\ GoesTo(o, "locked")
    /\ UNCHANGED <<db, backup, found>>
TryLock(o) ==
    /\ opener[o] = "probed"
    /\ IF lock = Nobody THEN lock' = o /\ GoesTo(o, "locked")
       ELSE UNCHANGED lock /\ GoesTo(o, "closed")
    /\ UNCHANGED <<db, backup, found>>

Release(o) == lock' = IF lock = o THEN Nobody ELSE lock

ProbeAgain(o) ==
    /\ opener[o] = "locked"
    /\ IF Refused THEN Release(o) /\ GoesTo(o, "closed")
       ELSE /\ GoesTo(o, IF IsOlder THEN "backup" ELSE "metadata")
            /\ UNCHANGED lock
    /\ UNCHANGED <<db, backup, found>>

\* create_backup: a backup that exists is taken for whole.
CreateBackup_Again(o) ==
    /\ opener[o] = "backup"
    /\ backup' = [state |-> "torn", of |-> db] /\ GoesTo(o, "copying")
    /\ UNCHANGED <<db, lock, found>>
CreateBackup(o) ==
    /\ opener[o] = "backup"
    /\ IF backup.state = "none"
       THEN backup' = [state |-> "torn", of |-> db] /\ GoesTo(o, "copying")
       ELSE UNCHANGED backup /\ GoesTo(o, "metadata")
    /\ UNCHANGED <<db, lock, found>>

FinishCopy(o) ==
    /\ opener[o] = "copying"
    /\ backup' = [backup EXCEPT !.state = "whole"] /\ GoesTo(o, "metadata")
    /\ UNCHANGED <<db, lock, found>>
-----------------------------------------------------------------------------
(* The statements of a migration; the last one gives the lock back. *)

Continue(o) == GoesTo(o, Following(opener[o])) /\ UNCHANGED <<backup, lock, found>>

CreateObjects(o) ==
    /\ opener[o] \in Objects
    /\ db' = [db EXCEPT !.objects = @ \cup {opener[o]}]
    /\ Continue(o)

SetVersion(o) ==
    /\ opener[o] = "version"
    /\ db' = [db EXCEPT !.version = Current]
    /\ Continue(o)

\* initialize draws an id only if none is stored, and writes the settings only with it.
FindId(o) ==
    /\ opener[o] = "find id"
    /\ GoesTo(o, IF db.id = Nobody THEN "id" ELSE "user version")
    /\ UNCHANGED <<db, backup, lock, found>>

SetId(o) ==
    /\ opener[o] = "id"
    /\ \E i \in Id \ {db.id} : db' = [db EXCEPT !.id = i]
    /\ GoesTo(o, "settings")
    /\ UNCHANGED <<backup, lock, found>>

SetSettings(o) ==
    /\ opener[o] = "settings"
    /\ db' = [db EXCEPT !.settings = TRUE]
    /\ GoesTo(o, "user version")
    /\ UNCHANGED <<backup, lock, found>>

SetUserVersion(o) ==
    /\ opener[o] = "user version"
    /\ db' = [db EXCEPT !.user = Current]
    /\ Release(o) /\ GoesTo(o, "open")
    /\ UNCHANGED <<backup, found>>

\* The process ends: a client is done, or anything is killed.
Exit(o) ==
    /\ opener[o] # "closed"
    /\ Release(o) /\ GoesTo(o, "closed")
    /\ UNCHANGED <<db, backup, found>>

StoreNext ==
    \E o \in Opener :
        \/ Probe(o) \/ TryLock(o) \/ ProbeAgain(o)
        \/ CreateBackup(o) \/ FinishCopy(o)
        \/ CreateObjects(o) \/ SetVersion(o) \/ FindId(o) \/ SetId(o)
        \/ SetSettings(o) \/ SetUserVersion(o)
        \/ Exit(o)

StoreSpec == StoreInit /\ [][StoreNext]_storeVars
-----------------------------------------------------------------------------
(* Properties. *)

\* A process gets a store with every table and column, also when it opens without the lock
\* while another migrates, or after a migration that was killed.
OpenHasTables == \A o \in Opener : opener[o] = "open" => db.objects = Objects

\* Once the older database is touched there is a backup of it as it was, however often the
\* migration was killed and started again (torn, if it was killed while copying).
BackupIsTheOriginal ==
    /\ found.version \in 1..(Current - 1) /\ db # found => backup.state # "none"
    /\ backup.state # "none" => backup.of = found

\* The node's id, once stored, is its id for good: two processes that find none do not both draw.
IdentityIsFinal == [][db.id # Nobody => db'.id = db.id]_db
=============================================================================
