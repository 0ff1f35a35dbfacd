------------------------------ MODULE FirstRun ------------------------------
(***************************************************************************)
(* Connecting to Google Drive on a machine without a local database        *)
(* (drive_sync_service.complete_first_run_setup, api/routers/oauth.py,     *)
(* web/pages/settings.py, lifespan and security_gate of main.py).          *)
(*                                                                         *)
(* The wizard is offered while the file app.db does not exist              *)
(* (needs_setup).  The OAuth callback then downloads the database whose id *)
(* the user typed, or creates one and uploads it, and stores the           *)
(* credentials and the id of the object on Drive in it.  The background    *)
(* loops run from the start; those that have no guard of their own open    *)
(* the database, and opening it creates the file.                          *)
(***************************************************************************)
EXTENDS Naturals

CONSTANTS
  Backup,     \* the database object that an earlier installation left on Drive
  MaxObject,  \* bound: new objects are 1 .. MaxObject
  None,
  Fallible,   \* TRUE: Drive calls may fail, and objects may be deleted by hand
  Looping     \* TRUE: background loops other than drive_sync_service's run

Lineages == {"old", "new"}   \* whose data: the earlier installation's, or none

ASSUME SetupAssumption ==
  /\ Backup \notin Nat /\ None \notin Nat \cup Lineages /\ Backup # None
  /\ MaxObject \in Nat /\ Fallible \in BOOLEAN /\ Looping \in BOOLEAN

Objects == (1 .. MaxObject) \cup {Backup}

VARIABLES
  db,       \* app.db: absent, or its tables, data, credentials, recorded id
  object,   \* object -> lineage of its content, or None
  typed,    \* the session keeps the id the user typed in the wizard
  callback  \* the OAuth callback at work: its step, the id it goes on with

setupVars == <<db, object, typed, callback>>

Absent == [file |-> FALSE, tables |-> FALSE, data |-> "new", connected |-> FALSE,
           id |-> None]
Idle == [at |-> "idle", id |-> None]
NeedsSetup == ~db.file

SetupTypeOK ==
  /\ db \in [file : BOOLEAN, tables : BOOLEAN, data : Lineages,
             connected : BOOLEAN, id : Objects \cup {None}]
  /\ object \in [Objects -> Lineages \cup {None}]
  /\ typed \in BOOLEAN
  /\ callback \in [at : {"idle", "download", "migrate", "upload", "credentials", "id"},
                   id : Objects \cup {None}]
  /\ db.connected \/ db.id # None => db.tables
  /\ db.tables => db.file

SetupInit ==
  /\ db = Absent
  /\ object = [o \in Objects |-> IF o = Backup THEN "old" ELSE None]
  /\ typed = FALSE
  /\ callback = Idle

-----------------------------------------------------------------------------
\* POST /setup: an id that is left blank does not clear the one typed before.
SubmitSetup(id) ==
  /\ callback = Idle
  /\ typed' = (typed \/ id = Backup)
  /\ UNCHANGED <<db, object, callback>>

\* The callback, reached with an OAuth state of this session: the wizard's
\* branch takes the typed id out of the session.
Callback ==
  /\ callback = Idle
  /\ IF NeedsSetup
       THEN /\ callback' = IF typed THEN [at |-> "download", id |-> Backup]
                           ELSE [at |-> "migrate", id |-> None]
            /\ typed' = FALSE
            /\ UNCHANGED db
       ELSE \* "re-authorized": the credentials only; without tables it raises
            /\ db' = [db EXCEPT !.connected = db.tables]
            /\ UNCHANGED <<typed, callback>>
  /\ UNCHANGED object

\* A user of the connected database deletes its object, or all of Drive.
LoseObject(o) ==
  /\ Fallible
  /\ object[o] # None /\ callback = Idle
  /\ object' = [object EXCEPT ![o] = None]
  /\ UNCHANGED <<db, typed, callback>>

\* The snapshot that is restored has the credentials and the id that its owner
\* recorded in it, and is migrated.
Download ==
  /\ callback.at = "download"
  /\ object[callback.id] # None
  /\ db' = [file |-> TRUE, tables |-> TRUE, data |-> object[callback.id],
            connected |-> TRUE, id |-> callback.id]
  /\ callback' = [callback EXCEPT !.at = "credentials"]
  /\ UNCHANGED <<object, typed>>

\* run_migrations creates the tables, and the file.
Migrate ==
  /\ callback.at = "migrate"
  /\ db' = [db EXCEPT !.file = TRUE, !.tables = TRUE]
  /\ callback' = [callback EXCEPT !.at = "upload"]
  /\ UNCHANGED <<object, typed>>

\* The next object to be made: Drive never gives out the recorded id again.
NewObjects == {o \in 1 .. MaxObject : object[o] = None /\ db.id # o}
IsNewObject(o) == o \in NewObjects /\ \A p \in NewObjects : o <= p
\* The object holds a snapshot of the database.
Created(o) == object' = [object EXCEPT ![o] = db.data]

\* Mutant: the first upload goes over the database that is on Drive.
UploadOverBackup ==
  /\ callback.at = "upload"
  /\ Created(Backup)
  /\ callback' = [at |-> "credentials", id |-> Backup]
  /\ UNCHANGED <<db, typed>>

Upload ==
  /\ callback.at = "upload"
  /\ \E o \in Objects : /\ IsNewObject(o)
                        /\ Created(o)
                        /\ callback' = [at |-> "credentials", id |-> o]
  /\ UNCHANGED <<db, typed>>

SaveCredentials ==
  /\ callback.at = "credentials"
  /\ db' = [db EXCEPT !.connected = TRUE]
  /\ callback' = [callback EXCEPT !.at = "id"]
  /\ UNCHANGED <<object, typed>>

SaveId ==
  /\ callback.at = "id"
  /\ db' = [db EXCEPT !.id = callback.id]
  /\ callback' = Idle
  /\ UNCHANGED <<object, typed>>

\* A call of Drive raises; what was done before stays.
CallbackFails ==
  /\ Fallible
  /\ callback.at \in {"download", "upload"}
  /\ callback' = Idle
  /\ UNCHANGED <<db, object, typed>>

-----------------------------------------------------------------------------
\* The first tick of the upload, reconcile or merge loop: the query opens the
\* database, which creates an empty file, and raises for want of tables.
Tick ==
  /\ Looping
  /\ NeedsSetup
  /\ db' = [db EXCEPT !.file = TRUE]
  /\ UNCHANGED <<object, typed, callback>>

\* The process ends and starts again; lifespan migrates a database it finds.
Restart ==
  /\ db' = [db EXCEPT !.tables = db.file]
  /\ callback' = Idle
  /\ UNCHANGED <<object, typed>>

\* flush_now pushes to the recorded object, or to a new one when that is gone.
Flush ==
  /\ db.connected /\ db.id # None
  /\ IF object[db.id] # None
       THEN object' = [object EXCEPT ![db.id] = db.data] /\ UNCHANGED db
       ELSE \E o \in Objects : /\ IsNewObject(o)
                               /\ Created(o)
                               /\ db' = [db EXCEPT !.id = o]
  /\ UNCHANGED <<typed, callback>>

SetupNext ==
  \/ \E id \in {Backup, None} : SubmitSetup(id)
  \/ Callback \/ Download \/ Migrate \/ Upload \/ SaveCredentials \/ SaveId
  \/ CallbackFails \/ Tick \/ Restart \/ Flush
  \/ \E o \in Objects : LoseObject(o)

SetupSpec == SetupInit /\ [][SetupNext]_setupVars

-----------------------------------------------------------------------------
(* Properties. *)

\* The data of an earlier installation is never overwritten by a database that
\* does not hold it, whatever fails during the setup: a restore that failed
\* and was tried again is not followed by a push over the backup.
BackupKept ==
  [][object[Backup] = "old" => object'[Backup] \in {"old", None}]_setupVars

\* "The first time, a new database is created on Drive" (README.md:62): once
\* the callback is through and Drive is connected, there is an object that the
\* database is pushed to.
ConnectedMeansRecorded == (callback = Idle /\ db.connected) => db.id # None
=============================================================================
