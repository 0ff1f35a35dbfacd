----------------------------- MODULE DriveSync -----------------------------
(***************************************************************************)
(* Write-back of the local SQLite database to one file on Google Drive     *)
(* (app/services/drive_sync_service.py, the sync-now handler of            *)
(* app/web/fragments/settings.py and the lifespan of app/main.py).         *)
(*                                                                         *)
(* Every thread that commits a change calls mark_dirty afterwards; a flush *)
(* takes a snapshot under db_write_lock, clears the dirty flag and uploads *)
(* the snapshot without the lock.  Flushes are run by the timer loop, by   *)
(* each press of "sync now" and by the shutdown path, and nothing keeps    *)
(* two of them apart.  The content of the database is abstracted to a      *)
(* version number that every library commit increments.                    *)
(*                                                                         *)
(* vouch and lapses are history variables: no guard reads them; they only  *)
(* record which of the accidents the program does not guard against has    *)
(* happened since the last undisturbed flush.                              *)
(***************************************************************************)
EXTENDS Integers, FiniteSets

CONSTANTS
  ItemWriters,    \* threads that commit and hold db_write_lock while they do
  LabelWriters,   \* tag, shop, avatar and saved-filter requests: no lock
  SyncNow,        \* requests that serve a press of "sync now"
  SyncLoop,       \* the thread of the timer loop
  ShutdownFlush,  \* the thread of the flush at shutdown
  NoThread,       \* owner of a free lock
  MaxVersion,     \* bound: commits to the database
  MaxFile,        \* bound: database files ever created on Drive
  MaxClicks,      \* bound: presses of "sync now"
  MaxFaults       \* bound: failures, crashes, shutdowns and deletions

Writers == ItemWriters \cup LabelWriters
Flushers == SyncNow \cup {SyncLoop, ShutdownFlush}
DbFiles == 1 .. MaxFile
NoFile == 0       \* drive_db_file_id is not recorded

ASSUME ThreadsAssumption ==
  /\ ItemWriters \cap LabelWriters = {}
  /\ NoThread \notin Flushers
  /\ SyncLoop \notin SyncNow
  /\ ShutdownFlush \notin SyncNow
  /\ SyncLoop # ShutdownFlush

ASSUME BoundsAssumption ==
  /\ MaxVersion \in Nat
  /\ MaxFile \in Nat \ {0}
  /\ MaxClicks \in Nat
  /\ MaxFaults \in Nat

VARIABLES
  dbVersion,  \* version of the committed local database
  fileId,     \* app_settings: drive_db_file_id
  lastKnown,  \* app_settings: drive_db_last_known_modified_time
  dirty,      \* _dirty, in memory
  lock,       \* owner of db_write_lock, when it is held across steps
  writer,     \* writer -> "idle" or "committed" (committed, not yet marked)
  pc,         \* flusher -> next step of flush_now
  fid,        \* flusher -> drive_file_id, the local of flush_now
  snap,       \* flusher -> version of its snapshot file
  meta,       \* flusher -> modifiedTime read after its push
  result,     \* sync-now request -> outcome of its flush_now
  files,      \* database files that exist on Drive
  nextFile,   \* next fresh Drive file id
  driveVer,   \* file -> version of the database it holds
  driveTime,  \* file -> its modifiedTime
  clock,      \* Drive's clock: the last modifiedTime it gave
  phase,      \* lifespan: "running", "stopping" or "flushing"
  clicks, faults,
  vouch,      \* history: flusher -> it has run alone and nothing disturbed it
  lapses      \* history: accidents since the last undisturbed flush

local == <<dbVersion, fileId, lastKnown>>
flush == <<pc, fid, snap, meta, result>>
drive == <<files, nextFile, driveVer, driveTime, clock>>
bounds == <<clicks, faults>>
history == <<vouch, lapses>>
vars == <<local, dirty, lock, writer, flush, drive, phase, bounds, history>>

FlushSteps == {"lookup", "ensure", "recsnap", "recupload", "repoint",
               "snapread", "snapreset", "push", "readmeta", "recmeta"}
BeforeRepoint == {"lookup", "ensure", "recsnap", "recupload", "repoint"}
BeforeReset == BeforeRepoint \cup {"snapread", "snapreset"}
Steps == FlushSteps \cup {"idle", "check", "answer"}
Results == {"none", "pushed", "skipped", "failed"}
Accidents == {"overlap", "push_failed", "meta_failed", "unlocked_write",
              "file_deleted", "restart"}

TypeOK ==
  /\ dbVersion \in 0 .. MaxVersion
  /\ fileId \in DbFiles \cup {NoFile}
  /\ lastKnown \in Nat
  /\ dirty \in BOOLEAN
  /\ lock \in Flushers \cup {NoThread}
  /\ writer \in [Writers -> {"idle", "committed"}]
  /\ pc \in [Flushers -> Steps]
  /\ fid \in [Flushers -> DbFiles \cup {NoFile}]
  /\ snap \in [Flushers -> 0 .. MaxVersion]
  /\ meta \in [Flushers -> Nat]
  /\ result \in [Flushers -> Results]
  /\ files \subseteq DbFiles
  /\ nextFile \in 1 .. (MaxFile + 1)
  /\ driveVer \in [DbFiles -> 0 .. MaxVersion]
  /\ driveTime \in [DbFiles -> Nat]
  /\ clock \in Nat
  /\ phase \in {"running", "stopping", "flushing"}
  /\ clicks \in 0 .. MaxClicks
  /\ faults \in 0 .. MaxFaults
  /\ vouch \in [Flushers -> BOOLEAN]
  /\ lapses \subseteq Accidents

\* After complete_first_run_setup (the file it uploaded is file 1), or after
\* a setup that stopped between creating the local database and recording
\* the file id.
Init ==
  /\ dbVersion = 0
  /\ fileId \in {1, NoFile}
  /\ lastKnown = 1
  /\ dirty = FALSE
  /\ lock = NoThread
  /\ writer = [w \in Writers |-> "idle"]
  /\ pc = [t \in Flushers |-> "idle"]
  /\ fid = [t \in Flushers |-> NoFile]
  /\ snap = [t \in Flushers |-> 0]
  /\ meta = [t \in Flushers |-> 0]
  /\ result = [t \in Flushers |-> "none"]
  /\ files = {1}
  /\ nextFile = 2
  /\ driveVer = [f \in DbFiles |-> 0]
  /\ driveTime = [f \in DbFiles |-> IF f = 1 THEN 1 ELSE 0]
  /\ clock = 1
  /\ phase = "running"
  /\ clicks = 0
  /\ faults = 0
  /\ vouch = [t \in Flushers |-> FALSE]
  /\ lapses = {}

InFlight == {t \in Flushers : pc[t] \in FlushSteps}
Unmarked == \E w \in Writers : writer[w] = "committed"
LockFree == lock = NoThread

Fault == faults < MaxFaults /\ faults' = faults + 1

-----------------------------------------------------------------------------
(* Writers: a commit, then mark_dirty outside the lock. *)

\* Mutant: an item request commits while another thread has db_write_lock.
CommitItemUnlocked(w) == w \in ItemWriters /\ UNCHANGED history

\* An item request or a background sweep commits: it holds db_write_lock, so
\* no snapshot is being taken.
CommitItem(w) ==
  /\ w \in ItemWriters
  /\ LockFree
  /\ UNCHANGED history

\* A tag, shop, avatar or saved-filter request commits without the lock; the
\* copy VACUUM INTO is writing does not contain it.
CommitLabel(w) ==
  /\ w \in LabelWriters
  /\ IF LockFree
       THEN UNCHANGED history
       ELSE /\ lapses' = lapses \cup {"unlocked_write"}
            /\ vouch' = [t \in Flushers |-> FALSE]

Commit(w) ==
  /\ writer[w] = "idle"
  /\ dbVersion < MaxVersion
  /\ CommitItem(w) \/ CommitLabel(w)
  /\ dbVersion' = dbVersion + 1
  /\ writer' = [writer EXCEPT ![w] = "committed"]
  /\ UNCHANGED <<fileId, lastKnown, dirty, lock, flush, drive, phase, bounds>>

MarkDirty(w) ==
  /\ writer[w] = "committed"
  /\ dirty' = TRUE
  /\ writer' = [writer EXCEPT ![w] = "idle"]
  /\ UNCHANGED <<local, lock, flush, drive, phase, bounds, history>>

-----------------------------------------------------------------------------
(* flush_now, one action per stretch between locks and Drive calls. *)

Goto(t, step) == pc' = [pc EXCEPT ![t] = step]

\* flush_now returns or raises and its locals die: a sync-now request goes on
\* to its answer, the other callers ignore the outcome.
Return(t, outcome) ==
  /\ Goto(t, IF t \in SyncNow THEN "answer" ELSE "idle")
  /\ result' = [result EXCEPT ![t] = IF t \in SyncNow THEN outcome ELSE "none"]
  /\ fid' = [fid EXCEPT ![t] = NoFile]
  /\ snap' = [snap EXCEPT ![t] = 0]
  /\ meta' = [meta EXCEPT ![t] = 0]

\* The flush goes past its test of _dirty.  A flush that starts while
\* another runs spoils both for the record.
Enter(t) ==
  /\ Goto(t, "lookup")
  /\ UNCHANGED <<fid, snap, meta>>
  /\ IF InFlight = {}
       THEN /\ vouch' = [vouch EXCEPT ![t] = TRUE]
            /\ UNCHANGED lapses
       ELSE /\ vouch' = [u \in Flushers |-> FALSE]
            /\ lapses' = lapses \cup {"overlap"}

\* Mutant: the loop tests its stop event the wrong way round.
LoopTickInverted ==
  /\ phase # "running"
  /\ pc[SyncLoop] = "idle"
  /\ dirty
  /\ Enter(SyncLoop)
  /\ UNCHANGED <<local, dirty, lock, writer, result, drive, phase, bounds>>

\* A tick of sync_loop that finds the flag set.
LoopTick ==
  /\ phase = "running"
  /\ pc[SyncLoop] = "idle"
  /\ dirty
  /\ Enter(SyncLoop)
  /\ UNCHANGED <<local, dirty, lock, writer, result, drive, phase, bounds>>

\* lifespan after the yield: the loops were given ten seconds (a flush that
\* takes longer goes on in its thread), then the flag decides.
ShutdownTick ==
  /\ phase = "stopping"
  /\ pc[ShutdownFlush] = "idle"
  /\ dirty
  /\ phase' = "flushing"
  /\ Enter(ShutdownFlush)
  /\ UNCHANGED <<local, dirty, lock, writer, result, drive, bounds>>

\* A press of "sync now" marks the database dirty and starts a flush.
Click(t) ==
  /\ phase = "running"
  /\ pc[t] = "idle"
  /\ clicks < MaxClicks
  /\ clicks' = clicks + 1
  /\ dirty' = TRUE
  /\ Goto(t, "check")
  /\ UNCHANGED <<local, lock, writer, fid, snap, meta, result, drive, phase,
                 faults, history>>

CheckDirty(t) ==
  /\ pc[t] = "check"
  /\ IF dirty
       THEN Enter(t) /\ UNCHANGED result
       ELSE Return(t, "skipped") /\ UNCHANGED history
  /\ UNCHANGED <<local, dirty, lock, writer, drive, phase, bounds>>

Lookup(t) ==
  /\ pc[t] = "lookup"
  /\ LockFree
  /\ IF fileId = NoFile
       THEN Return(t, "skipped")
       ELSE /\ Goto(t, "ensure")
            /\ fid' = [fid EXCEPT ![t] = fileId]
            /\ UNCHANGED <<snap, meta, result>>
  /\ UNCHANGED <<local, dirty, lock, writer, drive, phase, bounds, history>>

\* get_metadata resolves.
EnsureFound(t) ==
  /\ pc[t] = "ensure"
  /\ fid[t] \in files
  /\ Goto(t, "snapread")
  /\ UNCHANGED <<local, dirty, lock, writer, fid, snap, meta, result,
                 drive, phase, bounds, history>>

\* get_metadata raises a DriveError because the file is gone, or for any
\* other reason: the code does not tell them apart.
EnsureMissing(t) ==
  /\ pc[t] = "ensure"
  /\ \/ fid[t] \notin files /\ UNCHANGED faults
     \/ fid[t] \in files /\ Fault
  /\ Goto(t, "recsnap")
  /\ UNCHANGED <<local, dirty, lock, writer, fid, snap, meta, result,
                 drive, phase, clicks, history>>

RecoverSnapshot(t) ==
  /\ pc[t] = "recsnap"
  /\ LockFree
  /\ snap' = [snap EXCEPT ![t] = dbVersion]
  /\ Goto(t, "recupload")
  /\ UNCHANGED <<local, dirty, lock, writer, fid, meta, result, drive,
                 phase, bounds, history>>

\* Mutant: the new file is created empty, for the push that follows to fill.
RecoverUploadEmpty(t) ==
  /\ pc[t] = "recupload"
  /\ nextFile <= MaxFile
  /\ files' = files \cup {nextFile}
  /\ nextFile' = nextFile + 1
  /\ driveVer' = [driveVer EXCEPT ![nextFile] = 0]
  /\ clock' = clock + 1
  /\ driveTime' = [driveTime EXCEPT ![nextFile] = clock']
  /\ fid' = [fid EXCEPT ![t] = nextFile]
  /\ Goto(t, "repoint")
  /\ UNCHANGED <<local, dirty, lock, writer, snap, meta, result, phase,
                 bounds, history>>

RecoverUpload(t) ==
  /\ pc[t] = "recupload"
  /\ nextFile <= MaxFile
  /\ files' = files \cup {nextFile}
  /\ nextFile' = nextFile + 1
  /\ driveVer' = [driveVer EXCEPT ![nextFile] = snap[t]]
  /\ clock' = clock + 1
  /\ driveTime' = [driveTime EXCEPT ![nextFile] = clock']
  /\ fid' = [fid EXCEPT ![t] = nextFile]
  /\ Goto(t, "repoint")
  /\ UNCHANGED <<local, dirty, lock, writer, snap, meta, result, phase,
                 bounds, history>>

Repoint(t) ==
  /\ pc[t] = "repoint"
  /\ LockFree
  /\ fileId' = fid[t]
  /\ Goto(t, "snapread")
  /\ UNCHANGED <<dbVersion, lastKnown, dirty, lock, writer, fid, snap, meta,
                 result, drive, phase, bounds, history>>

\* Anything that raises before the flag is cleared: the flag stays set.  A
\* flush that runs out of fresh Drive ids (a bound of the model) ends here.
\* The time of a file it recreated and repointed to is never recorded.
Abort(t) ==
  /\ pc[t] \in {"ensure", "recsnap", "recupload", "repoint", "snapread"}
  /\ \/ Fault
     \/ pc[t] = "recupload" /\ nextFile > MaxFile /\ UNCHANGED faults
  /\ Return(t, "failed")
  /\ vouch' = [vouch EXCEPT ![t] = FALSE]
  /\ lapses' = lapses \cup
       (IF pc[t] = "snapread" /\ driveTime[fid[t]] > lastKnown
          THEN {"meta_failed"} ELSE {})
  /\ UNCHANGED <<local, dirty, lock, writer, drive, phase, clicks>>

\* Mutant: a flush that has just recreated the file takes the snapshot it made
\* for that upload for the one to push.
SnapReadReused(t) ==
  /\ pc[t] = "snapread"
  /\ LockFree
  /\ lock' = t
  /\ snap' = [snap EXCEPT ![t] = IF @ = 0 THEN dbVersion ELSE @]
  /\ Goto(t, "snapreset")
  /\ UNCHANGED <<local, dirty, writer, fid, meta, result, drive, phase,
                 bounds, history>>

\* VACUUM INTO reads the database as it is now and holds the lock.
SnapRead(t) ==
  /\ pc[t] = "snapread"
  /\ LockFree
  /\ lock' = t
  /\ snap' = [snap EXCEPT ![t] = dbVersion]
  /\ Goto(t, "snapreset")
  /\ UNCHANGED <<local, dirty, writer, fid, meta, result, drive, phase,
                 bounds, history>>

\* The copy is complete; the flag is cleared before the lock is released.
SnapReset(t) ==
  /\ pc[t] = "snapreset"
  /\ dirty' = FALSE
  /\ lock' = NoThread
  /\ Goto(t, "push")
  /\ UNCHANGED <<local, writer, fid, snap, meta, result, drive, phase,
                 bounds, history>>

\* update_file_content reaches Drive.
PutContent(t) ==
  /\ fid[t] \in files
  /\ driveVer' = [driveVer EXCEPT ![fid[t]] = snap[t]]
  /\ clock' = clock + 1
  /\ driveTime' = [driveTime EXCEPT ![fid[t]] = clock']
  /\ UNCHANGED <<files, nextFile>>

Push(t) ==
  /\ pc[t] = "push"
  /\ PutContent(t)
  /\ Goto(t, "readmeta")
  /\ UNCHANGED <<local, dirty, lock, writer, fid, snap, meta, result,
                 phase, bounds, history>>

\* It fails, having reached Drive (the reply was lost) or not.
PushFails(t) ==
  /\ pc[t] = "push"
  /\ \/ Fault /\ (PutContent(t) \/ UNCHANGED drive)
     \/ fid[t] \notin files /\ UNCHANGED <<faults, drive>>
  /\ Return(t, "failed")
  /\ lapses' = lapses \cup {"push_failed"}
  /\ vouch' = [vouch EXCEPT ![t] = FALSE]
  /\ UNCHANGED <<local, dirty, lock, writer, phase, clicks>>

\* _record_push_metadata: the time is read from Drive without the lock; when
\* that fails nothing is recorded and the flush still counts as done.
ReadMeta(t) ==
  /\ pc[t] = "readmeta"
  /\ fid[t] \in files
  /\ meta' = [meta EXCEPT ![t] = driveTime[fid[t]]]
  /\ Goto(t, "recmeta")
  /\ UNCHANGED <<local, dirty, lock, writer, fid, snap, result, drive,
                 phase, bounds, history>>

ReadMetaFails(t) ==
  /\ pc[t] = "readmeta"
  /\ \/ Fault
     \/ fid[t] \notin files /\ UNCHANGED faults
  /\ Return(t, "pushed")
  /\ lapses' = lapses \cup {"meta_failed"}
  /\ vouch' = [vouch EXCEPT ![t] = FALSE]
  /\ UNCHANGED <<local, dirty, lock, writer, drive, phase, clicks>>

\* Mutant: the time of the push is read and not stored.
RecordMetaForgotten(t) ==
  /\ pc[t] = "recmeta"
  /\ LockFree
  /\ Return(t, "pushed")
  /\ lapses' = IF vouch[t] THEN {} ELSE lapses
  /\ vouch' = [vouch EXCEPT ![t] = FALSE]
  /\ UNCHANGED <<local, dirty, lock, writer, drive, phase, bounds>>

RecordMeta(t) ==
  /\ pc[t] = "recmeta"
  /\ LockFree
  /\ lastKnown' = meta[t]
  /\ Return(t, "pushed")
  /\ lapses' = IF vouch[t] THEN {} ELSE lapses
  /\ vouch' = [vouch EXCEPT ![t] = FALSE]
  /\ UNCHANGED <<dbVersion, fileId, dirty, lock, writer, drive, phase, bounds>>

\* The handler reads the result and the flag, words its answer and ends.
Answer(t) ==
  /\ pc[t] = "answer"
  /\ Goto(t, "idle")
  /\ result' = [result EXCEPT ![t] = "none"]
  /\ UNCHANGED <<local, dirty, lock, writer, fid, snap, meta, drive, phase,
                 bounds, history>>

-----------------------------------------------------------------------------
(* The process and its surroundings. *)

\* The user deletes a database file in Drive.
DeleteOnDrive(f) ==
  /\ f \in files
  /\ Fault
  /\ files' = files \ {f}
  /\ driveVer' = [driveVer EXCEPT ![f] = 0]
  /\ lapses' = lapses \cup {"file_deleted"}
  /\ vouch' = [t \in Flushers |-> FALSE]
  /\ UNCHANGED <<local, dirty, lock, writer, flush, nextFile, driveTime, clock,
                 phase, clicks>>

Stop ==
  /\ phase = "running"
  /\ Fault
  /\ phase' = "stopping"
  /\ UNCHANGED <<local, dirty, lock, writer, flush, drive, clicks, history>>

\* The process ends and starts again: the database and Drive persist, what
\* was in memory is gone.  It is an accident when it cuts something off.
Restart ==
  /\ dirty' = FALSE
  /\ lock' = NoThread
  /\ writer' = [w \in Writers |-> "idle"]
  /\ pc' = [t \in Flushers |-> "idle"]
  /\ result' = [t \in Flushers |-> "none"]
  /\ phase' = "running"
  /\ vouch' = [t \in Flushers |-> FALSE]
  /\ lapses' = lapses \cup (IF dirty \/ Unmarked \/ InFlight # {}
                              THEN {"restart"} ELSE {})
  /\ fid' = [t \in Flushers |-> NoFile]
  /\ snap' = [t \in Flushers |-> 0]
  /\ meta' = [t \in Flushers |-> 0]
  /\ UNCHANGED <<local, drive, clicks>>

\* The lifespan has run to its end: nothing to flush, or the flush is over
\* or has used up its twenty seconds.
Exit ==
  /\ \/ phase = "stopping" /\ ~dirty
     \/ phase = "flushing"
  /\ Restart
  /\ UNCHANGED faults

Crash == Fault /\ Restart

FlushStep(t) ==
  \/ Lookup(t) \/ EnsureFound(t) \/ EnsureMissing(t)
  \/ RecoverSnapshot(t) \/ RecoverUpload(t) \/ Repoint(t) \/ Abort(t)
  \/ SnapRead(t) \/ SnapReset(t) \/ Push(t) \/ PushFails(t)
  \/ ReadMeta(t) \/ ReadMetaFails(t) \/ RecordMeta(t)

Next ==
  \/ \E w \in Writers : Commit(w) \/ MarkDirty(w)
  \/ LoopTick \/ ShutdownTick
  \/ \E t \in SyncNow : Click(t) \/ CheckDirty(t) \/ Answer(t)
  \/ \E t \in Flushers : FlushStep(t)
  \/ \E f \in DbFiles : DeleteOnDrive(f)
  \/ Stop \/ Exit \/ Crash

Spec == Init /\ [][Next]_vars

\* Every thread that has started goes on, the timer loop keeps ticking and a
\* shutdown ends.  Nothing makes a user write, press or delete, and faults
\* are never owed.
Fairness ==
  /\ \A w \in Writers : WF_vars(MarkDirty(w))
  /\ \A t \in Flushers : WF_vars(FlushStep(t))
  /\ \A t \in SyncNow : WF_vars(CheckDirty(t)) /\ WF_vars(Answer(t))
  /\ WF_vars(LoopTick) /\ WF_vars(ShutdownTick) /\ WF_vars(Exit)

FairSpec == Spec /\ Fairness

-----------------------------------------------------------------------------
(* Properties. *)

\* Drive holds the current database in the file the settings name.
Pushed == fileId \in files /\ driveVer[fileId] = dbVersion

\* Nothing is marked dirty, no commit waits for its mark, no flush is uploading.
LooksClean ==
  ~dirty /\ ~Unmarked /\ fileId # NoFile /\ \A t \in Flushers : pc[t] # "push"

\* Write-back promise of flush_now: while nothing is marked dirty, no commit
\* waits for its mark and no flush is uploading, Drive holds every committed
\* change, unless one of the accidents the code does not guard against has
\* happened since the last undisturbed flush.  A write that lands at any
\* point of a flush is in its snapshot or leaves the flag set.
CleanMeansPushed == lapses = {} /\ LooksClean => Pushed

\* The version that the file of the settings holds.
Stored == IF fileId = NoFile THEN 0 ELSE driveVer[fileId]

\* DriveSync implements a write-back cache: besides that a clean flag means a
\* current copy, no push and no recovery ever puts an older version in the
\* place of a newer one, and failures of either leave the copy as it was,
\* unless one of the accidents has happened since the last undisturbed flush.
Copy == INSTANCE WriteBack WITH current <- dbVersion, stored <- Stored,
                                clean <- LooksClean, sound <- lapses = {}
IsWriteBack == Copy!Spec

\* What check_remote_drift would log if the process restarted now.
DriftLooksNewer ==
  fileId \in files /\ driveTime[fileId] > lastKnown

\* The startup warning about a newer copy on Drive is not raised by the
\* program's own pushes, the recovery upload included: between undisturbed
\* flushes the recorded time is at least that of the file on Drive.
NoFalseDriftAlarm ==
  (lapses = {} /\ InFlight = {} /\ fileId # NoFile) => ~DriftLooksNewer

\* sync_loop: a database marked dirty is snapshotted in the end, whatever
\* fails on the way, once the Drive file is recorded.
DirtyIsFlushed == (dirty /\ fileId # NoFile) ~> ~dirty

\* The lock is held exactly through a snapshot, and locals name real files.
LockHeld == \A t \in Flushers : lock = t <=> pc[t] = "snapreset"
FilesNamed ==
  /\ fileId < nextFile
  /\ \A t \in Flushers :
       /\ fid[t] < nextFile
       /\ pc[t] \in FlushSteps \ {"lookup"} => fid[t] # NoFile

\* A flush that is vouched for is the only one in flight; without accidents
\* every flush is.
VouchedAlone == \A t \in InFlight : vouch[t] => InFlight = {t}
VouchedUnlessLapse == lapses = {} => \A t \in InFlight : vouch[t]

\* A flush that is vouched for has left the flag set or has captured what the
\* database holds, in the file the settings name.
CapturedBy(t) ==
  /\ pc[t] \in BeforeReset => dirty
  /\ pc[t] \notin {"lookup", "repoint"} => fid[t] = fileId
  /\ pc[t] = "snapreset" => snap[t] = dbVersion
  /\ pc[t] = "push" /\ ~dirty /\ ~Unmarked => snap[t] = dbVersion
  /\ pc[t] \in {"readmeta", "recmeta"} /\ ~dirty /\ ~Unmarked => Pushed
TimedBy(t) ==
  /\ pc[t] = "recmeta" => fid[t] \in files /\ meta[t] = driveTime[fid[t]]
  /\ pc[t] \in BeforeRepoint /\ lapses = {} => ~DriftLooksNewer
VouchedIsSound ==
  \A t \in InFlight : vouch[t] => CapturedBy(t) /\ TimedBy(t)

\* The inductive strengthening of the two promises above.
Inductive ==
  /\ LockHeld
  /\ FilesNamed
  /\ VouchedAlone
  /\ VouchedUnlessLapse
  /\ VouchedIsSound
  /\ CleanMeansPushed
  /\ NoFalseDriftAlarm

\* The comment in flush_now (drive_sync_service.py:185-188): no write is
\* silently dropped; once nothing is dirty and nothing runs, Drive is current
\* (the process has not restarted and the user has not deleted the file).
NothingSilentlyDropped ==
  (lapses \cap {"restart", "file_deleted"} = {} /\ ~dirty /\ ~Unmarked
     /\ InFlight = {} /\ fileId # NoFile) => Pushed

=============================================================================
