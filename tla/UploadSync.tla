----------------------------- MODULE UploadSync -----------------------------
(***************************************************************************)
(* The life of an accepted file: into the pending-upload cache and a row   *)
(* of item_files inside the request, onto Drive by a sweep afterwards, and *)
(* away again when its owner replaces or deletes it                        *)
(* (app/services/upload_sync_service.py and the operations of              *)
(* app/services/item_service.py that create and discard files).            *)
(*                                                                         *)
(* Requests hold db_write_lock from their first file operation to their    *)
(* commit, so one request at a time is in its critical section (op); the   *)
(* sweeps take the lock only around their reads and writes of a row.       *)
(* A blob is the content of one accepted file and stands for its           *)
(* stored_filename too, which is a fresh UUID.  synced_at, drive_file_id   *)
(* and drive_folder_id are always set together: they are one field,        *)
(* object, that is NoObject while the row is pending.                      *)
(*                                                                         *)
(* released, reused, lost and behind are history variables: no guard reads *)
(* them.                                                                   *)
(***************************************************************************)
EXTENDS Integers, FiniteSets

CONSTANTS
  Items,      \* items the owner may have
  Sweepers,   \* threads that run sync_pending_now: the loop, one per upload
  MaxRow,     \* bound: ids of item_files
  MaxBlob,    \* bound: files accepted
  MaxObject,  \* bound: files uploaded to Drive
  MaxFaults   \* bound: failures and crashes

ASSUME BoundsAssumption ==
  /\ MaxRow \in Nat /\ MaxBlob \in Nat /\ MaxObject \in Nat /\ MaxFaults \in Nat

Ids == 1 .. MaxRow
Blobs == 1 .. MaxBlob
Objects == 1 .. MaxObject
NoId == 0
NoBlob == 0
NoObject == 0
NoItem == "no item"
Roles == {"primary", "thumbnail"}

ASSUME ItemsAssumption == NoItem \notin Items

VARIABLES
  items,       \* items that exist
  rows,        \* ids of the rows of item_files
  file,        \* id -> the row's item, role, blob and object
  cache,       \* blobs in the pending-upload cache
  live,        \* objects that exist on Drive
  madeFrom,    \* object -> blob it was uploaded from
  nextObject, nextBlob,
  op,          \* request in its critical section, "none" if the lock is free
  opItem,      \* its item
  opBlob,      \* role -> blob it has put into the cache
  opLeft,      \* rows whose content it has yet to discard
  claimed,     \* _claimed
  pc, todo,    \* sweep -> next step; ids of its list it has not reached
  cur, held,   \* sweep -> id it works on; blob it read from that row
  obj,         \* sweep -> object it has uploaded
  dirty,       \* drive_sync_service._dirty
  marksDue,    \* requests past the lock that have yet to call mark_dirty
  faults,
  behind,      \* history: kinds of commits since the last snapshot
  released,    \* history: blobs the owner gave up or a cut-off request left
  reused,      \* history: blobs whose row took an id a sweep had read
  lost         \* history: objects whose upload was cut off unrecorded

table == <<items, rows, file>>
drive == <<live, madeFrom, nextObject>>
request == <<op, opItem, opBlob, opLeft>>
sweep == <<pc, todo, cur, held, obj>>
vars == <<table, cache, drive, nextBlob, request, claimed, sweep, dirty,
          marksDue, faults, behind, released, reused, lost>>

NoFile == [item |-> NoItem, role |-> "primary", blob |-> NoBlob, object |-> NoObject]
File == [item : Items \cup {NoItem}, role : Roles,
         blob : Blobs \cup {NoBlob}, object : Objects \cup {NoObject}]
NoBlobs == [r \in Roles |-> NoBlob]
Busy == {"read", "check", "drop", "upload", "record", "finish"}
Kinds == {"change", "drop", "unread"}
NeverMarked == {"drop", "unread"}

TableTypeOK ==
  /\ items \subseteq Items
  /\ rows \subseteq Ids
  /\ file \in [Ids -> File]

DriveTypeOK ==
  /\ cache \subseteq Blobs
  /\ nextBlob \in 1 .. (MaxBlob + 1)
  /\ live \subseteq Objects
  /\ madeFrom \in [Objects -> Blobs \cup {NoBlob}]
  /\ nextObject \in 1 .. (MaxObject + 1)

RequestTypeOK ==
  /\ op \in {"none", "create", "thumbnail", "delete"}
  /\ opItem \in IF op = "none" THEN {NoItem} ELSE Items
  /\ opBlob \in [Roles -> Blobs \cup {NoBlob}]
  /\ opLeft \subseteq Ids

SweepTypeOK ==
  /\ claimed \subseteq Ids
  /\ pc \in [Sweepers -> Busy \cup {"idle", "next"}]
  /\ todo \in [Sweepers -> SUBSET Ids]
  /\ cur \in [Sweepers -> Ids \cup {NoId}]
  /\ held \in [Sweepers -> Blobs \cup {NoBlob}]
  /\ obj \in [Sweepers -> Objects \cup {NoObject}]

MarksTypeOK ==
  /\ dirty \in BOOLEAN
  /\ marksDue \in Nat
  /\ faults \in 0 .. MaxFaults
  /\ behind \subseteq Kinds
  /\ released \cup reused \subseteq Blobs \cup {NoBlob}
  /\ lost \subseteq Objects \cup {NoObject}

TypeOK ==
  /\ TableTypeOK
  /\ DriveTypeOK
  /\ RequestTypeOK
  /\ SweepTypeOK
  /\ MarksTypeOK

Init ==
  /\ items = {}
  /\ rows = {}
  /\ file = [i \in Ids |-> NoFile]
  /\ cache = {}
  /\ live = {}
  /\ madeFrom = [o \in Objects |-> NoBlob]
  /\ nextObject = 1
  /\ nextBlob = 1
  /\ op = "none"
  /\ opItem = NoItem
  /\ opBlob = NoBlobs
  /\ opLeft = {}
  /\ claimed = {}
  /\ pc = [w \in Sweepers |-> "idle"]
  /\ todo = [w \in Sweepers |-> {}]
  /\ cur = [w \in Sweepers |-> NoId]
  /\ held = [w \in Sweepers |-> NoBlob]
  /\ obj = [w \in Sweepers |-> NoObject]
  /\ dirty = FALSE
  /\ marksDue = 0
  /\ faults = 0
  /\ behind = {}
  /\ released = {}
  /\ reused = {}
  /\ lost = {}

LockFree == op = "none"
Pending == {i \in rows : file[i].object = NoObject}
FilesOf(i, role) == {r \in rows : file[r].item = i /\ file[r].role = role}
OpBlobs == {opBlob[r] : r \in Roles} \ {NoBlob}
Past == {"check", "drop", "upload", "record"}    \* read the row, may yet write it
PastIds == {cur[w] : w \in {v \in Sweepers : pc[v] \in Past}}

Before(n) == 1 .. n - 1

Fault == faults < MaxFaults /\ faults' = faults + 1

\* SQLite gives an INTEGER PRIMARY KEY without AUTOINCREMENT the largest id
\* in use plus one: the id of a deleted newest row is given out again.
IsNewId(n, ids) == n - 1 \in ids \cup {0} /\ \A i \in ids : i < n

-----------------------------------------------------------------------------
(* Requests. *)

EndOp ==
  /\ op' = "none"
  /\ opItem' = NoItem
  /\ opBlob' = NoBlobs
  /\ opLeft' = {}

\* create_item_with_file takes the lock and moves the validated upload, and
\* the thumbnail that came with it or was fetched from BOOTH, into the cache.
BeginCreate(i, withThumbnail) ==
  /\ LockFree
  /\ i \notin items
  /\ LET last == IF withThumbnail THEN nextBlob + 1 ELSE nextBlob
     IN  /\ last <= MaxBlob
         /\ nextBlob' = last + 1
         /\ cache' = cache \cup nextBlob .. last
         /\ opBlob' = [primary |-> nextBlob,
                       thumbnail |-> IF withThumbnail THEN last ELSE NoBlob]
  /\ op' = "create"
  /\ opItem' = i
  /\ UNCHANGED <<table, drive, opLeft, claimed, sweep, dirty, marksDue, faults,
                 behind, released, reused, lost>>

NewFile(role) ==
  [item |-> opItem, role |-> role, blob |-> opBlob[role], object |-> NoObject]

\* Primary and thumbnail rows get the next ids in this order.
InsertRows ==
  /\ \E p \in Ids :
       LET new == IF opBlob["thumbnail"] = NoBlob THEN {p} ELSE {p, p + 1}
       IN  /\ IsNewId(p, rows)
           /\ new \subseteq Ids
           /\ rows' = rows \cup new
           /\ file' = [r \in Ids |->
                IF r \notin new THEN file[r]
                ELSE NewFile(IF r = p THEN "primary" ELSE "thumbnail")]
           /\ reused' = reused \cup {file'[r].blob : r \in new \cap PastIds}
  /\ items' = items \cup {opItem}

\* The commit; mark_dirty is called before the lock is released.
CommitCreate ==
  /\ op = "create"
  /\ InsertRows
  /\ dirty' = TRUE
  /\ behind' = behind \cup {"change"}
  /\ EndOp
  /\ UNCHANGED <<cache, drive, nextBlob, claimed, sweep, marksDue, faults,
                 released, lost>>

\* Anything raises before the commit: rollback, and the cached files go.
AbortCreate ==
  /\ op = "create"
  /\ Fault
  /\ cache' = cache \ OpBlobs
  /\ released' = released \cup OpBlobs
  /\ EndOp
  /\ UNCHANGED <<table, drive, nextBlob, claimed, sweep, dirty, marksDue,
                 behind, reused, lost>>

\* The item is committed, but reading it back raises: its rows stay, their cached
\* files go all the same, and mark_dirty is not reached.
RefreshFails ==
  /\ op = "create"
  /\ Fault
  /\ InsertRows
  /\ cache' = cache \ OpBlobs
  /\ released' = released \cup OpBlobs
  /\ behind' = behind \cup {"unread"}
  /\ EndOp
  /\ UNCHANGED <<drive, nextBlob, claimed, sweep, dirty, marksDue, lost>>

\* update_item, set_thumbnail and the BOOTH fetches reach _apply_thumbnail
\* with the lock held: the new file is cached first.
BeginThumbnail(i) ==
  /\ LockFree
  /\ i \in items
  /\ nextBlob <= MaxBlob
  /\ nextBlob' = nextBlob + 1
  /\ cache' = cache \cup {nextBlob}
  /\ op' = "thumbnail"
  /\ opItem' = i
  /\ opBlob' = [NoBlobs EXCEPT !["thumbnail"] = nextBlob]
  /\ opLeft' = FilesOf(i, "thumbnail")
  /\ UNCHANGED <<table, drive, claimed, sweep, dirty, marksDue, faults, behind,
                 released, reused, lost>>

BeginDelete(i) ==
  /\ LockFree
  /\ i \in items
  /\ op' = "delete"
  /\ opItem' = i
  /\ opLeft' = {r \in rows : file[r].item = i}
  /\ UNCHANGED <<table, cache, drive, nextBlob, opBlob, claimed, sweep, dirty,
                 marksDue, faults, behind, released, reused, lost>>

\* Mutant: only the Drive side is cleaned up.
DiscardContentOnDriveOnly(r) ==
  /\ r \in opLeft
  /\ opLeft' = opLeft \ {r}
  /\ released' = released \cup {file[r].blob}
  /\ live' = live \ {file[r].object}
  /\ UNCHANGED <<table, cache, madeFrom, nextObject, nextBlob, op, opItem,
                 opBlob, claimed, sweep, dirty, marksDue, faults, behind, reused,
                 lost>>

\* _delete_file_content for one row: the Drive file if the row is synced
\* (best effort, a failure leaves it there), its cached file otherwise.
DiscardContent(r) ==
  /\ r \in opLeft
  /\ opLeft' = opLeft \ {r}
  /\ released' = released \cup {file[r].blob}
  /\ IF file[r].object # NoObject
       THEN /\ UNCHANGED cache
            /\ \/ live' = live \ {file[r].object} /\ UNCHANGED faults
               \/ Fault /\ UNCHANGED live
       ELSE /\ cache' = cache \ {file[r].blob}
            /\ UNCHANGED <<live, faults>>
  /\ UNCHANGED <<table, madeFrom, nextObject, nextBlob, op, opItem, opBlob,
                 claimed, sweep, dirty, marksDue, behind, reused, lost>>

\* The old row goes in a flush of its own, so the new one may get its id.
CommitThumbnail ==
  /\ op = "thumbnail"
  /\ opLeft = {}
  /\ LET old == FilesOf(opItem, "thumbnail")
     IN  \E n \in Ids :
           /\ IsNewId(n, rows \ old)
           /\ rows' = (rows \ old) \cup {n}
           /\ file' = [r \in Ids |-> IF r = n THEN NewFile("thumbnail")
                                     ELSE IF r \in old THEN NoFile ELSE file[r]]
           /\ reused' = reused \cup
                (IF n \in PastIds THEN {opBlob["thumbnail"]} ELSE {})
  /\ behind' = behind \cup {"change"}
  /\ marksDue' = marksDue + 1
  /\ EndOp
  /\ UNCHANGED <<items, cache, drive, nextBlob, claimed, sweep, dirty, faults,
                 released, lost>>

\* Anything raises: the row is back as it was, but what was discarded stays
\* discarded and the new file stays in the cache.
RollbackThumbnail ==
  /\ op = "thumbnail"
  /\ Fault
  /\ released' = released \cup OpBlobs
  /\ marksDue' = marksDue + 1
  /\ EndOp
  /\ UNCHANGED <<table, cache, drive, nextBlob, claimed, sweep, dirty, behind,
                 reused, lost>>

CommitDelete ==
  /\ op = "delete"
  /\ opLeft = {}
  /\ LET old == {r \in rows : file[r].item = opItem}
     IN  /\ rows' = rows \ old
         /\ file' = [r \in Ids |-> IF r \in old THEN NoFile ELSE file[r]]
  /\ items' = items \ {opItem}
  /\ behind' = behind \cup {"change"}
  /\ marksDue' = marksDue + 1
  /\ EndOp
  /\ UNCHANGED <<cache, drive, nextBlob, claimed, sweep, dirty, faults,
                 released, reused, lost>>

\* The commit raises: the item stays, what was discarded stays discarded.
AbortDelete ==
  /\ op = "delete"
  /\ Fault
  /\ EndOp
  /\ UNCHANGED <<table, cache, drive, nextBlob, claimed, sweep, dirty, marksDue,
                 behind, released, reused, lost>>

MarkDirty ==
  /\ marksDue > 0
  /\ marksDue' = marksDue - 1
  /\ dirty' = TRUE
  /\ UNCHANGED <<table, cache, drive, nextBlob, request, claimed, sweep, faults,
                 behind, released, reused, lost>>

-----------------------------------------------------------------------------
(* Sweeps: sync_pending_now and sync_item_file. *)

Goto(w, step) == pc' = [pc EXCEPT ![w] = step]

\* The list of pending ids, read under the lock.
SweepStart(w) ==
  /\ pc[w] = "idle"
  /\ LockFree
  /\ Pending # {}
  /\ todo' = [todo EXCEPT ![w] = Pending]
  /\ Goto(w, "next")
  /\ UNCHANGED <<table, cache, drive, nextBlob, request, claimed, cur, held, obj,
                 dirty, marksDue, faults, behind, released, reused, lost>>

NextOrIdle(left) == IF left = {} THEN "idle" ELSE "next"

\* Mutant: the claim is added and not tested.
ClaimUntested(w, r) ==
  /\ pc[w] = "next"
  /\ r \in todo[w]
  /\ todo' = [todo EXCEPT ![w] = @ \ {r}]
  /\ Goto(w, "read")
  /\ claimed' = claimed \cup {r}
  /\ cur' = [cur EXCEPT ![w] = r]
  /\ UNCHANGED <<table, cache, drive, nextBlob, request, held, obj, dirty,
                 marksDue, faults, behind, released, reused, lost>>

\* _try_claim, or the id is passed over.
Claim(w, r) ==
  /\ pc[w] = "next"
  /\ r \in todo[w]
  /\ todo' = [todo EXCEPT ![w] = @ \ {r}]
  /\ IF r \in claimed
       THEN /\ Goto(w, NextOrIdle(todo'[w]))
            /\ UNCHANGED <<claimed, cur>>
       ELSE /\ Goto(w, "read")
            /\ claimed' = claimed \cup {r}
            /\ cur' = [cur EXCEPT ![w] = r]
  /\ UNCHANGED <<table, cache, drive, nextBlob, request, held, obj, dirty,
                 marksDue, faults, behind, released, reused, lost>>

\* Mutant: the claim is never released.
ReleaseForgotten(w, left) ==
  /\ todo' = [todo EXCEPT ![w] = left]
  /\ Goto(w, NextOrIdle(left))
  /\ cur' = [cur EXCEPT ![w] = NoId]
  /\ held' = [held EXCEPT ![w] = NoBlob]
  /\ obj' = [obj EXCEPT ![w] = NoObject]
  /\ UNCHANGED claimed

\* sync_item_file returns, or raises out of the sweep: _release either way.
Release(w, left) ==
  /\ claimed' = claimed \ {cur[w]}
  /\ todo' = [todo EXCEPT ![w] = left]
  /\ Goto(w, NextOrIdle(left))
  /\ cur' = [cur EXCEPT ![w] = NoId]
  /\ held' = [held EXCEPT ![w] = NoBlob]
  /\ obj' = [obj EXCEPT ![w] = NoObject]

\* Mutant: the list of the sweep is trusted, the row is not tested again.
ReadRowTrusting(w) ==
  /\ pc[w] = "read"
  /\ LockFree
  /\ IF cur[w] \in rows
       THEN /\ held' = [held EXCEPT ![w] = file[cur[w]].blob]
            /\ Goto(w, "check")
            /\ UNCHANGED <<claimed, todo, cur, obj>>
       ELSE Release(w, todo[w])
  /\ UNCHANGED <<table, cache, drive, nextBlob, request, dirty, marksDue, faults,
                 behind, released, reused, lost>>

ReadRow(w) ==
  /\ pc[w] = "read"
  /\ LockFree
  /\ IF cur[w] \in Pending
       THEN /\ held' = [held EXCEPT ![w] = file[cur[w]].blob]
            /\ Goto(w, "check")
            /\ UNCHANGED <<claimed, todo, cur, obj>>
       ELSE Release(w, todo[w])
  /\ UNCHANGED <<table, cache, drive, nextBlob, request, dirty, marksDue, faults,
                 behind, released, reused, lost>>

\* local_path.exists(), without the lock.
CheckCache(w) ==
  /\ pc[w] = "check"
  /\ Goto(w, IF held[w] \in cache THEN "upload" ELSE "drop")
  /\ UNCHANGED <<table, cache, drive, nextBlob, request, claimed, todo, cur, held,
                 obj, dirty, marksDue, faults, behind, released, reused, lost>>

\* The cached file is missing: whatever row has the id now is deleted.  There
\* is no mark_dirty on this path.
DropRow(w) ==
  /\ pc[w] = "drop"
  /\ LockFree
  /\ rows' = rows \ {cur[w]}
  /\ file' = [file EXCEPT ![cur[w]] = NoFile]
  /\ behind' = IF cur[w] \in rows THEN behind \cup {"drop"} ELSE behind
  /\ Release(w, todo[w])
  /\ UNCHANGED <<items, cache, drive, nextBlob, request, dirty, marksDue, faults,
                 released, reused, lost>>

\* A new object appears in Drive's file/ folder.
NewObject(w) ==
  /\ held[w] \in cache
  /\ nextObject <= MaxObject
  /\ live' = live \cup {nextObject}
  /\ madeFrom' = [madeFrom EXCEPT ![nextObject] = held[w]]
  /\ nextObject' = nextObject + 1

Upload(w) ==
  /\ pc[w] = "upload"
  /\ NewObject(w)
  /\ obj' = [obj EXCEPT ![w] = nextObject]
  /\ Goto(w, "record")
  /\ UNCHANGED <<table, cache, nextBlob, request, claimed, todo, cur, held, dirty,
                 marksDue, faults, behind, released, reused, lost>>

\* A DriveError is retried by a later sweep; any other exception (the cached
\* file has gone since it was checked, a transport error) ends this sweep.
\* The object may have been created although the call failed.
UploadFails(w) ==
  /\ pc[w] = "upload"
  /\ \/ /\ Fault
        /\ \/ NewObject(w) /\ lost' = lost \cup {nextObject}
           \/ UNCHANGED <<drive, lost>>
        /\ \E left \in {todo[w], {}} : Release(w, left)
     \/ /\ held[w] \notin cache
        /\ Release(w, {})
        /\ UNCHANGED <<drive, lost, faults>>
  /\ UNCHANGED <<table, cache, nextBlob, request, dirty, marksDue, behind,
                 released, reused>>

\* The row is read again under the lock and, if it is still pending, points
\* at the object from now on; otherwise the object stays on Drive unknown.
Record(w) ==
  /\ pc[w] = "record"
  /\ LockFree
  /\ IF cur[w] \in Pending
       THEN /\ file' = [file EXCEPT ![cur[w]].object = obj[w]]
            /\ behind' = behind \cup {"change"}
            /\ Goto(w, "finish")
            /\ UNCHANGED <<claimed, todo, cur, held, obj>>
       ELSE Release(w, todo[w]) /\ UNCHANGED <<file, behind>>
  /\ UNCHANGED <<items, rows, cache, drive, nextBlob, request, dirty, marksDue,
                 faults, released, reused, lost>>

\* Mutant: the database is not marked dirty.
FinishUnmarked(w) ==
  /\ pc[w] = "finish"
  /\ cache' = cache \ {held[w]}
  /\ Release(w, todo[w])
  /\ UNCHANGED <<table, drive, nextBlob, request, dirty, marksDue, faults, behind,
                 released, reused, lost>>

\* The cached copy goes, the database is marked dirty, the claim is released.
Finish(w) ==
  /\ pc[w] = "finish"
  /\ cache' = cache \ {held[w]}
  /\ dirty' = TRUE
  /\ Release(w, todo[w])
  /\ UNCHANGED <<table, drive, nextBlob, request, marksDue, faults, behind,
                 released, reused, lost>>

-----------------------------------------------------------------------------
(* Surroundings. *)

\* The critical section of flush_now (see DriveSync).
Snapshot ==
  /\ dirty
  /\ LockFree
  /\ dirty' = FALSE
  /\ behind' = {}
  /\ UNCHANGED <<table, cache, drive, nextBlob, request, claimed, sweep, marksDue,
                 faults, released, reused, lost>>

\* The process dies and starts again: the committed table, the cache and
\* Drive persist.  What was unmarked stays unmarked (see DriveSync).
Crash ==
  /\ Fault
  /\ released' = released \cup OpBlobs
  /\ lost' = lost \cup {obj[w] : w \in {v \in Sweepers : pc[v] = "record"}}
  /\ EndOp
  /\ claimed' = {}
  /\ pc' = [w \in Sweepers |-> "idle"]
  /\ todo' = [w \in Sweepers |-> {}]
  /\ cur' = [w \in Sweepers |-> NoId]
  /\ held' = [w \in Sweepers |-> NoBlob]
  /\ obj' = [w \in Sweepers |-> NoObject]
  /\ dirty' = FALSE
  /\ marksDue' = 0
  /\ behind' = {}
  /\ UNCHANGED <<table, cache, drive, nextBlob, reused>>

OpStep ==
  \/ CommitCreate \/ AbortCreate \/ RefreshFails
  \/ \E r \in Ids : DiscardContent(r)
  \/ CommitThumbnail \/ RollbackThumbnail
  \/ CommitDelete \/ AbortDelete

SweepStep(w) ==
  \/ \E r \in Ids : Claim(w, r)
  \/ ReadRow(w) \/ CheckCache(w) \/ DropRow(w)
  \/ Upload(w) \/ UploadFails(w) \/ Record(w) \/ Finish(w)

Next ==
  \/ \E i \in Items :
       \/ \E withThumbnail \in BOOLEAN : BeginCreate(i, withThumbnail)
       \/ BeginThumbnail(i) \/ BeginDelete(i)
  \/ OpStep
  \/ MarkDirty
  \/ \E w \in Sweepers : SweepStart(w) \/ SweepStep(w)
  \/ Snapshot \/ Crash

Spec == Init /\ [][Next]_vars

\* A request in its critical section and a sweep that has started go on, and
\* the loop starts another sweep.  WF is enough although they contend for the
\* lock: a request needs a new blob or an item, so the bounds end their number.
Fairness ==
  /\ WF_vars(OpStep)
  /\ WF_vars(\E w \in Sweepers : SweepStart(w))
  /\ \A w \in Sweepers : WF_vars(SweepStep(w))

FairSpec == Spec /\ Fairness

-----------------------------------------------------------------------------
(* Properties. *)

\* The claim set keeps two sweeps from working on one row, and a claim is
\* given back exactly when its sweep leaves the row, exceptions included.
ClaimExclusive ==
  /\ \A v, w \in Sweepers : cur[v] = cur[w] /\ cur[v] # NoId => v = w
  /\ claimed = {cur[w] : w \in Sweepers} \ {NoId}
  /\ \A w \in Sweepers : pc[w] \in Busy <=> cur[w] # NoId

\* "would otherwise upload the same local file to Drive twice" (module doc):
\* two objects are made from one file only if an upload was cut off after
\* Drive had taken it.
UploadedOnce ==
  \A o, p \in Before(nextObject) :
    madeFrom[o] = madeFrom[p] /\ o # p => {o, p} \cap lost # {}

Backed(r) ==
  LET f == file[r]
  IN  IF f.object = NoObject THEN f.blob \in cache
      ELSE f.object \in live /\ madeFrom[f.object] = f.blob

\* An accepted file is never lost: until its owner gives it up, a row names
\* it, and either its cached copy is there or the row points at the object
\* on Drive that was made from it.  The excuse is a sweep that had read the
\* row that had this row's id before.
AcceptedFilesKept ==
  \A b \in Before(nextBlob) \ (released \cup reused \cup OpBlobs) :
    \E r \in rows : file[r].blob = b /\ Backed(r)

\* The inductive strengthening of AcceptedFilesKept.  A row's file is its own,
\* is not one that a request is still working on, and, while the row is
\* pending, is in the cache unless its owner gave it up.
RowInOrder(r) ==
  /\ file[r].blob \in Before(nextBlob) /\ file[r].blob \notin OpBlobs
  /\ file[r].object \in Before(nextObject) \cup {NoObject}
  /\ r \in Pending => file[r].blob \in cache \cup released

RowsInOrder ==
  /\ \A r \in rows : RowInOrder(r)
  /\ \A r, s \in rows : r # s =>
       /\ file[r].blob # file[s].blob
       /\ file[r].object # file[s].object \/ file[r].object = NoObject

\* The rows that the request at work is about to delete.
Doomed ==
  CASE op = "thumbnail" -> FilesOf(opItem, "thumbnail")
    [] op = "delete" -> {r \in rows : file[r].item = opItem}
    [] OTHER -> {}

\* A request keeps its new files in the cache and, row by row, gives up the
\* files of the rows it is about to delete.
OpInOrder ==
  /\ OpBlobs \subseteq cache \cap Before(nextBlob)
  /\ op \in {"none", "delete"} => OpBlobs = {}
  /\ op \in {"none", "create"} => opLeft = {}
  /\ op = "create" => opBlob["primary"] \notin {NoBlob, opBlob["thumbnail"]}
  /\ op = "thumbnail" => opBlob["thumbnail"] # NoBlob /\ opBlob["primary"] = NoBlob
  /\ opLeft \subseteq rows
  /\ \A r \in Doomed \ opLeft : file[r].blob \in released

\* A sweep between its two reads of a row: the row is still that of its file,
\* or the file was given up and the id, if it is in use, is one that was
\* given out again.
OnItsRow(w) == cur[w] \in rows /\ file[cur[w]].blob = held[w]
PastRead(w) ==
  IF OnItsRow(w)
    THEN \/ held[w] \in released
         \/ cur[w] \in Pending /\ held[w] \in cache /\ pc[w] # "drop"
    ELSE /\ held[w] \in released
         /\ cur[w] \in rows => file[cur[w]].blob \in reused

\* Its object is its own, and the file it is about to remove is not needed.
OwnObject(w) ==
  /\ obj[w] \in live /\ obj[w] \in Before(nextObject)
  /\ madeFrom[obj[w]] = held[w]
  /\ \A r \in rows : file[r].object # obj[w]

SweepInOrder(w) ==
  /\ held[w] \in Before(nextBlob) \cup {NoBlob} /\ held[w] \notin OpBlobs
  /\ pc[w] \in Past => PastRead(w)
  /\ pc[w] = "record" => OwnObject(w)
  /\ pc[w] = "finish" =>
       \A r \in Pending : file[r].blob = held[w] => held[w] \in released

SweepsInOrder ==
  /\ \A w \in Sweepers : SweepInOrder(w)
  /\ \A v, w \in Sweepers :
       v # w /\ pc[v] = "record" /\ pc[w] = "record" => obj[v] # obj[w]

Inductive ==
  /\ ClaimExclusive
  /\ RowsInOrder
  /\ OpInOrder
  /\ SweepsInOrder
  /\ AcceptedFilesKept

\* The cache does not leak: without faults it holds the files of the pending
\* rows, of the request at work, and those a sweep is about to remove.
CacheIsTransient ==
  faults = 0 =>
    cache \subseteq {file[r].blob : r \in Pending} \cup OpBlobs \cup reused
                     \cup {held[w] : w \in {v \in Sweepers : pc[v] = "finish"}}

Owed == marksDue > 0 \/ \E w \in Sweepers : pc[w] = "finish"

\* What is committed reaches a snapshot: while the last one lacks a commit,
\* the dirty flag is set or somebody still owes the call.  The exceptions are
\* the dropping of a broken row and an item that cannot be read back.
EveryChangeIsMarked == behind \ NeverMarked # {} => dirty \/ Owed

\* Every pending row is uploaded, dropped or deleted in the end.
PendingIsSettled == \A r \in Ids : r \in Pending ~> r \notin Pending

\* The comment in sync_item_file (upload_sync_service.py:113-118) takes the
\* row it reads again for the one it uploaded: a synced row points at the
\* object made from its own file.
SyncedFromOwnFile ==
  \A r \in rows \ Pending : madeFrom[file[r].object] = file[r].blob

=============================================================================
