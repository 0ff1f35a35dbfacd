# VRC Content Manager: TLA+ models, checks and proofs

VRC Content Manager keeps a library of downloaded avatar assets: the metadata in a local
SQLite database, the files and a copy of the database on Google Drive. It is one process
(`--workers 1`) with many threads: one per request, and six background loops. This directory
models the parts in which those threads, the network and crashes meet, checks the models with
TLC and proves the most important results with TLAPS.

## Inventory of the system

| Component | State | Operations | What is hard | What makes it correct |
|---|---|---|---|---|
| Drive database write-back (`services/drive_sync_service.py`, `fragments/settings.py`, `main.py`) | `_dirty` in memory; `drive_db_file_id`, last known modifiedTime in `app_settings`; the file on Drive | `mark_dirty`, `flush_now` from the loop, from sync-now and at shutdown; recovery of a missing file; drift check at start | the upload runs without the lock; flushes overlap; failures after the flag was cleared; a crash loses the flag | a clean database is on Drive; a dirty one gets there; no false alarm |
| Upload sync (`services/upload_sync_service.py`, `local_cache_service.py`) | rows of `item_files` with `synced_at` NULL, the pending-upload cache, the in-memory claim set | `sync_pending_now` from every upload and from the loop, `sync_item_file` | rows deleted or replaced during an upload, lost answers, crashes, two sweeps | an accepted file is uploaded once and never lost |
| Item operations (`services/item_service.py`) | `items`, `item_files` | create, delete, thumbnails, merges by BOOTH link and by file name | content is discarded before the commit; lists read before the lock | no operation loses a file it should keep |
| Autosave, inline and bulk edits (`fragments/items.py`, `item_service.py`) | the item as read before the lock | autosave, inline tags, bulk update, BOOTH refresh | fields carried over from a stale read | a save changes only what was edited |
| Tags and shops (`tag_`, `shop_service.py`) | their tables | rename or merge, delete, get-or-create | commits without `db_write_lock`, uniqueness | merged tags follow; one shop per name |
| Avatars (`avatar_service.py`) | their table, each based on an item or on none | register, unregister, resolve | the panel shows registered avatars only | tags of an item stay |
| Drive reconcile (`services/drive_reconcile_service.py`) | rows and the `upload/`, `file/` folders on Drive | migrate the old layout, import unknown files, drop broken references | races uploads, deletions and itself | each Drive file belongs to one row and gets one |
| Chunked uploads (`services/chunked_upload_service.py`) | sessions in memory, `.part` files | init, chunk, complete, abort, purge | the purge of a live session, a restart, the size arithmetic | the file handed over is what was sent |
| Download cache (`local_cache_service.py`, `file_content_service.py`) | cached downloads and their mtime | fetch, touch, forget, purge | test-then-touch races the purge | what is served is the whole file |
| First-run setup (`api/routers/oauth.py`, `complete_first_run_setup`) | the database file, credentials, file id | wizard, OAuth callback, restore or create | loops that open the database first, failures between the steps | the backup survives; a connected database is backed up |
| BOOTH library (`booth_library_service.py`) | its table | sync | pages shift while they are read | the table is never replaced by less than was listed |
| Saved filters, integrity check | a table of names; none | store, report | – | – |
| Drive client, BOOTH fetches, web layer | none shared | I/O | failure modes | – |

The components meet in three places: **`db_write_lock`** (`db/session.py:41`), which item
requests and background sweeps hold around their database work and never around a network
call; **`mark_dirty`**, by which every component that commits tells the write-back; and **Drive**,
where uploads, reconcile and deletions act on the same objects.

`PROJECT.json` lists under `hazards` what can go wrong at which line, and which property covers it.

## Modules

| Module | Models |
|---|---|
| `DriveSync`, `WriteBack` | the write-back of the database to Drive, and the cache that it implements |
| `UploadSync` | the life of an accepted file: cache, row, Drive, deletion |
| `FileKeeping`, `UploadKeeps` | what the program promises of accepted files, and how `UploadSync` implements it |
| `ChunkedUpload` | uploads in chunks, the removal and the purge of their sessions |
| `DriveReconcile` | reconcile sweeps against uploads, deletions and files dropped in Drive |
| `ItemLibrary` | items and their files: uploads, BOOTH links, merges, thumbnails |
| `ItemEdits` | an item's fields, tags and shop under concurrent edits |
| `ItemList` | the grouping of the item list |
| `DownloadCache` | serving a file, the sliding expiry and the purge |
| `FirstRun` | connecting to Drive on a machine without a database |
| `BoothLibrary` | the sync of the BOOTH library |
| `Avatars` | registering avatars, and the panel that saves them |
| `MCUploadSync`, `MCChunkedUpload`, `MCDriveReconcile`, `MCItemLibrary`, `MCServices` | TLC's instances; `MCServices` composes the six small modules |
| `DriveSyncProofs`, `UploadSyncProofs`, `UploadFilesProofs`, `ChunkedUploadProofs`, `DriveReconcileProofs`, `ItemLibraryProofs`, `ItemEditsProofs`, `ServicesProofs` | theorems checked by TLAPS; `ServicesProofs` has those of `FirstRun`, `DownloadCache`, `BoothLibrary`, `Avatars` and `ItemList` |

Each module's variables are the state of its component, one action stands for what the code does
between two places where another thread, Drive or a crash can act, and history variables (named as
such in each module; no guard reads them) carry what a property has to remember or excuse.

### DriveSync

The content of the database is a version number, incremented by every commit; a snapshot and a
file on Drive hold a version. `flush_now` is split where it takes or releases the lock or calls
Drive, because that is where other threads act:

    (idle | check) -> lookup -> ensure -> [recsnap -> recupload -> repoint]
        -> snapread -> snapreset -> push -> readmeta -> recmeta -> (idle | answer)

`snapread` takes the lock for `VACUUM INTO` and `snapreset` clears `_dirty` and releases it
(`drive_sync_service.py:183-189`), so `lock` is held across that one pair of steps; every other
critical section is one action guarded by `LockFree`. A commit and its `mark_dirty` are two
actions (`Commit`, `MarkDirty`), since no service holds the lock for both in every path.
`LabelWriters` commit without the lock, as the tag, shop, avatar and saved-filter services do.
Any Drive call can fail before or after it took effect; `Crash` can happen at any step; `Exit` is the
lifespan's end, which does not wait longer than its time-outs for a flush. `ReadMeta` reads the
modifiedTime of the file from Drive as it is then, which may be that of another flush's push.

`vouch` and `lapses` are history variables. The code does not survive overlapping flushes, failed
pushes, unlocked writes, a lost process or a file deleted by hand; `lapses` records which of these
happened since the last flush that ran alone and to its end, and `vouch` which flushes still run
undisturbed. The promises (`CleanMeansPushed`, `NoFalseDriftAlarm`) are stated for `lapses = {}`;
`NothingSilentlyDropped` is the same without the excuse, and false after each of the accidents.

`WriteBack` is the cache without threads, locks, flags, files or snapshots: the version of the database,
that of its copy, and whether the program takes itself for clean. A commit makes the copy old, a
store replaces it by one that is no older, and only a current copy is clean. `Stored` maps the copy
to the content of the file that the settings name, so a recovery that repoints them is a
store as well. Where `lapses` is not empty the copy may be anything (`Disturb`), and the promise holds
again from the flush that empties it (`Recover`).

### UploadSync

`op` is the one request inside `db_write_lock` (creation, thumbnail replacement, deletion); its
steps up to the commit are separate actions because a crash, and the unlocked steps of a sweep, can
fall between them. A sweep goes through

    idle -> next -> read -> check -> (upload -> record -> finish | drop) -> next ...

taking the lock in `SweepStart`, `ReadRow`, `DropRow` and `Record` only. The content of a file is a
*blob*, which also stands for the fresh UUID that is its `stored_filename`; `synced_at`,
`drive_file_id` and `drive_folder_id` are set together and are one field, `object`. Ids of rows are
chosen as SQLite does for a key without AUTOINCREMENT: largest id in use plus one
(`IsNewId`), so the id of a deleted newest row is used again. `RefreshFails` is the narrow case in which the item is committed and
cannot be read back: the handler, whose comment says "Nothing committed", unlinks the files of committed rows.
`released`, `reused`, `lost` and `behind` are history variables that excuse or count what the properties speak of. The order of
a sweep's list is left open, which includes the order by id that SQLite happens to return.

### FileKeeping and UploadKeeps

`FileKeeping` knows three sets: files that are cached, stored, and gone. Files are accepted into the
cache, a cached file is stored, and files leave either place only by being given up. `UploadKeeps`
reads the sets off the state of `UploadSync`: the place of a file is decided by the row that names
it (pending or synced) together with the copy that backs the row, and a file is gone when its owner
gave it up or when its row took an id that a sweep had read before. Nothing abstract corresponds to
crashes, failures, uploads whose answer was lost, claims or marks: all of them have to stutter.

### ChunkedUpload

An upload is one attempt of a browser (`templates/items/list.html`, `uploadChunked`): it opens a
session, sends the chunks one at a time, asks for completion, and gives up at the first answer that
is not a success or when its connection drops. The server side has four actors per session:
`write_chunk` (`arrived -> looked -> writing`, a coroutine), `complete_session`
(`arrived -> matched -> copying -> aborting -> clearing | ending`, a thread), the `rmtree` of the
directory (`popped -> deleting -> done`) by whoever popped the session from the table, and the purge.
The steps end where another thread can look at the directory: after the byte count, after the listing,
between two parts, between two unlinks and before the `rmdir`, which fails silently when a part was
created meanwhile. A part is the number of pieces written to it; contents matter only as which chunk
and how much of it, so `WholeFile` is what the file handed over should be. Three looks at a directory
are atomic although the code makes several system calls in them (the byte count `Received`, the listing
of the parts, the reading of one part): each has the same outcomes. The completer holds the parts that it
listed and has yet to read as a set, of which it takes the least. `file[u].declared` differs from `size` for a client that
states its size wrongly. `Expire` is the passing of the TTL; for a
file that is not `slow` it passes only after the browser has gone and its handlers have ended, which
is what "abandoned" means in the code's comments. Creating the item from the `ValidatedUpload` is `BeginCreate` of `UploadSync`.

### DriveReconcile

`place` says where each object lies on Drive, `rows` which object each row of `item_files` names.
A sweep goes through

    idle -> migrate [-> moved] -> known [-> register] -> import [-> create] -> ... -> check [-> drop] -> idle

with `known`, `register` and `import` once for `upload/` and once for `file/`; every step ends where the code calls Drive or commits. What a
sweep reads from a row it has listed depends on the ORM session: until the sweep commits it is what
was listed, afterwards it is the row that has the id *then* (`Loaded`). The loop and any number of
requests sweep side by side, while files are dropped in Drive or deleted there, items are created
and deleted, and the upload sync records objects (`Push`, `RecordPush`: the upload's answer
may be lost). `RegisterShop` is the commit of the shop of the imported items, which precedes every import and is made
whatever the unknown files are. `unmarked` tells what the commits since the last `mark_dirty` have changed: rows
of `item_files` or that shop. `contested`, `reused` and `cutShort` remember objects that were being recorded while a
sweep listed them, ids reused under a sweep, and sweeps that an exception ended before their mark.

### ItemLibrary

An item is a set of files with a main one, a thumbnail and a BOOTH link. A request is a read (what the
page shows) and a write under the lock, with any other request's write in between; a page may be
stale at any time. `MergedInto` is `merge_item_into`, used by the merge of duplicates on the settings
page, by the edit that gives an item the link of another, and by the merge loop (`AutoMerge`). `DropReference` is what
reconcile does to an item: any one of its files goes, the main one, an attachment or the thumbnail.

### ItemEdits and ItemList

A save in `ItemEdits` reads the item without the lock, looks labels up under it and commits the
*difference* to what it loaded, as the ORM does. `typed` and `kept` stand for the fields the form
shows and those it carries over. The tag and shop pages commit without the lock. A commit that the
database would reject (a row that is gone, a name that is taken) raises. `ItemList` is the loop of
`_group_by_product_url` as a state machine, compared with its docstring at the end.

### DownloadCache, FirstRun, BoothLibrary, Avatars

`DownloadCache` splits a request where the cache can change under it: the freshness test, `touch()`
(which creates a file that is gone) and the opening of the path; and the purge between its look at
an age and its unlink. `FirstRun` splits the OAuth callback where it can fail or the process can
end. The background loops are one action, `Tick`: the first query of any of them creates an
empty database file. `BoothLibrary` reads a listing that shifts by one with each purchase. `Avatars`
keeps the panel's boxes as they were when it was opened.

### Composition

`UploadSync` composes the requests, the upload sync, the pending-upload cache and Drive;
`DriveReconcile` composes reconcile with an outline of them over shared rows and objects; `UploadKeeps`
puts the abstract specification beside the detailed one. The six small components share no state
with each other beyond the lock, so `MCServices` checks them in one run without interleaving them:
`part`, chosen in the initial state, says which of them moves. The list and edit models exclude each
other's steps only in the way the lock does.

## Runs

| Run | Instance | Question |
|---|---|---|
| `driveSync_safety` | 1 item writer, 1 label writer, loop, 1 sync-now, shutdown; 2 commits, 3 Drive files, 1 fault | the invariant of the proofs, `CleanMeansPushed`, `NoFalseDriftAlarm`, that `DriveSync` implements `WriteBack`, and that a dirty database is flushed in the end |
| `driveSync_failed` | 1 writer, 1 fault | violated: a failed push is not retried |
| `uploadSync_faults` | 1 item, 2 sweeps, 3 blobs, 2 rows, 1 fault or crash | the invariant of the proofs; files are kept and uploaded once, claims are exclusive, changes are marked, the cache is transient; `UploadSync` implements `FileKeeping`; every pending row is settled |
| `uploadSync_reuse` | 2 items, 1 sweep, no fault | violated: an upload is recorded on a row that reused the id |
| `chunked` | 2 uploads, kinds of file at every boundary, one restart | the file handed over is the file, answers are true, open sessions keep their parts, directories go, uploads end |
| `chunked_truncated` | 1 upload of 3 chunks that outlives the TTL | violated: a file with chunks missing is handed over |
| `reconcile` | loop and one request, 1 asset, 1 image of the same stem, 4 rows, 1 failing call | imported once, marks, the grace period, only missing files dropped; assets get listed, the old layout gets moved |
| `reconcile_unmarked` | loop and one request, 1 asset, 1 image, no fault | violated: the shop registered for the imports is committed and never marked |
| `library` | 2 editors, 3 files of 2 names, 1 link, 3 items | merges lose no download, a chosen thumbnail is not replaced, duplicates are merged in the end |
| `services` | one of six components: 1 item, 2 savers, 2 tags, 2 shops; 1 file, 2 requests; setup; 4 products on 2 pages; 2 avatars; 4 rows | what a save, a merge of tags, a served file, a setup, a library sync and the list promise |
| `firstRun` | setup with background loops | violated: Drive is connected and no database is recorded |
| `avatars` | 2 models, 2 names | violated: an item loses the tag of an avatar whose base is gone |

### Bounds

`MaxVersion`, `MaxFile`, `MaxClicks` and `MaxFaults` bound `DriveSync`. Two commits are the least that
tell a snapshot that caught the first from one that caught both; three Drive files let a flush
recreate the file a second time after its own recreation failed half-way; the three flushers are all
the kinds there are, and one sync-now request overlaps both others. One fault reaches every failure
branch; what needs two is covered by the proofs, which have no bounds at all.

In `UploadSync` (`MaxBlob`, `MaxRow`, `MaxObject`, `MaxFaults`), three blobs are an asset, its thumbnail
and the thumbnail's replacement, the shortest history in which an id is reused under an upload;
two sweeps are the immediate push and the loop; `MaxObject` leaves room for each blob and
repeated uploads, so that no sweep waits for an id. `MCNext` lets the third blob come in histories without a
failure only, and be the last request; the theorems cover all of it together.

In `ChunkedUpload` a chunk is two pieces (`ChunkSize`) and a file at most six, so that a last chunk can be
short, full or one of three; the files lie on both sides of every comparison (empty, the limit
`MaxSize`, one over it, declared too large and too small). Sessions share the table and the purge
only. `MCInit` takes two quick uploads side by side, or one that outlives the TTL.

`DriveReconcile`: two sweeps are the loop and a request; one asset and one image of its stem make a
group; four rows (`MaxRow`) hold an import with its image, a created item and a reused id; `Spare` is
the row the user's creations must leave free, so that an import finds room; one fault. The library
begins without the shop of the imports (`MCInit`). `MCNext` runs one sweep at a time when there is an image, and
leaves that shop to the sweeps. `ItemLibrary`: three files, two of one name, give every
kind of group and a bystander; three items (`MaxItem`) let a merge go on past its first pair; with
three files only one page is open, and of the two files of one name, which nothing else tells apart, one
is uploaded first. `ItemEdits`: one item suffices since saves of different items share
labels only, which two savers contend for; tags and shops are bounded by `MaxTag` and `MaxShop`, and
`MCServices` edits tags with one saver against the tag page and shops with two. `DownloadCache` has no
bound but its two requests. `FirstRun`: `MaxObject` = 3 objects besides the backup admit two
set-ups and a re-creation. `BoothLibrary`: four products, one of them free, and at most two pages of
a listing read, so that a sync ends at the last page and at `MaxPages`; one acquisition at a time. `ItemList`: four rows and two links make two groups that interleave.

Deadlock is not checked: every instance stops when its bounded commits, files, uploads, objects
and faults are used up. In the program the loops tick for ever and do nothing.

### Fairness

Every fairness condition is weak, and owed by a thread or a timer of its own. `DriveSync!Fairness`: a
started flush, a request that has committed, a sync-now request and the shutdown go on, and the
loop keeps ticking. `UploadSync!Fairness`: a request in its critical section ends, a started sweep goes
on, and the loop starts another. `ChunkedUpload!Fairness`: handlers, threads and the page's script go
on, time passes and the purge wakes; connections need not drop. `DriveReconcile!Fairness`: the loop starts
its sweep and takes the next step of it, whichever; requests and pushes are owed nothing. That the loop runs at
all is what `main.py:72` does and the repository's README denies (see the findings).
`ItemLibrary!LibraryFairness`: the merge loop looks at every link. `DownloadCache!CacheSpec`: an
entry's TTL passes, and the purge finds and unlinks it. Weak fairness is enough although `db_write_lock`
is contended, because the bounds make the number of requests finite; the fairness of
`threading.RLock` under endless contention is not claimed. Writing, pressing, deleting and failing are
never owed.

## Proofs

The theorems hold for all values of the constants under the modules' named assumptions, which say
no more than that bounds are natural numbers and that names differ.

`DriveSyncProofs`: `TypeCorrect`, `InductiveCorrect`, and from it `WriteBackCorrect`
(`Spec => []CleanMeansPushed`) and `DriftAlarmCorrect` (`Spec => []NoFalseDriftAlarm`).
`CleanMeansPushed` is not inductive: it says nothing about a flush in progress. `Inductive` adds what a
flush that is vouched for knows at each step: that it is alone (`VouchedAlone`), that without accidents
every flush is vouched for (`VouchedUnlessLapse`), and that it has left the flag set or captured what
the database holds, in the file that the settings name (`VouchedIsSound`). `LockHeld` makes a
snapshot exclude the writers that take the lock. The argument is split by conjunct: the
locks, names and vouching (`OrderStep`), what a vouched-for flush has captured (`SoundStep`),
and from both the two promises (`CleanStep`, `AlarmStep`); each has one step per action. Three
actions are shared by others (`Enter`, `Return`, `Restart`) and have lemmas of their own.

`WritesBack` (`Spec => IsWriteBack`) is the refinement of `WriteBack`. That a clean flag means a current copy
is `CleanMeansPushed`; that the copy only goes up needs two more facts. `VersionsPast`: no snapshot
and no file is newer than the database. `GoesUp`: what a vouched-for flush is about to put in the place
of the copy, its snapshot or the file it has just recreated, is no older than the copy (`NotOlder`),
which lasts because that flush is the only one to write. `PastStep` and `UpStep` preserve them;
`StoredStep` reads off each step what it does to the two versions (`StoresUp`), and the theorem
sorts that into the four abstract steps.

`UploadSyncProofs`: `TypeCorrect`; `ClaimsExclude` (`[]ClaimExclusive`) and `ChangesMarked`
(`[]EveryChangeIsMarked`), each inductive by itself with the types; `Invariant` (`Spec => []Inductive`)
and from it `FilesKept` (`[]AcceptedFilesKept`).
`AcceptedFilesKept` needs what everyone at work knows:

* `RowsInOrder`: rows have files and objects of their own, and a pending row's file is in the cache or
  was given up;
* `OpInOrder`: a request's new files are in the cache, and it has discarded what it no longer lists
  (`Doomed \ opLeft`), so the rows it deletes are rows of files that were given up;
* `SweepsInOrder`: between its two reads of a row a sweep is either still on its own row, or the
  file it holds was given up and the row, if there is one, took the id (`PastRead`); the object it
  has uploaded is nobody else's (`OwnObject`); the copy it is about to remove is not needed.

The proof goes by kinds of steps. `GiveUpKept` covers the steps that only give files up or
concern nobody's files, `OneSweepKept` a sweep that goes on without writing a row, `RowsReplaced` and
`RowsReplacedWith` the steps that add and remove rows; the lemma of each action shows that it is of its
kind. Only `Record`, which changes a row, is argued clause by clause. `ClaimExclusive` is needed
where a sweep drops or records a row: no other sweep is between its reads of that row. A file can be
lost by the reuse of ids (`uploadSync_reuse` shows that it is) and by no other interleaving,
failure or crash of the modelled steps.

`UploadFilesProofs`: `Keeps` (`Spec => KeepsFiles`), the refinement. Under `Inductive` every row whose
file is not gone is backed by the copy its state calls for, so the places of `FileKeeping` can be
read off the rows alone. Every step is then one of four kinds: rows and reasons stay (a stutter), files become
gone (`GiveUp`), a pending row becomes a synced one (`Store`), new rows are committed while doomed
ones go (`Accept`, or `GiveUp` for those it replaces).

In the same module `UploadsOnce` (`[]UploadedOnce`) and `CacheStaysSmall` (`[]CacheIsTransient`). The
first needs that a sweep which is about to upload is the only one that holds its file
(`SweepAlone`), that what is pending has no object that anyone has been told of (`PendingUnsent`),
and that objects are numbered upwards (`ObjectsOld`). The second says of each copy in the cache why it
is there (`IsNeeded`), and holds as long as nothing has failed.

`ChunkedUploadProofs`: `ChunkedTypeCorrect`, `WholeChunksInOrder` (`[]HandedPartsAreWhole`),
`TheFileIsHandedOver` (`[]HandedOverIsWhole`), `TrueAnswers` (`[]AnswersAreTrue`) and `PartsStay` (`Spec =>
OpenPartsStay`) from `ChunkedInvariant` (`Spec => []Inductive`). A chunk has any number of pieces and a file any
size. For every upload `Inductive` says how the browser and its handlers take turns (`InStep`),
that the part of a finished chunk is whole (`PartsInPlace`), that the completer has copied whole parts in
ascending order (`CopiedInOrder`), and that a session in the table has its directory with every finished
part in it (`Held`). That much holds whatever the purge does and gives `HandedPartsAreWhole`. For an
upload within its TTL there is `QuickOK`: nobody but its own `/complete` takes its session while it is open
(`OwnSession`), so that the byte count, the listing and the copies agree (`OwnAnswer`). The step from
"as many bytes as declared" to "all the chunks" is arithmetic (`Rounding` and the lemmas after it): lengths of the
parts that are there add up to the declared size only if all are there.

`ItemLibraryProofs`: `LibraryTypeCorrect`, `DownloadsKept`
(`LibrarySpec => MainFilesKept`) and `ChosenStays` (`LibrarySpec => ChosenThumbnailStays`) from `LibraryCorrect`. The
invariant adds that a row that is gone holds nothing (`Absent`: an id that is used again starts empty) and what a page that has not aged shows
(`PageOK`): its items are there, and their main files have one name. `MainFilesKept` needs the last when a
group is reduced to its first; the merges by link need nothing of the page, since `merge_item_into` looks
both items up again. `ChosenThumbnailStays` excepts `DropReference`, for reconcile does drop a chosen thumbnail
that Drive does not answer for; every other step is shown to keep it.

`ItemEditsProofs`: `EditsTypeCorrect`, `ShopsRegisteredOnce` (`[]SavedShopsDistinct`), `CarriesOverAll`
(`EditsSpec => OthersCarryOver`) and `MergesFollow` (`EditsSpec => MergedTagsFollow`) from `EditsCorrect`. Shops are
registered once because a save that found no shop of its name keeps the lock until it commits, and meanwhile
no other save registers one (`NameIsFree`); the shop page, which takes no lock, is why the property
speaks of the shops that saves registered (`auto`). What a save carries over is what the item has, field by
field, until another commit overtakes it (`CarriesOver`): the history field is set by every step that
changes the row, which is what has to be shown of each. `AdminOK` says what the tag page knows between its
reads and its commit.

`ServicesProofs`: `SetupCorrect` (`[]SetupInvariant`) and `BackupStays` (`SetupSpec => BackupKept`): the
recorded id, and the id a callback goes on with, are of objects with the data of the database
(`IdIsOwn`, `CallbackIsOwn`). `CacheCorrect` and `Served` (`CacheSpec => ServedComplete`): an entry is whole or
was created by a touch, and a request opens an entry or the local copy only after it has seen it. `BoothCorrect`
and `SyncsAreComplete` (`BoothSpec => SyncComplete`): before the page that a sync reads next, every product
that was listed when it began has been read or was cut off (`PagesSeen`); a purchase keeps that true because it
moves products to later pages only. `ListCorrect` and `ListGrouped` (`ListSpec => []ListIsGrouped`), for any
number of rows: the rows visited so far (`Seen`) are those before the one in hand; the anchors are listed in their
order with the siblings seen, and `anchor_by_url` knows exactly the urls seen. `AvatarsCorrect`
(`[]AvatarInvariant`): no two rows share a name or a base, a base is an item that is there, and tags are of rows;
`SetAvatar` needs for it that a name is taken only when no other row has it, and that a row that is there has a
name. `ServicesTypeCorrect` (`MCSpec => []ServicesTypeOK`) puts the six invariants together: a step
of one component leaves the others as they are.

`DriveReconcileProofs`: `TypeCorrect`, `NoDoubleImport` (`[]ImportedOnce`), `GraceStays` (`Spec =>
GraceKept`), `OnlyMissing` (`Spec => OnlyMissingDropped`) from `Invariant` (`Spec => []Inductive`), and
`ChangesMarked` (`[]ChangesGetMarked`), inductive by itself with the types, about the rows of `item_files` (of the
shop it would be false). `ImportedOnce` speaks of rows only;
it lasts because an object has one owner (`OneOwner`: a row, the push that has made it, or the sweep
that is going to import it), because nobody knows of an object that was never on Drive (`Appeared`: so a
push makes one that is new to all), and because a sweep that is about to list a folder has read or
been told of every listed object (`Knows`). What a sweep is about to drop was listed by it, synced
before it began and unchanged since, or its id was used again (`ListIsOld`, `DropIsDue`). Most steps
are of one kind: rows and sweeps hold nothing that they did not hold (`Shrinks`), and rows on a list
stay, go, or are noted as reused (`RowsKeep`); the lemma of each action shows that it is of that kind, and
`RecordPush`, `ListFolder` and `ImportItem` are argued in full.

Only model-checked: everything under fairness (`DirtyIsFlushed`, `PendingIsSettled`, `SweptInTheEnd`,
`EveryUploadEnds`, `AssetsGetListed`, `LegacyGetsMoved`, `DuplicatesGetMerged`, `CacheEmpties`), which is out
of the prover's reach.

## Findings

1. A push that fails after the flag was cleared is not retried (`driveSync_failed`).
2. A row whose id is reused during an upload gets the other file's Drive object (`uploadSync_reuse`).
3. The bytes of a chunked upload are counted before its parts are listed; when the purge removes the
   directory in between, a shorter file is handed over as complete (`chunked_truncated`).
4. The loops create an empty `app.db` before the wizard is used; after a restart Drive is connected
   and no database is ever recorded there (`firstRun`).
5. The edit panel has no box for an avatar whose base item was deleted; the next autosave drops the
   tag although the code means to keep it (`avatars`).
6. `_import_unknown_files` commits the shop 未設定 before it knows whether it imports anything, and `reconcile`
   marks only what it has counted: with orphan images only, or when every import fails, the new shop is not
   marked (`reconcile_unmarked`).
7. README.md:29 of the repository says that the synchronisation with Drive is run by the user only, never in the
   background; `main.py:72` starts `reconcile_loop`, which runs it every five minutes. `AssetsGetListed` and
   `LegacyGetsMoved` (`reconcile`) rest on that loop alone.
8. README.md:32 lists the grouping of products of one sales URL as not implemented; `search_items` groups them
   (`_group_by_product_url`), and `ListIsGrouped` (`services`) checks how.

Other behaviours that the models contain and the passing runs exclude by their bounds, excuses or
history variables:

* a sync-now whose upload fails answers "変更はありません(同期不要)。" (`web/pages/settings.py:33-38`), since
  the message goes by a flag that the failed flush has already cleared;
* dropping a row whose cached file is missing (`upload_sync_service.py:86-94`) commits without
  `mark_dirty`, and an item that cannot be read back after its commit (`item_service.py:914-923`) loses the cached
  files of its rows without one; `EveryChangeIsMarked` names these two branches as exempt;
* reconcile drops a reference of any kind that Drive does not answer for, a thumbnail that the user chose included
  (`DropReference` in `ItemLibrary`);
* overlapping flushes can leave the older snapshot on Drive, and a label service's write during a
  snapshot can lose its mark (`lapses`);
* a session is purged by the time since it was opened, in use or not; a restart leaves the
  directories of interrupted uploads for ever: the promises are made for quick uploads;
* a transient error of `get_metadata` drops the reference of a file that is on Drive (`hiccup`);
  a file that is recorded while it is listed is imported a second time (`contested`);
* an image on Drive is attached to every asset of its stem (`drive_reconcile_service.py:272`), so that
  the deletion of one item deletes another's thumbnail;
* merging duplicates from a page that is stale can delete every copy (`stale`); a save overwrites
  what was committed between its read and its lock (`overtaken`);
* a touch after a purge creates an empty file, which is served as the download (`recreated`);
* a `robots.txt` that cannot be read empties that half of the BOOTH library (`blind`).

## Plan

Done: all modules above, the refinements of `FileKeeping` and `WriteBack`, and the proofs of every safety and action
property that a passing run checks. Left: `DriveReconcile` over the full `UploadSync` in place of its outline.

## Not modelled

* Saved filters: one table of names. Integrity check: a report that writes nothing (it also
  looks up the empty id of each row that waits for its push).
* BOOTH's HTML, HTTP and caching; the results of a fetch are optional fields and an optional thumbnail.
* `add_update_check` appends a history row nobody else writes. `set_shop_fetched_info` writes fields nothing else
  reads; `update_shop` is reached from no route.
* The Drive client's folder look-up, token refresh and HTTP; its calls are modelled by their effect and by
  how they fail.
* SQLite's own locking (busy time-outs) is taken to succeed; where the code relies on `db_write_lock`
  instead, the models use that lock. Of the ORM, what matters is modelled where it does (`Loaded`,
  the differences a save writes), the identity map otherwise not.
* Routing, login, CSRF, templates, configuration and logging: request plumbing without state shared
  between requests.
