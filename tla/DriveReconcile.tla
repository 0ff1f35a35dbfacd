--------------------------- MODULE DriveReconcile ---------------------------
(***************************************************************************)
(* The two-way reconciliation of the rows of item_files with the objects   *)
(* on Drive (app/services/drive_reconcile_service.py), run by a timer loop *)
(* and by each press of "reconcile now", while the user drops and deletes  *)
(* files in Drive and the app creates items, pushes their files and        *)
(* deletes items.                                                          *)
(*                                                                         *)
(* A sweep holds db_write_lock only around its commits, so every action    *)
(* below ends where it commits or calls Drive.  A sweep keeps the ORM      *)
(* objects it has listed; what it reads from them is what it listed until  *)
(* its own session commits, and the row of that id as it is now afterwards *)
(* (the session expires everything on commit).                             *)
(*                                                                         *)
(* contested, reused and cutShort are history variables, and so are the    *)
(* fields hiccup and news of a sweep: no guard reads them.                 *)
(***************************************************************************)
EXTENDS Integers

CONSTANTS
  Sweepers,    \* the thread of reconcile_loop and "reconcile now" requests
  Loop,        \* the first of them
  Assets,      \* Drive objects an item can have as its primary file
  Images,      \* Drive objects with an image extension
  Stem,        \* object -> file name without its extension
  NoObject,
  MaxRow,      \* bound: ids of item_files
  Spare,       \* bound: ids that are left to the imports
  MaxFaults    \* bound: failing calls and deletions by hand

Objects == Assets \cup Images
RowIds == 1 .. MaxRow
Folders == {"upload", "file", "nested"}

ASSUME ObjectsAssumption ==
  /\ Assets \cap Images = {}
  /\ NoObject \notin Objects
  /\ Loop \in Sweepers
ASSUME BoundsAssumption == MaxRow \in Nat /\ Spare \in Nat /\ MaxFaults \in Nat

VARIABLES
  place,      \* object -> its folder on Drive, "none" before it exists, "gone"
  rows,       \* id -> row of item_files, or NoRow
  since,      \* id -> sweeps that were running when the row was synced
  shop,       \* the shop of the imported items is registered
  push,       \* the upload sync: the row it pushes and the object it made
  sweep,      \* sweeper -> locals of its reconcile()
  unmarked,   \* what commits since the last mark_dirty have changed
  faults,
  contested,  \* history: objects listed as unknown that someone was recording
  reused,     \* history: rows with an id that a sweep has on its list already
  cutShort    \* history: a sweep that raised has left "files" unmarked

drive == <<place, faults>>
table == <<rows, since, shop>>
history == <<contested, reused, cutShort>>
vars == <<drive, table, push, sweep, unmarked, history>>

Row == [item : RowIds \cup {0}, role : {"primary", "thumbnail"},
        object : Objects \cup {NoObject}, folder : Folders \cup {"none"}]
\* item 0 is no item: the row does not exist.
NoRow == [item |-> 0, role |-> "primary", object |-> NoObject, folder |-> "none"]

Exists(r) == rows[r].item # 0
Synced(r) == rows[r].object # NoObject       \* synced_at is set
Lists(r, o) == rows[r].object = o
Listed(o) == \E r \in RowIds : Lists(r, o)
ListedObjects == {rows[r].object : r \in RowIds} \cap Objects
OnDrive(o) == o \in Objects /\ place[o] \in Folders

Fault == faults < MaxFaults /\ faults' = faults + 1

Idle == [pc |-> "idle", source |-> "upload", todo |-> {},
         view |-> [r \in RowIds |-> NoObject], expired |-> FALSE, row |-> 0,
         known |-> {}, found |-> {}, primary |-> NoObject,
         thumbnail |-> NoObject, moved |-> {}, changed |-> FALSE,
         hiccup |-> FALSE, news |-> {}]
Waiting == [row |-> 0, object |-> NoObject]

Locals ==
  [pc : {"idle", "migrate", "moved", "known", "register", "import", "create",
         "check", "drop"},
   source : {"upload", "file"}, todo : SUBSET RowIds,
   view : [RowIds -> Objects \cup {NoObject}], expired : BOOLEAN,
   row : RowIds \cup {0}, known : SUBSET Objects, found : SUBSET Objects,
   primary : Assets \cup {NoObject}, thumbnail : Images \cup {NoObject},
   moved : SUBSET Objects, changed : BOOLEAN, hiccup : BOOLEAN,
   news : SUBSET Objects]

TypeOK ==
  /\ place \in [Objects -> Folders \cup {"none", "gone"}]
  /\ rows \in [RowIds -> Row]
  /\ since \in [RowIds -> SUBSET Sweepers]
  /\ push \in [row : RowIds \cup {0}, object : Objects \cup {NoObject}]
  /\ sweep \in [Sweepers -> Locals]
  /\ shop \in BOOLEAN
  /\ unmarked \subseteq {"files", "shop"}
  /\ faults \in 0 .. MaxFaults
  /\ contested \subseteq Objects
  /\ reused \subseteq RowIds
  /\ cutShort \in BOOLEAN

\* The library may have an item from before file/ existed, with its file in a
\* nested folder.
Init ==
  /\ \E old \in Assets \cup {NoObject} :
       /\ place = [o \in Objects |-> IF o = old THEN "nested" ELSE "none"]
       /\ rows = [r \in RowIds |->
            IF r = 1 /\ old # NoObject
              THEN [item |-> 1, role |-> "primary", object |-> old,
                    folder |-> "nested"]
              ELSE NoRow]
  /\ since = [r \in RowIds |-> {}]
  /\ push = Waiting
  /\ sweep = [p \in Sweepers |-> Idle]
  /\ shop \in BOOLEAN
  /\ unmarked = {}
  /\ faults = 0
  /\ contested = {} /\ reused = {} /\ cutShort = FALSE

Running == {p \in Sweepers : sweep[p].pc # "idle"}

\* SQLite gives a new row the largest id in use plus one.
IsNewRow(n) == /\ n \in RowIds
               /\ \A r \in RowIds : Exists(r) => r < n
               /\ n > 1 => Exists(n - 1)
\* Items are told apart; which id a new one gets makes no difference here.
UnusedItems == RowIds \ {rows[r].item : r \in RowIds}
IsNewItem(i) == i \in UnusedItems /\ \A j \in UnusedItems : i <= j

\* Rows for the objects os are committed: note it for the sweeps that have
\* read the known ids and are about to list a folder.
Told(s, os) == IF s.pc = "known" THEN [s EXCEPT !.news = @ \cup os] ELSE s

Mark == unmarked' = {} /\ cutShort' = FALSE

\* The rows ids are new: note whether a sweep still has an older row of that id
\* on its list.
NoteReuse(ids) ==
  reused' = reused \cup
    {r \in ids : \E p \in Sweepers : r \in sweep[p].todo \cup {sweep[p].row}}

-----------------------------------------------------------------------------
(* The user and the rest of the app. *)

\* A file is dropped into upload/ by hand.
DropInUpload(o) ==
  /\ place[o] = "none"
  /\ place' = [place EXCEPT ![o] = "upload"]
  /\ UNCHANGED <<table, push, sweep, unmarked, faults, history>>

DeleteByHand(o) ==
  /\ OnDrive(o)
  /\ Fault
  /\ place' = [place EXCEPT ![o] = "gone"]
  /\ UNCHANGED <<table, push, sweep, unmarked, history>>

\* An item is created in the app; its file waits for the upload sync.  A quick
\* upload registers the shop of the imports, too.
CreateItem ==
  /\ \E n, i \in RowIds :
       /\ IsNewRow(n) /\ IsNewItem(i)
       /\ n + Spare <= MaxRow
       /\ rows' = [rows EXCEPT ![n] = [NoRow EXCEPT !.item = i]]
       /\ since' = [since EXCEPT ![n] = {}]
       /\ NoteReuse({n})
  /\ shop' \in {shop, TRUE}
  /\ Mark
  /\ UNCHANGED <<drive, push, sweep, contested>>

\* delete_item: the row goes whatever Drive answers for its files.
DeleteItem(i) ==
  LET gone == {r \in RowIds : rows[r].item = i}
      objects == {rows[r].object : r \in gone} \cap {o \in Objects : OnDrive(o)}
  IN /\ gone # {}
     /\ \E left \in SUBSET objects :
          /\ IF left = {} THEN UNCHANGED faults ELSE Fault
          /\ place' = [o \in Objects |->
                         IF o \in objects \ left THEN "gone" ELSE place[o]]
     /\ rows' = [r \in RowIds |-> IF r \in gone THEN NoRow ELSE rows[r]]
     /\ since' = [r \in RowIds |-> IF r \in gone THEN {} ELSE since[r]]
     /\ reused' = reused \ gone
     /\ Mark
     /\ UNCHANGED <<shop, push, sweep, contested>>

\* The upload sync, in outline: the object of a pending row appears in file/,
\* though its answer may be lost; then it is recorded.
Push(r, o) ==
  /\ push = Waiting
  /\ Exists(r) /\ ~Synced(r)
  /\ place[o] = "none"
  /\ place' = [place EXCEPT ![o] = "file"]
  /\ \/ push' = [row |-> r, object |-> o] /\ UNCHANGED faults
     \/ push' = Waiting /\ Fault
  /\ UNCHANGED <<table, sweep, unmarked, history>>

RecordPush ==
  /\ push # Waiting
  /\ IF Exists(push.row) /\ ~Synced(push.row)
       THEN /\ rows' = [rows EXCEPT ![push.row] =
                          [@ EXCEPT !.object = push.object, !.folder = "file"]]
            /\ since' = [since EXCEPT ![push.row] = Running]
            /\ sweep' = [p \in Sweepers |-> Told(sweep[p], {push.object})]
            /\ Mark
       ELSE UNCHANGED <<table, sweep, unmarked, cutShort>>
  /\ push' = Waiting
  /\ UNCHANGED <<drive, shop, contested, reused>>

-----------------------------------------------------------------------------
(* reconcile(): every action is a step of the sweep p. *)

\* What drive_file_id of a listed row reads as.
Loaded(p, r) == IF sweep[p].expired THEN rows[r].object ELSE sweep[p].view[r]

Goes(p, s) == sweep' = [sweep EXCEPT ![p] = s]

\* The sweep lists the rows ids, as objects of its session.
Seen(ids) == [r \in RowIds |-> IF r \in ids THEN rows[r].object ELSE NoObject]
ListRows(p, step, ids) ==
  Goes(p, [sweep[p] EXCEPT !.pc = step, !.todo = ids, !.expired = FALSE,
                           !.view = Seen(ids)])

\* It is through with the row r of its list.
Through(s, r, step) ==
  [s EXCEPT !.pc = step, !.todo = @ \ {r}, !.row = 0, !.hiccup = FALSE,
            !.view = [@ EXCEPT ![r] = NoObject]]

\* It has committed: what it has listed is read anew from now on.
Committed(s, r, step) ==
  [Through(s, r, step) EXCEPT !.changed = TRUE, !.expired = TRUE,
                              !.view = Idle.view]

\* Mutant: only the nested folders of the old layout are looked for.
ListNested(p) ==
  /\ sweep[p].pc = "idle"
  /\ ListRows(p, "migrate",
              {r \in RowIds : Synced(r) /\ rows[r].folder = "nested"})
  /\ UNCHANGED <<drive, table, push, unmarked, history>>

\* _migrate_legacy_files: the rows recorded in a folder other than file/.
ListLegacy(p) ==
  /\ sweep[p].pc = "idle"
  /\ ListRows(p, "migrate",
              {r \in RowIds : Synced(r) /\ rows[r].folder # "file"})
  /\ UNCHANGED <<drive, table, push, unmarked, history>>

\* A move that fails is logged and left to the next run; its answer may be lost.
MoveLegacy(p, r) ==
  LET o == Loaded(p, r) IN
  /\ sweep[p].pc = "migrate"
  /\ r \in sweep[p].todo
  /\ o # NoObject
  /\ \/ /\ OnDrive(o)
        /\ place' = [place EXCEPT ![o] = "file"]
        /\ \/ /\ Goes(p, [sweep[p] EXCEPT !.pc = "moved", !.row = r])
              /\ UNCHANGED faults
           \/ Goes(p, Through(sweep[p], r, "migrate")) /\ Fault
     \/ /\ OnDrive(o) => Fault
        /\ ~OnDrive(o) => UNCHANGED faults
        /\ Goes(p, Through(sweep[p], r, "migrate"))
        /\ UNCHANGED place
  /\ UNCHANGED <<table, push, unmarked, history>>

RecordMove(p) ==
  LET r == sweep[p].row IN
  /\ sweep[p].pc = "moved"
  /\ Exists(r)
  /\ rows' = [rows EXCEPT ![r].folder = "file"]
  /\ Goes(p, Committed(sweep[p], r, "migrate"))
  /\ unmarked' = unmarked \cup {"files"}
  /\ UNCHANGED <<drive, since, shop, push, history>>

NothingToImport(p) == sweep[p].found \cap Assets = {}

\* Mutant: the import of file/ goes by the ids read before that of upload/.
ReadKnownOnce(p) ==
  \/ /\ sweep[p].pc = "migrate" /\ sweep[p].todo = {}
     /\ Goes(p, [sweep[p] EXCEPT !.pc = "known", !.source = "upload",
                               !.known = ListedObjects])
     /\ UNCHANGED <<drive, table, push, unmarked, history>>
  \/ /\ sweep[p].pc = "import" /\ sweep[p].source = "upload"
     /\ NothingToImport(p)
     /\ Goes(p, [sweep[p] EXCEPT !.pc = "known", !.source = "file",
                               !.found = {}])
     /\ UNCHANGED <<drive, table, push, unmarked, history>>

\* Mutant: the folder file/ is not looked at.
ReadKnownUpload(p) ==
  /\ \/ /\ sweep[p].pc = "migrate" /\ sweep[p].todo = {}
        /\ Goes(p, [sweep[p] EXCEPT !.pc = "known", !.source = "upload",
                               !.known = ListedObjects])
     \/ /\ sweep[p].pc = "import" /\ sweep[p].source = "upload"
        /\ NothingToImport(p)
        /\ Goes(p, [sweep[p] EXCEPT !.source = "file", !.found = {}])
  /\ UNCHANGED <<drive, table, push, unmarked, history>>

\* _import_unknown_files, for upload/ and then for file/: first the ids the
\* table knows,
ReadKnown(p) ==
  /\ \/ /\ sweep[p].pc = "migrate" /\ sweep[p].todo = {}
        /\ Goes(p, [sweep[p] EXCEPT !.pc = "known", !.source = "upload",
                               !.known = ListedObjects])
     \/ /\ sweep[p].pc = "import" /\ sweep[p].source = "upload"
        /\ NothingToImport(p)
        /\ Goes(p, [sweep[p] EXCEPT !.pc = "known", !.source = "file",
                               !.found = {}, !.known = ListedObjects])
  /\ UNCHANGED <<drive, table, push, unmarked, history>>

\* An object that p is about to list as unknown is on its way into a row, or
\* has got one since p read the ids.
BeingRecorded(p, o) ==
  \/ o \in sweep[p].news
  \/ push.object = o
  \/ \E q \in Sweepers \ {p} : o \in sweep[q].found \cup sweep[q].moved

\* then the folder.
ListFolder(p) ==
  LET unknown == {o \in Objects : place[o] = sweep[p].source} \ sweep[p].known
      next == IF unknown = {} THEN "import" ELSE "register"
  IN
  /\ sweep[p].pc = "known"
  /\ Goes(p, [sweep[p] EXCEPT !.pc = next, !.known = {},
                           !.news = {}, !.found = unknown])
  /\ contested' = contested \cup {o \in unknown : BeingRecorded(p, o)}
  /\ UNCHANGED <<drive, table, push, unmarked, reused, cutShort>>

\* The shop of the new items is looked up or registered, in a commit of its own,
\* whatever the unknown files are; it does not count as an imported item.
RegisterShop(p) ==
  /\ sweep[p].pc = "register"
  /\ Goes(p, [sweep[p] EXCEPT !.pc = "import"])
  /\ shop' = TRUE
  /\ unmarked' = IF shop THEN unmarked ELSE unmarked \cup {"shop"}
  /\ UNCHANGED <<drive, rows, since, push, history>>

SiblingImages(p, o) == {g \in sweep[p].found \cap Images : Stem[g] = Stem[o]}

\* Mutant: the image of a group is its primary file.
MoveGroupAnyFile(p, o, g) ==
  /\ sweep[p].pc = "import"
  /\ o \in sweep[p].found \cap Assets
  /\ Goes(p, [sweep[p] EXCEPT !.pc = "create", !.primary = g])
  /\ UNCHANGED <<drive, table, push, unmarked, history>>

\* An asset and the image of the same stem are moved, each as well as it goes:
\* moves are those that took effect, told those that were reported.
MoveGroup(p, o, g) ==
  LET toMove == IF sweep[p].source = "file" THEN {} ELSE {o, g} \ {NoObject}
      there == {f \in toMove : OnDrive(f)}
  IN
  /\ sweep[p].pc = "import"
  /\ o \in sweep[p].found \cap Assets
  /\ IF SiblingImages(p, o) = {} THEN g = NoObject ELSE g \in SiblingImages(p, o)
  /\ \E moves \in SUBSET there : \E told \in SUBSET moves :
       /\ IF told = there THEN UNCHANGED faults ELSE Fault
       /\ place' = [f \in Objects |-> IF f \in moves THEN "file" ELSE place[f]]
       /\ Goes(p, [sweep[p] EXCEPT !.pc = "create", !.primary = o,
                                !.thumbnail = g, !.moved = told])
  /\ UNCHANGED <<table, push, unmarked, history>>

\* The folder that the sweep records for an object it has tried to move.
RecordedFolder(p, o) ==
  IF sweep[p].source = "file" \/ o \in sweep[p].moved THEN "file" ELSE "upload"

Imported(s) ==
  [s EXCEPT !.pc = "import", !.found = @ \ {s.primary},
            !.primary = NoObject, !.thumbnail = NoObject, !.moved = {}]

\* The new item with its rows, in one commit.
ImportItem(p) ==
  LET o == sweep[p].primary
      g == sweep[p].thumbnail
      NewRow(i, role, f) == [item |-> i, role |-> role, object |-> f,
                             folder |-> RecordedFolder(p, f)]
  IN /\ sweep[p].pc = "create"
     /\ \E n, i \in RowIds :
          LET ids == IF g = NoObject THEN {n} ELSE {n, n + 1}
          IN /\ IsNewRow(n) /\ IsNewItem(i)
             /\ ids \subseteq RowIds
             /\ rows' = [r \in RowIds |->
                   IF r = n THEN NewRow(i, "primary", o)
                   ELSE IF r \in ids THEN NewRow(i, "thumbnail", g) ELSE rows[r]]
             /\ since' = [r \in RowIds |-> IF r \in ids THEN Running ELSE since[r]]
             /\ NoteReuse(ids)
     /\ sweep' = [q \in Sweepers |->
          IF q = p THEN [Imported(sweep[p]) EXCEPT !.changed = TRUE]
                   ELSE Told(sweep[q], {o, g} \ {NoObject})]
     /\ unmarked' = unmarked \cup {"files"}
     /\ UNCHANGED <<drive, shop, push, contested, cutShort>>

\* An exception is rolled back and the sweep goes on with the next file.
ImportFails(p) ==
  /\ sweep[p].pc = "create"
  /\ Fault
  /\ Goes(p, Imported(sweep[p]))
  /\ UNCHANGED <<place, table, push, unmarked, history>>

\* Mutant: the rows are listed without a grace period.
ListSyncedNow(p) ==
  /\ sweep[p].pc = "import" /\ sweep[p].source = "file" /\ NothingToImport(p)
  /\ ListRows(p, "check", {r \in RowIds : Synced(r)})
  /\ UNCHANGED <<drive, table, push, unmarked, history>>

\* _remove_broken_references: rows synced before the grace period.  A sweep is
\* shorter than that, so none of the rows synced while it ran is among them.
ListSynced(p) ==
  /\ sweep[p].pc = "import" /\ sweep[p].source = "file" /\ NothingToImport(p)
  /\ \E ripe \in SUBSET {r \in RowIds : Synced(r) /\ since[r] = {}} :
       ListRows(p, "check", ripe)
  /\ UNCHANGED <<drive, table, push, unmarked, history>>

\* Mutant: a lookup that succeeds leads to the removal as well.
CheckObjectAlways(p, r) ==
  /\ sweep[p].pc = "check"
  /\ r \in sweep[p].todo
  /\ Loaded(p, r) # NoObject
  /\ Goes(p, [sweep[p] EXCEPT !.pc = "drop", !.row = r])
  /\ UNCHANGED <<drive, table, push, unmarked, history>>

\* get_metadata; it does not tell a missing object from a failing call.
CheckObject(p, r) ==
  LET o == Loaded(p, r) IN
  /\ sweep[p].pc = "check"
  /\ r \in sweep[p].todo
  /\ o # NoObject
  /\ \/ /\ OnDrive(o)
        /\ Goes(p, Through(sweep[p], r, "check"))
        /\ UNCHANGED faults
     \/ /\ IF OnDrive(o) THEN Fault ELSE UNCHANGED faults
        /\ Goes(p, [sweep[p] EXCEPT !.pc = "drop", !.row = r,
                                 !.hiccup = OnDrive(o)])
  /\ UNCHANGED <<place, table, push, unmarked, history>>

\* The row of that id is deleted, whichever it is by now.
DropReference(p) ==
  LET r == sweep[p].row IN
  /\ sweep[p].pc = "drop"
  /\ rows' = [rows EXCEPT ![r] = NoRow]
  /\ since' = [since EXCEPT ![r] = {}]
  /\ reused' = reused \ {r}
  /\ Goes(p, Committed(sweep[p], r, "check"))
  /\ unmarked' = IF Exists(r) THEN unmarked \cup {"files"} ELSE unmarked
  /\ UNCHANGED <<drive, shop, push, contested, cutShort>>

\* The sweep is over; rows synced while it ran may be old from now on.
Leave(p) ==
  /\ Goes(p, Idle)
  /\ since' = [r \in RowIds |-> since[r] \ {p}]
  /\ UNCHANGED <<rows, shop, push>>

\* Mutant: the database is marked for imported items only (here: never).
FinishUnmarked(p) ==
  /\ sweep[p].pc = "check" /\ sweep[p].todo = {}
  /\ Leave(p)
  /\ UNCHANGED <<drive, unmarked, history>>

Finish(p) ==
  /\ sweep[p].pc = "check" /\ sweep[p].todo = {}
  /\ Leave(p)
  /\ IF sweep[p].changed THEN Mark ELSE UNCHANGED <<unmarked, cutShort>>
  /\ UNCHANGED <<drive, contested, reused>>

\* Reading or updating a listed row that is gone raises, and so does a call
\* with the empty id of a row that waits for its push.
StaleRow(p) ==
  \/ /\ sweep[p].pc \in {"migrate", "check"}
     /\ \E r \in sweep[p].todo : Loaded(p, r) = NoObject
  \/ sweep[p].pc = "moved" /\ ~Exists(sweep[p].row)

\* An exception that is not a DriveError leaves reconcile() at once.
Raise(p) ==
  /\ \/ StaleRow(p) /\ UNCHANGED faults
     \/ sweep[p].pc \in {"migrate", "known", "register", "import", "check"} /\ Fault
  /\ Leave(p)
  /\ cutShort' = (cutShort \/ (sweep[p].changed /\ "files" \in unmarked))
  /\ UNCHANGED <<place, unmarked, contested, reused>>

Step(p) ==
  \/ \E r \in RowIds : MoveLegacy(p, r) \/ CheckObject(p, r)
  \/ RecordMove(p) \/ ReadKnown(p) \/ ListFolder(p) \/ RegisterShop(p)
  \/ \E o \in Assets, g \in Images \cup {NoObject} : MoveGroup(p, o, g)
  \/ ImportItem(p) \/ ImportFails(p)
  \/ ListSynced(p) \/ DropReference(p) \/ Finish(p) \/ Raise(p)

Next ==
  \/ \E o \in Objects : DropInUpload(o) \/ DeleteByHand(o)
  \/ CreateItem
  \/ \E i \in RowIds : DeleteItem(i)
  \/ \E r \in RowIds, o \in Objects : Push(r, o)
  \/ RecordPush
  \/ \E p \in Sweepers : ListLegacy(p) \/ Step(p)

Spec == Init /\ [][Next]_vars

\* reconcile_loop sweeps every five minutes and its thread goes on.  No request
\* and no push is owed a step.
Fairness == WF_vars(ListLegacy(Loop) \/ Step(Loop))

FairSpec == Spec /\ Fairness

-----------------------------------------------------------------------------
(* Properties. *)

\* Each Drive file is the primary file of one item: _import_unknown_files does
\* not import what a row lists already, whatever failed or was cut short
\* before, unless the file was being recorded while it was listed.
ImportedOnce ==
  \A o \in Objects \ contested : \A r, q \in RowIds :
    (Lists(r, o) /\ Lists(q, o) /\ rows[r].role = "primary"
       /\ rows[q].role = "primary") => r = q

\* What the docstring promises of the grace period: a reference that was
\* recorded while a sweep ran is not dropped by that sweep, whatever Drive
\* answers, unless the row took the id of one the sweep had listed.
GraceKept ==
  [][\A p \in Sweepers :
       DropReference(p) => p \notin since[sweep[p].row]
                             \/ sweep[p].row \in reused]_vars

\* Only what is missing on Drive is dropped: a reference is removed when its
\* object is gone, when its lookup failed, or when its row id was reused.
OnlyMissingDropped ==
  [][\A p \in Sweepers : \A r \in RowIds :
       (DropReference(p) /\ r = sweep[p].row /\ Exists(r)) =>
         \/ r \in reused
         \/ ~OnDrive(rows[r].object)
         \/ sweep[p].hiccup]_vars

\* Every row of item_files that a sweep adds, moves or deletes reaches a
\* mark_dirty (reconcile), unless the sweep raises.  The shop that it registers is
\* exempt: the next property is about it, too.
ChangesGetMarked ==
  "files" \in unmarked => cutShort \/ \E p \in Sweepers : sweep[p].changed

\* What the docstring of drive_sync_service says of every service: a local commit
\* is followed by mark_dirty.  When no sweep runs, nothing is unmarked but what a
\* sweep that raised has left.
EveryCommitIsMarked == Running = {} => unmarked = {} \/ cutShort

\* Self-healing (module docstring): an asset that is in upload/ or file/ on
\* Drive becomes the file of an item in the end, however it got there.  Nobody
\* has to ask for it: reconcile_loop alone is owed its steps, although the
\* repository's README has reconciliation run by the user only.
AssetsGetListed ==
  \A o \in Assets :
    (place[o] \in {"upload", "file"}) ~> (Listed(o) \/ place[o] = "gone")

\* The old layout is left behind: what a row lists ends up in file/, through the
\* loop alone again.
LegacyGetsMoved ==
  \A o \in Objects : (Listed(o) /\ OnDrive(o))
                       ~> (place[o] \in {"file", "gone"} \/ ~Listed(o))
=============================================================================
