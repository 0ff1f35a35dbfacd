------------------------ MODULE DriveReconcileProofs ------------------------
(***************************************************************************)
(* Proofs about DriveReconcile for all sweepers, files and bounds: no file *)
(* is imported twice unless it was being recorded while it was listed, the *)
(* grace period is kept, only missing references are dropped, and changes  *)
(* are marked.                                                             *)
(***************************************************************************)
EXTENDS DriveReconcile, TLAPS

\* The upload sync that has made an object knows its row.
PushInOrder == push = Waiting \/ push \in [row : RowIds, object : Objects]

\* A fault is counted.
LEMMA FaultTypes == ASSUME faults \in 0 .. MaxFaults, Fault PROVE faults' \in 0 .. MaxFaults
  BY BoundsAssumption DEF Fault

\* What the fields of a sweep's record hold.
LEMMA Fields ==
  ASSUME NEW s \in Locals
  PROVE  /\ s.todo \subseteq RowIds /\ s.row \in RowIds \cup {0}
         /\ s.found \subseteq Objects /\ s.primary \in Assets \cup {NoObject}
         /\ s.thumbnail \in Images \cup {NoObject}
         /\ s.view \in [RowIds -> Objects \cup {NoObject}]
         /\ s.source \in {"upload", "file"}
  BY DEF Locals

\* A sweep that goes on has a well typed record.
LEMMA Going ==
  ASSUME sweep \in [Sweepers -> Locals], NEW p \in Sweepers, NEW s \in Locals, Goes(p, s)
  PROVE  sweep' \in [Sweepers -> Locals]
  BY DEF Goes

\* A sweep that lists rows does, too.
LEMMA Listing ==
  ASSUME rows \in [RowIds -> Row], sweep \in [Sweepers -> Locals], NEW p \in Sweepers,
         NEW step \in {"migrate", "check"}, NEW ids \in SUBSET RowIds, ListRows(p, step, ids)
  PROVE  sweep' \in [Sweepers -> Locals]
<1>1. Seen(ids) \in [RowIds -> Objects \cup {NoObject}]
  BY DEF Seen, Row
<1>2. ASSUME NEW s \in Locals
      PROVE  [s EXCEPT !.pc = step, !.todo = ids, !.expired = FALSE, !.view = Seen(ids)] \in Locals
  BY <1>1 DEF Locals
<1> QED
  BY <1>2, Going DEF ListRows

\* So does one that is through with a row, with or without a commit.
LEMMA GoingThrough ==
  ASSUME NEW s \in Locals, NEW r \in RowIds \cup {0}, NEW step \in {"migrate", "check"}
  PROVE  Through(s, r, step) \in Locals /\ Committed(s, r, step) \in Locals
<1>1. [s.view EXCEPT ![r] = NoObject] \in [RowIds -> Objects \cup {NoObject}]
  BY Fields
<1>2. Idle.view \in [RowIds -> Objects \cup {NoObject}]
  BY DEF Idle
<1>3. ASSUME NEW t \in Locals PROVE [t EXCEPT !.changed = TRUE, !.expired = TRUE, !.view = Idle.view] \in Locals
  BY <1>2 DEF Locals
<1>4. Through(s, r, step) \in Locals
  BY <1>1 DEF Through, Locals
<1> QED
  BY <1>3, <1>4 DEF Committed

\* A sweep at rest.
LEMMA IdleLocals == Idle \in Locals
  BY DEF Idle, Locals

\* A sweep that has imported an object.
LEMMA ImportedLocals ==
  ASSUME NEW s \in Locals
  PROVE  Imported(s) \in Locals
  BY DEF Imported, Locals

\* A sweep that is told of objects.
LEMMA ToldLocals ==
  ASSUME NEW s \in Locals, NEW os \in SUBSET Objects
  PROVE  Told(s, os) \in Locals
  BY DEF Told, Locals

\* A sweep that is told of objects only takes note of them.
LEMMA ToldFields ==
  ASSUME NEW s \in Locals, NEW os \in SUBSET Objects
  PROVE  LET t == Told(s, os) IN
         /\ t.pc = s.pc /\ t.found = s.found /\ t.known = s.known
         /\ t.primary = s.primary /\ t.thumbnail = s.thumbnail
         /\ t.todo = s.todo /\ t.row = s.row /\ t.view = s.view
         /\ t.expired = s.expired /\ t.hiccup = s.hiccup /\ t.changed = s.changed
         /\ t.pc = "known" => t.news = s.news \cup os
  BY DEF Told, Locals

\* Going on, a sweep disturbs no other.
LEMMA GoesTo ==
  ASSUME sweep \in [Sweepers -> Locals], NEW p \in Sweepers, NEW s, Goes(p, s)
  PROVE  sweep'[p] = s /\ \A q \in Sweepers \ {p} : sweep'[q] = sweep[q]
  BY DEF Goes

\* What a sweep knows that has just listed rows.
LEMMA ListedFields ==
  ASSUME sweep \in [Sweepers -> Locals], NEW p \in Sweepers,
         NEW step \in {"migrate", "check"}, NEW ids \in SUBSET RowIds, ListRows(p, step, ids)
  PROVE  /\ sweep'[p].pc = step /\ sweep'[p].found = sweep[p].found
         /\ sweep'[p].todo = ids /\ sweep'[p].changed = sweep[p].changed
         /\ sweep'[p].view = Seen(ids)
         /\ \A q \in Sweepers \ {p} : sweep'[q] = sweep[q]
<1>1. /\ sweep'[p] = [sweep[p] EXCEPT !.pc = step, !.todo = ids, !.expired = FALSE,
                                    !.view = Seen(ids)]
      /\ \A q \in Sweepers \ {p} : sweep'[q] = sweep[q]
  BY GoesTo DEF ListRows
<1>2. sweep[p] \in Locals
  OBVIOUS
<1> QED
  BY <1>1, <1>2 DEF Locals

\* Being through with a row, a sweep keeps what it has found.
LEMMA ThroughFields ==
  ASSUME NEW s \in Locals, NEW r \in RowIds \cup {0}, NEW step \in {"migrate", "check"}
  PROVE  /\ Through(s, r, step).pc = step
         /\ Through(s, r, step).found = s.found
         /\ Through(s, r, step).expired = s.expired
         /\ Through(s, r, step).changed = s.changed
  BY DEF Through, Locals

\* The other rows stay on its list, as it has read them.
LEMMA ThroughList ==
  ASSUME NEW s \in Locals, NEW r \in RowIds \cup {0}, NEW step \in {"migrate", "check"},
         NEW q \in RowIds
  PROVE  /\ q \in Through(s, r, step).todo <=> q \in s.todo /\ q # r
         /\ q # r => Through(s, r, step).view[q] = s.view[q]
  BY DEF Through, Locals

\* After a commit its copies of the rows have expired.
LEMMA CommittedFields ==
  ASSUME NEW s \in Locals, NEW r \in RowIds \cup {0}, NEW step \in {"migrate", "check"}
  PROVE  /\ Committed(s, r, step).pc = step
         /\ Committed(s, r, step).found = s.found
         /\ Committed(s, r, step).expired
         /\ Committed(s, r, step).changed
  BY DEF Committed, Through, Locals

\* The other rows stay on its list.
LEMMA CommittedList ==
  ASSUME NEW s \in Locals, NEW r \in RowIds \cup {0}, NEW step \in {"migrate", "check"},
         NEW q \in RowIds
  PROVE  q \in Committed(s, r, step).todo <=> q \in s.todo /\ q # r
  BY DEF Committed, Through, Locals

\* An imported object is no longer among those it is to import.
LEMMA ImportedFields ==
  ASSUME NEW s \in Locals
  PROVE  /\ Imported(s).pc = "import"
         /\ Imported(s).found = s.found \ {s.primary}
         /\ Imported(s).changed = s.changed
  BY DEF Imported, Locals

\* At the start nothing is being pushed.
LEMMA InitTypes == Init => TypeOK /\ PushInOrder
<1>1. ASSUME Init PROVE sweep \in [Sweepers -> Locals]
  BY <1>1, IdleLocals DEF Init
<1>2. ASSUME Init PROVE rows \in [RowIds -> Row]
  BY <1>2 DEF Init, Row, NoRow, Objects, Folders, RowIds
<1>3. ASSUME Init PROVE place \in [Objects -> Folders \cup {"none", "gone"}]
  BY <1>3 DEF Init, Objects, Folders
<1>4. ASSUME Init PROVE since \in [RowIds -> SUBSET Sweepers] /\ faults \in 0 .. MaxFaults
  BY <1>4, BoundsAssumption DEF Init
<1>5. ASSUME Init
      PROVE  /\ push \in [row : RowIds \cup {0}, object : Objects \cup {NoObject}]
             /\ PushInOrder
  BY <1>5 DEF Init, PushInOrder, Waiting
<1> QED
  BY <1>1, <1>2, <1>3, <1>4, <1>5 DEF Init, TypeOK

-----------------------------------------------------------------------------
\* The actions of the user and of the rest of the app keep the types.
LEMMA AppTypes ==
  ASSUME TypeOK, PushInOrder,
         \/ \E o \in Objects : DropInUpload(o) \/ DeleteByHand(o)
         \/ CreateItem
         \/ \E i \in RowIds : DeleteItem(i)
         \/ \E r \in RowIds, o \in Objects : Push(r, o)
         \/ RecordPush
  PROVE  TypeOK' /\ PushInOrder'
<1>1. ASSUME NEW o \in Objects, DropInUpload(o) \/ DeleteByHand(o)
      PROVE  TypeOK' /\ PushInOrder'
  BY <1>1, FaultTypes DEF TypeOK, PushInOrder, Waiting, DropInUpload, DeleteByHand, Folders,
     table, history
<1>2. ASSUME CreateItem PROVE TypeOK' /\ PushInOrder'
  <2>1. ASSUME NEW i \in RowIds PROVE [NoRow EXCEPT !.item = i] \in Row
    BY DEF NoRow, Row
  <2>2. rows' \in [RowIds -> Row] /\ since' \in [RowIds -> SUBSET Sweepers] /\ reused' \subseteq RowIds
    BY <1>2, <2>1 DEF TypeOK, CreateItem, NoteReuse
  <2> QED
    BY <1>2, <2>2 DEF TypeOK, PushInOrder, CreateItem, Mark, drive
<1>3. ASSUME NEW i \in RowIds, DeleteItem(i) PROVE TypeOK' /\ PushInOrder'
  <2>1. NoRow \in Row
    BY DEF NoRow, Row
  <2>2. rows' \in [RowIds -> Row] /\ since' \in [RowIds -> SUBSET Sweepers] /\ reused' \subseteq RowIds
    BY <1>3, <2>1 DEF TypeOK, DeleteItem
  <2>3. place' \in [Objects -> Folders \cup {"none", "gone"}] /\ faults' \in 0 .. MaxFaults
    BY <1>3, FaultTypes DEF TypeOK, DeleteItem
  <2> QED
    BY <1>3, <2>2, <2>3 DEF TypeOK, PushInOrder, DeleteItem, Mark
<1>4. ASSUME NEW r \in RowIds, NEW o \in Objects, Push(r, o) PROVE TypeOK' /\ PushInOrder'
  BY <1>4, FaultTypes DEF TypeOK, PushInOrder, Waiting, Push, Folders, table, history
<1>5. ASSUME RecordPush PROVE TypeOK' /\ PushInOrder'
  <2>1. push.row \in RowIds /\ push.object \in Objects
    BY <1>5 DEF RecordPush, PushInOrder
  <2>2. sweep' \in [Sweepers -> Locals]
    BY <1>5, <2>1, ToldLocals DEF TypeOK, RecordPush
  <2>3. rows' \in [RowIds -> Row] /\ since' \in [RowIds -> SUBSET Sweepers]
    <3>1. ASSUME NEW x \in Row PROVE [x EXCEPT !.object = push.object, !.folder = "file"] \in Row
      BY <2>1 DEF Row, Folders
    <3>2. [rows[push.row] EXCEPT !.object = push.object, !.folder = "file"] \in Row
      BY <2>1, <3>1 DEF TypeOK
    <3>3. rows' \in [RowIds -> Row]
      BY <1>5, <3>2 DEF TypeOK, RecordPush, table
    <3> QED
      BY <1>5, <3>3 DEF TypeOK, RecordPush, Running, table
  <2> QED
    BY <1>5, <2>2, <2>3 DEF TypeOK, PushInOrder, Waiting, RecordPush, Mark, drive
<1> QED
  BY <1>1, <1>2, <1>3, <1>4, <1>5

\* A sweep that goes on leaves the rest of the types to its action.
LEMMA SweepTypes ==
  ASSUME TypeOK, PushInOrder, NEW p \in Sweepers, ListLegacy(p) \/ Step(p)
  PROVE  TypeOK' /\ PushInOrder'
<1> DEFINE S == sweep[p]
<1>0. S \in Locals
  BY DEF TypeOK
<1>1. ASSUME ListLegacy(p) PROVE TypeOK' /\ PushInOrder'
  BY <1>1, Listing DEF TypeOK, PushInOrder, Waiting, ListLegacy, drive, table, history
<1>2. ASSUME NEW r \in RowIds, MoveLegacy(p, r) PROVE TypeOK' /\ PushInOrder'
  <2>0. Through(S, r, "migrate") \in Locals
    BY <1>0, GoingThrough
  <2>1. [S EXCEPT !.pc = "moved", !.row = r] \in Locals
    BY <1>0 DEF Locals
  <2>2. sweep' \in [Sweepers -> Locals]
    BY <1>2, <2>0, <2>1, Going DEF MoveLegacy, TypeOK
  <2> QED
    BY <1>2, <2>2, FaultTypes DEF TypeOK, PushInOrder, MoveLegacy, Folders, table, history
<1>3. ASSUME NEW r \in RowIds, CheckObject(p, r) PROVE TypeOK' /\ PushInOrder'
  <2>1. ASSUME NEW h \in BOOLEAN PROVE [S EXCEPT !.pc = "drop", !.row = r, !.hiccup = h] \in Locals
    BY <1>0 DEF Locals
  <2>2. sweep' \in [Sweepers -> Locals]
    BY <1>0, <1>3, <2>1, Going, GoingThrough DEF CheckObject, TypeOK, OnDrive
  <2> QED
    BY <1>3, <2>2, FaultTypes DEF TypeOK, PushInOrder, CheckObject, table, history
<1>4. ASSUME RecordMove(p) PROVE TypeOK' /\ PushInOrder'
  <2>1. S.row \in RowIds \cup {0}
    BY <1>0, Fields
  <2>2. sweep' \in [Sweepers -> Locals]
    BY <1>0, <1>4, <2>1, Going, GoingThrough DEF RecordMove, TypeOK
  <2>3. ASSUME NEW x \in Row PROVE [x EXCEPT !.folder = "file"] \in Row
    BY DEF Row, Folders
  <2>4. rows' \in [RowIds -> Row]
    BY <1>4, <2>1, <2>3 DEF TypeOK, RecordMove
  <2> QED
    BY <1>4, <2>2, <2>4 DEF TypeOK, PushInOrder, RecordMove, drive, history
<1>5. ASSUME ReadKnown(p) PROVE TypeOK' /\ PushInOrder'
  <2>1. ASSUME NEW known \in SUBSET Objects, NEW source \in {"upload", "file"}
        PROVE  /\ [S EXCEPT !.pc = "known", !.source = source, !.known = known] \in Locals
               /\ [S EXCEPT !.pc = "known", !.source = source, !.found = {}, !.known = known] \in Locals
    BY <1>0 DEF Locals
  <2>2. ListedObjects \in SUBSET Objects
    BY DEF ListedObjects
  <2>3. sweep' \in [Sweepers -> Locals]
    BY <1>5, <2>1, <2>2, Going DEF ReadKnown, TypeOK
  <2> QED
    BY <1>5, <2>3 DEF TypeOK, PushInOrder, ReadKnown, drive, table, history
<1>6. ASSUME ListFolder(p) PROVE TypeOK' /\ PushInOrder'
  <2>1. ASSUME NEW next \in {"import", "register"}, NEW unknown \in SUBSET Objects
        PROVE  [S EXCEPT !.pc = next, !.known = {}, !.news = {}, !.found = unknown] \in Locals
    BY <1>0 DEF Locals
  <2>2. sweep' \in [Sweepers -> Locals] /\ contested' \subseteq Objects
    BY <1>6, <2>1, Going DEF ListFolder, TypeOK
  <2> QED
    BY <1>6, <2>2 DEF TypeOK, PushInOrder, ListFolder, drive, table
<1>7. ASSUME NEW o \in Assets, NEW g \in Images \cup {NoObject}, MoveGroup(p, o, g)
      PROVE  TypeOK' /\ PushInOrder'
  <2>1. ASSUME NEW told \in SUBSET Objects
        PROVE  [S EXCEPT !.pc = "create", !.primary = o, !.thumbnail = g, !.moved = told] \in Locals
    BY <1>0 DEF Locals
  <2>2. sweep' \in [Sweepers -> Locals]
    BY <1>7, <2>1, Going DEF MoveGroup, TypeOK, OnDrive
  <2>3. place' \in [Objects -> Folders \cup {"none", "gone"}] /\ faults' \in 0 .. MaxFaults
    BY <1>7, FaultTypes DEF TypeOK, MoveGroup, Folders
  <2> QED
    BY <1>7, <2>2, <2>3 DEF TypeOK, PushInOrder, MoveGroup, table, history
<1>8. ASSUME ImportItem(p) PROVE TypeOK' /\ PushInOrder'
  <2>1. S.primary \in Objects \cup {NoObject} /\ S.thumbnail \in Objects \cup {NoObject}
    BY <1>0, Fields DEF Objects
  <2>2. ASSUME NEW i \in RowIds, NEW role \in {"primary", "thumbnail"}, NEW o \in Objects \cup {NoObject}
        PROVE  [item |-> i, role |-> role, object |-> o, folder |-> RecordedFolder(p, o)] \in Row
    BY DEF RecordedFolder, Row, Folders
  <2>3. rows' \in [RowIds -> Row] /\ since' \in [RowIds -> SUBSET Sweepers] /\ reused' \subseteq RowIds
    BY <1>8, <2>1, <2>2 DEF TypeOK, ImportItem, Running, NoteReuse
  <2>4. ASSUME NEW s \in Locals PROVE [Imported(s) EXCEPT !.changed = TRUE] \in Locals
    <3>1. ASSUME NEW t \in Locals PROVE [t EXCEPT !.changed = TRUE] \in Locals
      BY DEF Locals
    <3> QED
      BY <3>1, ImportedLocals
  <2>5. {S.primary, S.thumbnail} \ {NoObject} \in SUBSET Objects
    BY <2>1
  <2>6. sweep' \in [Sweepers -> Locals]
    BY <1>8, <2>4, <2>5, ToldLocals DEF TypeOK, ImportItem
  <2> QED
    BY <1>8, <2>3, <2>6 DEF TypeOK, PushInOrder, ImportItem, drive
<1>9. ASSUME ImportFails(p) PROVE TypeOK' /\ PushInOrder'
  BY <1>0, <1>9, FaultTypes, Going, ImportedLocals DEF TypeOK, PushInOrder, ImportFails, table, history
<1>10. ASSUME ListSynced(p) PROVE TypeOK' /\ PushInOrder'
  BY <1>10, Listing DEF TypeOK, PushInOrder, ListSynced, drive, table, history
<1>11. ASSUME DropReference(p) PROVE TypeOK' /\ PushInOrder'
  <2>1. sweep' \in [Sweepers -> Locals]
    BY <1>0, <1>11, Fields, Going, GoingThrough DEF DropReference, TypeOK
  <2>2. rows' \in [RowIds -> Row] /\ since' \in [RowIds -> SUBSET Sweepers]
    BY <1>11 DEF TypeOK, DropReference, NoRow, Row, Folders
  <2> QED
    BY <1>11, <2>1, <2>2 DEF TypeOK, PushInOrder, DropReference, drive
<1>12. ASSUME Finish(p) \/ Raise(p) PROVE TypeOK' /\ PushInOrder'
  <2>1. sweep' \in [Sweepers -> Locals] /\ since' \in [RowIds -> SUBSET Sweepers]
    BY <1>12, Going, IdleLocals DEF Finish, Raise, Leave, TypeOK
  <2> QED
    BY <1>12, <2>1, FaultTypes DEF TypeOK, PushInOrder, Finish, Raise, Leave, Mark, drive
<1>13. ASSUME RegisterShop(p) PROVE TypeOK' /\ PushInOrder'
  <2>1. [S EXCEPT !.pc = "import"] \in Locals
    BY <1>0 DEF Locals
  <2>2. sweep' \in [Sweepers -> Locals]
    BY <1>13, <2>1, Going DEF RegisterShop, TypeOK
  <2> QED
    BY <1>13, <2>2 DEF TypeOK, PushInOrder, RegisterShop, drive, history
<1> QED
  BY <1>1, <1>2, <1>3, <1>4, <1>5, <1>6, <1>7, <1>8, <1>9, <1>10, <1>11, <1>12, <1>13 DEF Step

-----------------------------------------------------------------------------
(* What keeps an object from being imported twice. *)

IsPrimary(r, o) == Lists(r, o) /\ rows[r].role = "primary"
Holds(p, o) == o \in sweep[p].found \cap Assets

\* An object that nobody recorded while it was listed has one owner: a row, the
\* push that has made it, or the sweep that is going to import it.
OneOwner ==
  \A o \in Objects \ contested :
    /\ \A r, q \in RowIds : IsPrimary(r, o) /\ IsPrimary(q, o) => r = q
    /\ push.object = o => /\ \A r \in RowIds : ~IsPrimary(r, o)
                          /\ \A p \in Sweepers : ~Holds(p, o)
    /\ \A p \in Sweepers : Holds(p, o) =>
         /\ \A r \in RowIds : ~IsPrimary(r, o)
         /\ \A q \in Sweepers : Holds(q, o) => q = p

\* What anyone knows of has been on Drive.
Appeared ==
  \A o \in Objects :
    Listed(o) \/ push.object = o \/ (\E p \in Sweepers : o \in sweep[p].found)
      => place[o] # "none"

\* A sweep that is about to list a folder has read, or has been told of, every
\* object that a row lists.
Knows(p) ==
  sweep[p].pc = "known" =>
    \A r \in RowIds : Synced(r) => rows[r].object \in sweep[p].known \cup sweep[p].news

\* What a sweep imports is among what it has found.
Groups(p) ==
  sweep[p].pc = "create" =>
    /\ sweep[p].primary \in sweep[p].found \cap Assets
    /\ sweep[p].thumbnail \in sweep[p].found \cup {NoObject}

Owners ==
  /\ OneOwner
  /\ Appeared
  /\ \A p \in Sweepers : Knows(p) /\ Groups(p)

\* A step after which rows and sweeps hold no object that they did not hold.
Shrinks ==
  /\ \A r \in RowIds : rows'[r].object # NoObject =>
       rows'[r].object = rows[r].object /\ rows'[r].role = rows[r].role
  /\ push' \in {push, Waiting}
  /\ \A q \in Sweepers : sweep'[q].found \subseteq sweep[q].found
  /\ contested' = contested
  /\ \A o \in Objects : place[o] # "none" => place'[o] # "none"

\* When nobody gets hold of an object, each still has one owner at most.
LEMMA ShrinkOwners ==
  ASSUME Owners, Shrinks PROVE OneOwner' /\ Appeared'
<1>1. ASSUME NEW r \in RowIds, NEW o \in Objects
      PROVE  /\ Lists(r, o)' => Lists(r, o)
             /\ IsPrimary(r, o)' => IsPrimary(r, o)
  BY <1>1, ObjectsAssumption DEF Shrinks, Lists, IsPrimary
<1>2. ASSUME NEW q \in Sweepers, NEW o \in Objects PROVE Holds(q, o)' => Holds(q, o)
  BY <1>2 DEF Shrinks, Holds
<1>3. ASSUME NEW o \in Objects PROVE push'.object = o => push.object = o
  BY <1>3, ObjectsAssumption DEF Shrinks, Waiting
<1>4. OneOwner'
  BY <1>1, <1>2, <1>3 DEF Owners, OneOwner, Shrinks
<1>5. Appeared'
  BY <1>1, <1>3 DEF Owners, Appeared, Listed, Shrinks
<1> QED
  BY <1>4, <1>5

\* Nor has a sweep that stands still anything new to know.
LEMMA ShrinkKnows ==
  ASSUME Owners, Shrinks, NEW q \in Sweepers, sweep'[q] = sweep[q]
  PROVE  Knows(q)' /\ Groups(q)'
  BY DEF Owners, Shrinks, Knows, Groups, Synced

\* A step of the application that shrinks what is held keeps the owners.
LEMMA NobodyMoves ==
  ASSUME Owners, Shrinks, sweep' = sweep
  PROVE  Owners'
  BY ShrinkOwners, ShrinkKnows DEF Owners

\* So does a step of one sweep, with what the sweep itself has to know then.
LEMMA OneMoves ==
  ASSUME Owners, Shrinks, NEW p \in Sweepers, \A q \in Sweepers \ {p} : sweep'[q] = sweep[q],
         sweep'[p].pc = "known" => Knows(p)', sweep'[p].pc = "create" => Groups(p)'
  PROVE  Owners'
<1>1. Knows(p)' /\ Groups(p)'
  BY DEF Knows, Groups
<1> QED
  BY <1>1, ShrinkOwners, ShrinkKnows DEF Owners

\* The actions of the user and of the rest of the app.
LEMMA AppOwners ==
  ASSUME TypeOK, PushInOrder, Owners,
         \/ \E o \in Objects : DropInUpload(o) \/ DeleteByHand(o)
         \/ CreateItem
         \/ \E i \in RowIds : DeleteItem(i)
         \/ \E r \in RowIds, o \in Objects : Push(r, o)
         \/ RecordPush
  PROVE  Owners'
<1>1. ASSUME NEW o \in Objects, DropInUpload(o) \/ DeleteByHand(o) PROVE Owners'
  <2>1. Shrinks /\ sweep' = sweep
    BY <1>1 DEF DropInUpload, DeleteByHand, Shrinks, TypeOK, table, history
  <2> QED
    BY <2>1, NobodyMoves
<1>2. ASSUME CreateItem PROVE Owners'
  <2>1. Shrinks /\ sweep' = sweep
    BY <1>2 DEF CreateItem, NoRow, Shrinks, TypeOK, drive
  <2> QED
    BY <2>1, NobodyMoves
<1>3. ASSUME NEW i \in RowIds, DeleteItem(i) PROVE Owners'
  <2>1. Shrinks /\ sweep' = sweep
    BY <1>3 DEF DeleteItem, NoRow, Shrinks, TypeOK
  <2> QED
    BY <2>1, NobodyMoves
<1>4. ASSUME NEW r \in RowIds, NEW o \in Objects, Push(r, o) PROVE Owners'
  <2>1. CASE push' = Waiting
    <3>1. Shrinks /\ sweep' = sweep
      BY <1>4, <2>1 DEF Push, Shrinks, TypeOK, table, history
    <3> QED
      BY <3>1, NobodyMoves
  <2>2. CASE push' = [row |-> r, object |-> o]
    <3>1. /\ ~Listed(o) /\ push = Waiting
          /\ \A q \in Sweepers : o \notin sweep[q].found
      BY <1>4 DEF Push, Owners, Appeared
    <3>2. UNCHANGED <<rows, sweep, contested>> /\ place' = [place EXCEPT ![o] = "file"]
      BY <1>4 DEF Push, table, history
    <3>3. OneOwner'
      BY <2>2, <3>1, <3>2, ObjectsAssumption
      DEF Owners, OneOwner, IsPrimary, Lists, Listed, Holds, Waiting
    <3>4. Appeared'
      BY <2>2, <3>1, <3>2 DEF Owners, Appeared, Listed, Lists, TypeOK
    <3>5. \A q \in Sweepers : Knows(q)' /\ Groups(q)'
      BY <3>2 DEF Owners, Knows, Groups, Synced
    <3> QED
      BY <3>3, <3>4, <3>5 DEF Owners
  <2> QED
    BY <1>4, <2>1, <2>2 DEF Push
<1>5. ASSUME RecordPush PROVE Owners'
  <2> DEFINE R == push.row
             O == push.object
  <2>0. R \in RowIds /\ O \in Objects
    BY <1>5 DEF RecordPush, PushInOrder
  <2>1. CASE ~(Exists(R) /\ ~Synced(R))
    <3>1. Shrinks /\ sweep' = sweep
      BY <1>5, <2>1 DEF RecordPush, Shrinks, drive, table
    <3> QED
      BY <3>1, NobodyMoves
  <2>2. CASE Exists(R) /\ ~Synced(R)
    <3>1. /\ rows' = [rows EXCEPT ![R] = [@ EXCEPT !.object = O, !.folder = "file"]]
          /\ sweep' = [q \in Sweepers |-> Told(sweep[q], {O})]
          /\ push' = Waiting /\ UNCHANGED <<place, contested>>
      BY <1>5, <2>2 DEF RecordPush, drive
    <3>2. \A r \in RowIds : /\ rows'[r].object = IF r = R THEN O ELSE rows[r].object
                            /\ rows'[r].role = rows[r].role
      <4>1. ASSUME NEW x \in Row
            PROVE  LET y == [x EXCEPT !.object = O, !.folder = "file"]
                   IN y.object = O /\ y.role = x.role
        BY DEF Row
      <4> DEFINE y == [rows[R] EXCEPT !.object = O, !.folder = "file"]
      <4>2. y.object = O /\ y.role = rows[R].role
        BY <2>0, <4>1 DEF TypeOK
      <4>3. rows' = [rows EXCEPT ![R] = y] /\ R \in DOMAIN rows
        BY <2>0, <3>1 DEF TypeOK
      <4> HIDE DEF y, O, R
      <4> QED
        BY <4>2, <4>3 DEF TypeOK
    <3>3. \A q \in Sweepers : /\ sweep'[q].found = sweep[q].found
                              /\ sweep'[q].pc = sweep[q].pc
                              /\ sweep'[q].known = sweep[q].known
                              /\ sweep'[q].primary = sweep[q].primary
                              /\ sweep'[q].thumbnail = sweep[q].thumbnail
                              /\ sweep'[q].pc = "known" => sweep'[q].news = sweep[q].news \cup {O}
      <4>1. {O} \in SUBSET Objects
        BY <2>0
      <4> HIDE DEF O
      <4> QED
        BY <3>1, <4>1, ToldFields DEF TypeOK
    <3>4. \A r \in RowIds, o \in Objects : IsPrimary(r, o)' => IsPrimary(r, o) \/ (r = R /\ o = O)
      BY <3>2 DEF IsPrimary, Lists
    <3>5. OneOwner'
      <4>1. \A q \in Sweepers, o \in Objects : Holds(q, o)' <=> Holds(q, o)
        BY <3>3 DEF Holds
      <4>2. \A o \in Objects : push'.object # o
        BY <3>1, ObjectsAssumption DEF Waiting
      <4>3. O \notin contested => /\ \A r \in RowIds : ~IsPrimary(r, O)
                                 /\ \A q \in Sweepers : ~Holds(q, O)
        BY <2>0 DEF Owners, OneOwner
      <4> HIDE DEF O, R
      <4> QED
        BY <3>1, <3>4, <4>1, <4>2, <4>3 DEF Owners, OneOwner
    <3>6. Appeared'
      <4>1. ASSUME NEW o \in Objects, Listed(o)' PROVE Listed(o) \/ o = O
        BY <3>2, <4>1 DEF Listed, Lists
      <4>2. \A o \in Objects : push'.object # o
        BY <3>1, ObjectsAssumption DEF Waiting
      <4> QED
        BY <3>1, <3>3, <4>1, <4>2 DEF Owners, Appeared
    <3>7. \A q \in Sweepers : Knows(q)' /\ Groups(q)'
      BY <3>2, <3>3 DEF Owners, Knows, Groups, Synced
    <3> QED
      BY <3>5, <3>6, <3>7 DEF Owners
  <2> QED
    BY <2>1, <2>2
<1> QED
  BY <1>1, <1>2, <1>3, <1>4, <1>5

\* What a sweep finds is listed by no row and recorded by nobody, or contested.
LEMMA ListFolderOwners ==
  ASSUME TypeOK, Owners, NEW p \in Sweepers, ListFolder(p)
  PROVE  Owners'
<1> DEFINE S == sweep[p]
           unknown == {o \in Objects : place[o] = S.source} \ S.known
           next == IF unknown = {} THEN "import" ELSE "register"
<1>0. S \in Locals /\ sweep \in [Sweepers -> Locals]
  BY DEF TypeOK
<1>1. /\ sweep'[p] = [S EXCEPT !.pc = next, !.known = {}, !.news = {}, !.found = unknown]
      /\ \A q \in Sweepers \ {p} : sweep'[q] = sweep[q]
  BY <1>0, GoesTo DEF ListFolder
<1>2. sweep'[p].pc \in {"import", "register"} /\ sweep'[p].found = unknown
  BY <1>0, <1>1 DEF Locals
<1>3. /\ UNCHANGED <<rows, place, push>>
      /\ contested' = contested \cup {o \in unknown : BeingRecorded(p, o)}
  BY DEF ListFolder, drive, table
<1>4. ASSUME NEW o \in unknown, NEW r \in RowIds, o \notin contested' PROVE ~Lists(r, o)
  <2>1. o \notin S.known \cup S.news
    BY <1>3, <1>4 DEF BeingRecorded
  <2> QED
    BY <2>1, ObjectsAssumption DEF Owners, Knows, Synced, Lists, ListFolder
<1>5. ASSUME NEW o \in unknown, o \notin contested'
      PROVE  push.object # o /\ \A q \in Sweepers \ {p} : o \notin sweep[q].found
  BY <1>3, <1>5 DEF BeingRecorded
<1>6. \A q \in Sweepers, o \in Objects :
        /\ Holds(q, o)' => IF q = p THEN o \in unknown ELSE Holds(q, o)
        /\ Holds(q, o) /\ q # p => o \in sweep[q].found
  BY <1>1, <1>2 DEF Holds
<1>7. \A r \in RowIds, o \in Objects : /\ IsPrimary(r, o)' <=> IsPrimary(r, o)
                                       /\ IsPrimary(r, o) => Lists(r, o)
  BY <1>3 DEF IsPrimary, Lists
<1>8. OneOwner'
  <2> HIDE DEF unknown
  <2> QED
    BY <1>3, <1>4, <1>5, <1>6, <1>7 DEF Owners, OneOwner
<1>9. Appeared'
  <2>1. \A o \in unknown : place[o] # "none"
    BY <1>0, Fields
  <2>2. \A o \in Objects : Listed(o)' <=> Listed(o)
    BY <1>3 DEF Listed, Lists
  <2> HIDE DEF unknown
  <2> QED
    BY <1>1, <1>2, <1>3, <2>1, <2>2 DEF Owners, Appeared
<1>10. \A q \in Sweepers : Knows(q)' /\ Groups(q)'
  BY <1>1, <1>2, <1>3 DEF Owners, Knows, Groups, Synced
<1> QED
  BY <1>8, <1>9, <1>10 DEF Owners

\* What a sweep imports was its own, and is now the new row's.
LEMMA ImportOwners ==
  ASSUME TypeOK, Owners, NEW p \in Sweepers, ImportItem(p)
  PROVE  Owners'
<1> DEFINE S == sweep[p]
           O == S.primary
           G == S.thumbnail
           os == {O, G} \ {NoObject}
<1>0. S \in Locals /\ sweep \in [Sweepers -> Locals]
  BY DEF TypeOK
<1>1. /\ O \in S.found \cap Assets /\ O \in Objects /\ G \in S.found \cup {NoObject}
      /\ S.pc = "create" /\ os \in SUBSET Objects
  BY <1>0, Fields DEF ImportItem, Owners, Groups, Objects
<1>2. PICK n \in RowIds :
        \A r \in RowIds :
          \/ rows'[r] = rows[r]
          \/ r = n /\ rows'[r].object = O /\ rows'[r].role = "primary"
          \/ r # n /\ rows'[r].object = G /\ rows'[r].role = "thumbnail" /\ G # NoObject
  BY DEF ImportItem
<1>3. UNCHANGED <<place, push, contested>>
  BY DEF ImportItem, drive
<1>4. /\ sweep'[p].pc = "import" /\ sweep'[p].found = S.found \ {O}
      /\ \A q \in Sweepers \ {p} : sweep'[q] = Told(sweep[q], os)
  <2>1. sweep'[p] = [Imported(S) EXCEPT !.changed = TRUE] /\ Imported(S) \in Locals
    BY <1>0, ImportedLocals DEF ImportItem
  <2>2. sweep'[p].pc = Imported(S).pc /\ sweep'[p].found = Imported(S).found
    BY <2>1 DEF Locals
  <2>3. \A q \in Sweepers \ {p} : sweep'[q] = Told(sweep[q], os)
    BY DEF ImportItem
  <2> QED
    BY <1>0, <2>2, <2>3, ImportedFields
<1>5. \A q \in Sweepers \ {p} :
        /\ sweep'[q].pc = sweep[q].pc /\ sweep'[q].found = sweep[q].found
        /\ sweep'[q].known = sweep[q].known
        /\ sweep'[q].primary = sweep[q].primary /\ sweep'[q].thumbnail = sweep[q].thumbnail
        /\ sweep'[q].pc = "known" => sweep'[q].news = sweep[q].news \cup os
  <2> HIDE DEF os
  <2> QED
    BY <1>0, <1>1, <1>4, ToldFields
<1>6. \A r \in RowIds, o \in Objects : IsPrimary(r, o)' => IsPrimary(r, o) \/ (r = n /\ o = O)
  BY <1>2 DEF IsPrimary, Lists
<1>7. \A q \in Sweepers, o \in Objects : Holds(q, o)' => Holds(q, o) /\ (q = p => o # O)
  BY <1>4, <1>5 DEF Holds
<1>8. OneOwner'
  <2>1. O \notin contested =>
          /\ \A r \in RowIds : ~IsPrimary(r, O)
          /\ \A q \in Sweepers : Holds(q, O) => q = p
          /\ push.object # O
    BY <1>1 DEF Owners, OneOwner, Holds
  <2> HIDE DEF O
  <2> QED
    BY <1>3, <1>6, <1>7, <2>1 DEF Owners, OneOwner
<1>9. Appeared'
  <2>1. ASSUME NEW o \in Objects, Listed(o)' PROVE Listed(o) \/ o \in S.found
    BY <1>1, <1>2, <2>1, ObjectsAssumption DEF Listed, Lists
  <2>2. \A q \in Sweepers : sweep'[q].found \subseteq sweep[q].found
    BY <1>4, <1>5
  <2> QED
    BY <1>3, <2>1, <2>2 DEF Owners, Appeared
<1>10. ASSUME NEW q \in Sweepers PROVE Knows(q)' /\ Groups(q)'
  <2>1. CASE q = p
    BY <1>4, <2>1 DEF Knows, Groups
  <2>2. CASE q # p
    <3>1. Groups(q)'
      BY <1>5, <2>2 DEF Owners, Groups
    <3>2. Knows(q)'
      BY <1>1, <1>2, <1>5, <2>2 DEF Owners, Knows, Synced
    <3> QED
      BY <3>1, <3>2
  <2> QED
    BY <2>1, <2>2
<1> QED
  BY <1>8, <1>9, <1>10 DEF Owners

\* The steps of a sweep.
LEMMA SweepOwners ==
  ASSUME TypeOK, Owners, NEW p \in Sweepers, ListLegacy(p) \/ Step(p)
  PROVE  Owners'
<1> DEFINE S == sweep[p]
<1>0. S \in Locals /\ sweep \in [Sweepers -> Locals]
  BY DEF TypeOK
<1>1. ASSUME ListLegacy(p) \/ ListSynced(p) PROVE Owners'
  <2>1. /\ sweep'[p].pc \in {"migrate", "check"} /\ sweep'[p].found = S.found
        /\ \A q \in Sweepers \ {p} : sweep'[q] = sweep[q]
    BY <1>0, <1>1, ListedFields DEF ListLegacy, ListSynced
  <2>2. Shrinks
    BY <1>1, <2>1 DEF ListLegacy, ListSynced, Shrinks, drive, table, history
  <2> QED
    BY <2>1, <2>2, OneMoves
<1>2. ASSUME NEW r \in RowIds, MoveLegacy(p, r) PROVE Owners'
  <2>1. /\ \/ sweep'[p] = [S EXCEPT !.pc = "moved", !.row = r]
           \/ sweep'[p] = Through(S, r, "migrate")
        /\ \A q \in Sweepers \ {p} : sweep'[q] = sweep[q]
    BY <1>0, <1>2, GoesTo DEF MoveLegacy
  <2>2. sweep'[p].pc \in {"migrate", "moved"} /\ sweep'[p].found = S.found
    <3>1. CASE sweep'[p] = [S EXCEPT !.pc = "moved", !.row = r]
      BY <1>0, <3>1 DEF Locals
    <3>2. CASE sweep'[p] = Through(S, r, "migrate")
      BY <1>0, <3>2, ThroughFields
    <3> QED
      BY <2>1, <3>1, <3>2
  <2>3. Shrinks
    BY <1>2, <2>1, <2>2 DEF MoveLegacy, Shrinks, TypeOK, table, history
  <2> QED
    BY <2>1, <2>2, <2>3, OneMoves
<1>3. ASSUME NEW r \in RowIds, CheckObject(p, r) PROVE Owners'
  <2>1. /\ \/ sweep'[p] = Through(S, r, "check")
           \/ sweep'[p] = [S EXCEPT !.pc = "drop", !.row = r, !.hiccup = OnDrive(Loaded(p, r))]
        /\ \A q \in Sweepers \ {p} : sweep'[q] = sweep[q]
    BY <1>0, <1>3, GoesTo DEF CheckObject
  <2>2. sweep'[p].pc \in {"check", "drop"} /\ sweep'[p].found = S.found
    <3>1. CASE sweep'[p] = [S EXCEPT !.pc = "drop", !.row = r, !.hiccup = OnDrive(Loaded(p, r))]
      BY <1>0, <3>1 DEF Locals
    <3>2. CASE sweep'[p] = Through(S, r, "check")
      BY <1>0, <3>2, ThroughFields
    <3> QED
      BY <2>1, <3>1, <3>2
  <2>3. Shrinks
    BY <1>3, <2>1, <2>2 DEF CheckObject, Shrinks, table, history
  <2> QED
    BY <2>1, <2>2, <2>3, OneMoves
<1>4. ASSUME RecordMove(p) PROVE Owners'
  <2>1. /\ sweep'[p].pc = "migrate" /\ sweep'[p].found = S.found
        /\ \A q \in Sweepers \ {p} : sweep'[q] = sweep[q]
    <3>1. PICK r \in RowIds \cup {0} : r = S.row
      BY <1>0, Fields
    <3>2. Goes(p, Committed(S, r, "migrate"))
      BY <1>4, <3>1 DEF RecordMove
    <3>3. /\ sweep'[p] = Committed(S, r, "migrate")
          /\ \A q \in Sweepers \ {p} : sweep'[q] = sweep[q]
      BY <1>0, <3>2, GoesTo
    <3>4. sweep'[p].pc = "migrate" /\ sweep'[p].found = S.found
      BY <1>0, <3>3, CommittedFields
    <3> QED
      BY <3>3, <3>4
  <2>2. Shrinks
    BY <1>4, <2>1 DEF RecordMove, Shrinks, TypeOK, Row, drive, history
  <2> QED
    BY <2>1, <2>2, OneMoves
<1>5. ASSUME ReadKnown(p) PROVE Owners'
  <2>1. /\ \/ sweep'[p] = [S EXCEPT !.pc = "known", !.source = "upload", !.known = ListedObjects]
           \/ sweep'[p] = [S EXCEPT !.pc = "known", !.source = "file", !.found = {},
                                    !.known = ListedObjects]
        /\ \A q \in Sweepers \ {p} : sweep'[q] = sweep[q]
    BY <1>0, <1>5, GoesTo DEF ReadKnown
  <2>2. /\ sweep'[p].pc = "known" /\ sweep'[p].found \subseteq S.found
        /\ sweep'[p].known = ListedObjects
    BY <1>0, <2>1 DEF Locals
  <2>3. Shrinks /\ rows' = rows
    BY <1>5, <2>1, <2>2 DEF ReadKnown, Shrinks, drive, table, history
  <2>4. Knows(p)'
    BY <2>2, <2>3 DEF Knows, Synced, ListedObjects, TypeOK, Row
  <2> QED
    BY <2>1, <2>2, <2>3, <2>4, OneMoves
<1>6. ASSUME ListFolder(p) PROVE Owners'
  BY <1>6, ListFolderOwners
<1>7. ASSUME NEW o \in Assets, NEW g \in Images \cup {NoObject}, MoveGroup(p, o, g)
      PROVE  Owners'
  <2>0. PICK told \in SUBSET Objects :
          Goes(p, [S EXCEPT !.pc = "create", !.primary = o, !.thumbnail = g, !.moved = told])
    BY <1>7 DEF MoveGroup, OnDrive
  <2>1. /\ sweep'[p] = [S EXCEPT !.pc = "create", !.primary = o, !.thumbnail = g, !.moved = told]
        /\ \A q \in Sweepers \ {p} : sweep'[q] = sweep[q]
    BY <1>0, <2>0, GoesTo
  <2>2. /\ sweep'[p].pc = "create" /\ sweep'[p].found = S.found
        /\ sweep'[p].primary = o /\ sweep'[p].thumbnail = g
    BY <1>0, <2>1 DEF Locals
  <2>3. Shrinks
    <3>1. \A f \in Objects : place[f] # "none" => place'[f] # "none"
      BY <1>7 DEF MoveGroup
    <3>2. UNCHANGED <<rows, push, contested>>
      BY <1>7 DEF MoveGroup, table, history
    <3>3. \A q \in Sweepers : sweep'[q].found = sweep[q].found
      BY <2>1, <2>2
    <3> QED
      BY <3>1, <3>2, <3>3 DEF Shrinks
  <2>4. Groups(p)'
    BY <1>7, <2>2 DEF MoveGroup, SiblingImages, Groups
  <2> QED
    BY <2>1, <2>2, <2>3, <2>4, OneMoves
<1>8. ASSUME ImportItem(p) PROVE Owners'
  BY <1>8, ImportOwners
<1>9. ASSUME ImportFails(p) PROVE Owners'
  <2>1. /\ sweep'[p].pc = "import" /\ sweep'[p].found \subseteq S.found
        /\ \A q \in Sweepers \ {p} : sweep'[q] = sweep[q]
    BY <1>0, <1>9, GoesTo, ImportedFields DEF ImportFails
  <2>2. Shrinks
    BY <1>9, <2>1 DEF ImportFails, Shrinks, table, history
  <2> QED
    BY <2>1, <2>2, OneMoves
<1>10. ASSUME DropReference(p) PROVE Owners'
  <2>1. /\ sweep'[p].pc = "check" /\ sweep'[p].found = S.found
        /\ \A q \in Sweepers \ {p} : sweep'[q] = sweep[q]
    <3>1. PICK r \in RowIds \cup {0} : r = S.row
      BY <1>0, Fields
    <3>2. Goes(p, Committed(S, r, "check"))
      BY <1>10, <3>1 DEF DropReference
    <3>3. /\ sweep'[p] = Committed(S, r, "check")
          /\ \A q \in Sweepers \ {p} : sweep'[q] = sweep[q]
      BY <1>0, <3>2, GoesTo
    <3>4. sweep'[p].pc = "check" /\ sweep'[p].found = S.found
      BY <1>0, <3>3, CommittedFields
    <3> QED
      BY <3>3, <3>4
  <2>2. Shrinks
    BY <1>10, <2>1 DEF DropReference, NoRow, Shrinks, TypeOK, drive
  <2> QED
    BY <2>1, <2>2, OneMoves
<1>11. ASSUME Finish(p) \/ Raise(p) PROVE Owners'
  <2>1. /\ sweep'[p].pc = "idle" /\ sweep'[p].found = {}
        /\ \A q \in Sweepers \ {p} : sweep'[q] = sweep[q]
    BY <1>0, <1>11, GoesTo DEF Finish, Raise, Leave, Idle
  <2>2. Shrinks
    BY <1>11, <2>1 DEF Finish, Raise, Leave, Shrinks, drive
  <2> QED
    BY <2>1, <2>2, OneMoves
<1>12. ASSUME RegisterShop(p) PROVE Owners'
  <2>1. /\ sweep'[p] = [S EXCEPT !.pc = "import"]
        /\ \A q \in Sweepers \ {p} : sweep'[q] = sweep[q]
    BY <1>0, <1>12, GoesTo DEF RegisterShop
  <2>2. sweep'[p].pc = "import" /\ sweep'[p].found = S.found
    BY <1>0, <2>1 DEF Locals
  <2>3. Shrinks
    BY <1>12, <2>1, <2>2 DEF RegisterShop, Shrinks, drive, history
  <2> QED
    BY <2>1, <2>2, <2>3, OneMoves
<1> QED
  BY <1>1, <1>2, <1>3, <1>4, <1>5, <1>6, <1>7, <1>8, <1>9, <1>10, <1>11, <1>12 DEF Step

-----------------------------------------------------------------------------
(* What keeps a reference from being dropped. *)

\* The rows on a sweep's list are those it has listed, synced before the sweep
\* began and unchanged since, or their ids were used again.
ListIsOld(p) ==
  sweep[p].pc \in {"check", "drop"} =>
    \A r \in sweep[p].todo \ reused :
      /\ p \notin since[r]
      /\ Exists(r) => /\ Synced(r)
                      /\ ~sweep[p].expired => sweep[p].view[r] = rows[r].object

\* The reference that a sweep is about to drop is on its list, and its object
\* was missing when it was looked up, or the lookup failed.
DropIsDue(p) ==
  sweep[p].pc = "drop" =>
    /\ sweep[p].row \in sweep[p].todo
    /\ (sweep[p].row \notin reused /\ Exists(sweep[p].row) /\ ~sweep[p].hiccup)
         => place[rows[sweep[p].row].object] = "gone"

Drops == \A p \in Sweepers : ListIsOld(p) /\ DropIsDue(p)

\* A step leaves a row of a list as it is, or removes it, or writes to a row that
\* waits for its push, or gives its id to a new row.
RowKeeps(r) ==
  \/ /\ rows'[r].object = rows[r].object
     /\ Exists(r)' => Exists(r)
     /\ since'[r] \subseteq since[r]
     /\ r \in reused => r \in reused'
  \/ ~Exists(r)' /\ since'[r] = {}
  \/ Exists(r) /\ ~Synced(r) /\ (r \in reused => r \in reused')
  \/ \A p \in Sweepers : r \in sweep[p].todo => r \in reused'

RowsKeep ==
  /\ \A r \in RowIds : RowKeeps(r)
  /\ \A o \in Objects : place[o] = "gone" => place'[o] = "gone"

SameList(p) ==
  /\ sweep'[p].pc = sweep[p].pc /\ sweep'[p].todo = sweep[p].todo
  /\ sweep'[p].view = sweep[p].view /\ sweep'[p].expired = sweep[p].expired
  /\ sweep'[p].row = sweep[p].row /\ sweep'[p].hiccup = sweep[p].hiccup

\* What was on a sweep's list is still as it was listed, while rows stay, go or are noted.
LEMMA ListKeeps ==
  ASSUME TypeOK, Drops, RowsKeep, NEW p \in Sweepers, SameList(p)
  PROVE  ListIsOld(p)' /\ DropIsDue(p)'
<1>0. sweep[p].todo \subseteq RowIds
  BY Fields DEF TypeOK
<1>1. ASSUME sweep[p].pc \in {"check", "drop"},
             NEW r \in RowIds, r \in sweep[p].todo, r \notin reused'
      PROVE  \/ /\ r \notin reused /\ rows'[r].object = rows[r].object
                /\ Exists(r)' => Exists(r)
                /\ since'[r] \subseteq since[r]
             \/ ~Exists(r)' /\ since'[r] = {}
  BY <1>1 DEF RowsKeep, RowKeeps, Drops, ListIsOld
<1>2. ListIsOld(p)'
  BY <1>0, <1>1 DEF Drops, ListIsOld, SameList, Synced
<1>3. ASSUME sweep[p].pc = "drop" PROVE DropIsDue(p)'
  <2>1. PICK r \in RowIds : r = sweep[p].row /\ r \in sweep[p].todo
    BY <1>0, <1>3 DEF Drops, DropIsDue
  <2>2. ASSUME r \notin reused', Exists(r)', ~sweep[p].hiccup
        PROVE  place'[rows'[r].object] = "gone"
    <3>1. r \notin reused /\ rows'[r].object = rows[r].object /\ Exists(r)
      BY <1>1, <1>3, <2>1, <2>2
    <3>2. place[rows[r].object] = "gone" /\ Synced(r)
      BY <1>3, <2>1, <2>2, <3>1 DEF Drops, DropIsDue, ListIsOld
    <3>3. rows[r].object \in Objects
      BY <3>2 DEF TypeOK, Row, Synced
    <3> QED
      BY <3>1, <3>2, <3>3 DEF RowsKeep
  <2> QED
    BY <2>1, <2>2 DEF DropIsDue, SameList, Exists
<1> QED
  BY <1>2, <1>3 DEF DropIsDue, SameList

\* So only the sweep that moves has to answer for what it is about to drop.
LEMMA OneDrops ==
  ASSUME TypeOK, Drops, RowsKeep, NEW p \in Sweepers,
         \A q \in Sweepers \ {p} : SameList(q),
         sweep'[p].pc \in {"check", "drop"} => ListIsOld(p)' /\ DropIsDue(p)'
  PROVE  Drops'
<1>1. ListIsOld(p)' /\ DropIsDue(p)'
  BY DEF ListIsOld, DropIsDue
<1> QED
  BY <1>1, ListKeeps DEF Drops

\* The application's steps make no drop undue.
LEMMA AppDrops ==
  ASSUME TypeOK, PushInOrder, Drops,
         \/ \E o \in Objects : DropInUpload(o) \/ DeleteByHand(o)
         \/ CreateItem
         \/ \E i \in RowIds : DeleteItem(i)
         \/ \E r \in RowIds, o \in Objects : Push(r, o)
         \/ RecordPush
  PROVE  Drops'
<1>0. sweep \in [Sweepers -> Locals] /\ rows \in [RowIds -> Row]
      /\ since \in [RowIds -> SUBSET Sweepers]
  BY DEF TypeOK
<1>1. ASSUME NEW o \in Objects, DropInUpload(o) \/ DeleteByHand(o)
      PROVE  RowsKeep /\ sweep' = sweep
  BY <1>1 DEF DropInUpload, DeleteByHand, RowsKeep, RowKeeps, Exists, TypeOK, table, history
<1>2. ASSUME CreateItem PROVE RowsKeep /\ sweep' = sweep
  <2>1. PICK n \in RowIds :
          /\ \A r \in RowIds \ {n} : rows'[r] = rows[r] /\ since'[r] = since[r]
          /\ NoteReuse({n})
    BY <1>0, <1>2 DEF CreateItem
  <2>2. UNCHANGED <<place, sweep>>
    BY <1>2 DEF CreateItem, drive
  <2> QED
    BY <2>1, <2>2 DEF NoteReuse, RowsKeep, RowKeeps, Exists
<1>3. ASSUME NEW i \in RowIds, DeleteItem(i) PROVE RowsKeep /\ sweep' = sweep
  BY <1>3 DEF DeleteItem, NoRow, RowsKeep, RowKeeps, Exists, TypeOK
<1>4. ASSUME NEW r \in RowIds, NEW o \in Objects, Push(r, o)
      PROVE  RowsKeep /\ sweep' = sweep
  BY <1>4 DEF Push, RowsKeep, RowKeeps, Exists, TypeOK, table, history
<1>5. ASSUME RecordPush PROVE RowsKeep /\ \A p \in Sweepers : SameList(p)
  <2>1. push.row \in RowIds /\ push.object \in Objects
    BY <1>5 DEF RecordPush, PushInOrder
  <2>2. RowsKeep
    BY <1>0, <1>5, <2>1 DEF RecordPush, RowsKeep, RowKeeps, Exists, Synced, drive, table
  <2>3. ASSUME NEW p \in Sweepers PROVE SameList(p)
    <3>1. CASE sweep' = sweep
      BY <3>1 DEF SameList
    <3>2. CASE sweep' = [q \in Sweepers |-> Told(sweep[q], {push.object})]
      <4>1. sweep'[p] = Told(sweep[p], {push.object}) /\ sweep[p] \in Locals
            /\ {push.object} \in SUBSET Objects
        BY <1>0, <2>1, <3>2
      <4> QED
        BY <4>1, ToldFields DEF SameList
    <3> QED
      BY <1>5, <3>1, <3>2 DEF RecordPush
  <2> QED
    BY <2>2, <2>3
<1>6. RowsKeep /\ \A p \in Sweepers : SameList(p)
  BY <1>1, <1>2, <1>3, <1>4, <1>5 DEF SameList
<1> QED
  BY <1>6, ListKeeps DEF Drops

\* The steps of a sweep.
LEMMA SweepDrops ==
  ASSUME TypeOK, Owners, Drops, NEW p \in Sweepers, ListLegacy(p) \/ Step(p)
  PROVE  Drops'
<1> DEFINE S == sweep[p]
<1>0. /\ S \in Locals /\ sweep \in [Sweepers -> Locals] /\ rows \in [RowIds -> Row]
      /\ since \in [RowIds -> SUBSET Sweepers]
      /\ S.todo \subseteq RowIds /\ S.row \in RowIds \cup {0}
  BY Fields DEF TypeOK
<1>1. ASSUME ListLegacy(p) PROVE Drops'
  <2>1. /\ sweep'[p].pc = "migrate" /\ \A q \in Sweepers \ {p} : sweep'[q] = sweep[q]
    BY <1>0, <1>1, ListedFields DEF ListLegacy
  <2>2. RowsKeep
    BY <1>1 DEF ListLegacy, RowsKeep, RowKeeps, Exists, drive, table, history
  <2> QED
    BY <2>1, <2>2, OneDrops DEF SameList
<1>2. ASSUME NEW r \in RowIds, MoveLegacy(p, r) PROVE Drops'
  <2>1. /\ \/ sweep'[p] = [S EXCEPT !.pc = "moved", !.row = r]
           \/ sweep'[p] = Through(S, r, "migrate")
        /\ \A q \in Sweepers \ {p} : sweep'[q] = sweep[q]
    BY <1>0, <1>2, GoesTo DEF MoveLegacy
  <2>2. sweep'[p].pc \in {"migrate", "moved"}
    <3>1. CASE sweep'[p] = [S EXCEPT !.pc = "moved", !.row = r]
      BY <1>0, <3>1 DEF Locals
    <3>2. CASE sweep'[p] = Through(S, r, "migrate")
      BY <1>0, <3>2, ThroughFields
    <3> QED
      BY <2>1, <3>1, <3>2
  <2>3. RowsKeep
    BY <1>2 DEF MoveLegacy, OnDrive, Folders, RowsKeep, RowKeeps, Exists, TypeOK, table, history
  <2> QED
    BY <2>1, <2>2, <2>3, OneDrops DEF SameList
<1>3. ASSUME NEW r \in RowIds, CheckObject(p, r) PROVE Drops'
  <2> DEFINE o == Loaded(p, r)
             h == OnDrive(o)
  <2>1. /\ \/ sweep'[p] = Through(S, r, "check")
           \/ sweep'[p] = [S EXCEPT !.pc = "drop", !.row = r, !.hiccup = h]
        /\ \A q \in Sweepers \ {p} : sweep'[q] = sweep[q]
    BY <1>0, <1>3, GoesTo DEF CheckObject
  <2>2. UNCHANGED <<place, rows, since, reused>> /\ S.pc = "check" /\ r \in S.todo
    BY <1>3 DEF CheckObject, table, history
  <2>3. RowsKeep
    BY <2>2 DEF RowsKeep, RowKeeps, Exists
  <2>4. CASE sweep'[p] = Through(S, r, "check")
    <3>1. /\ sweep'[p].pc = "check" /\ sweep'[p].expired = S.expired
          /\ \A q \in RowIds : /\ q \in sweep'[p].todo <=> q \in S.todo /\ q # r
                               /\ q # r => sweep'[p].view[q] = S.view[q]
      BY <1>0, <2>4, ThroughFields, ThroughList
    <3>2. sweep'[p].todo \subseteq RowIds
      BY <1>0, <2>4, GoingThrough, Fields
    <3>3. ListIsOld(p)' /\ DropIsDue(p)'
      BY <2>2, <3>1, <3>2 DEF Drops, ListIsOld, DropIsDue, Exists, Synced
    <3> QED
      BY <2>1, <2>3, <3>3, OneDrops DEF SameList
  <2>5. CASE sweep'[p] = [S EXCEPT !.pc = "drop", !.row = r, !.hiccup = h]
    <3>1. /\ sweep'[p].pc = "drop" /\ sweep'[p].todo = S.todo /\ sweep'[p].view = S.view
          /\ sweep'[p].expired = S.expired /\ sweep'[p].row = r /\ sweep'[p].hiccup = h
      BY <1>0, <2>5 DEF Locals
    <3>2. ListIsOld(p)'
      BY <2>2, <3>1 DEF Drops, ListIsOld, Exists, Synced
    <3>3. ASSUME r \notin reused, Exists(r), ~h PROVE place[rows[r].object] = "gone"
      <4>1. o = rows[r].object /\ Synced(r)
        BY <2>2, <3>3 DEF Drops, ListIsOld, Loaded
      <4>2. o \in Objects /\ Lists(r, o)
        BY <1>0, <4>1 DEF Row, Synced, Lists
      <4>3. place[o] # "none" /\ place[o] \notin Folders
        BY <3>3, <4>2 DEF Owners, Appeared, Listed, OnDrive
      <4> QED
        BY <4>1, <4>2, <4>3 DEF TypeOK
    <3>4. DropIsDue(p)'
      BY <2>2, <3>1, <3>3 DEF DropIsDue, Exists
    <3> QED
      BY <2>1, <2>3, <3>2, <3>4, OneDrops DEF SameList
  <2> QED
    BY <2>1, <2>4, <2>5
<1>4. ASSUME RecordMove(p) PROVE Drops'
  <2>1. /\ sweep'[p].pc = "migrate" /\ \A q \in Sweepers \ {p} : sweep'[q] = sweep[q]
    <3>1. PICK r \in RowIds \cup {0} : r = S.row
      BY <1>0
    <3>2. Goes(p, Committed(S, r, "migrate"))
      BY <1>4, <3>1 DEF RecordMove
    <3> QED
      BY <1>0, <3>2, GoesTo, CommittedFields
  <2>2. RowsKeep
    BY <1>0, <1>4 DEF RecordMove, Row, RowsKeep, RowKeeps, Exists, drive, history
  <2> QED
    BY <2>1, <2>2, OneDrops DEF SameList
<1>5. ASSUME ReadKnown(p) PROVE Drops'
  <2>1. /\ \/ sweep'[p] = [S EXCEPT !.pc = "known", !.source = "upload", !.known = ListedObjects]
           \/ sweep'[p] = [S EXCEPT !.pc = "known", !.source = "file", !.found = {},
                                    !.known = ListedObjects]
        /\ \A q \in Sweepers \ {p} : sweep'[q] = sweep[q]
    BY <1>0, <1>5, GoesTo DEF ReadKnown
  <2>2. sweep'[p].pc = "known"
    BY <1>0, <2>1 DEF Locals
  <2>3. RowsKeep
    BY <1>5 DEF ReadKnown, RowsKeep, RowKeeps, Exists, drive, table, history
  <2> QED
    BY <2>1, <2>2, <2>3, OneDrops DEF SameList
<1>6. ASSUME ListFolder(p) PROVE Drops'
  <2> DEFINE unknown == {o \in Objects : place[o] = S.source} \ S.known
  <2>1. /\ \E next \in {"import", "register"} :
             sweep'[p] = [S EXCEPT !.pc = next, !.known = {}, !.news = {}, !.found = unknown]
        /\ \A q \in Sweepers \ {p} : sweep'[q] = sweep[q]
    BY <1>0, <1>6, GoesTo DEF ListFolder
  <2>2. sweep'[p].pc \in {"import", "register"}
    BY <1>0, <2>1 DEF Locals
  <2>3. RowsKeep
    BY <1>6 DEF ListFolder, RowsKeep, RowKeeps, Exists, drive, table
  <2> QED
    BY <2>1, <2>2, <2>3, OneDrops DEF SameList
<1>7. ASSUME NEW o \in Assets, NEW g \in Images \cup {NoObject}, MoveGroup(p, o, g)
      PROVE  Drops'
  <2>0. PICK told \in SUBSET Objects :
          Goes(p, [S EXCEPT !.pc = "create", !.primary = o, !.thumbnail = g, !.moved = told])
    BY <1>7 DEF MoveGroup, OnDrive
  <2>1. /\ sweep'[p] = [S EXCEPT !.pc = "create", !.primary = o, !.thumbnail = g, !.moved = told]
        /\ \A q \in Sweepers \ {p} : sweep'[q] = sweep[q]
    BY <1>0, <2>0, GoesTo
  <2>2. sweep'[p].pc = "create"
    BY <1>0, <2>1 DEF Locals
  <2>3. \A f \in Objects : place[f] = "gone" => place'[f] = "gone"
    BY <1>7 DEF MoveGroup, OnDrive, Folders
  <2>4. RowsKeep
    BY <1>7, <2>3 DEF MoveGroup, RowsKeep, RowKeeps, Exists, table, history
  <2> QED
    BY <2>1, <2>2, <2>4, OneDrops DEF SameList
<1>8. ASSUME ImportItem(p) PROVE Drops'
  <2> DEFINE os == {S.primary, S.thumbnail} \ {NoObject}
  <2>1. PICK ids \in SUBSET RowIds :
          /\ \A r \in RowIds \ ids : rows'[r] = rows[r] /\ since'[r] = since[r]
          /\ NoteReuse(ids)
    <3>1. PICK n \in RowIds :
            LET ids == IF S.thumbnail = NoObject THEN {n} ELSE {n, n + 1}
            IN /\ ids \subseteq RowIds
               /\ \A r \in RowIds \ ids : rows'[r] = rows[r] /\ since'[r] = since[r]
               /\ NoteReuse(ids)
      BY <1>8 DEF ImportItem
    <3> QED
      BY <3>1
  <2>2. RowsKeep
    BY <1>8, <2>1 DEF ImportItem, NoteReuse, RowsKeep, RowKeeps, Exists, drive
  <2>3. os \in SUBSET Objects
    BY <1>0, Fields DEF Objects
  <2>4. \A q \in Sweepers \ {p} : sweep'[q] = Told(sweep[q], os)
    BY <1>8 DEF ImportItem
  <2>5. \A q \in Sweepers \ {p} : SameList(q)
    <3> HIDE DEF os
    <3> QED
      BY <1>0, <2>3, <2>4, ToldFields DEF SameList
  <2>6. sweep'[p].pc = "import"
    <3>1. sweep'[p] = [Imported(S) EXCEPT !.changed = TRUE] /\ Imported(S) \in Locals
      BY <1>0, <1>8, ImportedLocals DEF ImportItem
    <3>2. sweep'[p].pc = Imported(S).pc
      BY <3>1 DEF Locals
    <3> QED
      BY <1>0, <3>2, ImportedFields
  <2> QED
    BY <2>2, <2>5, <2>6, OneDrops
<1>9. ASSUME ImportFails(p) PROVE Drops'
  <2>1. sweep'[p].pc = "import" /\ \A q \in Sweepers \ {p} : sweep'[q] = sweep[q]
    BY <1>0, <1>9, GoesTo, ImportedFields DEF ImportFails
  <2>2. RowsKeep
    BY <1>9 DEF ImportFails, RowsKeep, RowKeeps, Exists, table, history
  <2> QED
    BY <2>1, <2>2, OneDrops DEF SameList
<1>10. ASSUME ListSynced(p) PROVE Drops'
  <2>1. UNCHANGED <<place, rows, since, reused>>
    BY <1>10 DEF ListSynced, drive, table, history
  <2>2. PICK ripe \in SUBSET {r \in RowIds : Synced(r) /\ since[r] = {}} :
          ListRows(p, "check", ripe)
    BY <1>10 DEF ListSynced
  <2>3. /\ sweep'[p].pc = "check" /\ sweep'[p].todo = ripe /\ sweep'[p].view = Seen(ripe)
        /\ \A q \in Sweepers \ {p} : sweep'[q] = sweep[q]
    BY <1>0, <2>2, ListedFields
  <2>4. ListIsOld(p)' /\ DropIsDue(p)'
    BY <2>1, <2>3 DEF ListIsOld, DropIsDue, Synced, Exists, Seen
  <2>5. RowsKeep
    BY <2>1 DEF RowsKeep, RowKeeps, Exists
  <2> QED
    BY <2>3, <2>4, <2>5, OneDrops DEF SameList
<1>11. ASSUME DropReference(p) PROVE Drops'
  <2>1. PICK r \in RowIds : r = S.row /\ S.pc = "drop"
    BY <1>0, <1>11 DEF DropReference, Drops, DropIsDue
  <2>2. /\ rows' = [rows EXCEPT ![r] = NoRow] /\ since' = [since EXCEPT ![r] = {}]
        /\ reused' = reused \ {r} /\ place' = place
        /\ Goes(p, Committed(S, r, "check"))
    BY <1>11, <2>1 DEF DropReference, drive
  <2>3. /\ sweep'[p] = Committed(S, r, "check")
        /\ \A q \in Sweepers \ {p} : sweep'[q] = sweep[q]
    BY <1>0, <2>2, GoesTo
  <2>4. /\ sweep'[p].pc = "check" /\ sweep'[p].expired
        /\ \A q \in RowIds : q \in sweep'[p].todo <=> q \in S.todo /\ q # r
    BY <1>0, <2>3, CommittedFields, CommittedList
  <2>5. sweep'[p].todo \subseteq RowIds
    BY <1>0, <2>3, GoingThrough, Fields
  <2>6. RowsKeep
    BY <1>0, <2>2 DEF NoRow, RowsKeep, RowKeeps, Exists
  <2>7. ListIsOld(p)' /\ DropIsDue(p)'
    BY <1>0, <2>1, <2>2, <2>4, <2>5 DEF Drops, ListIsOld, DropIsDue, Exists, Synced
  <2> QED
    BY <2>3, <2>6, <2>7, OneDrops DEF SameList
<1>12. ASSUME Finish(p) \/ Raise(p) PROVE Drops'
  <2>1. sweep'[p].pc = "idle" /\ \A q \in Sweepers \ {p} : sweep'[q] = sweep[q]
    BY <1>0, <1>12, GoesTo DEF Finish, Raise, Leave, Idle
  <2>2. RowsKeep
    BY <1>12 DEF Finish, Raise, Leave, RowsKeep, RowKeeps, Exists, drive
  <2> QED
    BY <2>1, <2>2, OneDrops DEF SameList
<1>13. ASSUME RegisterShop(p) PROVE Drops'
  <2>1. /\ sweep'[p] = [S EXCEPT !.pc = "import"]
        /\ \A q \in Sweepers \ {p} : sweep'[q] = sweep[q]
    BY <1>0, <1>13, GoesTo DEF RegisterShop
  <2>2. sweep'[p].pc = "import"
    BY <1>0, <2>1 DEF Locals
  <2>3. RowsKeep
    BY <1>13 DEF RegisterShop, RowsKeep, RowKeeps, Exists, drive, history
  <2> QED
    BY <2>1, <2>2, <2>3, OneDrops DEF SameList
<1> QED
  BY <1>1, <1>2, <1>3, <1>4, <1>5, <1>6, <1>7, <1>8, <1>9, <1>10, <1>11, <1>12, <1>13 DEF Step

-----------------------------------------------------------------------------
(* The initial states, the steps that change nothing, and the results. *)

\* At the start nobody holds anything and no list is made.
LEMMA InitOwners == ASSUME Init PROVE Owners /\ Drops
<1>1. PICK old \in Assets \cup {NoObject} :
        /\ place = [o \in Objects |-> IF o = old THEN "nested" ELSE "none"]
        /\ rows = [r \in RowIds |->
             IF r = 1 /\ old # NoObject
               THEN [item |-> 1, role |-> "primary", object |-> old, folder |-> "nested"]
               ELSE NoRow]
  BY DEF Init
<1>2. /\ push.object = NoObject
      /\ \A p \in Sweepers : sweep[p].found = {} /\ sweep[p].pc = "idle"
  BY DEF Init, Waiting, Idle
<1>3. \A r \in RowIds : rows[r].object # NoObject => r = 1 /\ rows[r].object = old
  BY <1>1 DEF NoRow
<1>4. OneOwner
  BY <1>2, <1>3, ObjectsAssumption DEF OneOwner, IsPrimary, Lists, Holds
<1>5. Appeared
  BY <1>1, <1>2, <1>3, ObjectsAssumption DEF Appeared, Listed, Lists
<1> QED
  BY <1>2, <1>4, <1>5 DEF Owners, Knows, Groups, Drops, ListIsOld, DropIsDue

\* A step that changes nothing keeps it all.
LEMMA Stuttering ==
  ASSUME TypeOK, PushInOrder, Owners, Drops, UNCHANGED vars
  PROVE  TypeOK' /\ PushInOrder' /\ Owners' /\ Drops'
<1>1. UNCHANGED <<place, rows, since, shop, push, sweep, unmarked, faults, contested, reused>>
      /\ cutShort' = cutShort
  BY DEF vars, drive, table, history
<1>2. TypeOK' /\ PushInOrder'
  BY <1>1 DEF TypeOK, PushInOrder
<1>3. Shrinks /\ RowsKeep /\ \A p \in Sweepers : SameList(p)
  BY <1>1 DEF Shrinks, RowsKeep, RowKeeps, SameList, Exists
<1> QED
  BY <1>1, <1>2, <1>3, NobodyMoves, ListKeeps DEF Drops

Inductive == TypeOK /\ PushInOrder /\ Owners /\ Drops

\* The inductive invariant, for all sweepers, files and bounds.
THEOREM Invariant == Spec => []Inductive
<1>1. Init => Inductive
  BY InitTypes, InitOwners DEF Inductive
<1>2. Inductive /\ [Next]_vars => Inductive'
  BY Stuttering, AppTypes, SweepTypes, AppOwners, SweepOwners, AppDrops, SweepDrops
  DEF Inductive, Next
<1> QED
  BY <1>1, <1>2, PTL DEF Spec

\* Every value keeps its type.
THEOREM TypeCorrect == Spec => []TypeOK
<1>1. Inductive => TypeOK
  BY DEF Inductive
<1> QED
  BY <1>1, Invariant, PTL

\* A Drive file that nobody was recording while _import_unknown_files listed it
\* is the primary file of one item at most, however sweeps, pushes, failures and
\* deletions interleave.
THEOREM NoDoubleImport == Spec => []ImportedOnce
<1>1. Inductive => ImportedOnce
  BY DEF Inductive, Owners, OneOwner, ImportedOnce, IsPrimary
<1> QED
  BY <1>1, Invariant, PTL

\* _remove_broken_references keeps the grace period: it does not drop a
\* reference that was recorded while its sweep ran, unless the row took an id
\* that the sweep had listed.
THEOREM GraceStays == Spec => GraceKept
<1>1. Inductive /\ [Next]_vars =>
        [\A p \in Sweepers :
           DropReference(p) => p \notin since[sweep[p].row]
                                 \/ sweep[p].row \in reused]_vars
  BY DEF Inductive, Drops, ListIsOld, DropIsDue, DropReference
<1> QED
  BY <1>1, Invariant, PTL DEF Spec, GraceKept

\* A reference is dropped only when its object is gone, when its lookup failed,
\* or when its row took an id that the sweep had listed.
THEOREM OnlyMissing == Spec => OnlyMissingDropped
<1>1. ASSUME Inductive, NEW p \in Sweepers, DropReference(p), Exists(sweep[p].row)
      PROVE  \/ sweep[p].row \in reused
             \/ ~OnDrive(rows[sweep[p].row].object)
             \/ sweep[p].hiccup
  BY <1>1 DEF Inductive, Drops, DropIsDue, DropReference, OnDrive, Folders
<1>2. Inductive /\ [Next]_vars =>
        [\A p \in Sweepers : \A r \in RowIds :
           (DropReference(p) /\ r = sweep[p].row /\ Exists(r)) =>
             \/ r \in reused
             \/ ~OnDrive(rows[r].object)
             \/ sweep[p].hiccup]_vars
  BY <1>1
<1> QED
  BY <1>2, Invariant, PTL DEF Spec, OnlyMissingDropped

-----------------------------------------------------------------------------
(* Marking. *)

\* A step after which the sweep p, and no other, may have changed something.
Notes(p) ==
  /\ sweep[p].changed => sweep'[p].changed
  /\ \A q \in Sweepers \ {p} : sweep'[q].changed = sweep[q].changed
  /\ "files" \in unmarked' => "files" \in unmarked \/ sweep'[p].changed
  /\ cutShort' = cutShort

\* A step that notes its change for the mark is no exception.
LEMMA NotesMarks ==
  ASSUME ChangesGetMarked, NEW p \in Sweepers, Notes(p) PROVE ChangesGetMarked'
  BY DEF ChangesGetMarked, Notes

\* A sweep notes, marks or ends every change it makes.
LEMMA SweepMarks ==
  ASSUME TypeOK, ChangesGetMarked, NEW p \in Sweepers, ListLegacy(p) \/ Step(p)
  PROVE  ChangesGetMarked'
<1> DEFINE S == sweep[p]
<1>0. S \in Locals /\ sweep \in [Sweepers -> Locals] /\ S.row \in RowIds \cup {0}
  BY Fields DEF TypeOK
<1>1. ASSUME ListLegacy(p) \/ ListSynced(p) PROVE Notes(p)
  <2>1. sweep'[p].changed = S.changed /\ \A q \in Sweepers \ {p} : sweep'[q] = sweep[q]
    BY <1>0, <1>1, ListedFields DEF ListLegacy, ListSynced
  <2> QED
    BY <1>1, <2>1 DEF ListLegacy, ListSynced, Notes, history
<1>2. ASSUME NEW s \in Locals, Goes(p, s), s.changed = S.changed,
             UNCHANGED <<unmarked, cutShort>>
      PROVE  Notes(p)
  BY <1>0, <1>2, GoesTo DEF Notes
<1>3. ASSUME NEW r \in RowIds, MoveLegacy(p, r) PROVE Notes(p)
  <2>1. \E s \in {[S EXCEPT !.pc = "moved", !.row = r], Through(S, r, "migrate")} : Goes(p, s)
    BY <1>3 DEF MoveLegacy
  <2>2. LET s == [S EXCEPT !.pc = "moved", !.row = r] IN s \in Locals /\ s.changed = S.changed
    BY <1>0 DEF Locals
  <2>3. Through(S, r, "migrate") \in Locals /\ Through(S, r, "migrate").changed = S.changed
    BY <1>0, GoingThrough, ThroughFields
  <2>4. UNCHANGED <<unmarked, cutShort>>
    BY <1>3 DEF MoveLegacy, history
  <2> QED
    BY <1>2, <2>1, <2>2, <2>3, <2>4
<1>4. ASSUME NEW r \in RowIds, CheckObject(p, r) PROVE Notes(p)
  <2>1. PICK h \in BOOLEAN :
          \E s \in {[S EXCEPT !.pc = "drop", !.row = r, !.hiccup = h], Through(S, r, "check")} :
            Goes(p, s)
    BY <1>4 DEF CheckObject, OnDrive
  <2>2. LET s == [S EXCEPT !.pc = "drop", !.row = r, !.hiccup = h]
        IN s \in Locals /\ s.changed = S.changed
    BY <1>0 DEF Locals
  <2>3. Through(S, r, "check") \in Locals /\ Through(S, r, "check").changed = S.changed
    BY <1>0, GoingThrough, ThroughFields
  <2>4. UNCHANGED <<unmarked, cutShort>>
    BY <1>4 DEF CheckObject, history
  <2> QED
    BY <1>2, <2>1, <2>2, <2>3, <2>4
<1>5. ASSUME NEW step \in {"migrate", "check"}, Goes(p, Committed(S, S.row, step)),
             cutShort' = cutShort
      PROVE  Notes(p)
  <2>1. PICK r \in RowIds \cup {0} : r = S.row
    BY <1>0
  <2>2. Goes(p, Committed(S, r, step))
    BY <1>5, <2>1
  <2> QED
    BY <1>0, <1>5, <2>2, GoesTo, CommittedFields DEF Notes
<1>6. ASSUME RecordMove(p) \/ DropReference(p) PROVE Notes(p)
  BY <1>5, <1>6 DEF RecordMove, DropReference, history
<1>7. ASSUME ReadKnown(p) PROVE Notes(p)
  <2>1. ASSUME NEW source \in {"upload", "file"}, NEW known \in SUBSET Objects
        PROVE  LET s == [S EXCEPT !.pc = "known", !.source = source, !.known = known]
                   t == [S EXCEPT !.pc = "known", !.source = source, !.found = {}, !.known = known]
               IN s \in Locals /\ s.changed = S.changed /\ t \in Locals /\ t.changed = S.changed
    BY <1>0 DEF Locals
  <2>2. ListedObjects \in SUBSET Objects
    BY DEF ListedObjects
  <2> QED
    BY <1>2, <1>7, <2>1, <2>2 DEF ReadKnown, history
<1>8. ASSUME ListFolder(p) PROVE Notes(p)
  <2>1. ASSUME NEW next \in {"import", "register"}, NEW unknown \in SUBSET Objects
        PROVE  LET s == [S EXCEPT !.pc = next, !.known = {}, !.news = {}, !.found = unknown]
               IN s \in Locals /\ s.changed = S.changed
    BY <1>0 DEF Locals
  <2> QED
    BY <1>2, <1>8, <2>1 DEF ListFolder
<1>9. ASSUME NEW o \in Assets, NEW g \in Images \cup {NoObject}, MoveGroup(p, o, g)
      PROVE  Notes(p)
  <2>1. ASSUME NEW told \in SUBSET Objects
        PROVE  LET s == [S EXCEPT !.pc = "create", !.primary = o, !.thumbnail = g, !.moved = told]
               IN s \in Locals /\ s.changed = S.changed
    BY <1>0 DEF Locals
  <2>2. PICK told \in SUBSET Objects :
          Goes(p, [S EXCEPT !.pc = "create", !.primary = o, !.thumbnail = g, !.moved = told])
    BY <1>9 DEF MoveGroup, OnDrive
  <2>3. UNCHANGED <<unmarked, cutShort>>
    BY <1>9 DEF MoveGroup, history
  <2> QED
    BY <1>2, <2>1, <2>2, <2>3
<1>10. ASSUME ImportItem(p) PROVE Notes(p)
  <2> DEFINE os == {S.primary, S.thumbnail} \ {NoObject}
  <2>1. sweep'[p].changed
    <3>1. sweep'[p] = [Imported(S) EXCEPT !.changed = TRUE] /\ Imported(S) \in Locals
      BY <1>0, <1>10, ImportedLocals DEF ImportItem
    <3> QED
      BY <3>1 DEF Locals
  <2>2. os \in SUBSET Objects /\ \A q \in Sweepers \ {p} : sweep'[q] = Told(sweep[q], os)
    BY <1>0, <1>10, Fields DEF ImportItem, Objects
  <2>3. \A q \in Sweepers \ {p} : sweep'[q].changed = sweep[q].changed
    <3> HIDE DEF os
    <3> QED
      BY <1>0, <2>2, ToldFields
  <2> QED
    BY <1>10, <2>1, <2>3 DEF ImportItem, Notes
<1>11. ASSUME ImportFails(p) PROVE Notes(p)
  BY <1>0, <1>2, <1>11, ImportedLocals, ImportedFields DEF ImportFails, history
<1>12. ASSUME Finish(p) \/ Raise(p) PROVE ChangesGetMarked'
  <2>1. \A q \in Sweepers \ {p} : sweep'[q] = sweep[q]
    BY <1>0, <1>12, GoesTo DEF Finish, Raise, Leave
  <2> QED
    BY <1>12, <2>1 DEF Finish, Raise, Mark, ChangesGetMarked
<1>13. ASSUME RegisterShop(p) PROVE Notes(p)
  <2>1. [S EXCEPT !.pc = "import"] \in Locals /\ [S EXCEPT !.pc = "import"].changed = S.changed
    BY <1>0 DEF Locals
  <2>2. sweep'[p].changed = S.changed /\ \A q \in Sweepers \ {p} : sweep'[q] = sweep[q]
    BY <1>0, <1>13, <2>1, GoesTo DEF RegisterShop
  <2> QED
    BY <1>13, <2>2 DEF RegisterShop, Notes, history
<1> QED
  BY <1>1, <1>3, <1>4, <1>6, <1>7, <1>8, <1>9, <1>10, <1>11, <1>12, <1>13, NotesMarks DEF Step

\* What the sweeps commit to item_files is followed by a mark_dirty, or the sweep
\* raised: at any time a change of the rows that is not marked was made by a sweep
\* that has noted it.  (The commit of a new shop is not: EveryCommitIsMarked.)
THEOREM ChangesMarked == Spec => []ChangesGetMarked
<1>1. Init => ChangesGetMarked
  BY DEF Init, ChangesGetMarked
<1>2. TypeOK /\ ChangesGetMarked /\ [Next]_vars => ChangesGetMarked'
  <2> SUFFICES ASSUME TypeOK, ChangesGetMarked, [Next]_vars
               PROVE  ChangesGetMarked'
    OBVIOUS
  <2>1. ASSUME sweep' = sweep, UNCHANGED <<unmarked, cutShort>> \/ Mark PROVE ChangesGetMarked'
    BY <2>1 DEF ChangesGetMarked, Mark
  <2>2. ASSUME NEW o \in Objects, DropInUpload(o) \/ DeleteByHand(o) PROVE ChangesGetMarked'
    BY <2>1, <2>2 DEF DropInUpload, DeleteByHand, history
  <2>3. ASSUME CreateItem PROVE ChangesGetMarked'
    BY <2>1, <2>3 DEF CreateItem
  <2>4. ASSUME NEW i \in RowIds, DeleteItem(i) PROVE ChangesGetMarked'
    BY <2>1, <2>4 DEF DeleteItem
  <2>5. ASSUME NEW r \in RowIds, NEW o \in Objects, Push(r, o) PROVE ChangesGetMarked'
    BY <2>1, <2>5 DEF Push, history
  <2>6. ASSUME RecordPush PROVE ChangesGetMarked'
    BY <2>1, <2>6 DEF RecordPush, Mark, ChangesGetMarked
  <2>7. ASSUME UNCHANGED vars PROVE ChangesGetMarked'
    BY <2>1, <2>7 DEF vars, history
  <2> QED
    BY <2>2, <2>3, <2>4, <2>5, <2>6, <2>7, SweepMarks DEF Next
<1>3. Inductive => TypeOK
  BY DEF Inductive
<1> QED
  BY <1>1, <1>2, <1>3, Invariant, PTL DEF Spec
=============================================================================
