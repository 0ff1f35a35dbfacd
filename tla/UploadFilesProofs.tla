-------------------------- MODULE UploadFilesProofs --------------------------
(***************************************************************************)
(* Proofs about the files of UploadSync, for all items, sweeps and bounds: *)
(* that it implements FileKeeping (every step accepts new files, stores    *)
(* one, gives some up, or concerns no file), that a file is uploaded once, *)
(* up to uploads that were cut off after Drive had taken it, and that      *)
(* without faults no copy stays in the cache that nobody needs.            *)
(***************************************************************************)
EXTENDS UploadSyncProofs, UploadKeeps

\* The abstract places, file by file, without the condition that a row's file
\* is backed: the invariant says that it is.
Waits(b) == b \notin GoneFiles /\ \E r \in Pending : file[r].blob = b
IsStored(b) == b \notin GoneFiles /\ \E r \in rows \ Pending : file[r].blob = b

\* A row's file that is not gone is backed, before and after a step.
LEMMA RowsBacked ==
  /\ Inductive => \A r \in rows : file[r].blob \notin GoneFiles => Backed(r)
  /\ Inductive' => \A r \in rows' : file'[r].blob \notin GoneFiles' => Backed(r)'
<1> USE DEF Inductive, RowsInOrder, RowInOrder, AcceptedFilesKept, GoneFiles
<1>1. ASSUME Inductive, NEW r \in rows, file[r].blob \notin GoneFiles PROVE Backed(r)
  <2>1. PICK q \in rows : file[q].blob = file[r].blob /\ Backed(q)
    BY <1>1
  <2> QED
    BY <1>1, <2>1
<1>2. ASSUME Inductive', NEW r \in rows', file'[r].blob \notin GoneFiles'
      PROVE  Backed(r)'
  <2>1. PICK q \in rows' : file'[q].blob = file'[r].blob /\ Backed(q)'
    BY <1>2
  <2> QED
    BY <1>2, <2>1
<1> QED
  BY <1>1, <1>2

\* So they are the sets that the mapping substitutes.
LEMMA Places ==
  /\ Inductive => /\ \A b : b \in BackedFiles(Pending) <=> Waits(b)
                  /\ \A b : b \in BackedFiles(rows \ Pending) <=> IsStored(b)
  /\ Inductive' => /\ \A b : b \in BackedFiles(Pending)' <=> Waits(b)'
                   /\ \A b : b \in BackedFiles(rows \ Pending)' <=> IsStored(b)'
  BY RowsBacked DEF BackedFiles, Waits, IsStored, Pending

-----------------------------------------------------------------------------
(* The three kinds of steps. *)

\* What is given up leaves its place and nothing else moves; a step that gives
\* up nothing is one of these.
LEMMA GiveUpStep ==
  ASSUME Inductive, Inductive',
         GoneFiles \subseteq GoneFiles', GoneFiles' \subseteq GoneFiles \cup Blobs,
         \A b : Waits(b)' <=> Waits(b) /\ b \notin GoneFiles',
         \A b : IsStored(b)' <=> IsStored(b) /\ b \notin GoneFiles'
  PROVE  Keeping!Next
<1> DEFINE given == GoneFiles' \ GoneFiles
<1>1. \A b : (Waits(b) \/ IsStored(b)) => b \notin GoneFiles
  BY DEF Waits, IsStored
<1>2. BackedFiles(Pending)' = BackedFiles(Pending) \ given
  BY <1>1, Places
<1>3. BackedFiles(rows \ Pending)' = BackedFiles(rows \ Pending) \ given
  BY <1>1, Places
<1>4. GoneFiles' = GoneFiles \cup given
  OBVIOUS
<1>5. given \in SUBSET Blobs
  OBVIOUS
<1>6. Keeping!GiveUp(given)
  BY <1>2, <1>3, <1>4 DEF Keeping!GiveUp
<1> QED
  BY <1>5, <1>6 DEF Keeping!Next

\* A file leaves the cache for Drive.
LEMMA StoreStep ==
  ASSUME Inductive, Inductive', NEW f \in Blobs, Waits(f), GoneFiles' = GoneFiles,
         \A b : Waits(b)' <=> Waits(b) /\ b # f,
         \A b : IsStored(b)' <=> IsStored(b) \/ b = f
  PROVE  Keeping!Next
<1>1. /\ f \in BackedFiles(Pending)
      /\ BackedFiles(Pending)' = BackedFiles(Pending) \ {f}
      /\ BackedFiles(rows \ Pending)' = BackedFiles(rows \ Pending) \cup {f}
  BY Places
<1>2. Keeping!Store(f)
  BY <1>1 DEF Keeping!Store
<1> QED
  BY <1>2 DEF Keeping!Next

\* Files nobody had before come into the cache, or are given up at once.
LEMMA AcceptStep ==
  ASSUME Inductive, Inductive', NEW new \in SUBSET Blobs,
         \A b \in new : ~Waits(b) /\ ~IsStored(b),
         GoneFiles \subseteq GoneFiles', GoneFiles' \subseteq GoneFiles \cup new,
         \A b : Waits(b)' <=> Waits(b) \/ (b \in new /\ b \notin GoneFiles'),
         \A b : IsStored(b)' <=> IsStored(b)
  PROVE  Keeping!Next
<1> DEFINE accepted == new \ GoneFiles'
           unprotected == GoneFiles' \ GoneFiles
<1>1. accepted \in SUBSET Keeping!New /\ unprotected \in SUBSET Keeping!New
  BY Places DEF Keeping!New
<1>2. BackedFiles(Pending)' = BackedFiles(Pending) \cup accepted
  BY Places
<1>3. BackedFiles(rows \ Pending)' = BackedFiles(rows \ Pending)
  BY Places
<1>4. GoneFiles' = GoneFiles \cup unprotected
  OBVIOUS
<1>5. Keeping!Accept(accepted, unprotected)
  BY <1>2, <1>3, <1>4 DEF Keeping!Accept
<1> QED
  BY <1>1, <1>5 DEF Keeping!Next

-----------------------------------------------------------------------------
(* The steps of requests and sweeps. *)

\* The files of rows and of the request at work are among those the bounds allow.
LEMMA KnownBlobs ==
  ASSUME TypeOK, Inductive
  PROVE  OpBlobs \subseteq Blobs /\ \A r \in rows : file[r].blob \in Blobs
<1>1. \A b \in Before(nextBlob) : b \in Blobs
  BY NumbersBefore, BoundsAssumption DEF TypeOK, DriveTypeOK, Blobs
<1> QED
  BY <1>1 DEF Inductive, OpInOrder, RowsInOrder, RowInOrder

\* A step that writes no row and gives up files, or none.
LEMMA RowsLeftAlone ==
  ASSUME Inductive, Inductive', rows' = rows, file' = file, reused' = reused,
         released \subseteq released', released' \subseteq released \cup Blobs
  PROVE  Keeping!Next
<1>1. Pending' = Pending
  BY DEF Pending
<1>2. /\ \A b : Waits(b)' <=> Waits(b) /\ b \notin GoneFiles'
      /\ \A b : IsStored(b)' <=> IsStored(b) /\ b \notin GoneFiles'
  BY <1>1 DEF Waits, IsStored, GoneFiles
<1>3. GoneFiles \subseteq GoneFiles' /\ GoneFiles' \subseteq GoneFiles \cup Blobs
  BY DEF GoneFiles
<1> QED
  BY <1>2, <1>3, GiveUpStep

\* A request begins, is cut off or discards content, or the process dies.
LEMMA RequestStep ==
  ASSUME TypeOK, Inductive, Inductive',
         \/ \E i \in Items :
              \/ \E withThumbnail \in BOOLEAN : BeginCreate(i, withThumbnail)
              \/ BeginThumbnail(i) \/ BeginDelete(i)
         \/ AbortCreate \/ RollbackThumbnail \/ AbortDelete \/ Crash
         \/ \E r \in Ids : DiscardContent(r)
  PROVE  Keeping!Next
<1>1. rows' = rows /\ file' = file /\ reused' = reused /\ released \subseteq released'
  BY DEF BeginCreate, BeginThumbnail, BeginDelete, AbortCreate, RollbackThumbnail,
         AbortDelete, Crash, DiscardContent, table
<1>2. released' \subseteq released \cup OpBlobs \cup {file[r].blob : r \in opLeft}
  BY DEF BeginCreate, BeginThumbnail, BeginDelete, AbortCreate, RollbackThumbnail,
         AbortDelete, Crash, DiscardContent
<1>3. released' \subseteq released \cup Blobs
  BY <1>2, KnownBlobs DEF Inductive, OpInOrder
<1> QED
  BY <1>1, <1>3, RowsLeftAlone

\* Nobody's files move: a sweep's steps between its reads and writes of rows.
LEMMA OtherStep ==
  ASSUME Inductive, Inductive',
         \/ MarkDirty \/ Snapshot \/ UNCHANGED vars
         \/ \E w \in Sweepers :
              \/ SweepStart(w) \/ \E r \in Ids : Claim(w, r)
              \/ ReadRow(w) \/ CheckCache(w)
              \/ Upload(w) \/ UploadFails(w) \/ Finish(w)
  PROVE  Keeping!Next
<1>1. rows' = rows /\ file' = file /\ reused' = reused /\ released' = released
  BY DEF MarkDirty, Snapshot, SweepStart, Claim, ReadRow, CheckCache, Upload,
         UploadFails, Finish, table, vars
<1> QED
  BY <1>1, RowsLeftAlone

\* A commit replaces rows whose files are gone by rows of the request's files.
LEMMA ReplaceStep ==
  ASSUME Inductive, Inductive', NEW excused \in SUBSET Blobs,
         RowsReplacedWith(excused), OpBlobs \subseteq Blobs,
         excused \subseteq OpBlobs
  PROVE  Keeping!Next
<1>1. PICK old, new : Replaced(old, new)
  BY DEF RowsReplacedWith
<1>2. /\ GoneFiles \subseteq GoneFiles' /\ GoneFiles' \subseteq GoneFiles \cup OpBlobs
  BY DEF RowsReplacedWith, GoneFiles
<1>3. \A r \in rows : file[r].blob \notin OpBlobs
  BY DEF Inductive, RowsInOrder, RowInOrder
<1>4. \A b \in OpBlobs : ~Waits(b) /\ ~IsStored(b)
  BY <1>3 DEF Waits, IsStored, Pending
<1>5. \A r \in old : file[r].blob \in GoneFiles
  BY <1>1 DEF Replaced, Goes, GoneFiles
<1>6. \A r \in rows \ old : /\ r \in rows' /\ file'[r] = file[r]
                            /\ r \in Pending' <=> r \in Pending
  BY <1>1 DEF Replaced, Pending
<1>7. \A r \in new : r \in Pending' /\ file'[r].blob \in OpBlobs
  BY <1>1 DEF Replaced, Comes, Pending
<1>8. ASSUME NEW b
      PROVE  Waits(b)' <=> Waits(b) \/ (b \in OpBlobs /\ b \notin GoneFiles')
  <2>1. CASE b \in OpBlobs
    <3>1. \E r \in new : file'[r].blob = b
      BY <1>1, <2>1 DEF Replaced
    <3> QED
      BY <1>4, <1>7, <2>1, <3>1 DEF Waits
  <2>2. CASE b \notin OpBlobs
    <3>1. b \in GoneFiles' <=> b \in GoneFiles
      BY <1>2, <2>2
    <3>2. ASSUME Waits(b) PROVE Waits(b)'
      BY <1>5, <1>6, <3>1, <3>2 DEF Waits, Pending
    <3>3. ASSUME Waits(b)' PROVE Waits(b)
      <4>1. PICK r \in Pending' : file'[r].blob = b
        BY <3>3 DEF Waits
      <4>2. r \in rows \ old
        BY <1>1, <1>7, <2>2, <4>1 DEF Replaced, Pending
      <4>3. r \in Pending /\ file[r].blob = b
        BY <1>6, <4>1, <4>2
      <4>4. b \notin GoneFiles
        BY <3>1, <3>3 DEF Waits
      <4> QED
        BY <4>3, <4>4 DEF Waits
    <3> QED
      BY <2>2, <3>2, <3>3
  <2> QED
    BY <2>1, <2>2
<1>9. ASSUME NEW b PROVE IsStored(b)' <=> IsStored(b)
  <2>1. ASSUME IsStored(b) PROVE IsStored(b)'
    <3>1. PICK r \in rows \ Pending : file[r].blob = b /\ b \notin GoneFiles
      BY <2>1 DEF IsStored
    <3>2. r \in rows \ old /\ b \notin GoneFiles'
      BY <1>2, <1>3, <1>5, <3>1
    <3>3. r \in rows' \ Pending' /\ file'[r].blob = b
      BY <1>6, <3>1, <3>2
    <3> QED
      BY <3>2, <3>3 DEF IsStored
  <2>2. ASSUME IsStored(b)' PROVE IsStored(b)
    <3>1. PICK r \in rows' \ Pending' : file'[r].blob = b /\ b \notin GoneFiles'
      BY <2>2 DEF IsStored
    <3>2. r \in rows \ old
      BY <1>1, <1>7, <3>1 DEF Replaced
    <3>3. r \in rows \ Pending /\ file[r].blob = b
      BY <1>6, <3>1, <3>2
    <3>4. b \notin GoneFiles
      BY <1>2, <3>1
    <3> QED
      BY <3>3, <3>4 DEF IsStored
  <2> QED
    BY <2>1, <2>2
<1> QED
  BY <1>2, <1>4, <1>8, <1>9, AcceptStep

\* A sweep records its object: the file of the row has moved to Drive, unless it
\* is gone.
LEMMA RecordStep ==
  ASSUME TypeOK, Inductive, Inductive', NEW w \in Sweepers, Record(w)
  PROVE  Keeping!Next
<1> DEFINE c == cur[w]
           f == file[c].blob
<1>1. rows' = rows /\ released' = released /\ reused' = reused /\ pc[w] = "record"
  BY DEF Record
<1>2. CASE c \notin Pending
  BY <1>1, <1>2, RowsLeftAlone DEF Record
<1>3. CASE c \in Pending
  <2>1. c \in rows /\ file[c].object = NoObject
    BY <1>3 DEF Pending
  <2>2. /\ file'[c].blob = f /\ file'[c].object = obj[w]
        /\ \A r \in rows \ {c} : file'[r] = file[r]
    BY <1>3, <2>1 DEF Record, TypeOK, TableTypeOK, File
  <2>3. obj[w] # NoObject
    <3>1. OwnObject(w) /\ Ranges
      BY <1>1, TypedRanges DEF Inductive, SweepsInOrder, SweepInOrder
    <3> QED
      BY <3>1, NumbersBefore DEF OwnObject, Ranges, NoObject
  <2>4. Pending' = Pending \ {c}
    BY <1>1, <2>1, <2>2, <2>3 DEF Pending
  <2>5. f \in Blobs /\ \A r \in rows \ {c} : file[r].blob # f
    BY <2>1, KnownBlobs DEF Inductive, RowsInOrder
  <2>6. GoneFiles' = GoneFiles
    BY <1>1 DEF GoneFiles
  <2> HIDE DEF c, f
  <2>7. f = file[c].blob
    BY DEF f
  <2>8. CASE f \in GoneFiles
    <3>1. \A b : b # f => (Waits(b)' <=> Waits(b)) /\ (IsStored(b)' <=> IsStored(b))
      <4>1. \A r \in rows : /\ file'[r].blob = file[r].blob
                            /\ file[r].blob # f =>
                                 (r \in Pending' <=> r \in Pending)
        BY <2>2, <2>4, <2>7
      <4>2. \A b : b # f => (Waits(b)' <=> Waits(b))
        BY <1>1, <2>6, <4>1 DEF Waits, Pending
      <4>3. \A b : b # f => (IsStored(b)' <=> IsStored(b))
        BY <1>1, <2>6, <4>1 DEF IsStored
      <4> QED
        BY <4>2, <4>3
    <3>2. \A b : \/ ~Waits(b) /\ ~Waits(b)' /\ ~IsStored(b) /\ ~IsStored(b)'
                 \/ b \notin GoneFiles /\ b # f
      BY <2>6, <2>8 DEF Waits, IsStored
    <3> QED
      BY <2>6, <3>1, <3>2, GiveUpStep
  <2>9. CASE f \notin GoneFiles
    <3>1. Waits(f)
      BY <1>3, <2>7, <2>9 DEF Waits
    <3>2. \A b : Waits(b)' <=> Waits(b) /\ b # f
      BY <1>1, <2>1, <2>2, <2>4, <2>5, <2>6, <2>7 DEF Waits, Pending
    <3>3. \A b : IsStored(b)' <=> IsStored(b) \/ b = f
      BY <1>1, <2>1, <2>2, <2>4, <2>6, <2>7, <2>9, <1>3 DEF IsStored
    <3> QED
      BY <2>5, <2>6, <3>1, <3>2, <3>3, StoreStep
  <2> QED
    BY <2>8, <2>9
<1> QED
  BY <1>2, <1>3

-----------------------------------------------------------------------------

\* Every step of the program is a step of the abstract life of files.
LEMMA NextKeeps ==
  TypeOK /\ Inductive /\ Inductive' /\ [Next]_vars => Keeping!Next
<1> SUFFICES ASSUME TypeOK, Inductive, Inductive', [Next]_vars PROVE Keeping!Next
  OBVIOUS
<1>1. Ranges /\ Kept /\ ClaimExclusive
  BY TypedRanges DEF Inductive, Kept
<1>2. OpBlobs \in SUBSET Blobs
  BY KnownBlobs
<1>3. CASE CommitCreate \/ RefreshFails \/ CommitThumbnail \/ CommitDelete
  BY <1>1, <1>2, <1>3, CreateReplaces, ThumbnailReplaces, DeleteReplaces, ReplaceStep
<1>4. ASSUME NEW w \in Sweepers, DropRow(w) PROVE Keeping!Next
  BY <1>1, <1>2, <1>4, DropReplaces, ReplaceStep
<1>5. ASSUME NEW w \in Sweepers, Record(w) PROVE Keeping!Next
  BY <1>5, RecordStep
<1> QED
  BY <1>3, <1>4, <1>5, RequestStep, OtherStep DEF Next, OpStep, SweepStep

\* Initially there are no files.
LEMMA InitKeeps == Init => Keeping!Init
  BY DEF Init, Keeping!Init, BackedFiles, GoneFiles, Pending

\* UploadSync implements FileKeeping, for all items, sweeps and bounds: whatever
\* requests, sweeps, crashes and failures of Drive do, each file goes from the
\* cache to Drive and out of both only when it is given up.
THEOREM Keeps == Spec => KeepsFiles
<1>1. TypeOK /\ Inductive /\ Inductive' /\ [Next]_vars => [Keeping!Next]_(Keeping!places)
  BY NextKeeps
<1> QED
  BY <1>1, InitKeeps, TypeCorrect, Invariant, PTL DEF Spec, KeepsFiles, Keeping!Spec

-----------------------------------------------------------------------------
(* A file is uploaded once. *)

Unlost == Before(nextObject) \ lost

\* Between its two reads of a row a sweep holds a file that no other row names
\* and no other sweep holds, and that is not on Drive before it is uploaded.
SweepAlone(w) ==
  pc[w] \in Past =>
    /\ \A r \in rows : file[r].blob = held[w] => r = cur[w]
    /\ \A v \in Sweepers : pc[v] \in Past /\ held[v] = held[w] => v = w
    /\ pc[w] \in {"check", "upload"} => \A o \in Unlost : madeFrom[o] # held[w]

\* The file of a pending row is not on Drive, or a sweep is about to record it.
PendingUnsent ==
  \A r \in Pending : \A o \in Unlost : madeFrom[o] = file[r].blob =>
    \E w \in Sweepers : pc[w] = "record" /\ obj[w] = o

\* Objects are made from files that the request at work does not have.
ObjectsOld ==
  \A o \in Before(nextObject) :
    madeFrom[o] \in Nat /\ madeFrom[o] < nextBlob /\ madeFrom[o] \notin OpBlobs

Once ==
  /\ \A w \in Sweepers : SweepAlone(w)
  /\ PendingUnsent
  /\ ObjectsOld
  /\ UploadedOnce

\* What a sweep holds stays with it.
Stays(w) ==
  /\ cur'[w] = cur[w] /\ held'[w] = held[w] /\ obj'[w] = obj[w]
  /\ pc'[w] = pc[w] \/ (pc[w] = "check" /\ pc'[w] \in {"upload", "drop"})

\* The rows that there are after a step were there, or are the request's.
RowsFrom ==
  \A r \in rows' :
    \/ /\ r \in rows /\ file'[r].blob = file[r].blob
       /\ r \in Pending' => r \in Pending
    \/ file'[r].blob \in OpBlobs

\* A sweep that does not record its object leaves no pending row of its file.
Recorded(w) ==
  \/ pc'[w] = "record" /\ Stays(w)
  \/ obj[w] \in lost'
  \/ \A r \in Pending' : file'[r].blob # held[w]

\* A step that makes no object.
LEMMA NothingMade ==
  ASSUME Ranges, Ranges', Inductive, Once,
         madeFrom' = madeFrom, nextObject' = nextObject, lost \subseteq lost',
         nextBlob <= nextBlob', \A b \in OpBlobs' : b \in OpBlobs \/ b >= nextBlob,
         RowsFrom,
         \A w \in Sweepers : Stays(w) \/ pc'[w] \notin Past,
         \A w \in Sweepers : pc[w] = "record" => Recorded(w)
  PROVE  Once'
<1>1. Unlost' \subseteq Unlost
  BY DEF Unlost
<1>2. ASSUME NEW w \in Sweepers, pc'[w] \in Past
      PROVE  /\ pc[w] \in Past /\ Stays(w)
             /\ pc'[w] \in {"check", "upload"} => pc[w] \in {"check", "upload"}
  BY <1>2 DEF Stays, Past
<1>3. ASSUME NEW w \in Sweepers PROVE SweepAlone(w)'
  <2> SUFFICES ASSUME pc'[w] \in Past PROVE SweepAlone(w)'
    BY DEF SweepAlone
  <2>1. /\ pc[w] \in Past /\ held'[w] = held[w] /\ cur'[w] = cur[w]
        /\ pc'[w] \in {"check", "upload"} => pc[w] \in {"check", "upload"}
        /\ SweepAlone(w) /\ held[w] \notin OpBlobs
    BY <1>2 DEF Stays, Once, Inductive, SweepsInOrder, SweepInOrder
  <2>2. \A r \in rows' : file'[r].blob = held'[w] => r = cur'[w]
    BY <2>1 DEF SweepAlone, RowsFrom
  <2>3. \A v \in Sweepers : pc'[v] \in Past /\ held'[v] = held'[w] => v = w
    BY <1>2, <2>1 DEF SweepAlone, Stays
  <2>4. pc'[w] \in {"check", "upload"} => \A o \in Unlost' : madeFrom'[o] # held'[w]
    BY <1>1, <2>1 DEF SweepAlone
  <2> QED
    BY <2>2, <2>3, <2>4 DEF SweepAlone
<1>4. PendingUnsent'
  <2> SUFFICES ASSUME NEW r \in Pending', NEW o \in Unlost', madeFrom[o] = file'[r].blob
               PROVE  \E w \in Sweepers : pc'[w] = "record" /\ obj'[w] = o
    BY DEF PendingUnsent
  <2>1. o \in Unlost /\ o \in Before(nextObject) /\ o \notin lost'
    BY <1>1 DEF Unlost
  <2>2. r \in rows' /\ file'[r].blob \notin OpBlobs
    BY <2>1 DEF Once, ObjectsOld, Pending
  <2>3. r \in Pending /\ file[r].blob = madeFrom[o]
    BY <2>2 DEF RowsFrom
  <2>4. PICK w \in Sweepers : pc[w] = "record" /\ obj[w] = o
    BY <2>1, <2>3 DEF Once, PendingUnsent
  <2>5. madeFrom[o] = held[w] /\ Recorded(w)
    BY <2>4 DEF Inductive, SweepsInOrder, SweepInOrder, OwnObject
  <2> QED
    BY <2>1, <2>4, <2>5 DEF Recorded, Stays
<1>5. ObjectsOld'
  BY DEF Once, ObjectsOld, Ranges
<1>6. UploadedOnce'
  BY DEF Once, UploadedOnce
<1> QED
  BY <1>3, <1>4, <1>5, <1>6 DEF Once

\* A sweep takes up the file of a pending row, and the others go on.
LEMMA ReadRowOnce ==
  ASSUME Ranges, TypeOK, Inductive, Once, NEW w \in Sweepers, ReadRow(w),
         cur[w] \in Pending
  PROVE  Once'
<1> DEFINE c == cur[w]
<1>1. /\ rows' = rows /\ file' = file /\ nextBlob' = nextBlob
      /\ nextObject' = nextObject /\ madeFrom' = madeFrom /\ lost' = lost
      /\ opBlob' = opBlob /\ cur' = cur /\ obj' = obj
      /\ pc[w] = "read" /\ pc'[w] = "check" /\ held'[w] = file[c].blob
      /\ \A v \in Sweepers \ {w} : pc'[v] = pc[v] /\ held'[v] = held[v]
  BY DEF ReadRow, Goto, table, drive, request, TypeOK, SweepTypeOK
<1>2. Unlost' = Unlost /\ Pending' = Pending /\ OpBlobs' = OpBlobs
  BY <1>1 DEF Unlost, Pending, OpBlobs
<1>3. c \in rows
  BY DEF Pending
<1>4. ASSUME NEW v \in Sweepers, pc[v] \in Past PROVE held[v] # file[c].blob
  <2>1. cur[v] # c
    BY <1>1, <1>3, <1>4 DEF Inductive, ClaimExclusive, Past, Busy
  <2> QED
    BY <1>3, <1>4, <2>1 DEF Once, SweepAlone
<1>5. SweepAlone(w)'
  <2>1. \A r \in rows : file[r].blob = file[c].blob => r = c
    BY <1>3 DEF Inductive, RowsInOrder
  <2>2. ASSUME NEW o \in Unlost, madeFrom[o] = file[c].blob PROVE FALSE
    <3>1. PICK v \in Sweepers : pc[v] = "record" /\ obj[v] = o
      BY <2>2 DEF Once, PendingUnsent
    <3>2. held[v] = file[c].blob
      BY <2>2, <3>1 DEF Inductive, SweepsInOrder, SweepInOrder, OwnObject
    <3> QED
      BY <1>4, <3>1, <3>2 DEF Past
  <2>3. \A v \in Sweepers : pc'[v] \in Past /\ held'[v] = held'[w] => v = w
    BY <1>1, <1>4
  <2> QED
    BY <1>1, <1>2, <2>1, <2>2, <2>3 DEF SweepAlone
<1>6. ASSUME NEW v \in Sweepers \ {w} PROVE SweepAlone(v)'
  <2> SUFFICES ASSUME pc[v] \in Past PROVE SweepAlone(v)'
    BY <1>1 DEF SweepAlone
  <2>1. \A u \in Sweepers : pc'[u] \in Past /\ held'[u] = held[v] => u = v
    BY <1>1, <1>4 DEF Once, SweepAlone
  <2>2. SweepAlone(v)
    BY DEF Once
  <2> QED
    BY <1>1, <1>2, <2>1, <2>2 DEF SweepAlone
<1>7. PendingUnsent'
  BY <1>1, <1>2 DEF Once, PendingUnsent
<1>8. ObjectsOld' /\ UploadedOnce'
  BY <1>1, <1>2 DEF Once, ObjectsOld, UploadedOnce
<1> QED
  BY <1>5, <1>6, <1>7, <1>8 DEF Once

\* A sweep makes an object of the file it holds, and records it next unless the
\* answer of Drive is lost.
LEMMA ObjectMade ==
  ASSUME Ranges, TypeOK, Inductive, Once, NEW w \in Sweepers, NewObject(w),
         Upload(w) \/ (UploadFails(w) /\ nextObject \in lost')
  PROVE  Once'
<1> DEFINE n == nextObject
<1>1. /\ rows' = rows /\ file' = file /\ nextBlob' = nextBlob /\ opBlob' = opBlob
      /\ lost \subseteq lost' /\ pc[w] = "upload"
  BY DEF Upload, UploadFails, table, request
<1>2. \/ pc'[w] = "record" /\ obj'[w] = n /\ cur'[w] = cur[w] /\ held'[w] = held[w]
      \/ pc'[w] \notin Past /\ n \in lost'
  <2>1. CASE Upload(w)
    BY <2>1 DEF Upload, Goto, TypeOK, SweepTypeOK
  <2>2. CASE UploadFails(w) /\ n \in lost'
    <3>1. PICK left : Release(w, left)
      BY <2>2 DEF UploadFails
    <3> QED
      BY <2>2, <3>1 DEF Release, Goto, NextOrIdle, Past, TypeOK, SweepTypeOK
  <2> QED
    BY <2>1, <2>2
<1>3. \A v \in Sweepers \ {w} :
        pc'[v] = pc[v] /\ cur'[v] = cur[v] /\ held'[v] = held[v] /\ obj'[v] = obj[v]
  BY DEF Upload, UploadFails, Release, Goto, TypeOK, SweepTypeOK
<1>4. /\ nextObject' = n + 1 /\ madeFrom'[n] = held[w]
      /\ \A o \in Before(n) : madeFrom'[o] = madeFrom[o]
  BY NewObjectFacts
<1>5. \A o \in Before(nextObject') : o \in Before(n) \/ o = n
  BY <1>4, NumbersBefore DEF Ranges
<1>6. \A o \in Unlost' : o \in Unlost \/ (o = n /\ n \notin lost')
  BY <1>1, <1>5 DEF Unlost
<1>7. Pending' = Pending /\ OpBlobs' = OpBlobs
  BY <1>1 DEF Pending, OpBlobs
<1>8. SweepAlone(w) /\ SweepInOrder(w) /\ pc[w] \in Past
  BY <1>1 DEF Once, Inductive, SweepsInOrder, Past
<1>9. \A o \in Unlost : o \in Before(n) /\ madeFrom[o] # held[w]
  BY <1>1, <1>8 DEF SweepAlone, Unlost
<1>10. ASSUME NEW v \in Sweepers PROVE SweepAlone(v)'
  <2> SUFFICES ASSUME pc'[v] \in Past PROVE SweepAlone(v)'
    BY DEF SweepAlone
  <2>1. pc[v] \in Past /\ SweepAlone(v) /\ held'[v] = held[v] /\ cur'[v] = cur[v]
    BY <1>2, <1>3, <1>8 DEF Once
  <2>2. \A u \in Sweepers : pc'[u] \in Past =>
          pc[u] \in Past /\ held'[u] = held[u]
    BY <1>2, <1>3, <1>8
  <2>3. ASSUME pc'[v] \in {"check", "upload"}, NEW o \in Unlost'
        PROVE  madeFrom'[o] # held[v]
    <3>1. v # w /\ pc[v] \in {"check", "upload"}
      BY <1>2, <1>3, <2>3 DEF Past
    <3>2. held[v] # held[w]
      BY <1>8, <2>1, <3>1 DEF SweepAlone
    <3> QED
      BY <1>4, <1>6, <1>9, <2>1, <2>3, <3>1, <3>2 DEF SweepAlone
  <2> QED
    BY <1>1, <2>1, <2>2, <2>3 DEF SweepAlone
<1>11. PendingUnsent'
  <2> SUFFICES ASSUME NEW r \in Pending, NEW o \in Unlost', madeFrom'[o] = file[r].blob
               PROVE  \E v \in Sweepers : pc'[v] = "record" /\ obj'[v] = o
    BY <1>1, <1>7 DEF PendingUnsent
  <2>1. CASE o = n /\ n \notin lost'
    BY <1>2, <2>1
  <2>2. CASE o \in Unlost
    <3>1. PICK v \in Sweepers : pc[v] = "record" /\ obj[v] = o
      BY <1>4, <1>9, <2>2 DEF Once, PendingUnsent
    <3> QED
      BY <1>1, <1>3, <3>1
  <2> QED
    BY <1>6, <2>1, <2>2
<1>12. ObjectsOld'
  <2>1. held[w] \in Nat /\ held[w] < nextBlob /\ held[w] \notin OpBlobs
    BY <1>8, NumbersBefore DEF SweepInOrder, Ranges, NoBlob
  <2> QED
    BY <1>1, <1>4, <1>5, <1>7, <2>1 DEF Once, ObjectsOld
<1>13. UploadedOnce'
  BY <1>1, <1>4, <1>5, <1>9 DEF Once, UploadedOnce, Unlost
<1> QED
  BY <1>10, <1>11, <1>12, <1>13 DEF Once

-----------------------------------------------------------------------------
(* The other steps make no object. *)

\* A request begins: its files are new.
LEMMA BeginOnce ==
  ASSUME Ranges, Ranges', Inductive, Once, NEW i \in Items,
         \/ \E withThumbnail \in BOOLEAN : BeginCreate(i, withThumbnail)
         \/ BeginThumbnail(i) \/ BeginDelete(i)
  PROVE  Once'
<1>1. /\ rows' = rows /\ file' = file /\ madeFrom' = madeFrom /\ lost' = lost
      /\ nextObject' = nextObject /\ nextBlob <= nextBlob'
      /\ pc' = pc /\ cur' = cur /\ held' = held /\ obj' = obj
  BY DEF BeginCreate, BeginThumbnail, BeginDelete, table, drive, sweep, Ranges
<1>2. \A b \in OpBlobs' : b \in OpBlobs \/ b >= nextBlob
  <2>1. ASSUME NEW withThumbnail \in BOOLEAN, BeginCreate(i, withThumbnail)
        PROVE  \A b \in OpBlobs' : b >= nextBlob
    BY <2>1 DEF BeginCreate, OpBlobs, Roles, NoBlob, Ranges
  <2>2. CASE BeginThumbnail(i)
    BY <2>2 DEF BeginThumbnail, OpBlobs, NoBlobs, Roles, NoBlob, Ranges
  <2>3. CASE BeginDelete(i)
    BY <2>3 DEF BeginDelete, OpBlobs
  <2> QED
    BY <2>1, <2>2, <2>3
<1>3. RowsFrom
  BY <1>1 DEF RowsFrom, Pending
<1>4. \A w \in Sweepers : Stays(w) /\ (pc[w] = "record" => Recorded(w))
  BY <1>1 DEF Stays, Recorded
<1> QED
  BY <1>1, <1>2, <1>3, <1>4, NothingMade

\* A request is cut off or discards content, or the process dies.
LEMMA RequestOnce ==
  ASSUME Ranges, Ranges', Inductive, Once,
         \/ AbortCreate \/ RollbackThumbnail \/ AbortDelete \/ Crash
         \/ \E r \in Ids : DiscardContent(r)
         \/ MarkDirty \/ Snapshot \/ UNCHANGED vars
  PROVE  Once'
<1>1. /\ rows' = rows /\ file' = file /\ madeFrom' = madeFrom /\ lost \subseteq lost'
      /\ nextObject' = nextObject /\ nextBlob' = nextBlob
  BY DEF AbortCreate, RollbackThumbnail, AbortDelete, Crash, DiscardContent,
         MarkDirty, Snapshot, table, drive, vars
<1>2. \A b \in OpBlobs' : b \in OpBlobs
  BY EndOpInOrder
  DEF AbortCreate, RollbackThumbnail, AbortDelete, Crash, DiscardContent,
      MarkDirty, Snapshot, OpBlobs, request, vars
<1>3. RowsFrom
  BY <1>1 DEF RowsFrom, Pending
<1>4. ASSUME NEW w \in Sweepers
      PROVE  /\ Stays(w) \/ pc'[w] \notin Past
             /\ pc[w] = "record" => Recorded(w)
  <2>1. CASE Crash
    BY <2>1 DEF Crash, Past, Recorded
  <2>2. CASE ~Crash
    BY <2>2 DEF AbortCreate, RollbackThumbnail, AbortDelete, DiscardContent,
                MarkDirty, Snapshot, sweep, vars, Stays, Recorded
  <2> QED
    BY <2>1, <2>2
<1> QED
  BY <1>1, <1>2, <1>3, <1>4, NothingMade DEF Ranges

\* A commit: the rows that come are the request's.
LEMMA CommitOnce ==
  ASSUME Ranges, Ranges', TypeOK, Inductive, Once,
         CommitCreate \/ RefreshFails \/ CommitThumbnail \/ CommitDelete
  PROVE  Once'
<1>1. /\ madeFrom' = madeFrom /\ lost' = lost
      /\ nextObject' = nextObject /\ nextBlob' = nextBlob
      /\ pc' = pc /\ cur' = cur /\ held' = held /\ obj' = obj
  BY DEF CommitCreate, RefreshFails, CommitThumbnail, CommitDelete, drive, sweep
<1>2. OpBlobs' = {}
  BY EndOpInOrder DEF CommitCreate, RefreshFails, CommitThumbnail, CommitDelete
<1>3. PICK old, new : Replaced(old, new)
  BY CreateReplaces, ThumbnailReplaces, DeleteReplaces
  DEF RowsReplacedWith, Inductive, Kept
<1>4. RowsFrom
  BY <1>3 DEF Replaced, Comes, RowsFrom, Pending
<1>5. \A w \in Sweepers : Stays(w) /\ (pc[w] = "record" => Recorded(w))
  BY <1>1 DEF Stays, Recorded
<1> QED
  BY <1>1, <1>2, <1>4, <1>5, NothingMade DEF Ranges

\* The steps of a sweep that make no object and read no row.
LEMMA SweepOnce ==
  ASSUME Ranges, Ranges', TypeOK, Inductive, Once, NEW w \in Sweepers,
         \/ SweepStart(w) \/ \E r \in Ids : Claim(w, r)
         \/ (ReadRow(w) /\ cur[w] \notin Pending) \/ CheckCache(w) \/ DropRow(w)
         \/ (UploadFails(w) /\ UNCHANGED drive) \/ Record(w) \/ Finish(w)
  PROVE  Once'
<1>1. /\ madeFrom' = madeFrom /\ lost \subseteq lost'
      /\ nextObject' = nextObject /\ nextBlob' = nextBlob /\ opBlob' = opBlob
  BY DEF SweepStart, Claim, ReadRow, CheckCache, DropRow, UploadFails, Record,
         Finish, drive, request
<1>2. OpBlobs' = OpBlobs
  BY <1>1 DEF OpBlobs
<1>3. RowsFrom
  <2>1. CASE DropRow(w)
    BY <2>1 DEF DropRow, RowsFrom, Pending, TypeOK, TableTypeOK
  <2>2. CASE Record(w)
    <3>1. OwnObject(w) /\ obj[w] # NoObject
      BY <2>2, NumbersBefore
      DEF Record, Inductive, SweepsInOrder, SweepInOrder, OwnObject, Ranges, NoObject
    <3> QED
      BY <2>2, <3>1 DEF Record, RowsFrom, Pending, TypeOK, TableTypeOK, File
  <2>3. CASE ~DropRow(w) /\ ~Record(w)
    BY <2>3 DEF SweepStart, Claim, ReadRow, CheckCache, UploadFails, Finish,
                table, RowsFrom, Pending
  <2> QED
    BY <2>1, <2>2, <2>3
<1>4. \A v \in Sweepers \ {w} : Stays(v) /\ pc'[v] = pc[v]
  BY DEF SweepStart, Claim, ReadRow, CheckCache, DropRow, UploadFails, Record,
         Finish, Release, Goto, Stays, TypeOK, SweepTypeOK
<1>5. Stays(w) \/ pc'[w] \notin Past
  <2>1. CASE CheckCache(w)
    BY <2>1 DEF CheckCache, Goto, Stays, TypeOK, SweepTypeOK
  <2>2. CASE ~CheckCache(w)
    BY <2>2 DEF SweepStart, Claim, ReadRow, DropRow, UploadFails, Record, Finish,
                Release, Goto, NextOrIdle, Past, TypeOK, SweepTypeOK
  <2> QED
    BY <2>1, <2>2
<1>6. pc[w] = "record" => Recorded(w)
  <2> SUFFICES ASSUME pc[w] = "record",
                      NEW r \in Pending', file'[r].blob = held[w]
               PROVE  FALSE
    BY DEF Recorded
  <2>1. Record(w)
    BY DEF SweepStart, Claim, ReadRow, CheckCache, DropRow, UploadFails, Finish
  <2>2. held[w] \notin OpBlobs /\ OwnObject(w) /\ obj[w] # NoObject
    BY NumbersBefore
    DEF Inductive, SweepsInOrder, SweepInOrder, OwnObject, Ranges, NoObject
  <2>3. r \in Pending /\ file[r].blob = held[w]
    BY <1>3, <2>2 DEF RowsFrom, Pending
  <2>4. r = cur[w]
    BY <2>3 DEF Once, SweepAlone, Past, Pending
  <2>5. file'[r].object = obj[w]
    BY <2>1, <2>3, <2>4 DEF Record, TypeOK, TableTypeOK, File, Pending
  <2> QED
    BY <2>2, <2>5 DEF Pending
<1>7. \A v \in Sweepers : pc[v] = "record" => Recorded(v)
  BY <1>4, <1>6 DEF Recorded
<1> QED
  BY <1>1, <1>2, <1>3, <1>4, <1>5, <1>7, NothingMade DEF Ranges

-----------------------------------------------------------------------------

\* Initially there are no objects.
LEMMA InitOnce == Init => Once
  BY NumbersBefore
  DEF Init, Once, SweepAlone, PendingUnsent, ObjectsOld, UploadedOnce, Past,
      Pending, Unlost

\* Every step keeps it.
LEMMA NextOnce == TypeOK /\ TypeOK' /\ Inductive /\ Once /\ [Next]_vars => Once'
<1> SUFFICES ASSUME TypeOK, TypeOK', Inductive, Once, [Next]_vars PROVE Once'
  OBVIOUS
<1>1. Ranges /\ Ranges'
  BY TypedRanges
<1>2. CASE OpStep
  BY <1>1, <1>2, CommitOnce, RequestOnce DEF OpStep
<1>3. ASSUME NEW w \in Sweepers, UploadFails(w) PROVE Once'
  <2>1. UNCHANGED drive \/ (NewObject(w) /\ nextObject \in lost')
    BY <1>3 DEF UploadFails
  <2> QED
    BY <1>1, <1>3, <2>1, SweepOnce, ObjectMade
<1>4. ASSUME NEW w \in Sweepers, Upload(w) PROVE Once'
  BY <1>1, <1>4, ObjectMade DEF Upload
<1>5. ASSUME NEW w \in Sweepers, ReadRow(w) PROVE Once'
  BY <1>1, <1>5, ReadRowOnce, SweepOnce
<1>6. ASSUME NEW w \in Sweepers,
             \/ SweepStart(w) \/ \E r \in Ids : Claim(w, r)
             \/ CheckCache(w) \/ DropRow(w) \/ Record(w) \/ Finish(w)
      PROVE  Once'
  BY <1>1, <1>6, SweepOnce
<1>7. ASSUME NEW i \in Items,
             \/ \E withThumbnail \in BOOLEAN : BeginCreate(i, withThumbnail)
             \/ BeginThumbnail(i) \/ BeginDelete(i)
      PROVE  Once'
  BY <1>1, <1>7, BeginOnce
<1>8. CASE MarkDirty \/ Snapshot \/ Crash \/ UNCHANGED vars
  BY <1>1, <1>8, RequestOnce
<1> QED
  BY <1>2, <1>3, <1>4, <1>5, <1>6, <1>7, <1>8 DEF Next, SweepStep

\* No file is on Drive twice, for all items, sweeps and bounds, unless the
\* program never heard of one of its uploads.
THEOREM UploadsOnce == Spec => []UploadedOnce
<1>1. Init => Once
  BY InitOnce
<1>2. TypeOK /\ TypeOK' /\ Inductive /\ Once /\ [Next]_vars => Once'
  BY NextOnce
<1>3. Once => UploadedOnce
  BY DEF Once
<1> QED
  BY <1>1, <1>2, <1>3, TypeCorrect, Invariant, PTL DEF Spec

-----------------------------------------------------------------------------
(* The cache does not leak. *)

IsNeeded(b) ==
  \/ b \in OpBlobs \cup reused
  \/ \E r \in Pending : file[r].blob = b
  \/ \E w \in Sweepers : pc[w] = "finish" /\ held[w] = b

\* What is discarded of a pending row is its cached file, and a row is dropped
\* because its file is not there.
Transient ==
  faults = 0 =>
    /\ \A b \in cache : IsNeeded(b)
    /\ \A r \in Doomed \ opLeft : r \in Pending => file[r].blob \notin cache
    /\ \A w \in Sweepers : pc[w] = "drop" => held[w] \notin cache

\* A step that writes no row.
LEMMA RowsLeftTransient ==
  ASSUME Transient, rows' = rows, file' = file, reused' = reused,
         faults' = 0 => faults = 0,
         cache' \subseteq cache \cup OpBlobs', OpBlobs \subseteq OpBlobs',
         \A r \in Doomed' \ opLeft' :
           \/ r \in Doomed \ opLeft /\ file[r].blob \notin OpBlobs'
           \/ r \in Pending => file[r].blob \notin cache',
         \A w \in Sweepers : pc'[w] = "drop" => held'[w] \notin cache',
         \A w \in Sweepers : pc[w] = "finish" =>
           (pc'[w] = "finish" /\ held'[w] = held[w]) \/ held[w] \notin cache'
  PROVE  Transient'
<1> SUFFICES ASSUME faults' = 0 PROVE Transient'
  BY DEF Transient
<1>1. Pending' = Pending
  BY DEF Pending
<1>2. ASSUME NEW b \in cache' PROVE IsNeeded(b)'
  <2>1. CASE b \in OpBlobs'
    BY <2>1 DEF IsNeeded
  <2>2. CASE b \notin OpBlobs'
    <3>1. b \in cache /\ IsNeeded(b) /\ b \notin OpBlobs
      BY <1>2, <2>2 DEF Transient
    <3> QED
      BY <1>1, <1>2, <3>1 DEF IsNeeded
  <2> QED
    BY <2>1, <2>2
<1>3. \A r \in Doomed' \ opLeft' : r \in Pending' => file'[r].blob \notin cache'
  BY <1>1 DEF Transient
<1> QED
  BY <1>2, <1>3 DEF Transient

\* A request begins, discards content or is cut off, or the process dies.
LEMMA RequestTransient ==
  ASSUME TypeOK, Ranges, Inductive, Transient,
         \/ \E i \in Items :
              \/ \E withThumbnail \in BOOLEAN : BeginCreate(i, withThumbnail)
              \/ BeginThumbnail(i) \/ BeginDelete(i)
         \/ \E r \in Ids : DiscardContent(r)
         \/ AbortCreate \/ RefreshFails \/ RollbackThumbnail \/ AbortDelete \/ Crash
  PROVE  Transient'
<1>1. CASE AbortCreate \/ RefreshFails \/ RollbackThumbnail \/ AbortDelete \/ Crash
  <2>1. faults' # 0
    BY <1>1 DEF AbortCreate, RefreshFails, RollbackThumbnail, AbortDelete, Crash, Fault, TypeOK,
                MarksTypeOK
  <2> QED
    BY <2>1 DEF Transient
<1>2. ASSUME NEW r \in Ids, DiscardContent(r) PROVE Transient'
  <2>1. /\ rows' = rows /\ file' = file /\ reused' = reused /\ cache' \subseteq cache
        /\ op' = op /\ opItem' = opItem /\ opBlob' = opBlob /\ opLeft' = opLeft \ {r}
        /\ pc' = pc /\ held' = held
        /\ file[r].object = NoObject => file[r].blob \notin cache'
    BY <1>2 DEF DiscardContent, table, sweep
  <2>2. faults' = 0 => faults = 0
    BY <1>2 DEF DiscardContent, Fault, TypeOK, MarksTypeOK
  <2>3. CASE faults' # 0
    BY <2>3 DEF Transient
  <2>4. CASE faults' = 0
    <3>1. OpBlobs' = OpBlobs /\ Doomed' = Doomed
      BY <2>1 DEF OpBlobs, Doomed, FilesOf
    <3>2. \A q \in Doomed \ opLeft : q \in Pending => file[q].blob \notin cache'
      BY <2>1, <2>2, <2>4 DEF Transient
    <3>3. \A q \in Doomed' \ opLeft' : q \in Pending => file[q].blob \notin cache'
      BY <2>1, <3>1, <3>2 DEF Pending
    <3>4. \A w \in Sweepers : pc'[w] = "drop" => held'[w] \notin cache'
      BY <2>1, <2>2, <2>4 DEF Transient
    <3> QED
      BY <2>1, <2>2, <3>1, <3>3, <3>4, RowsLeftTransient
  <2> QED
    BY <2>3, <2>4
<1>3. ASSUME NEW i \in Items,
             \/ \E withThumbnail \in BOOLEAN : BeginCreate(i, withThumbnail)
             \/ BeginThumbnail(i) \/ BeginDelete(i)
      PROVE  Transient'
  <2>1. /\ rows' = rows /\ file' = file /\ reused' = reused /\ faults' = faults
        /\ pc' = pc /\ held' = held
    BY <1>3 DEF BeginCreate, BeginThumbnail, BeginDelete, table, sweep
  <2>2. OpBlobs = {}
    BY <1>3 DEF BeginCreate, BeginThumbnail, BeginDelete, LockFree, Inductive, OpInOrder
  <2>3. /\ cache' \subseteq cache \cup OpBlobs'
        /\ \A b \in cache' : b \in cache \/ b >= nextBlob
    <3>1. ASSUME NEW withThumbnail \in BOOLEAN, BeginCreate(i, withThumbnail)
          PROVE  /\ cache' \subseteq cache \cup OpBlobs'
                 /\ \A b \in cache' : b \in cache \/ b >= nextBlob
      BY <3>1 DEF BeginCreate, OpBlobs, Roles, NoBlob, Ranges
    <3>2. CASE BeginThumbnail(i)
      BY <3>2 DEF BeginThumbnail, OpBlobs, NoBlobs, Roles, NoBlob, Ranges
    <3>3. CASE BeginDelete(i)
      BY <3>3 DEF BeginDelete
    <3> QED
      BY <1>3, <3>1, <3>2, <3>3
  <2>4. Doomed' \subseteq opLeft'
    BY <1>3 DEF BeginCreate, BeginThumbnail, BeginDelete, Doomed, FilesOf, table
  <2>5. ASSUME NEW w \in Sweepers, pc[w] = "drop", faults = 0
        PROVE  held[w] \notin cache'
    <3>1. held[w] \notin cache /\ held[w] < nextBlob /\ held[w] \in Nat
      BY <2>5, NumbersBefore
      DEF Transient, Inductive, SweepsInOrder, SweepInOrder, Ranges, NoBlob
    <3> QED
      BY <2>3, <3>1 DEF Ranges
  <2>6. CASE faults = 0
    BY <2>1, <2>2, <2>3, <2>4, <2>5, <2>6, RowsLeftTransient
  <2>7. CASE faults # 0
    BY <2>1, <2>7 DEF Transient
  <2> QED
    BY <2>6, <2>7
<1> QED
  BY <1>1, <1>2, <1>3

\* A sweep's steps between its reads and writes of rows, and nobody's steps.
LEMMA SweepTransient ==
  ASSUME TypeOK, Ranges, Inductive, Transient,
         \/ MarkDirty \/ Snapshot \/ UNCHANGED vars
         \/ \E w \in Sweepers :
              \/ SweepStart(w) \/ \E r \in Ids : Claim(w, r)
              \/ ReadRow(w) \/ CheckCache(w)
              \/ Upload(w) \/ UploadFails(w) \/ Finish(w)
  PROVE  Transient'
<1>1. /\ rows' = rows /\ file' = file /\ reused' = reused /\ cache' \subseteq cache
      /\ op' = op /\ opItem' = opItem /\ opBlob' = opBlob /\ opLeft' = opLeft
      /\ faults' = 0 => faults = 0
  BY DEF MarkDirty, Snapshot, SweepStart, Claim, ReadRow, CheckCache, Upload,
         UploadFails, Finish, Fault, table, request, vars, TypeOK, MarksTypeOK
<1>2. OpBlobs' = OpBlobs /\ Doomed' = Doomed
  BY <1>1 DEF OpBlobs, Doomed, FilesOf
<1>3. ASSUME NEW w \in Sweepers
      PROVE  /\ pc'[w] = "drop" =>
                  held'[w] = held[w] /\ (pc[w] = "drop" \/ held[w] \notin cache')
             /\ pc[w] = "finish" =>
                  (pc'[w] = "finish" /\ held'[w] = held[w]) \/ held[w] \notin cache'
  <2>1. CASE MarkDirty \/ Snapshot \/ UNCHANGED vars
    BY <2>1 DEF MarkDirty, Snapshot, sweep, vars
  <2>2. ASSUME NEW v \in Sweepers,
               \/ SweepStart(v) \/ \E r \in Ids : Claim(v, r)
               \/ ReadRow(v) \/ CheckCache(v)
               \/ Upload(v) \/ UploadFails(v) \/ Finish(v)
        PROVE  /\ \/ pc'[w] = pc[w] /\ held'[w] = held[w]
                  \/ pc[w] # "finish" /\ pc'[w] # "drop"
                  \/ pc[w] = "check" /\ held'[w] = held[w] /\ held[w] \notin cache'
                  \/ pc'[w] # "drop" /\ held[w] \notin cache'
    <3>1. CASE CheckCache(v)
      BY <3>1 DEF CheckCache, Goto, TypeOK, SweepTypeOK
    <3>2. CASE \/ SweepStart(v) \/ \E r \in Ids : Claim(v, r)
               \/ ReadRow(v) \/ Upload(v)
      BY <3>2 DEF SweepStart, Claim, ReadRow, Upload, Release, Goto, NextOrIdle,
                  TypeOK, SweepTypeOK
    <3>3. CASE UploadFails(v) \/ Finish(v)
      BY <3>3 DEF UploadFails, Finish, Release, Goto, NextOrIdle, TypeOK, SweepTypeOK
    <3> QED
      BY <2>2, <3>1, <3>2, <3>3
  <2> QED
    BY <2>1, <2>2
<1> QED
  BY <1>1, <1>2, <1>3, RowsLeftTransient DEF Transient

\* A commit leaves the rows alone that the request was not about to delete.
LEMMA OthersStay ==
  ASSUME Ranges, CommitCreate \/ CommitThumbnail \/ CommitDelete,
         NEW r \in rows \ Doomed
  PROVE  r \in rows' /\ file'[r] = file[r]
<1>1. CASE CommitCreate
  <2> DEFINE new(p) == IF opBlob["thumbnail"] = NoBlob THEN {p} ELSE {p, p + 1}
  <2>1. PICK p \in Ids :
          /\ IsNewId(p, rows)
          /\ rows' = rows \cup new(p)
          /\ file' = [q \in Ids |->
               IF q \notin new(p) THEN file[q]
               ELSE NewFile(IF q = p THEN "primary" ELSE "thumbnail")]
    BY <1>1 DEF CommitCreate, InsertRows
  <2>2. p \notin rows /\ p + 1 \notin rows
    BY <2>1, NewIdIsFree DEF Ranges
  <2> QED
    BY <2>1, <2>2 DEF Ranges
<1>2. CASE CommitThumbnail
  <2> DEFINE old == FilesOf(opItem, "thumbnail")
  <2>1. PICK n \in Ids :
          /\ IsNewId(n, rows \ old)
          /\ rows' = (rows \ old) \cup {n}
          /\ file' = [q \in Ids |-> IF q = n THEN NewFile("thumbnail")
                                    ELSE IF q \in old THEN NoFile ELSE file[q]]
    BY <1>2 DEF CommitThumbnail
  <2>2. r \in rows \ old
    BY <1>2 DEF CommitThumbnail, Doomed
  <2>3. n \notin rows \ old
    BY <2>1, NewIdIsFree DEF Ranges
  <2> HIDE DEF old
  <2> QED
    BY <2>1, <2>2, <2>3 DEF Ranges
<1>3. CASE CommitDelete
  BY <1>3 DEF CommitDelete, Doomed, Ranges
<1> QED
  BY <1>1, <1>2, <1>3

\* A commit: the request's files become those of pending rows.
LEMMA CommitTransient ==
  ASSUME TypeOK, Ranges, Inductive, Transient,
         CommitCreate \/ CommitThumbnail \/ CommitDelete
  PROVE  Transient'
<1> SUFFICES ASSUME faults = 0 PROVE Transient'
  BY DEF Transient, CommitCreate, CommitThumbnail, CommitDelete
<1>1. /\ cache' = cache /\ pc' = pc /\ held' = held /\ opLeft = {}
      /\ EndOp
  BY DEF CommitCreate, CommitThumbnail, CommitDelete, sweep, Inductive, OpInOrder
<1>2. /\ \E old, new : Replaced(old, new)
      /\ reused \subseteq reused'
  BY CreateReplaces, ThumbnailReplaces, DeleteReplaces
  DEF RowsReplacedWith, Inductive, Kept
<1>3. ASSUME NEW b \in cache PROVE IsNeeded(b)'
  <2>1. CASE b \in OpBlobs
    BY <1>2, <2>1 DEF Replaced, Comes, IsNeeded, Pending
  <2>2. ASSUME NEW r \in Pending, file[r].blob = b PROVE IsNeeded(b)'
    <3>1. r \in rows \ Doomed
      BY <1>1, <2>2 DEF Transient, Pending
    <3>2. r \in rows' /\ file'[r] = file[r]
      BY <3>1, OthersStay
    <3> QED
      BY <2>2, <3>2 DEF IsNeeded, Pending
  <2>3. CASE \/ b \in reused
             \/ \E w \in Sweepers : pc[w] = "finish" /\ held[w] = b
    BY <1>1, <1>2, <2>3 DEF IsNeeded
  <2> QED
    BY <2>1, <2>2, <2>3 DEF Transient, IsNeeded
<1>4. Doomed' = {}
  BY <1>1 DEF EndOp, Doomed
<1> QED
  BY <1>1, <1>3, <1>4 DEF Transient

\* A sweep drops or records a row.
LEMMA RowTransient ==
  ASSUME TypeOK, Ranges, Inductive, Transient, NEW w \in Sweepers,
         DropRow(w) \/ Record(w)
  PROVE  Transient'
<1> SUFFICES ASSUME faults = 0 PROVE Transient'
  BY DEF Transient, DropRow, Record
<1>1. /\ cache' = cache /\ reused' = reused /\ op' = op /\ op = "none"
      /\ opBlob' = opBlob /\ pc[w] \in {"drop", "record"}
  BY DEF DropRow, Record, request, LockFree
<1>2. OpBlobs' = OpBlobs /\ Doomed' = {}
  BY <1>1 DEF OpBlobs, Doomed
<1>3. /\ pc'[w] # "drop"
      /\ \A v \in Sweepers \ {w} : pc'[v] = pc[v] /\ held'[v] = held[v]
  BY DEF DropRow, Record, Release, Goto, NextOrIdle, TypeOK, SweepTypeOK
<1>4. \A r \in Pending \ {cur[w]} : r \in Pending' /\ file'[r].blob = file[r].blob
  BY DEF DropRow, Record, Pending, table, TypeOK, TableTypeOK
<1>5. PastRead(w)
  BY <1>1 DEF Inductive, SweepsInOrder, SweepInOrder, Past
<1>6. ASSUME NEW b \in cache PROVE IsNeeded(b)'
  <2>1. IsNeeded(b)
    BY DEF Transient
  <2>2. CASE b \in OpBlobs \cup reused
    BY <1>1, <1>2, <2>2 DEF IsNeeded
  <2>3. ASSUME NEW v \in Sweepers, pc[v] = "finish", held[v] = b PROVE IsNeeded(b)'
    BY <1>1, <1>3, <2>3 DEF IsNeeded
  <2>4. ASSUME NEW r \in Pending, file[r].blob = b PROVE IsNeeded(b)'
    <3>1. CASE r # cur[w]
      BY <1>4, <2>4, <3>1 DEF IsNeeded
    <3>2. CASE r = cur[w] /\ ~OnItsRow(w)
      BY <1>1, <1>5, <2>4, <3>2 DEF PastRead, IsNeeded, Pending
    <3>3. CASE r = cur[w] /\ OnItsRow(w) /\ DropRow(w)
      BY <1>6, <2>4, <3>3 DEF OnItsRow, DropRow, Transient
    <3>4. CASE r = cur[w] /\ OnItsRow(w) /\ Record(w)
      <4>1. pc'[w] = "finish" /\ held'[w] = b
        BY <2>4, <3>4 DEF OnItsRow, Record, Goto, TypeOK, SweepTypeOK
      <4> QED
        BY <4>1 DEF IsNeeded
    <3> QED
      BY <3>1, <3>2, <3>3, <3>4
  <2> QED
    BY <2>1, <2>2, <2>3, <2>4 DEF IsNeeded
<1> QED
  BY <1>1, <1>2, <1>3, <1>6 DEF Transient

\* Without faults the cache holds what is needed and nothing else, for all
\* items, sweeps and bounds.
THEOREM CacheStaysSmall == Spec => []CacheIsTransient
<1>1. Init => Transient
  BY DEF Init, Transient, Doomed
<1>2. TypeOK /\ Inductive /\ Transient /\ [Next]_vars => Transient'
  <2> SUFFICES ASSUME TypeOK, Inductive, Transient, [Next]_vars PROVE Transient'
    OBVIOUS
  <2>1. Ranges
    BY TypedRanges
  <2>2. CASE CommitCreate \/ CommitThumbnail \/ CommitDelete
    BY <2>1, <2>2, CommitTransient
  <2>3. ASSUME NEW w \in Sweepers, DropRow(w) \/ Record(w) PROVE Transient'
    BY <2>1, <2>3, RowTransient
  <2> QED
    BY <2>1, <2>2, <2>3, RequestTransient, SweepTransient DEF Next, OpStep, SweepStep
<1>3. Transient => CacheIsTransient
  BY DEF Transient, IsNeeded, CacheIsTransient
<1> QED
  BY <1>1, <1>2, <1>3, TypeCorrect, Invariant, PTL DEF Spec
=============================================================================
