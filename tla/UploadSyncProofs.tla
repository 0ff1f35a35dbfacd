--------------------------- MODULE UploadSyncProofs --------------------------
(***************************************************************************)
(* Proofs about UploadSync, for any items, sweeps and bounds: type         *)
(* correctness, the exclusion of claims, that every commit is marked, and, *)
(* by the inductive invariant Inductive, that accepted files are kept.     *)
(***************************************************************************)
EXTENDS UploadSync, TLAPS

\* An empty library is well typed.
LEMMA InitTypeOK == Init => TypeOK
<1> SUFFICES ASSUME Init PROVE TypeOK
  OBVIOUS
<1> USE BoundsAssumption DEF Init
<1>1. file \in [Ids -> File] /\ opBlob \in [Roles -> Blobs \cup {NoBlob}]
  BY DEF File, NoFile, NoBlobs, Roles
<1>2. /\ pc \in [Sweepers -> Busy \cup {"idle", "next"}]
      /\ todo \in [Sweepers -> SUBSET Ids]
      /\ cur \in [Sweepers -> Ids \cup {NoId}]
      /\ held \in [Sweepers -> Blobs \cup {NoBlob}]
      /\ obj \in [Sweepers -> Objects \cup {NoObject}]
      /\ madeFrom \in [Objects -> Blobs \cup {NoBlob}]
  OBVIOUS
<1>3. /\ items \subseteq Items /\ rows \subseteq Ids /\ cache \subseteq Blobs
      /\ live \subseteq Objects /\ opLeft \subseteq Ids /\ claimed \subseteq Ids
      /\ behind \subseteq Kinds /\ released \subseteq Blobs /\ reused \subseteq Blobs
      /\ lost \subseteq Objects
  OBVIOUS
<1>4. /\ nextObject \in 1 .. (MaxObject + 1) /\ nextBlob \in 1 .. (MaxBlob + 1)
      /\ marksDue \in Nat /\ faults \in 0 .. MaxFaults
  OBVIOUS
<1>5. /\ op \in {"none", "create", "thumbnail", "delete"}
      /\ opItem \in {NoItem} /\ op = "none" /\ dirty \in BOOLEAN
  OBVIOUS
<1> QED
  BY <1>1, <1>2, <1>3, <1>4, <1>5
  DEF TypeOK, TableTypeOK, DriveTypeOK, RequestTypeOK, SweepTypeOK, MarksTypeOK

\* The request is over: its variables are reset.
LEMMA EndOpType == ASSUME EndOp PROVE RequestTypeOK'
  BY DEF EndOp, RequestTypeOK, NoBlobs

\* A sweep leaves its row and gives its claim back.
LEMMA ReleaseType ==
  ASSUME SweepTypeOK, NEW w \in Sweepers, NEW left \in SUBSET Ids, Release(w, left)
  PROVE  SweepTypeOK'
  BY DEF SweepTypeOK, Release, Goto, NextOrIdle

\* A sweep creates an object on Drive.
LEMMA NewObjectType ==
  ASSUME DriveTypeOK, SweepTypeOK, NEW w \in Sweepers, NewObject(w),
         cache' = cache, nextBlob' = nextBlob
  PROVE  DriveTypeOK' /\ nextObject \in Objects
<1> USE BoundsAssumption DEF DriveTypeOK, SweepTypeOK, NewObject
<1>1. nextObject \in Objects /\ nextObject' \in 1 .. (MaxObject + 1)
  BY DEF Objects
<1>2. madeFrom' \in [Objects -> Blobs \cup {NoBlob}]
  BY <1>1
<1>3. live' \subseteq Objects
  BY <1>1
<1> QED
  BY <1>1, <1>2, <1>3

\* A fault is counted.
LEMMA FaultType == ASSUME MarksTypeOK, Fault PROVE faults' \in 0 .. MaxFaults
  BY BoundsAssumption DEF MarksTypeOK, Fault

\* The rows that a commit writes are well typed.
LEMMA NewFileType ==
  ASSUME RequestTypeOK, NEW role \in Roles
  PROVE  NewFile(role) \in File
  BY DEF RequestTypeOK, NewFile, File

\* A row that is gone leaves a well-typed entry.
LEMMA NoFileType == NoFile \in File
  BY DEF NoFile, File, Roles

\* The blobs that one create takes are blobs.
LEMMA NewBlobs ==
  ASSUME NEW n \in 1 .. (MaxBlob + 1), NEW m \in {n, n + 1}, m <= MaxBlob
  PROVE  /\ m \in Blobs /\ n \in Blobs /\ n .. m \subseteq Blobs
         /\ m + 1 \in 1 .. (MaxBlob + 1)
  BY BoundsAssumption DEF Blobs

\* Every step keeps the types, action by action.
LEMMA NextTypeOK == TypeOK /\ [Next]_vars => TypeOK'
<1> SUFFICES ASSUME TypeOK, [Next]_vars PROVE TypeOK'
  OBVIOUS
<1> USE DEF TypeOK, TableTypeOK, DriveTypeOK, RequestTypeOK, SweepTypeOK,
            MarksTypeOK, table, drive, request, sweep
<1>1. ASSUME NEW i \in Items, NEW withThumbnail \in BOOLEAN, BeginCreate(i, withThumbnail)
      PROVE  TypeOK'
  <2>1. PICK last \in {nextBlob, nextBlob + 1} :
          /\ last <= MaxBlob
          /\ nextBlob' = last + 1
          /\ cache' = cache \cup nextBlob .. last
          /\ opBlob' = [primary |-> nextBlob,
                        thumbnail |-> IF withThumbnail THEN last ELSE NoBlob]
    BY <1>1 DEF BeginCreate
  <2>2. /\ last \in Blobs /\ nextBlob \in Blobs
        /\ nextBlob .. last \subseteq Blobs
        /\ last + 1 \in 1 .. (MaxBlob + 1)
    BY <2>1, BoundsAssumption, NewBlobs
  <2>3. nextBlob' \in 1 .. (MaxBlob + 1) /\ cache' \subseteq Blobs
    BY <2>1, <2>2
  <2>4. opBlob' \in [Roles -> Blobs \cup {NoBlob}]
    BY <2>1, <2>2 DEF Roles
  <2> QED
    BY <1>1, <2>3, <2>4 DEF BeginCreate
<1>2. ASSUME NEW i \in Items, BeginThumbnail(i)
      PROVE  TypeOK'
  <2>1. nextBlob' \in 1 .. (MaxBlob + 1) /\ nextBlob \in Blobs
    BY <1>2, BoundsAssumption DEF BeginThumbnail, Blobs
  <2>2. opBlob' \in [Roles -> Blobs \cup {NoBlob}]
    BY <1>2, <2>1 DEF BeginThumbnail, NoBlobs
  <2>3. opLeft' \subseteq Ids
    BY <1>2 DEF BeginThumbnail, FilesOf
  <2> QED
    BY <1>2, <2>1, <2>2, <2>3 DEF BeginThumbnail
<1>3. ASSUME NEW i \in Items, BeginDelete(i)
      PROVE  TypeOK'
  BY <1>3 DEF BeginDelete
<1>4. ASSUME CommitCreate \/ RefreshFails
      PROVE  TypeOK'
  <2> DEFINE new(p) == IF opBlob["thumbnail"] = NoBlob THEN {p} ELSE {p, p + 1}
  <2>1. PICK p \in Ids :
          /\ new(p) \subseteq Ids
          /\ rows' = rows \cup new(p)
          /\ file' = [r \in Ids |->
               IF r \notin new(p) THEN file[r]
               ELSE NewFile(IF r = p THEN "primary" ELSE "thumbnail")]
          /\ reused' = reused \cup {file'[r].blob : r \in new(p) \cap PastIds}
    BY <1>4 DEF CommitCreate, RefreshFails, InsertRows
  <2> HIDE DEF new
  <2>2. file' \in [Ids -> File]
    BY <2>1, NewFileType DEF Roles
  <2>3. \A r \in Ids : file'[r].blob \in Blobs \cup {NoBlob}
    BY <2>2 DEF File
  <2>4. items' \subseteq Items
    BY <1>4 DEF CommitCreate, RefreshFails, InsertRows
  <2>5. rows' \subseteq Ids /\ reused' \subseteq Blobs \cup {NoBlob}
    BY <2>1, <2>3
  <2>6. RequestTypeOK'
    BY <1>4, EndOpType DEF CommitCreate, RefreshFails
  <2>7. OpBlobs \subseteq Blobs
    BY DEF OpBlobs
  <2>8. CASE CommitCreate
    BY <2>2, <2>4, <2>5, <2>6, <2>8 DEF CommitCreate, Kinds
  <2>9. CASE RefreshFails
    BY <2>2, <2>4, <2>5, <2>6, <2>7, <2>9, FaultType DEF RefreshFails, Kinds
  <2> QED
    BY <1>4, <2>8, <2>9
<1>5. ASSUME AbortCreate
      PROVE  TypeOK'
  <2>1. RequestTypeOK'
    BY <1>5, EndOpType DEF AbortCreate
  <2>2. OpBlobs \subseteq Blobs
    BY DEF OpBlobs
  <2> QED
    BY <1>5, <2>1, <2>2, FaultType DEF AbortCreate
<1>6. ASSUME NEW r \in Ids, DiscardContent(r)
      PROVE  TypeOK'
  <2>1. file[r].blob \in Blobs \cup {NoBlob}
    BY DEF File
  <2>2. faults' \in 0 .. MaxFaults
    BY <1>6, FaultType DEF DiscardContent
  <2>3. cache' \subseteq Blobs /\ live' \subseteq Objects
    BY <1>6 DEF DiscardContent
  <2> QED
    BY <1>6, <2>1, <2>2, <2>3 DEF DiscardContent
<1>7. ASSUME CommitThumbnail
      PROVE  TypeOK'
  <2>1. PICK n \in Ids :
          LET old == FilesOf(opItem, "thumbnail")
          IN  /\ rows' = (rows \ old) \cup {n}
              /\ file' = [r \in Ids |-> IF r = n THEN NewFile("thumbnail")
                                        ELSE IF r \in old THEN NoFile ELSE file[r]]
              /\ reused' = reused \cup
                   (IF n \in PastIds THEN {opBlob["thumbnail"]} ELSE {})
    BY <1>7 DEF CommitThumbnail
  <2>2. file' \in [Ids -> File]
    BY <2>1, NewFileType, NoFileType DEF Roles
  <2>3. opBlob["thumbnail"] \in Blobs \cup {NoBlob}
    BY DEF Roles
  <2>4. rows' \subseteq Ids /\ reused' \subseteq Blobs \cup {NoBlob}
    BY <2>1, <2>3
  <2>5. RequestTypeOK'
    BY <1>7, EndOpType DEF CommitThumbnail
  <2> QED
    BY <1>7, <2>2, <2>4, <2>5 DEF CommitThumbnail, Kinds
<1>8. ASSUME RollbackThumbnail
      PROVE  TypeOK'
  <2>1. RequestTypeOK'
    BY <1>8, EndOpType DEF RollbackThumbnail
  <2>2. OpBlobs \subseteq Blobs
    BY DEF OpBlobs
  <2> QED
    BY <1>8, <2>1, <2>2, FaultType DEF RollbackThumbnail
<1>9. ASSUME CommitDelete
      PROVE  TypeOK'
  <2>1. RequestTypeOK'
    BY <1>9, EndOpType DEF CommitDelete
  <2>2. file' \in [Ids -> File]
    BY <1>9, NoFileType DEF CommitDelete
  <2> QED
    BY <1>9, <2>1, <2>2 DEF CommitDelete, Kinds
<1>10. ASSUME AbortDelete
       PROVE  TypeOK'
  <2>1. RequestTypeOK'
    BY <1>10, EndOpType DEF AbortDelete
  <2> QED
    BY <1>10, <2>1, FaultType DEF AbortDelete
<1>11. ASSUME MarkDirty
       PROVE  TypeOK'
  BY <1>11 DEF MarkDirty
<1>12. ASSUME NEW w \in Sweepers, SweepStart(w)
       PROVE  TypeOK'
  BY <1>12 DEF SweepStart, Goto, Pending
<1>13. ASSUME NEW w \in Sweepers, NEW r \in Ids, Claim(w, r)
       PROVE  TypeOK'
  BY <1>13 DEF Claim, Goto, NextOrIdle, Busy
<1>14. ASSUME NEW w \in Sweepers, ReadRow(w)
       PROVE  TypeOK'
  <2>1. CASE cur[w] \in Pending
    BY <1>14, <2>1 DEF ReadRow, Goto, Busy, Pending, File
  <2>2. CASE cur[w] \notin Pending
    <3>1. SweepTypeOK'
      BY <1>14, <2>2, ReleaseType DEF ReadRow
    <3> QED
      BY <1>14, <3>1 DEF ReadRow
  <2> QED
    BY <2>1, <2>2
<1>15. ASSUME NEW w \in Sweepers, CheckCache(w)
       PROVE  TypeOK'
  BY <1>15 DEF CheckCache, Goto, Busy
<1>16. ASSUME NEW w \in Sweepers, DropRow(w)
       PROVE  TypeOK'
  <2>1. SweepTypeOK'
    BY <1>16, ReleaseType DEF DropRow
  <2>2. file' \in [Ids -> File]
    BY <1>16, NoFileType DEF DropRow
  <2> QED
    BY <1>16, <2>1, <2>2 DEF DropRow, Kinds
<1>17. ASSUME NEW w \in Sweepers, Upload(w)
       PROVE  TypeOK'
  <2>1. DriveTypeOK' /\ nextObject \in Objects
    BY <1>17, NewObjectType DEF Upload
  <2>2. SweepTypeOK'
    BY <1>17, <2>1 DEF Upload, Goto, Busy
  <2> QED
    BY <1>17, <2>1, <2>2 DEF Upload
<1>18. ASSUME NEW w \in Sweepers, UploadFails(w)
       PROVE  TypeOK'
  <2>1. SweepTypeOK'
    BY <1>18, ReleaseType DEF UploadFails
  <2>2. DriveTypeOK' /\ lost' \subseteq Objects \cup {NoObject}
    <3>1. CASE NewObject(w) /\ lost' = lost \cup {nextObject}
      BY <1>18, <3>1, NewObjectType DEF UploadFails
    <3>2. CASE UNCHANGED <<drive, lost>>
      BY <1>18, <3>2 DEF UploadFails
    <3> QED
      BY <1>18, <3>1, <3>2 DEF UploadFails
  <2>3. faults' \in 0 .. MaxFaults
    BY <1>18, FaultType DEF UploadFails
  <2> QED
    BY <1>18, <2>1, <2>2, <2>3 DEF UploadFails
<1>19. ASSUME NEW w \in Sweepers, Record(w)
       PROVE  TypeOK'
  <2>1. CASE cur[w] \in Pending
    <3>1. file' \in [Ids -> File]
      BY <1>19, <2>1, SMTT(20) DEF Record, File, Pending
    <3>2. SweepTypeOK'
      BY <1>19, <2>1 DEF Record, Goto, Busy
    <3> QED
      BY <1>19, <2>1, <3>1, <3>2 DEF Record, Kinds
  <2>2. CASE cur[w] \notin Pending
    <3>1. SweepTypeOK'
      BY <1>19, <2>2, ReleaseType DEF Record
    <3> QED
      BY <1>19, <2>2, <3>1 DEF Record
  <2> QED
    BY <2>1, <2>2
<1>20. ASSUME NEW w \in Sweepers, Finish(w)
       PROVE  TypeOK'
  <2>1. SweepTypeOK'
    BY <1>20, ReleaseType DEF Finish
  <2> QED
    BY <1>20, <2>1 DEF Finish
<1>21. ASSUME Snapshot
       PROVE  TypeOK'
  BY <1>21 DEF Snapshot
<1>22. ASSUME Crash
       PROVE  TypeOK'
  <2>1. RequestTypeOK'
    BY <1>22, EndOpType DEF Crash
  <2>2. SweepTypeOK'
    BY <1>22 DEF Crash
  <2>3. OpBlobs \subseteq Blobs
    BY DEF OpBlobs
  <2>4. lost' \subseteq Objects \cup {NoObject}
    BY <1>22 DEF Crash
  <2> QED
    BY <1>22, <2>1, <2>2, <2>3, <2>4, FaultType DEF Crash
<1>23. CASE UNCHANGED vars
  BY <1>23 DEF vars
<1> QED
  BY <1>1, <1>2, <1>3, <1>4, <1>5, <1>6, <1>7, <1>8, <1>9, <1>10, <1>11,
     <1>12, <1>13, <1>14, <1>15, <1>16, <1>17, <1>18, <1>19, <1>20, <1>21,
     <1>22, <1>23
  DEF Next, OpStep, SweepStep

\* Every variable keeps its type, for all items, sweeps and bounds.
THEOREM TypeCorrect == Spec => []TypeOK
  BY InitTypeOK, NextTypeOK, PTL DEF Spec

(***************************************************************************)
(* Claims.                                                                 *)
(***************************************************************************)

\* Giving up a row leaves the other claims as they are.
LEMMA ReleaseClaims ==
  ASSUME TypeOK, ClaimExclusive, NEW w \in Sweepers, pc[w] \in Busy,
         NEW left, Release(w, left)
  PROVE  ClaimExclusive'
<1> USE DEF TypeOK, SweepTypeOK, ClaimExclusive, Release, Goto
<1>1. cur[w] # NoId /\ cur'[w] = NoId
  OBVIOUS
<1>2. \A v \in Sweepers \ {w} : cur'[v] = cur[v] /\ cur[v] # cur[w] /\ pc'[v] = pc[v]
  BY <1>1
<1>3. \A v \in Sweepers : pc'[v] \in Busy <=> cur'[v] # NoId
  BY <1>1, <1>2 DEF NextOrIdle, Busy
<1>4. claimed' = {cur'[v] : v \in Sweepers} \ {NoId}
  BY <1>1, <1>2
<1> QED
  BY <1>1, <1>2, <1>3, <1>4

\* Two sweeps never work on one row: initially none does.
LEMMA InitClaims == Init => ClaimExclusive
  BY DEF Init, ClaimExclusive, Busy

\* Every step keeps claims exclusive: Claim takes an id nobody has.
LEMMA NextClaims == TypeOK /\ ClaimExclusive /\ [Next]_vars => ClaimExclusive'
<1> SUFFICES ASSUME TypeOK, ClaimExclusive, [Next]_vars PROVE ClaimExclusive'
  OBVIOUS
<1> USE DEF TypeOK, SweepTypeOK, sweep
<1>1. CASE UNCHANGED <<claimed, sweep>>
  BY <1>1 DEF ClaimExclusive
<1>2. ASSUME NEW w \in Sweepers, NEW r \in Ids, Claim(w, r)
      PROVE  ClaimExclusive'
  <2>1. CASE r \in claimed
    BY <1>2, <2>1 DEF Claim, ClaimExclusive, Goto, NextOrIdle, Busy
  <2>2. CASE r \notin claimed
    <3>1. /\ cur'[w] = r /\ r # NoId /\ claimed' = claimed \cup {r}
          /\ pc'[w] \in Busy /\ cur[w] = NoId
          /\ \A v \in Sweepers \ {w} : cur'[v] = cur[v] /\ pc'[v] = pc[v]
      BY <1>2, <2>2 DEF Claim, ClaimExclusive, Goto, Busy, Ids, NoId
    <3>2. \A v \in Sweepers \ {w} : cur[v] # r
      BY <2>2, <3>1 DEF ClaimExclusive
    <3>3. claimed' = {cur'[v] : v \in Sweepers} \ {NoId}
      BY <3>1 DEF ClaimExclusive
    <3> QED
      BY <3>1, <3>2, <3>3 DEF ClaimExclusive
  <2> QED
    BY <2>1, <2>2
<1>3. ASSUME NEW w \in Sweepers, pc[w] \in Busy, NEW left, Release(w, left)
      PROVE  ClaimExclusive'
  BY <1>3, ReleaseClaims
<1>4. ASSUME NEW w \in Sweepers, pc[w] \in Busy, NEW step \in Busy,
             Goto(w, step), UNCHANGED <<claimed, cur>>
      PROVE  ClaimExclusive'
  BY <1>4 DEF ClaimExclusive, Goto
<1>5. ASSUME NEW w \in Sweepers, SweepStart(w)
      PROVE  ClaimExclusive'
  BY <1>5 DEF SweepStart, Goto, ClaimExclusive, Busy
<1>6. ASSUME NEW w \in Sweepers, SweepStep(w)
      PROVE  ClaimExclusive'
  <2>1. CASE ReadRow(w) \/ Record(w)
    BY <1>3, <1>4, <2>1 DEF ReadRow, Record, Busy
  <2>2. CASE DropRow(w) \/ UploadFails(w) \/ Finish(w)
    BY <1>3, <2>2 DEF DropRow, UploadFails, Finish, Busy
  <2>3. CASE CheckCache(w) \/ Upload(w)
    BY <1>4, <2>3 DEF CheckCache, Upload, Busy
  <2> QED
    BY <1>2, <1>6, <2>1, <2>2, <2>3 DEF SweepStep
<1>7. CASE Crash
  BY <1>7 DEF Crash, ClaimExclusive, Busy
<1>8. CASE OpStep
  BY <1>1, <1>8 DEF OpStep, CommitCreate, AbortCreate, RefreshFails, DiscardContent,
     CommitThumbnail, RollbackThumbnail, CommitDelete, AbortDelete
<1> QED
  BY <1>1, <1>5, <1>6, <1>7, <1>8
  DEF Next, BeginCreate, BeginThumbnail, BeginDelete, MarkDirty, Snapshot, vars

\* Two sweeps never work on one row, and the claims held are those of the
\* sweeps at work, for all items, sweeps and bounds.
THEOREM ClaimsExclude == Spec => []ClaimExclusive
  BY InitTypeOK, NextTypeOK, InitClaims, NextClaims, PTL DEF Spec

(***************************************************************************)
(* Marks.                                                                  *)
(***************************************************************************)

\* Initially nothing is committed.
LEMMA InitMarked == Init => EveryChangeIsMarked
  BY DEF Init, EveryChangeIsMarked

\* A sweep that gives its row up leaves the others where they are.
LEMMA ReleaseMarked ==
  ASSUME TypeOK, EveryChangeIsMarked, NEW w \in Sweepers, pc[w] # "finish",
         NEW left, Release(w, left), dirty' = dirty, marksDue' = marksDue,
         behind' \subseteq behind \cup NeverMarked
  PROVE  EveryChangeIsMarked'
<1>1. \A v \in Sweepers : pc[v] = "finish" => pc'[v] = "finish"
  BY DEF TypeOK, SweepTypeOK, Release, Goto
<1>2. behind' \ NeverMarked \subseteq behind \ NeverMarked
  OBVIOUS
<1>3. Owed => Owed'
  BY <1>1 DEF Owed
<1> QED
  BY <1>2, <1>3 DEF EveryChangeIsMarked

\* Every step keeps what is committed marked, or owed.
LEMMA NextMarked ==
  TypeOK /\ EveryChangeIsMarked /\ [Next]_vars => EveryChangeIsMarked'
<1> SUFFICES ASSUME TypeOK, EveryChangeIsMarked, [Next]_vars
             PROVE  EveryChangeIsMarked'
  OBVIOUS
<1>1. marksDue \in Nat /\ pc \in [Sweepers -> Busy \cup {"idle", "next"}]
  BY DEF TypeOK, MarksTypeOK, SweepTypeOK
<1>2. ASSUME pc' = pc, dirty => dirty', marksDue' \in {marksDue, marksDue + 1},
             \/ behind' \subseteq behind \cup NeverMarked
             \/ dirty'
             \/ marksDue' = marksDue + 1
      PROVE  EveryChangeIsMarked'
  BY <1>1, <1>2 DEF EveryChangeIsMarked, Owed
<1>3. CASE OpStep
  BY <1>2, <1>3 DEF OpStep, CommitCreate, AbortCreate, RefreshFails, DiscardContent,
     CommitThumbnail, RollbackThumbnail, CommitDelete, AbortDelete, sweep, NeverMarked
<1>4. ASSUME NEW w \in Sweepers, SweepStep(w) PROVE EveryChangeIsMarked'
  <2>1. ASSUME NEW step, pc[w] # "finish", Goto(w, step),
               UNCHANGED <<dirty, marksDue, behind>>
        PROVE  EveryChangeIsMarked'
    <3>1. \A v \in Sweepers : pc[v] = "finish" => pc'[v] = "finish"
      BY <1>1, <2>1 DEF Goto
    <3> QED
      BY <2>1, <3>1 DEF EveryChangeIsMarked, Owed
  <2>2. CASE \E r \in Ids : Claim(w, r)
    BY <2>1, <2>2 DEF Claim
  <2>3. CASE ReadRow(w) \/ CheckCache(w) \/ Upload(w)
    BY <2>1, <2>3, ReleaseMarked DEF ReadRow, CheckCache, Upload
  <2>4. CASE DropRow(w) \/ UploadFails(w)
    BY <2>4, ReleaseMarked DEF DropRow, UploadFails, NeverMarked
  <2>5. CASE Record(w)
    <3>1. CASE cur[w] \in Pending
      BY <1>1, <2>5, <3>1 DEF Record, Goto, EveryChangeIsMarked, Owed
    <3>2. CASE cur[w] \notin Pending
      BY <2>5, <3>2, ReleaseMarked DEF Record
    <3> QED
      BY <3>1, <3>2
  <2>6. CASE Finish(w)
    BY <2>6 DEF Finish, EveryChangeIsMarked
  <2> QED
    BY <1>4, <2>2, <2>3, <2>4, <2>5, <2>6 DEF SweepStep
<1>5. ASSUME NEW w \in Sweepers, SweepStart(w) PROVE EveryChangeIsMarked'
  <2>1. \A v \in Sweepers : pc[v] = "finish" => pc'[v] = "finish"
    BY <1>1, <1>5 DEF SweepStart, Goto
  <2> QED
    BY <1>5, <2>1 DEF SweepStart, EveryChangeIsMarked, Owed
<1>6. CASE MarkDirty \/ Snapshot \/ Crash
  BY <1>6 DEF MarkDirty, Snapshot, Crash, EveryChangeIsMarked
<1> QED
  BY <1>2, <1>3, <1>4, <1>5, <1>6
  DEF Next, BeginCreate, BeginThumbnail, BeginDelete, vars, sweep

\* What is committed is marked or owed to the dirty flag, the dropping of a
\* broken row and an item that cannot be read back excepted, for all items,
\* sweeps and bounds.
THEOREM ChangesMarked == Spec => []EveryChangeIsMarked
  BY InitTypeOK, NextTypeOK, InitMarked, NextMarked, PTL DEF Spec

-----------------------------------------------------------------------------
(* Accepted files are kept. *)

\* What the types say of the numbers involved.
Ranges ==
  /\ nextBlob \in Nat \ {0} /\ nextObject \in Nat \ {0}
  /\ rows \subseteq Ids
  /\ \A r \in Ids : file[r].blob \in Nat /\ file[r].object \in Nat
  /\ \A w \in Sweepers :
       /\ cur[w] \in Ids \cup {NoId}
       /\ held[w] \in Nat /\ obj[w] \in Nat

\* They follow from the type invariant.
LEMMA TypedRanges == (TypeOK => Ranges) /\ (TypeOK' => Ranges')
<1> USE BoundsAssumption
    DEF TypeOK, TableTypeOK, DriveTypeOK, SweepTypeOK, Ranges, File,
        Blobs, Objects, Ids, NoId, NoBlob, NoObject
<1>1. TypeOK => Ranges
  OBVIOUS
<1>2. TypeOK' => Ranges'
  OBVIOUS
<1> QED
  BY <1>1, <1>2

\* The numbers given out before the n-th.
LEMMA NumbersBefore ==
  \A n \in Nat : \A b : b \in Before(n) <=> b \in Nat /\ 1 <= b /\ b < n
  BY DEF Before

-----------------------------------------------------------------------------
(* Steps that write no row. *)

\* Rows stay in order while the counters grow, the request takes only new
\* files, and no file of a pending row leaves the cache unless given up.
LEMMA RowsKept ==
  ASSUME Ranges, Ranges', RowsInOrder, rows' = rows, file' = file,
         nextBlob <= nextBlob', nextObject <= nextObject',
         \A b \in OpBlobs' : b \in OpBlobs \/ b >= nextBlob,
         \A r \in Pending : file[r].blob \in cache \cup released =>
                            file[r].blob \in cache' \cup released'
  PROVE  RowsInOrder'
<1>1. Pending' = Pending
  BY DEF Pending
<1>2. ASSUME NEW r \in rows PROVE RowInOrder(r)'
  <2>1. RowInOrder(r) /\ r \in Ids
    BY <1>2 DEF RowsInOrder, Ranges
  <2> QED
    BY <1>1, <2>1, NumbersBefore DEF RowInOrder, Ranges
<1> QED
  BY <1>2 DEF RowsInOrder

\* A sweep stays in order while another works on another row.
LEMMA SweepKept ==
  ASSUME Ranges, Ranges', NEW w \in Sweepers, SweepInOrder(w),
         rows' = rows, file' = file,
         pc'[w] = pc[w], cur'[w] = cur[w], held'[w] = held[w], obj'[w] = obj[w],
         nextBlob <= nextBlob', nextObject <= nextObject', held[w] \notin OpBlobs',
         released \subseteq released', reused \subseteq reused',
         cur[w] \in Pending /\ OnItsRow(w) /\ held[w] \in cache =>
           held[w] \in cache' \cup released',
         pc[w] = "record" => obj[w] \in live' /\ madeFrom'[obj[w]] = madeFrom[obj[w]]
  PROVE  SweepInOrder(w)'
<1>1. Pending' = Pending /\ OnItsRow(w)' = OnItsRow(w)
  BY DEF Pending, OnItsRow
<1>2. PastRead(w) => PastRead(w)'
  BY <1>1 DEF PastRead
<1>3. pc[w] = "record" /\ OwnObject(w) => OwnObject(w)'
  BY NumbersBefore DEF OwnObject, Ranges
<1>4. held'[w] \in Before(nextBlob') \cup {NoBlob}
  BY NumbersBefore DEF SweepInOrder, Ranges
<1> QED
  BY <1>1, <1>2, <1>3, <1>4 DEF SweepInOrder

\* A sweep that has left its row is in order.
LEMMA ReleasedInOrder ==
  ASSUME TypeOK, Ranges', NEW w \in Sweepers, NEW left, Release(w, left)
  PROVE  SweepInOrder(w)'
<1>1. held'[w] = 0 /\ pc'[w] \in {"idle", "next"}
  BY DEF Release, TypeOK, SweepTypeOK, Goto, NextOrIdle, NoBlob
<1>2. 0 \notin OpBlobs'
  BY DEF OpBlobs, NoBlob
<1> QED
  BY <1>1, <1>2 DEF SweepInOrder, Past, NoBlob

\* A file stays kept while its row is left alone and its content stays.
LEMMA FilesStay ==
  ASSUME Ranges, Ranges', AcceptedFilesKept, rows' = rows, file' = file,
         \A b \in Before(nextBlob') : b \notin released' \cup reused' \cup OpBlobs' =>
           b < nextBlob /\ b \notin released \cup reused \cup OpBlobs,
         \A r \in rows : file[r].blob \notin released' /\ Backed(r) => Backed(r)'
  PROVE  AcceptedFilesKept'
<1> SUFFICES ASSUME NEW b \in Before(nextBlob'),
                    b \notin released' \cup reused' \cup OpBlobs'
             PROVE  \E r \in rows' : file'[r].blob = b /\ Backed(r)'
  BY DEF AcceptedFilesKept
<1>1. b < nextBlob /\ b \notin released \cup reused \cup OpBlobs
  OBVIOUS
<1>2. b \in Before(nextBlob)
  BY <1>1, NumbersBefore DEF Ranges
<1>3. PICK r \in rows : file[r].blob = b /\ Backed(r)
  BY <1>1, <1>2 DEF AcceptedFilesKept
<1> QED
  BY <1>3

Kept == RowsInOrder /\ OpInOrder /\ SweepsInOrder /\ AcceptedFilesKept

\* A request begins: its new files are in the cache.
LEMMA BeginKept ==
  ASSUME Ranges, Ranges', Kept, NEW i \in Items,
         \/ \E withThumbnail \in BOOLEAN : BeginCreate(i, withThumbnail)
         \/ BeginThumbnail(i) \/ BeginDelete(i)
  PROVE  Kept'
<1>1. /\ rows' = rows /\ file' = file /\ released' = released /\ reused' = reused
      /\ live' = live /\ madeFrom' = madeFrom /\ nextObject' = nextObject
      /\ pc' = pc /\ cur' = cur /\ held' = held /\ obj' = obj
      /\ cache \subseteq cache' /\ nextBlob <= nextBlob' /\ nextObject <= nextObject'
      /\ op' \in {"create", "thumbnail", "delete"}
  BY DEF BeginCreate, BeginThumbnail, BeginDelete, table, drive, sweep, Ranges
<1>2. /\ \A b : b \in OpBlobs' <=> b \in Nat /\ nextBlob <= b /\ b < nextBlob'
      /\ op' = "create" => opBlob'["primary"] \notin {NoBlob, opBlob'["thumbnail"]}
      /\ op' = "thumbnail" => /\ opBlob'["thumbnail"] # NoBlob
                              /\ opBlob'["primary"] = NoBlob
      /\ op' = "delete" => OpBlobs' = {}
      /\ op' = "create" => opLeft' = {}
      /\ OpBlobs' \subseteq cache'
  <2>1. ASSUME NEW withThumbnail \in BOOLEAN, BeginCreate(i, withThumbnail)
        PROVE  /\ \A b : b \in OpBlobs' <=> b \in Nat /\ nextBlob <= b /\ b < nextBlob'
               /\ opBlob'["primary"] \notin {NoBlob, opBlob'["thumbnail"]}
               /\ op' = "create" /\ opLeft' = {} /\ OpBlobs' \subseteq cache'
    BY <2>1 DEF BeginCreate, OpBlobs, Roles, NoBlob, Ranges, Kept, OpInOrder, LockFree
  <2>2. CASE BeginThumbnail(i)
    BY <2>2 DEF BeginThumbnail, OpBlobs, NoBlobs, Roles, NoBlob, Ranges
  <2>3. CASE BeginDelete(i)
    BY <2>3 DEF BeginDelete, OpBlobs, Ranges, Kept, OpInOrder, LockFree
  <2> QED
    BY <2>1, <2>2, <2>3
<1>3. OpBlobs = {}
  BY DEF BeginCreate, BeginThumbnail, BeginDelete, LockFree, Kept, OpInOrder
<1>4. RowsInOrder'
  <2>1. \A b \in OpBlobs' : b >= nextBlob
    BY <1>2 DEF Ranges
  <2> QED
    BY <1>1, <2>1, RowsKept DEF Kept
<1>5. OpInOrder'
  <2>1. opLeft' \subseteq rows' /\ Doomed' \subseteq opLeft'
    BY <1>1, <1>2 DEF BeginCreate, BeginThumbnail, BeginDelete, Doomed, FilesOf
  <2>2. ASSUME NEW b \in OpBlobs' PROVE b \in Before(nextBlob')
    BY <1>2, <2>2, NumbersBefore DEF Ranges
  <2>3. op' \in {"none", "delete"} => OpBlobs' = {}
    BY <1>1, <1>2
  <2> QED
    BY <1>1, <1>2, <2>1, <2>2, <2>3 DEF OpInOrder
<1>6. SweepsInOrder'
  <2>1. ASSUME NEW w \in Sweepers PROVE SweepInOrder(w)'
    <3>1. SweepInOrder(w) /\ held[w] \notin OpBlobs'
      BY <1>2, NumbersBefore DEF Kept, SweepsInOrder, SweepInOrder, Ranges, NoBlob
    <3>2. pc[w] = "record" => obj[w] \in live
      BY <3>1 DEF SweepInOrder, OwnObject
    <3>3. /\ pc'[w] = pc[w] /\ cur'[w] = cur[w] /\ held'[w] = held[w]
          /\ obj'[w] = obj[w]
          /\ held[w] \in cache => held[w] \in cache' \cup released'
          /\ pc[w] = "record" => obj[w] \in live' /\ madeFrom'[obj[w]] = madeFrom[obj[w]]
      BY <1>1, <3>2
    <3> QED
      BY <1>1, <3>1, <3>3, SweepKept
  <2> QED
    BY <1>1, <2>1 DEF Kept, SweepsInOrder
<1>7. AcceptedFilesKept'
  <2>1. \A r \in rows : Backed(r) => Backed(r)'
    BY <1>1 DEF Backed
  <2>2. \A b \in Before(nextBlob') : b \notin released' \cup reused' \cup OpBlobs' =>
          b < nextBlob /\ b \notin released \cup reused \cup OpBlobs
    <3>1. ASSUME NEW b \in Before(nextBlob'), b \notin OpBlobs' PROVE b < nextBlob
      BY <1>2, <3>1, NumbersBefore DEF Ranges
    <3>2. \A b \in released \cup reused \cup OpBlobs : b \in released' \cup reused'
      BY <1>1, <1>3
    <3> QED
      BY <3>1, <3>2
  <2> QED
    BY <1>1, <2>1, <2>2, FilesStay DEF Kept
<1> QED
  BY <1>4, <1>5, <1>6, <1>7 DEF Kept

\* The steps that give files up, or touch neither files nor rows.  What leaves
\* the cache or the request is given up; what leaves Drive was the object of a
\* row whose file is given up; a sweep goes on as it was or leaves its row.
LEMMA GiveUpKept ==
  ASSUME Ranges, Ranges', Kept, OpInOrder',
         rows' = rows, file' = file, nextBlob' = nextBlob, nextObject' = nextObject,
         madeFrom' = madeFrom, reused' = reused, released \subseteq released',
         OpBlobs' \subseteq OpBlobs, OpBlobs \subseteq OpBlobs' \cup released',
         cache \subseteq cache' \cup released',
         \A o \in live \ live' :
           \E r \in rows : file[r].object = o /\ file[r].blob \in released',
         \A w \in Sweepers :
           \/ /\ pc'[w] = pc[w] /\ cur'[w] = cur[w] /\ held'[w] = held[w]
              /\ obj'[w] = obj[w]
           \/ pc'[w] \notin Past \cup {"finish"} /\ held'[w] \in {held[w], NoBlob}
  PROVE  Kept'
<1>1. nextBlob <= nextBlob' /\ nextObject <= nextObject'
  BY DEF Ranges
<1>2. RowsInOrder'
  <2>1. /\ \A b \in OpBlobs' : b \in OpBlobs \/ b >= nextBlob
        /\ \A r \in Pending : file[r].blob \in cache \cup released =>
                              file[r].blob \in cache' \cup released'
    OBVIOUS
  <2> QED
    BY <1>1, <2>1, RowsKept DEF Kept
<1>3. ASSUME NEW w \in Sweepers PROVE SweepInOrder(w)'
  <2>1. SweepInOrder(w) /\ NoBlob \notin OpBlobs
    BY DEF Kept, SweepsInOrder, OpBlobs
  <2>2. CASE /\ pc'[w] = pc[w] /\ cur'[w] = cur[w] /\ held'[w] = held[w]
             /\ obj'[w] = obj[w]
    <3>1. pc[w] = "record" => obj[w] \in live' /\ madeFrom'[obj[w]] = madeFrom[obj[w]]
      BY <2>1 DEF SweepInOrder, OwnObject
    <3>2. /\ held[w] \notin OpBlobs'
          /\ held[w] \in cache => held[w] \in cache' \cup released'
      BY <2>1 DEF SweepInOrder
    <3> QED
      BY <1>1, <2>1, <2>2, <3>1, <3>2, SweepKept
  <2>3. CASE pc'[w] \notin Past \cup {"finish"} /\ held'[w] \in {held[w], NoBlob}
    BY <2>1, <2>3 DEF SweepInOrder, Past
  <2> QED
    BY <2>2, <2>3
<1>4. SweepsInOrder'
  <2>1. ASSUME NEW w \in Sweepers, pc'[w] = "record"
        PROVE  pc[w] = "record" /\ obj'[w] = obj[w]
    BY <2>1 DEF Past
  <2> QED
    BY <1>3, <2>1 DEF Kept, SweepsInOrder
<1>5. AcceptedFilesKept'
  <2>1. ASSUME NEW r \in rows, file[r].blob \notin released', Backed(r)
        PROVE  Backed(r)'
    <3>1. CASE file[r].object = NoObject
      BY <2>1, <3>1 DEF Backed
    <3>2. CASE file[r].object # NoObject
      <4>1. file[r].object \in live /\ madeFrom[file[r].object] = file[r].blob
        BY <2>1, <3>2 DEF Backed
      <4>2. \A q \in rows : file[q].object = file[r].object => q = r
        BY <2>1, <3>2 DEF Kept, RowsInOrder
      <4>3. file[r].object \in live'
        BY <2>1, <4>1, <4>2
      <4> QED
        BY <3>2, <4>1, <4>3 DEF Backed
    <3> QED
      BY <3>1, <3>2
  <2>2. \A b \in Before(nextBlob') : b \notin released' \cup reused' \cup OpBlobs' =>
          b < nextBlob /\ b \notin released \cup reused \cup OpBlobs
    BY NumbersBefore DEF Ranges
  <2> QED
    BY <1>1, <2>1, <2>2, FilesStay DEF Kept
<1> QED
  BY <1>2, <1>4, <1>5 DEF Kept

\* A request that is over owes nothing.
LEMMA EndOpInOrder == ASSUME EndOp PROVE OpInOrder' /\ OpBlobs' = {}
<1>1. OpBlobs' = {}
  BY DEF EndOp, OpBlobs, NoBlobs
<1>2. Doomed' = {}
  BY DEF EndOp, Doomed
<1> QED
  BY <1>1, <1>2 DEF EndOp, OpInOrder

\* What a request is doing does not depend on how much is in the cache.
LEMMA OpKept ==
  ASSUME OpInOrder, rows' = rows, file' = file, op' = op, opItem' = opItem,
         opBlob' = opBlob, opLeft' \subseteq opLeft, OpBlobs \subseteq cache',
         nextBlob' = nextBlob, released \subseteq released',
         \A r \in opLeft \ opLeft' : file[r].blob \in released'
  PROVE  OpInOrder' /\ OpBlobs' = OpBlobs
<1>1. OpBlobs' = OpBlobs /\ Doomed' = Doomed
  BY DEF OpBlobs, Doomed, FilesOf
<1> QED
  BY <1>1 DEF OpInOrder

\* A request is cut off.
LEMMA AbortKept ==
  ASSUME Ranges, Ranges', Kept, AbortCreate \/ RollbackThumbnail \/ AbortDelete
  PROVE  Kept'
<1>1. EndOp
  BY DEF AbortCreate, RollbackThumbnail, AbortDelete
<1>2. OpInOrder' /\ OpBlobs' = {}
  BY <1>1, EndOpInOrder
<1>3. OpBlobs \subseteq released' /\ cache \subseteq cache' \cup released'
  BY DEF AbortCreate, RollbackThumbnail, AbortDelete, Kept, OpInOrder
<1>4. /\ rows' = rows /\ file' = file /\ nextBlob' = nextBlob /\ reused' = reused
      /\ nextObject' = nextObject /\ madeFrom' = madeFrom /\ live' = live
      /\ pc' = pc /\ cur' = cur /\ held' = held /\ obj' = obj
      /\ released \subseteq released'
  BY DEF AbortCreate, RollbackThumbnail, AbortDelete, table, drive, sweep
<1> QED
  BY <1>2, <1>3, <1>4, GiveUpKept

\* A request discards the content of a row it is about to delete.
LEMMA DiscardKept ==
  ASSUME Ranges, Ranges', Kept, NEW r \in Ids, DiscardContent(r)
  PROVE  Kept'
<1>1. /\ rows' = rows /\ file' = file /\ nextBlob' = nextBlob /\ reused' = reused
      /\ nextObject' = nextObject /\ madeFrom' = madeFrom
      /\ pc' = pc /\ cur' = cur /\ held' = held /\ obj' = obj
      /\ op' = op /\ opItem' = opItem /\ opBlob' = opBlob
      /\ opLeft' = opLeft \ {r} /\ released' = released \cup {file[r].blob}
      /\ cache \subseteq cache' \cup {file[r].blob}
      /\ live \subseteq live' \cup {file[r].object}
  BY DEF DiscardContent, table, sweep
<1>2. r \in rows /\ file[r].blob \notin OpBlobs
  BY DEF DiscardContent, Kept, OpInOrder, RowsInOrder, RowInOrder
<1>3. OpBlobs \subseteq cache'
  BY <1>1, <1>2 DEF Kept, OpInOrder
<1>4. OpInOrder' /\ OpBlobs' = OpBlobs
  BY <1>1, <1>3, OpKept DEF Kept
<1> QED
  BY <1>1, <1>2, <1>4, GiveUpKept

\* The process dies and starts again.
LEMMA CrashKept == ASSUME Ranges, Ranges', Kept, Crash PROVE Kept'
<1>1. OpInOrder' /\ OpBlobs' = {}
  BY EndOpInOrder DEF Crash
<1>2. /\ rows' = rows /\ file' = file /\ nextBlob' = nextBlob /\ reused' = reused
      /\ nextObject' = nextObject /\ madeFrom' = madeFrom /\ live' = live
      /\ cache' = cache /\ released' = released \cup OpBlobs
      /\ \A w \in Sweepers : pc'[w] = "idle" /\ held'[w] = NoBlob
  BY DEF Crash, table, drive
<1> QED
  BY <1>1, <1>2, GiveUpKept DEF Past

\* Nobody's files are concerned.
LEMMA BystanderKept ==
  ASSUME Ranges, Ranges', TypeOK, Kept,
         \/ MarkDirty \/ Snapshot \/ UNCHANGED vars
         \/ \E w \in Sweepers : SweepStart(w) \/ \E r \in Ids : Claim(w, r)
  PROVE  Kept'
<1>1. /\ rows' = rows /\ file' = file /\ nextBlob' = nextBlob /\ reused' = reused
      /\ nextObject' = nextObject /\ madeFrom' = madeFrom /\ live' = live
      /\ cache' = cache /\ released' = released
      /\ op' = op /\ opItem' = opItem /\ opBlob' = opBlob /\ opLeft' = opLeft
      /\ held' = held /\ obj' = obj
  BY DEF MarkDirty, Snapshot, SweepStart, Claim, table, drive, sweep, request, vars
<1>2. OpInOrder' /\ OpBlobs' = OpBlobs
  BY <1>1, OpKept DEF Kept, OpInOrder
<1>3. ASSUME NEW w \in Sweepers
      PROVE  \/ pc'[w] = pc[w] /\ cur'[w] = cur[w]
             \/ pc'[w] \notin Past \cup {"finish"}
  BY DEF MarkDirty, Snapshot, SweepStart, Claim, sweep, vars, Goto, NextOrIdle,
         Past, TypeOK, SweepTypeOK
<1> QED
  BY <1>1, <1>2, <1>3, GiveUpKept

\* A sweep gives its row up.
LEMMA ReleaseKept ==
  ASSUME Ranges, Ranges', TypeOK, Kept, NEW w \in Sweepers, NEW left,
         Release(w, left),
         UNCHANGED <<table, cache, drive, nextBlob, request, released, reused>>
  PROVE  Kept'
<1>1. /\ rows' = rows /\ file' = file /\ nextBlob' = nextBlob /\ reused' = reused
      /\ nextObject' = nextObject /\ madeFrom' = madeFrom /\ live' = live
      /\ cache' = cache /\ released' = released
      /\ op' = op /\ opItem' = opItem /\ opBlob' = opBlob /\ opLeft' = opLeft
  BY DEF table, drive, request
<1>2. OpInOrder' /\ OpBlobs' = OpBlobs
  BY <1>1, OpKept DEF Kept, OpInOrder
<1>3. ASSUME NEW v \in Sweepers
      PROVE  \/ /\ pc'[v] = pc[v] /\ cur'[v] = cur[v] /\ held'[v] = held[v]
                /\ obj'[v] = obj[v]
             \/ pc'[v] \notin Past \cup {"finish"} /\ held'[v] \in {held[v], NoBlob}
  BY DEF Release, Goto, NextOrIdle, Past, TypeOK, SweepTypeOK
<1> QED
  BY <1>1, <1>2, <1>3, GiveUpKept

\* One sweep goes on to a state that is in order, writing no row.
LEMMA OneSweepKept ==
  ASSUME Ranges, Ranges', Kept, NEW w \in Sweepers, SweepInOrder(w)',
         rows' = rows, file' = file, nextBlob' = nextBlob, nextObject <= nextObject',
         released' = released, reused' = reused,
         op' = op, opItem' = opItem, opBlob' = opBlob, opLeft' = opLeft,
         OpBlobs \subseteq cache',
         \A r \in Pending :
           file[r].blob \in cache => file[r].blob \in cache' \cup released,
         live \subseteq live',
         \A o \in Before(nextObject) : madeFrom'[o] = madeFrom[o],
         \A v \in Sweepers \ {w} :
           /\ pc'[v] = pc[v] /\ cur'[v] = cur[v] /\ held'[v] = held[v] /\ obj'[v] = obj[v]
           /\ pc[v] = "record" /\ pc'[w] = "record" => obj'[w] # obj[v]
  PROVE  Kept'
<1>1. nextBlob <= nextBlob'
  BY DEF Ranges
<1>2. OpInOrder' /\ OpBlobs' = OpBlobs
  BY OpKept DEF Kept
<1>3. RowsInOrder'
  BY <1>1, <1>2, RowsKept DEF Kept
<1>4. ASSUME NEW v \in Sweepers \ {w} PROVE SweepInOrder(v)'
  <2>1. SweepInOrder(v)
    BY DEF Kept, SweepsInOrder
  <2>2. pc[v] = "record" => obj[v] \in live' /\ madeFrom'[obj[v]] = madeFrom[obj[v]]
    BY <2>1 DEF SweepInOrder, OwnObject
  <2>3. held[v] \notin OpBlobs'
    BY <1>2, <2>1 DEF SweepInOrder
  <2>4. cur[v] \in Pending /\ OnItsRow(v) /\ held[v] \in cache =>
          held[v] \in cache' \cup released'
    BY DEF OnItsRow
  <2> QED
    BY <1>1, <2>1, <2>2, <2>3, <2>4, SweepKept
<1>5. SweepsInOrder'
  BY <1>4 DEF Kept, SweepsInOrder
<1>6. AcceptedFilesKept'
  <2>1. ASSUME NEW r \in rows, file[r].blob \notin released', Backed(r)
        PROVE  Backed(r)'
    <3>1. CASE file[r].object = NoObject
      BY <2>1, <3>1 DEF Backed, Pending
    <3>2. CASE file[r].object # NoObject
      <4>1. file[r].object \in Before(nextObject)
        BY <3>2 DEF Kept, RowsInOrder, RowInOrder
      <4> QED
        BY <2>1, <3>2, <4>1 DEF Backed
    <3> QED
      BY <3>1, <3>2
  <2>2. \A b \in Before(nextBlob') : b \notin released' \cup reused' \cup OpBlobs' =>
          b < nextBlob /\ b \notin released \cup reused \cup OpBlobs
    BY <1>2, NumbersBefore DEF Ranges
  <2> QED
    BY <1>1, <2>1, <2>2, FilesStay DEF Kept
<1> QED
  BY <1>2, <1>3, <1>5, <1>6 DEF Kept

\* A sweep reads a row: it holds the row's file.
LEMMA ReadRowKept ==
  ASSUME Ranges, Ranges', TypeOK, Kept, NEW w \in Sweepers, ReadRow(w)
  PROVE  Kept'
<1>1. CASE cur[w] \in Pending
  <2>1. /\ cur[w] \in rows /\ RowInOrder(cur[w])
    BY <1>1 DEF Pending, Kept, RowsInOrder
  <2>2. /\ rows' = rows /\ file' = file /\ nextBlob' = nextBlob /\ reused' = reused
        /\ nextObject' = nextObject /\ madeFrom' = madeFrom /\ live' = live
        /\ cache' = cache /\ released' = released
        /\ op' = op /\ opItem' = opItem /\ opBlob' = opBlob /\ opLeft' = opLeft
        /\ cur' = cur /\ obj' = obj /\ pc'[w] = "check" /\ held'[w] = file[cur[w]].blob
        /\ \A v \in Sweepers \ {w} : pc'[v] = pc[v] /\ held'[v] = held[v]
    BY <1>1 DEF ReadRow, Goto, table, drive, request, TypeOK, SweepTypeOK
  <2>3. OpBlobs' = OpBlobs /\ Pending' = Pending
    BY <2>2 DEF OpBlobs, Pending
  <2>4. PastRead(w)'
    BY <1>1, <2>1, <2>2, <2>3 DEF PastRead, OnItsRow, RowInOrder
  <2>5. SweepInOrder(w)'
    BY <2>1, <2>2, <2>3, <2>4 DEF SweepInOrder, RowInOrder
  <2>6. nextObject <= nextObject' /\ OpBlobs \subseteq cache'
    BY <2>2 DEF Ranges, Kept, OpInOrder
  <2> QED
    BY <2>2, <2>5, <2>6, OneSweepKept
<1>2. CASE cur[w] \notin Pending
  BY <1>2, ReleaseKept DEF ReadRow
<1> QED
  BY <1>1, <1>2

\* A sweep that finds no cached file holds one that was given up.
LEMMA CheckCacheKept ==
  ASSUME Ranges, Ranges', TypeOK, Kept, NEW w \in Sweepers, CheckCache(w)
  PROVE  Kept'
<1>1. /\ rows' = rows /\ file' = file /\ nextBlob' = nextBlob /\ reused' = reused
      /\ nextObject' = nextObject /\ madeFrom' = madeFrom /\ live' = live
      /\ cache' = cache /\ released' = released
      /\ op' = op /\ opItem' = opItem /\ opBlob' = opBlob /\ opLeft' = opLeft
      /\ cur' = cur /\ obj' = obj /\ held' = held
      /\ pc[w] = "check" /\ pc'[w] = IF held[w] \in cache THEN "upload" ELSE "drop"
      /\ \A v \in Sweepers \ {w} : pc'[v] = pc[v]
  BY DEF CheckCache, Goto, table, drive, request, TypeOK, SweepTypeOK
<1>2. OpBlobs' = OpBlobs /\ Pending' = Pending /\ OnItsRow(w)' = OnItsRow(w)
  BY <1>1 DEF OpBlobs, Pending, OnItsRow
<1>3. SweepInOrder(w) /\ PastRead(w)
  BY <1>1 DEF Kept, SweepsInOrder, SweepInOrder, Past
<1>4. PastRead(w)'
  BY <1>1, <1>2, <1>3 DEF PastRead
<1>5. SweepInOrder(w)'
  BY <1>1, <1>2, <1>3, <1>4 DEF SweepInOrder
<1>6. nextObject <= nextObject' /\ OpBlobs \subseteq cache'
  BY <1>1 DEF Ranges, Kept, OpInOrder
<1> QED
  BY <1>1, <1>5, <1>6, OneSweepKept

\* A new object is made from the file its sweep holds.
LEMMA NewObjectFacts ==
  ASSUME Ranges, TypeOK, NEW w \in Sweepers, NewObject(w)
  PROVE  /\ live' = live \cup {nextObject} /\ nextObject <= nextObject'
         /\ nextObject' = nextObject + 1
         /\ madeFrom'[nextObject] = held[w]
         /\ \A o \in Before(nextObject) : madeFrom'[o] = madeFrom[o]
<1>1. nextObject \in Objects
  BY BoundsAssumption DEF Ranges, NewObject, Objects
<1>2. nextObject \notin Before(nextObject) /\ nextObject <= nextObject + 1
  BY NumbersBefore DEF Ranges
<1> QED
  BY <1>1, <1>2, NumbersBefore DEF NewObject, TypeOK, DriveTypeOK

\* A sweep uploads the file it holds.
LEMMA UploadKept ==
  ASSUME Ranges, Ranges', TypeOK, Kept, NEW w \in Sweepers, Upload(w)
  PROVE  Kept'
<1>1. /\ rows' = rows /\ file' = file /\ nextBlob' = nextBlob /\ reused' = reused
      /\ cache' = cache /\ released' = released
      /\ op' = op /\ opItem' = opItem /\ opBlob' = opBlob /\ opLeft' = opLeft
      /\ cur' = cur /\ held' = held /\ obj'[w] = nextObject
      /\ pc[w] = "upload" /\ pc'[w] = "record"
      /\ \A v \in Sweepers \ {w} : pc'[v] = pc[v] /\ obj'[v] = obj[v]
  BY DEF Upload, Goto, table, request, TypeOK, SweepTypeOK
<1>2. /\ live' = live \cup {nextObject} /\ nextObject <= nextObject'
      /\ madeFrom'[nextObject] = held[w] /\ nextObject' = nextObject + 1
      /\ \A o \in Before(nextObject) : madeFrom'[o] = madeFrom[o]
  BY NewObjectFacts DEF Upload
<1>3. /\ nextObject \in Before(nextObject + 1)
      /\ nextObject \notin Before(nextObject) \cup {NoObject}
  BY NumbersBefore DEF Ranges, NoObject
<1>4. OpBlobs' = OpBlobs /\ Pending' = Pending /\ OnItsRow(w)' = OnItsRow(w)
  BY <1>1 DEF OpBlobs, Pending, OnItsRow
<1>5. SweepInOrder(w) /\ PastRead(w)
  BY <1>1 DEF Kept, SweepsInOrder, SweepInOrder, Past
<1>6. PastRead(w)'
  BY <1>1, <1>4, <1>5 DEF PastRead
<1>7. OwnObject(w)'
  <2>1. \A r \in rows : file[r].object # nextObject
    BY <1>3 DEF Kept, RowsInOrder, RowInOrder
  <2> QED
    BY <1>1, <1>2, <1>3, <2>1 DEF OwnObject
<1>8. SweepInOrder(w)'
  BY <1>1, <1>4, <1>5, <1>6, <1>7 DEF SweepInOrder
<1>9. \A v \in Sweepers \ {w} : pc[v] = "record" => obj[v] # nextObject
  BY <1>3 DEF Kept, SweepsInOrder, SweepInOrder, OwnObject
<1> QED
  BY <1>1, <1>2, <1>8, <1>9, OneSweepKept DEF Kept, OpInOrder

\* An upload fails, with or without an object that nobody knows.
LEMMA UploadFailsKept ==
  ASSUME Ranges, Ranges', TypeOK, Kept, NEW w \in Sweepers, UploadFails(w)
  PROVE  Kept'
<1>1. PICK left : Release(w, left)
  BY DEF UploadFails
<1>2. CASE UNCHANGED drive
  BY <1>1, <1>2, ReleaseKept DEF UploadFails
<1>3. CASE NewObject(w)
  <2>1. /\ rows' = rows /\ file' = file /\ nextBlob' = nextBlob /\ reused' = reused
        /\ cache' = cache /\ released' = released
        /\ op' = op /\ opItem' = opItem /\ opBlob' = opBlob /\ opLeft' = opLeft
    BY DEF UploadFails, table, request
  <2>2. /\ pc'[w] # "record"
        /\ \A v \in Sweepers \ {w} :
             pc'[v] = pc[v] /\ cur'[v] = cur[v] /\ held'[v] = held[v] /\ obj'[v] = obj[v]
    BY <1>1 DEF Release, Goto, NextOrIdle, TypeOK, SweepTypeOK
  <2>3. SweepInOrder(w)'
    BY <1>1, ReleasedInOrder
  <2>4. /\ live \subseteq live' /\ nextObject <= nextObject'
        /\ \A o \in Before(nextObject) : madeFrom'[o] = madeFrom[o]
    BY <1>3, NewObjectFacts
  <2> QED
    BY <2>1, <2>2, <2>3, <2>4, OneSweepKept DEF Kept, OpInOrder
<1> QED
  BY <1>2, <1>3 DEF UploadFails

\* A sweep removes the cached copy of a file that is on Drive or given up.
LEMMA FinishKept ==
  ASSUME Ranges, Ranges', TypeOK, Kept, NEW w \in Sweepers, Finish(w)
  PROVE  Kept'
<1>1. /\ rows' = rows /\ file' = file /\ nextBlob' = nextBlob /\ reused' = reused
      /\ nextObject' = nextObject /\ madeFrom' = madeFrom /\ live' = live
      /\ released' = released /\ cache' = cache \ {held[w]} /\ pc[w] = "finish"
      /\ op' = op /\ opItem' = opItem /\ opBlob' = opBlob /\ opLeft' = opLeft
  BY DEF Finish, table, drive, request
<1>2. /\ pc'[w] # "record"
      /\ \A v \in Sweepers \ {w} :
           pc'[v] = pc[v] /\ cur'[v] = cur[v] /\ held'[v] = held[v] /\ obj'[v] = obj[v]
  BY DEF Finish, Release, Goto, NextOrIdle, TypeOK, SweepTypeOK
<1>3. SweepInOrder(w)'
  BY ReleasedInOrder DEF Finish
<1>4. SweepInOrder(w)
  BY DEF Kept, SweepsInOrder
<1>5. OpBlobs \subseteq cache'
  BY <1>1, <1>4 DEF Kept, OpInOrder, SweepInOrder
<1>6. \A r \in Pending : file[r].blob \in cache => file[r].blob \in cache' \cup released
  BY <1>1, <1>4 DEF SweepInOrder
<1>7. nextObject <= nextObject'
  BY <1>1 DEF Ranges
<1> QED
  BY <1>1, <1>2, <1>3, <1>5, <1>6, <1>7, OneSweepKept

-----------------------------------------------------------------------------
(* Steps that write rows. *)

\* Rows go and come.  A row that goes leaves a file that was given up, or one
\* whose row had taken the id of another and that no sweep is working on.  The
\* rows that come are those of the request's files.
Goes(r) ==
  \/ file[r].blob \in released
  \/ /\ file[r].blob \in reused
     /\ \A w \in Sweepers : pc'[w] \in Past => cur[w] # r

Comes(r) ==
  /\ file'[r].blob \in OpBlobs /\ file'[r].object = NoObject
  /\ r \in PastIds => file'[r].blob \in reused'

Replaced(old, new) ==
  /\ old \subseteq rows /\ rows' = (rows \ old) \cup new
  /\ \A r \in rows \ old : r \notin new /\ file'[r] = file[r]
  /\ \A r \in old : Goes(r)
  /\ \A r \in new : Comes(r)
  /\ \A r, s \in new : r # s => file'[r].blob # file'[s].blob
  /\ \A b \in OpBlobs : \E r \in new : file'[r].blob = b

\* The commit excuses no file but those of excused, and gives up none but the
\* request's own.
RowsReplacedWith(excused) ==
  /\ \E old, new : Replaced(old, new)
  /\ released \subseteq released' /\ released' \subseteq released \cup OpBlobs
  /\ reused \subseteq reused' /\ reused' \subseteq reused \cup excused

GoesOn(w) ==
  \/ /\ pc'[w] = pc[w] /\ cur'[w] = cur[w] /\ held'[w] = held[w]
     /\ obj'[w] = obj[w]
  \/ pc'[w] \notin Past \cup {"finish"} /\ held'[w] = NoBlob

\* A file and its row stay in order when rows are replaced.
LEMMA RowsReplaced ==
  ASSUME Ranges, Ranges', Kept, OpInOrder', OpBlobs' = {},
         NEW old, NEW new, Replaced(old, new), \A w \in Sweepers : GoesOn(w),
         cache \subseteq cache' \cup released', live' = live, madeFrom' = madeFrom,
         nextBlob' = nextBlob, nextObject' = nextObject,
         released \subseteq released', reused \subseteq reused'
  PROVE  Kept'
<1> USE DEF Goes, Comes, Replaced, GoesOn
<1>1. ASSUME NEW r \in rows'
      PROVE  \/ r \in rows \ old /\ r \notin new /\ file'[r] = file[r]
                /\ (r \in Pending' <=> r \in Pending)
             \/ r \in new /\ file'[r].blob \in OpBlobs /\ r \in Pending'
                /\ file'[r].object = NoObject
  BY DEF Pending
<1>2. OpBlobs \subseteq cache \cap Before(nextBlob)
  BY DEF Kept, OpInOrder
<1>3. RowsInOrder'
  <2>1. ASSUME NEW r \in rows' PROVE RowInOrder(r)'
    <3>1. CASE r \in new /\ file'[r].blob \in OpBlobs /\ file'[r].object = NoObject
      BY <1>2, <3>1 DEF RowInOrder
    <3>2. CASE /\ r \in rows \ old /\ file'[r] = file[r]
               /\ r \in Pending' <=> r \in Pending
      BY <3>2 DEF Kept, RowsInOrder, RowInOrder
    <3> QED
      BY <1>1, <3>1, <3>2
  <2>2. ASSUME NEW r \in rows', NEW q \in rows', r # q
        PROVE  /\ file'[r].blob # file'[q].blob
               /\ file'[r].object # file'[q].object \/ file'[r].object = NoObject
    <3>1. \A p \in rows : file[p].blob \notin OpBlobs
      BY DEF Kept, RowsInOrder, RowInOrder
    <3>2. CASE r \in rows \ old /\ q \in rows \ old
      BY <2>2, <3>2 DEF Kept, RowsInOrder
    <3>3. CASE r \in new \/ q \in new
      BY <1>1, <2>2, <3>1, <3>3
    <3> QED
      BY <3>2, <3>3
  <2> QED
    BY <2>1, <2>2 DEF RowsInOrder
<1>4. ASSUME NEW w \in Sweepers PROVE SweepInOrder(w)'
  <2>1. SweepInOrder(w)
    BY DEF Kept, SweepsInOrder
  <2>2. CASE /\ pc'[w] = pc[w] /\ cur'[w] = cur[w] /\ held'[w] = held[w]
             /\ obj'[w] = obj[w]
    <3>1. ASSUME pc[w] \in Past PROVE PastRead(w)'
      <4>1. PastRead(w) /\ cur[w] \in PastIds /\ held[w] \notin OpBlobs
        BY <2>1, <3>1 DEF SweepInOrder, PastIds
      <4>2. CASE cur[w] \in rows \ old
        BY <1>1, <2>2, <4>1, <4>2 DEF PastRead, OnItsRow
      <4>3. CASE cur[w] \in old
        <5>1. file[cur[w]].blob \in released
          BY <2>2, <3>1, <4>3
        <5>2. held[w] \in released
          BY <4>1, <4>3, <5>1 DEF PastRead, OnItsRow
        <5>3. cur[w] \in rows' => cur[w] \in new
          BY <4>3
        <5> QED
          BY <2>2, <4>1, <5>2, <5>3 DEF PastRead, OnItsRow
      <4>4. CASE cur[w] \notin rows
        <5>1. held[w] \in released
          BY <4>1, <4>4 DEF PastRead, OnItsRow
        <5> QED
          BY <2>2, <4>1, <4>4, <5>1 DEF PastRead, OnItsRow
      <4> QED
        BY <4>2, <4>3, <4>4
    <3>2. ASSUME pc[w] = "record" PROVE OwnObject(w)'
      <4>1. OwnObject(w) /\ obj[w] # NoObject
        BY <2>1, <3>2, NumbersBefore DEF SweepInOrder, OwnObject, NoObject, Ranges
      <4> QED
        BY <1>1, <2>2, <4>1 DEF OwnObject
    <3>3. ASSUME pc[w] = "finish", NEW r \in Pending', file'[r].blob = held[w]
          PROVE  held[w] \in released'
      <4>1. held[w] \notin OpBlobs /\ r \in rows'
        BY <2>1 DEF SweepInOrder, Pending
      <4> QED
        BY <1>1, <2>1, <3>3, <4>1 DEF SweepInOrder
    <3> QED
      BY <2>1, <2>2, <3>1, <3>2, <3>3 DEF SweepInOrder
  <2>3. CASE pc'[w] \notin Past \cup {"finish"} /\ held'[w] = NoBlob
    BY <2>3 DEF SweepInOrder, Past
  <2> QED
    BY <2>2, <2>3
<1>5. SweepsInOrder'
  <2>1. ASSUME NEW w \in Sweepers, pc'[w] = "record"
        PROVE  pc[w] = "record" /\ obj'[w] = obj[w]
    BY <2>1 DEF Past
  <2> QED
    BY <1>4, <2>1 DEF Kept, SweepsInOrder
<1>6. AcceptedFilesKept'
  <2> SUFFICES ASSUME NEW b \in Before(nextBlob), b \notin released' \cup reused'
               PROVE  \E r \in rows' : file'[r].blob = b /\ Backed(r)'
    BY DEF AcceptedFilesKept
  <2>1. CASE b \in OpBlobs
    <3>1. PICK r \in new : file'[r].blob = b
      BY <2>1
    <3> QED
      BY <1>2, <2>1, <3>1 DEF Backed
  <2>2. CASE b \notin OpBlobs
    <3>1. PICK r \in rows : file[r].blob = b /\ Backed(r)
      BY <2>2 DEF Kept, AcceptedFilesKept
    <3>2. r \notin old
      BY <3>1
    <3> QED
      BY <3>1, <3>2 DEF Backed
  <2> QED
    BY <2>1, <2>2
<1> QED
  BY <1>3, <1>5, <1>6 DEF Kept

\* SQLite gives out an id that is not in use.
LEMMA NewIdIsFree ==
  ASSUME NEW ids \in SUBSET Ids, NEW n \in Ids, IsNewId(n, ids)
  PROVE  n \notin ids /\ n + 1 \notin ids /\ n + 1 # n
  BY DEF IsNewId, Ids

\* The rows of a new item get free ids.
LEMMA CreateReplaces ==
  ASSUME Ranges, TypeOK, Kept, CommitCreate \/ RefreshFails
  PROVE  RowsReplacedWith(OpBlobs)
<1> DEFINE new(p) == IF opBlob["thumbnail"] = NoBlob THEN {p} ELSE {p, p + 1}
<1>1. PICK p \in Ids :
        /\ IsNewId(p, rows)
        /\ new(p) \subseteq Ids
        /\ rows' = rows \cup new(p)
        /\ file' = [r \in Ids |->
             IF r \notin new(p) THEN file[r]
             ELSE NewFile(IF r = p THEN "primary" ELSE "thumbnail")]
        /\ reused' = reused \cup {file'[r].blob : r \in new(p) \cap PastIds}
  BY DEF CommitCreate, RefreshFails, InsertRows
<1>2. /\ op = "create" /\ released \subseteq released'
      /\ released' \subseteq released \cup OpBlobs
  BY DEF CommitCreate, RefreshFails
<1>4. p \notin rows /\ p + 1 \notin rows /\ p + 1 # p
  BY <1>1, NewIdIsFree DEF Ranges
<1>5. /\ file'[p].blob = opBlob["primary"] /\ file'[p].object = NoObject
      /\ \A r \in new(p) \ {p} : /\ r = p + 1 /\ opBlob["thumbnail"] # NoBlob
                                /\ file'[r].blob = opBlob["thumbnail"]
                                /\ file'[r].object = NoObject
  BY <1>1 DEF NewFile
<1>6. opBlob["primary"] \in OpBlobs /\ opBlob["primary"] # opBlob["thumbnail"]
  BY <1>2 DEF Kept, OpInOrder, OpBlobs, Roles
<1>7. /\ opBlob["thumbnail"] # NoBlob => opBlob["thumbnail"] \in OpBlobs
      /\ \A b \in OpBlobs : \/ b = opBlob["primary"]
                            \/ b = opBlob["thumbnail"] /\ b # NoBlob
  BY DEF OpBlobs, Roles
<1>8. \A r \in new(p) : Comes(r)
  BY <1>1, <1>5, <1>6, <1>7 DEF Comes
<1>9. \A r, s \in new(p) : r # s => file'[r].blob # file'[s].blob
  BY <1>5, <1>6
<1>10. \A b \in OpBlobs : \E r \in new(p) : file'[r].blob = b
  <2>1. p \in new(p) /\ (opBlob["thumbnail"] # NoBlob => p + 1 \in new(p))
    OBVIOUS
  <2> QED
    BY <1>4, <1>5, <1>7, <2>1
<1>11. \A r \in rows : r \notin new(p) /\ file'[r] = file[r]
  BY <1>1, <1>4 DEF Ranges
<1>12. Replaced({}, new(p))
  <2> HIDE DEF new
  <2> QED
    BY <1>1, <1>8, <1>9, <1>10, <1>11 DEF Replaced
<1>13. reused \subseteq reused' /\ reused' \subseteq reused \cup OpBlobs
  BY <1>1, <1>8 DEF Comes
<1> HIDE DEF new
<1> QED
  BY <1>2, <1>12, <1>13 DEF RowsReplacedWith

\* A new thumbnail row may take the id of the one it replaces.
LEMMA ThumbnailReplaces ==
  ASSUME Ranges, TypeOK, Kept, CommitThumbnail
  PROVE  RowsReplacedWith(OpBlobs)
<1> DEFINE old == FilesOf(opItem, "thumbnail")
           t == opBlob["thumbnail"]
<1>1. PICK n \in Ids :
        /\ IsNewId(n, rows \ old)
        /\ rows' = (rows \ old) \cup {n}
        /\ file' = [r \in Ids |-> IF r = n THEN NewFile("thumbnail")
                                  ELSE IF r \in old THEN NoFile ELSE file[r]]
        /\ reused' = reused \cup (IF n \in PastIds THEN {t} ELSE {})
  BY DEF CommitThumbnail
<1>2. op = "thumbnail" /\ opLeft = {} /\ released' = released
  BY DEF CommitThumbnail
<1>4. old \subseteq rows /\ n \notin rows \ old
  BY <1>1, NewIdIsFree DEF FilesOf, Ranges
<1>5. \A r \in old : file[r].blob \in released
  BY <1>2 DEF Kept, OpInOrder, Doomed
<1>6. file'[n].blob = t /\ file'[n].object = NoObject
  BY <1>1 DEF NewFile
<1>7. OpBlobs = {t}
  BY <1>2 DEF Kept, OpInOrder, OpBlobs, Roles
<1>8. \A r \in rows \ old : r # n /\ file'[r] = file[r]
  BY <1>1, <1>4 DEF Ranges
<1>9. /\ reused \subseteq reused' /\ reused' \subseteq reused \cup OpBlobs
      /\ n \in PastIds => t \in reused'
  BY <1>1, <1>7
<1>10. Replaced(old, {n})
  <2> HIDE DEF old, t
  <2>1. \A r \in {n} : Comes(r)
    BY <1>6, <1>7, <1>9 DEF Comes
  <2>2. \A r \in old : Goes(r)
    BY <1>5 DEF Goes
  <2> QED
    BY <1>1, <1>4, <1>6, <1>7, <1>8, <2>1, <2>2 DEF Replaced
<1> HIDE DEF old, t
<1> QED
  BY <1>2, <1>9, <1>10 DEF RowsReplacedWith

\* The rows of a deleted item go: their files were given up.
LEMMA DeleteReplaces ==
  ASSUME Ranges, TypeOK, Kept, CommitDelete
  PROVE  RowsReplacedWith({})
<1> DEFINE old == {r \in rows : file[r].item = opItem}
<1>1. /\ rows' = rows \ old
      /\ file' = [r \in Ids |-> IF r \in old THEN NoFile ELSE file[r]]
      /\ released' = released /\ reused' = reused /\ op = "delete" /\ opLeft = {}
  BY DEF CommitDelete
<1>2. \A r \in old : file[r].blob \in released
  BY <1>1 DEF Kept, OpInOrder, Doomed
<1>3. OpBlobs = {}
  BY <1>1 DEF Kept, OpInOrder
<1>4. Replaced(old, {})
  BY <1>1, <1>2, <1>3 DEF Replaced, Goes, Ranges
<1> HIDE DEF old
<1> QED
  BY <1>1, <1>4 DEF RowsReplacedWith

\* A request commits.
LEMMA CommitKept ==
  ASSUME Ranges, Ranges', TypeOK, Kept,
         CommitCreate \/ RefreshFails \/ CommitThumbnail \/ CommitDelete
  PROVE  Kept'
<1>1. /\ cache \subseteq cache' \cup released' /\ live' = live /\ madeFrom' = madeFrom
      /\ nextBlob' = nextBlob /\ nextObject' = nextObject
      /\ pc' = pc /\ cur' = cur /\ held' = held /\ obj' = obj
  BY DEF CommitCreate, RefreshFails, CommitThumbnail, CommitDelete, drive, sweep
<1>2. OpInOrder' /\ OpBlobs' = {}
  BY EndOpInOrder DEF CommitCreate, RefreshFails, CommitThumbnail, CommitDelete
<1>3. PICK excused : RowsReplacedWith(excused)
  BY CreateReplaces, ThumbnailReplaces, DeleteReplaces
<1>4. PICK old, new : Replaced(old, new)
  BY <1>3 DEF RowsReplacedWith
<1>5. released \subseteq released' /\ reused \subseteq reused'
  BY <1>3 DEF RowsReplacedWith
<1>6. \A w \in Sweepers : GoesOn(w)
  BY <1>1 DEF GoesOn
<1> QED
  BY <1>1, <1>2, <1>4, <1>5, <1>6, RowsReplaced

\* A sweep drops a row whose cached file it did not find: that file was given
\* up, or the row is another's that took the id.
LEMMA DropReplaces ==
  ASSUME Ranges, TypeOK, ClaimExclusive, Kept, NEW w \in Sweepers, DropRow(w)
  PROVE  /\ RowsReplacedWith({}) /\ OpBlobs = {}
         /\ \A v \in Sweepers : GoesOn(v)
<1> DEFINE old == {cur[w]} \cap rows
<1>1. /\ rows' = rows \ {cur[w]} /\ file' = [file EXCEPT ![cur[w]] = NoFile]
      /\ released' = released /\ reused' = reused /\ op = "none" /\ pc[w] = "drop"
  BY DEF DropRow, LockFree
<1>2. /\ pc'[w] \notin Past \cup {"finish"} /\ held'[w] = NoBlob
      /\ \A v \in Sweepers \ {w} :
           pc'[v] = pc[v] /\ cur'[v] = cur[v] /\ held'[v] = held[v] /\ obj'[v] = obj[v]
  BY DEF DropRow, Release, Goto, NextOrIdle, Past, TypeOK, SweepTypeOK
<1>3. OpBlobs = {}
  BY <1>1 DEF Kept, OpInOrder
<1>4. ASSUME NEW r \in old PROVE Goes(r)
  <2>1. PastRead(w)
    BY <1>1 DEF Kept, SweepsInOrder, SweepInOrder, Past
  <2>2. \A v \in Sweepers : pc'[v] \in Past => cur[v] # cur[w]
    BY <1>1, <1>2 DEF ClaimExclusive, Past, Busy
  <2> QED
    BY <1>1, <2>1, <2>2 DEF PastRead, OnItsRow, Goes
<1>5. Replaced(old, {})
  <2>1. \A r \in rows \ old : file'[r] = file[r]
    BY <1>1 DEF Ranges, TypeOK, TableTypeOK
  <2>2. old \subseteq rows /\ rows' = rows \ old
    BY <1>1
  <2> HIDE DEF old
  <2> QED
    BY <1>3, <1>4, <2>1, <2>2 DEF Replaced
<1>6. \A v \in Sweepers : GoesOn(v)
  BY <1>2 DEF GoesOn
<1> HIDE DEF old
<1> QED
  BY <1>1, <1>3, <1>5, <1>6 DEF RowsReplacedWith

\* What remains is in order.
LEMMA DropRowKept ==
  ASSUME Ranges, Ranges', TypeOK, ClaimExclusive, Kept, NEW w \in Sweepers, DropRow(w)
  PROVE  Kept'
<1>1. /\ cache' = cache /\ live' = live /\ madeFrom' = madeFrom
      /\ nextBlob' = nextBlob /\ nextObject' = nextObject
      /\ op' = op /\ opItem' = opItem /\ opBlob' = opBlob /\ opLeft' = opLeft
      /\ op = "none" /\ rows' = rows \ {cur[w]} /\ released' = released
  BY DEF DropRow, drive, request, LockFree
<1>2. /\ RowsReplacedWith({}) /\ OpBlobs = {}
      /\ \A v \in Sweepers : GoesOn(v)
  BY DropReplaces
<1>3. PICK old, new : Replaced(old, new)
  BY <1>2 DEF RowsReplacedWith
<1>4. OpBlobs' = {} /\ reused \subseteq reused'
  BY <1>1, <1>2 DEF OpBlobs, RowsReplacedWith
<1>5. OpInOrder'
  BY <1>1, <1>4 DEF Kept, OpInOrder, Doomed
<1> QED
  BY <1>1, <1>2, <1>3, <1>4, <1>5, RowsReplaced

\* A sweep records its object in a row: that of its file, or one whose file is
\* excused.
LEMMA RecordKept ==
  ASSUME Ranges, Ranges', TypeOK, ClaimExclusive, Kept, NEW w \in Sweepers, Record(w)
  PROVE  Kept'
<1>1. CASE cur[w] \notin Pending
  BY <1>1, ReleaseKept DEF Record, table
<1>2. CASE cur[w] \in Pending
  <2> DEFINE c == cur[w]
  <2>1. /\ rows' = rows /\ cache' = cache /\ live' = live /\ madeFrom' = madeFrom
        /\ nextBlob' = nextBlob /\ nextObject' = nextObject /\ released' = released
        /\ reused' = reused /\ op' = op /\ opItem' = opItem /\ opBlob' = opBlob
        /\ opLeft' = opLeft /\ op = "none" /\ pc[w] = "record" /\ pc'[w] = "finish"
        /\ cur' = cur /\ held' = held /\ obj' = obj
        /\ \A v \in Sweepers \ {w} : pc'[v] = pc[v]
    BY <1>2 DEF Record, Goto, drive, request, LockFree, TypeOK, SweepTypeOK
  <2>2. /\ c \in rows /\ file[c].object = NoObject
        /\ file'[c].object = obj[w] /\ file'[c].blob = file[c].blob
        /\ \A r \in rows \ {c} : file'[r] = file[r]
    BY <1>2 DEF Record, Pending, TypeOK, TableTypeOK, File
  <2>3. SweepInOrder(w) /\ PastRead(w) /\ OwnObject(w) /\ obj[w] # NoObject
    BY <2>1, NumbersBefore
    DEF Kept, SweepsInOrder, SweepInOrder, OwnObject, Past, Ranges, NoObject
  <2>4. Pending' = Pending \ {c}
    BY <2>1, <2>2, <2>3 DEF Pending
  <2>5. OpBlobs = {} /\ OpBlobs' = {}
    BY <2>1 DEF Kept, OpInOrder, OpBlobs
  <2>6. OpInOrder'
    BY <2>1, <2>5 DEF Kept, OpInOrder, Doomed
  <2> HIDE DEF c
  <2>7. RowsInOrder'
    <3>1. ASSUME NEW r \in rows' PROVE RowInOrder(r)'
      <4>1. RowInOrder(r) /\ file'[r].blob = file[r].blob
        BY <2>1, <2>2 DEF Kept, RowsInOrder
      <4>2. file'[r].object \in Before(nextObject) \cup {NoObject}
        BY <2>1, <2>2, <2>3, <4>1 DEF RowInOrder, OwnObject
      <4> QED
        BY <2>1, <2>4, <2>5, <4>1, <4>2 DEF RowInOrder
    <3>2. \A r, s \in rows' : r # s =>
            /\ file'[r].blob # file'[s].blob
            /\ file'[r].object # file'[s].object \/ file'[r].object = NoObject
      BY <2>1, <2>2, <2>3 DEF Kept, RowsInOrder, OwnObject
    <3> QED
      BY <3>1, <3>2 DEF RowsInOrder
  <2>8. SweepInOrder(w)'
    <3>1. ASSUME NEW r \in Pending', file'[r].blob = held[w] PROVE held[w] \in released
      <4>1. r \in rows /\ r # c /\ file[r].blob = held[w]
        BY <2>2, <2>4, <3>1 DEF Pending
      <4>2. ~ OnItsRow(w)
        BY <2>2, <4>1 DEF Kept, RowsInOrder, OnItsRow, c
      <4> QED
        BY <2>3, <4>2 DEF PastRead
    <3> QED
      BY <2>1, <2>3, <2>5, <3>1 DEF SweepInOrder, Past
  <2>9. ASSUME NEW v \in Sweepers \ {w} PROVE SweepInOrder(v)'
    <3>1. SweepInOrder(v) /\ pc'[v] = pc[v]
      BY <2>1 DEF Kept, SweepsInOrder
    <3>2. ASSUME pc[v] \in Past PROVE PastRead(v)'
      <4>1. cur[v] # c
        BY <2>1, <3>2 DEF ClaimExclusive, Past, Busy, c
      <4>2. (cur[v] \in rows => file'[cur[v]] = file[cur[v]])
            /\ (cur[v] \in Pending' <=> cur[v] \in Pending)
        BY <2>2, <2>4, <4>1
      <4>3. PastRead(v)
        BY <3>1, <3>2 DEF SweepInOrder
      <4> QED
        BY <2>1, <3>1, <4>2, <4>3 DEF PastRead, OnItsRow
    <3>3. ASSUME pc[v] = "record" PROVE OwnObject(v)'
      <4>1. OwnObject(v) /\ obj[v] # obj[w]
        BY <2>1, <3>1, <3>3 DEF SweepInOrder, Kept, SweepsInOrder
      <4> QED
        BY <2>1, <2>2, <4>1 DEF OwnObject
    <3>4. ASSUME pc[v] = "finish", NEW r \in Pending', file'[r].blob = held[v]
          PROVE  held[v] \in released
      BY <2>2, <2>4, <3>1, <3>4 DEF SweepInOrder, Pending
    <3> QED
      BY <2>1, <2>5, <3>1, <3>2, <3>3, <3>4 DEF SweepInOrder
  <2>10. SweepsInOrder'
    BY <2>1, <2>8, <2>9 DEF Kept, SweepsInOrder
  <2>11. AcceptedFilesKept'
    <3> SUFFICES ASSUME NEW b \in Before(nextBlob), b \notin released \cup reused
                 PROVE  \E r \in rows : file'[r].blob = b /\ Backed(r)'
      BY <2>1 DEF AcceptedFilesKept
    <3>1. PICK r \in rows : file[r].blob = b /\ Backed(r)
      BY <2>5 DEF Kept, AcceptedFilesKept
    <3>2. CASE r # c
      BY <2>1, <2>2, <3>1, <3>2 DEF Backed
    <3>3. CASE r = c
      <4>1. OnItsRow(w)
        BY <2>2, <2>3, <3>1, <3>3 DEF PastRead, c
      <4> QED
        BY <2>1, <2>2, <2>3, <3>1, <3>3, <4>1 DEF Backed, OwnObject, OnItsRow, c
    <3> QED
      BY <3>2, <3>3
  <2> QED
    BY <2>6, <2>7, <2>10, <2>11 DEF Kept
<1> QED
  BY <1>1, <1>2

-----------------------------------------------------------------------------

\* Initially there is nothing to keep.
LEMMA InitKept == Init => Kept
  BY NumbersBefore
  DEF Init, Kept, RowsInOrder, OpInOrder, SweepsInOrder, SweepInOrder, Past,
      AcceptedFilesKept, OpBlobs, NoBlobs, Doomed, Pending

\* Every step keeps the invariant.
LEMMA NextKept == TypeOK /\ TypeOK' /\ ClaimExclusive /\ Kept /\ [Next]_vars => Kept'
<1> SUFFICES ASSUME TypeOK, TypeOK', ClaimExclusive, Kept, [Next]_vars
             PROVE  Kept'
  OBVIOUS
<1>1. Ranges /\ Ranges'
  BY TypedRanges
<1>2. CASE OpStep
  BY <1>1, <1>2, CommitKept, AbortKept, DiscardKept DEF OpStep
<1>3. ASSUME NEW w \in Sweepers, SweepStep(w) PROVE Kept'
  BY <1>1, <1>3, BystanderKept, ReadRowKept, CheckCacheKept, DropRowKept,
     UploadKept, UploadFailsKept, RecordKept, FinishKept DEF SweepStep
<1>4. ASSUME NEW i \in Items,
             \/ \E withThumbnail \in BOOLEAN : BeginCreate(i, withThumbnail)
             \/ BeginThumbnail(i) \/ BeginDelete(i)
      PROVE  Kept'
  BY <1>1, <1>4, BeginKept
<1>5. CASE Crash
  BY <1>1, <1>5, CrashKept
<1>6. CASE \/ MarkDirty \/ Snapshot \/ UNCHANGED vars
           \/ \E w \in Sweepers : SweepStart(w)
  BY <1>1, <1>6, BystanderKept
<1> QED
  BY <1>2, <1>3, <1>4, <1>5, <1>6 DEF Next

\* The inductive invariant, for all items, sweeps and bounds.
THEOREM Invariant == Spec => []Inductive
<1>1. Init => TypeOK /\ ClaimExclusive /\ Kept
  BY InitTypeOK, InitClaims, InitKept
<1>2. TypeOK /\ ClaimExclusive /\ Kept /\ [Next]_vars
        => (TypeOK /\ ClaimExclusive /\ Kept)'
  BY NextTypeOK, NextClaims, NextKept
<1>3. TypeOK /\ ClaimExclusive /\ Kept => Inductive
  BY DEF Kept, Inductive
<1> QED
  BY <1>1, <1>2, <1>3, PTL DEF Spec

\* An accepted file is never lost, for all items, sweeps and bounds: until its
\* owner gives it up, and unless its row took an id that a sweep had read, a row
\* names it and its content is in the cache or on Drive.
THEOREM FilesKept == Spec => []AcceptedFilesKept
<1>1. Inductive => AcceptedFilesKept
  BY DEF Inductive
<1> QED
  BY <1>1, Invariant, PTL
=============================================================================
