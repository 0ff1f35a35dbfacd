---------------------------- MODULE ServicesProofs ---------------------------
(***************************************************************************)
(* Proofs about the small components, for any sizes and whatever fails:    *)
(* that the setup keeps the data of an earlier installation, that what the *)
(* download cache serves is complete, that a sync of the BOOTH library     *)
(* misses nothing, that the list of items is grouped, and their types.     *)
(***************************************************************************)
EXTENDS MCServices, ItemEditsProofs

-----------------------------------------------------------------------------
(* First-run setup. *)

\* Every object is named by a number or is the backup; a new one is neither
\* the backup nor the recorded one.
LEMMA ObjectIds ==
  /\ Backup \in Objects /\ None \notin Objects
  /\ \A o : IsNewObject(o) =>
       o \in Objects /\ o # Backup /\ object[o] = None /\ db.id # o
  BY SetupAssumption DEF Objects, NewObjects, IsNewObject

\* The recorded id is that of an object that holds, or held, this database.
IdIsOwn == db.id # None => object[db.id] \in {None, db.data}

\* So is the id that the callback goes on with, once it has one.
CallbackIsOwn ==
  /\ callback.at = "download" => callback.id = Backup
  /\ callback.at \in {"credentials", "id"} =>
       callback.id # None /\ object[callback.id] = db.data
  /\ callback.at \in {"upload", "credentials", "id"} => db.tables

SetupInvariant == SetupTypeOK /\ IdIsOwn /\ CallbackIsOwn

\* A machine without a database.
LEMMA SetupInitInvariant == SetupInit => SetupInvariant
<1> SUFFICES ASSUME SetupInit PROVE SetupInvariant
  OBVIOUS
<1>1. db.id = None /\ callback.at = "idle"
  BY DEF SetupInit, Absent, Idle
<1>2. SetupTypeOK
  BY ObjectIds DEF SetupInit, SetupTypeOK, Absent, Idle, Lineages
<1> QED
  BY <1>1, <1>2 DEF SetupInvariant, IdIsOwn, CallbackIsOwn

\* An object that is written holds the database, and the others stay.
CreatedOnly(o) ==
  /\ object' \in [Objects -> Lineages \cup {None}]
  /\ object'[o] = db.data /\ \A p \in Objects \ {o} : object'[p] = object[p]

\* A created object is one more, with the data of the database.
LEMMA CreatedObject ==
  ASSUME SetupTypeOK, NEW o \in Objects, Created(o)
  PROVE  CreatedOnly(o)
  BY DEF SetupTypeOK, Created, CreatedOnly

\* A step of the callback.
LEMMA CallbackStep ==
  ASSUME SetupInvariant,
         \/ Callback \/ Download \/ Migrate \/ Upload \/ SaveCredentials \/ SaveId
         \/ CallbackFails
  PROVE  SetupInvariant'
<1> USE DEF SetupInvariant, SetupTypeOK, IdIsOwn, CallbackIsOwn
<1>1. CASE Callback
  <2>1. /\ object' = object /\ typed' \in BOOLEAN /\ IdIsOwn'
        /\ db' \in [file : BOOLEAN, tables : BOOLEAN, data : Lineages,
                    connected : BOOLEAN, id : Objects \cup {None}]
        /\ db'.tables = db.tables /\ db'.file = db.file
        /\ db'.connected \/ db'.id # None => db'.tables
    BY <1>1 DEF Callback
  <2>2. \/ callback' = [at |-> "download", id |-> Backup]
        \/ callback' = [at |-> "migrate", id |-> None]
        \/ callback' = Idle
    BY <1>1 DEF Callback
  <2> QED
    BY <2>1, <2>2, ObjectIds DEF Idle
<1>2. CASE Download
  BY <1>2, ObjectIds DEF Download
<1>3. CASE Migrate
  BY <1>3 DEF Migrate
<1>4. CASE Upload
  <2>1. PICK o \in Objects : /\ IsNewObject(o) /\ Created(o)
                             /\ callback' = [at |-> "credentials", id |-> o]
    BY <1>4 DEF Upload
  <2>2. o # None /\ db.id # o /\ UNCHANGED <<db, typed>>
    BY <1>4, <2>1, ObjectIds DEF Upload
  <2>3. CreatedOnly(o)
    BY <2>1, CreatedObject
  <2>4. IdIsOwn'
    BY <2>1, <2>2, <2>3 DEF CreatedOnly
  <2>5. CallbackIsOwn'
    BY <1>4, <2>1, <2>2, <2>3 DEF CreatedOnly, Upload
  <2>6. SetupTypeOK'
    BY <2>1, <2>2, <2>3 DEF CreatedOnly
  <2> QED
    BY <2>4, <2>5, <2>6
<1>5. CASE SaveCredentials
  BY <1>5, SetupAssumption DEF SaveCredentials
<1>6. CASE SaveId
  BY <1>6 DEF SaveId, Idle
<1>7. CASE CallbackFails
  BY <1>7, ObjectIds DEF CallbackFails, Idle
<1> QED
  BY <1>1, <1>2, <1>3, <1>4, <1>5, <1>6, <1>7

\* A step of anything else: only a push writes an object, the recorded one or a
\* new one.
LEMMA OtherSetupStep ==
  ASSUME SetupInvariant,
         \/ \E id \in {Backup, None} : SubmitSetup(id)
         \/ \E o \in Objects : LoseObject(o)
         \/ Tick \/ Restart \/ Flush \/ UNCHANGED setupVars
  PROVE  SetupInvariant'
<1> USE DEF SetupInvariant, SetupTypeOK, IdIsOwn, CallbackIsOwn
<1>1. CASE \E id \in {Backup, None} : SubmitSetup(id)
  BY <1>1 DEF SubmitSetup
<1>2. ASSUME NEW o \in Objects, LoseObject(o) PROVE SetupInvariant'
  BY <1>2 DEF LoseObject, Idle
<1>3. CASE Tick
  BY <1>3 DEF Tick
<1>4. CASE Restart
  BY <1>4, ObjectIds DEF Restart, Idle
<1>5. CASE Flush
  <2>1. CASE object[db.id] # None
    <3>1. CreatedOnly(db.id) /\ UNCHANGED <<db, typed, callback>>
      BY <1>5, <2>1 DEF Flush, CreatedOnly
    <3> QED
      BY <1>5, <3>1 DEF Flush, CreatedOnly
  <2>2. CASE object[db.id] = None
    <3>1. PICK o \in Objects : /\ IsNewObject(o) /\ Created(o)
                               /\ db' = [db EXCEPT !.id = o]
      BY <1>5, <2>2 DEF Flush
    <3>2. CreatedOnly(o)
      BY <3>1, CreatedObject
    <3>3. UNCHANGED <<typed, callback>> /\ object[o] = None /\ o # None
      BY <1>5, <3>1, ObjectIds DEF Flush
    <3>4. db'.id = o /\ db'.data = db.data /\ db'.tables = db.tables
      BY <3>1
    <3>5. CallbackIsOwn'
      <4>1. ASSUME callback.at \in {"credentials", "id"}
            PROVE  callback.id \in Objects \ {o}
        BY <3>3, <4>1, SetupAssumption DEF Lineages
      <4> QED
        BY <3>2, <3>3, <3>4, <4>1 DEF CreatedOnly
    <3>6. SetupTypeOK'
      BY <1>5, <3>1, <3>2, <3>3 DEF CreatedOnly, Flush
    <3> QED
      BY <3>2, <3>4, <3>5, <3>6 DEF CreatedOnly
  <2> QED
    BY <2>1, <2>2
<1>6. CASE UNCHANGED setupVars
  BY <1>6 DEF setupVars
<1> QED
  BY <1>1, <1>2, <1>3, <1>4, <1>5, <1>6

\* So every step keeps the invariant,
LEMMA SetupStep == SetupInvariant /\ [SetupNext]_setupVars => SetupInvariant'
  BY CallbackStep, OtherSetupStep DEF SetupNext

\* and it holds, for every number of objects.
THEOREM SetupCorrect == SetupSpec => []SetupInvariant
  BY SetupInitInvariant, SetupStep, PTL DEF SetupSpec

\* The data of an earlier installation is never overwritten by a database that
\* does not hold it, for every number of objects: what is pushed there is the
\* database that was restored from it.
THEOREM BackupStays == SetupSpec => BackupKept
<1>1. SetupInvariant /\ [SetupNext]_setupVars =>
        [object[Backup] = "old" => object'[Backup] \in {"old", None}]_setupVars
  <2> SUFFICES ASSUME SetupInvariant, [SetupNext]_setupVars, object[Backup] = "old"
               PROVE  object'[Backup] \in {"old", None}
    OBVIOUS
  <2> USE DEF SetupInvariant, SetupTypeOK, IdIsOwn
  <2>1. ASSUME NEW o \in Objects, IsNewObject(o), Created(o)
        PROVE  object'[Backup] = object[Backup]
    BY <2>1, CreatedObject, ObjectIds DEF CreatedOnly
  <2>2. CASE Upload
    BY <2>1, <2>2 DEF Upload
  <2>3. CASE Flush
    <3>1. CASE object[db.id] # None
      BY <2>3, <3>1, ObjectIds DEF Flush
    <3>2. CASE object[db.id] = None
      BY <2>1, <2>3, <3>2 DEF Flush
    <3> QED
      BY <3>1, <3>2
  <2>4. ASSUME NEW o \in Objects, LoseObject(o) PROVE object'[Backup] \in {"old", None}
    BY <2>4, ObjectIds DEF LoseObject
  <2>5. CASE \/ \E id \in {Backup, None} : SubmitSetup(id)
             \/ Callback \/ Download \/ Migrate \/ SaveCredentials \/ SaveId
             \/ CallbackFails \/ Tick \/ Restart \/ UNCHANGED setupVars
    BY <2>5 DEF SubmitSetup, Callback, Download, Migrate, SaveCredentials, SaveId,
                CallbackFails, Tick, Restart, setupVars
  <2> QED
    BY <2>2, <2>3, <2>4, <2>5 DEF SetupNext
<1> QED
  BY <1>1, SetupCorrect, PTL DEF SetupSpec, BackupKept

-----------------------------------------------------------------------------
(* The download cache. *)

\* An entry is whole unless a touch created it, and the only copy of a file
\* that is not on Drive yet stays.
Entries ==
  /\ stored \in [Files -> {"pending", "synced", "deleted"}]
  /\ cached \in [Files -> {"none", "empty", "whole"}]
  /\ \A f \in Files : cached[f] = "empty" => f \in recreated
  /\ \A f \in Files : stored[f] = "pending" => f \in local

\* A request works on a file of the library, and remembers what it sent.
Requests ==
  getter \in [Getters ->
    [pc : {"idle", "hit", "fetch", "local", "found"}, file : Files,
     sent : {"nothing", "error", "empty", "whole"}]]

\* What is expired or was recreated is in the cache.
FilesKnown ==
  /\ local \subseteq Files /\ purging \subseteq Files
  /\ expired \cup recreated \subseteq {f \in Files : cached[f] # "none"}

CacheInvariant == Entries /\ Requests /\ FilesKnown

\* An empty cache.
LEMMA CacheInitInvariant == CacheInit => CacheInvariant
  BY DEF CacheInit, CacheInvariant, Entries, Requests, FilesKnown

\* Writing and unlinking an entry.
LEMMA EntryWritten ==
  ASSUME Entries, NEW f \in Files, UNCHANGED <<stored, local>>,
         Fill(f, "whole") \/ Unlink(f)
  PROVE  /\ Entries'
         /\ FilesKnown /\ purging' \subseteq purging => FilesKnown'
  BY DEF Entries, FilesKnown, Fill, Unlink

\* The steps of a request.
LEMMA RequestSteps ==
  ASSUME CacheInvariant, NEW g \in Getters,
         \/ \E f \in Files : Resolve(g, f)
         \/ LookLocal(g) \/ Touch(g) \/ Fetch(g) \/ FetchFails(g) \/ Send(g)
  PROVE  CacheInvariant'
<1> USE DEF CacheInvariant, Becomes, Ends
<1>1. getter[g].file \in Files
  BY DEF Requests
<1>2. Requests'
  BY <1>1 DEF Requests, Entries, Resolve, LookLocal, Touch, Fetch, FetchFails, Send
<1>3. Entries'
  <2>1. CASE Fetch(g)
    BY <1>1, <2>1, EntryWritten DEF Fetch
  <2>2. CASE Touch(g)
    BY <1>1, <2>2 DEF Touch, Entries
  <2>3. CASE (\E f \in Files : Resolve(g, f)) \/ LookLocal(g) \/ FetchFails(g) \/ Send(g)
    BY <2>3 DEF Resolve, LookLocal, FetchFails, Send, Entries
  <2> QED
    BY <2>1, <2>2, <2>3
<1>4. FilesKnown'
  <2>1. CASE Fetch(g)
    BY <1>1, <2>1, EntryWritten DEF Fetch
  <2>2. CASE Touch(g)
    BY <1>1, <2>2 DEF Touch, Entries, FilesKnown
  <2>3. CASE (\E f \in Files : Resolve(g, f)) \/ LookLocal(g) \/ FetchFails(g) \/ Send(g)
    BY <2>3 DEF Resolve, LookLocal, FetchFails, Send, FilesKnown
  <2> QED
    BY <2>1, <2>2, <2>3
<1> QED
  BY <1>2, <1>3, <1>4

\* The steps of the upload, of a deletion, of the clock and of the purge.
LEMMA FileSteps ==
  ASSUME CacheInvariant, NEW f \in Files,
         \/ RecordSync(f) \/ DropLocal(f) \/ DeleteFile(f)
         \/ Expire(f) \/ FindExpired(f) \/ Purge(f)
  PROVE  CacheInvariant'
<1> USE DEF CacheInvariant
<1>1. Requests'
  BY DEF Requests, RecordSync, DropLocal, DeleteFile, Expire, FindExpired, Purge
<1>2. Entries'
  <2>1. CASE Purge(f)
    BY <2>1, EntryWritten DEF Purge
  <2>2. CASE DeleteFile(f)
    BY <2>2 DEF DeleteFile, Unlink, Entries
  <2>3. CASE RecordSync(f) \/ DropLocal(f) \/ Expire(f) \/ FindExpired(f)
    BY <2>3 DEF RecordSync, DropLocal, Expire, FindExpired, Entries
  <2> QED
    BY <2>1, <2>2, <2>3
<1>3. FilesKnown'
  <2>1. CASE Purge(f)
    BY <2>1, EntryWritten DEF Purge
  <2>2. CASE DeleteFile(f)
    BY <2>2 DEF DeleteFile, Unlink, Entries, FilesKnown
  <2>3. CASE RecordSync(f) \/ DropLocal(f) \/ Expire(f) \/ FindExpired(f)
    BY <2>3 DEF RecordSync, DropLocal, Expire, FindExpired, FilesKnown
  <2> QED
    BY <2>1, <2>2, <2>3
<1> QED
  BY <1>1, <1>2, <1>3

\* Every step keeps the invariant of the cache.
LEMMA CacheStep == CacheInvariant /\ [CacheNext]_cacheVars => CacheInvariant'
<1>1. CacheInvariant /\ UNCHANGED cacheVars => CacheInvariant'
  BY DEF CacheInvariant, Entries, Requests, FilesKnown, cacheVars
<1> QED
  BY <1>1, RequestSteps, FileSteps DEF CacheNext

\* An entry of the cache is whole or was created by a touch, and requests have
\* seen what they are about to open.
THEOREM CacheCorrect == CacheSpec => []CacheInvariant
  BY CacheInitInvariant, CacheStep, PTL DEF CacheSpec

\* For all files and requests, what is sent is the whole file or an error unless
\* a touch has recreated an entry that was unlinked after it had been seen.
THEOREM Served == CacheSpec => ServedComplete
<1>1. CacheInvariant /\ [CacheNext]_cacheVars =>
        [\A g \in Getters : getter'[g].sent # getter[g].sent =>
           getter'[g].sent \in {"nothing", "whole", "error"}
             \/ getter[g].file \in recreated]_cacheVars
  <2> SUFFICES ASSUME CacheInvariant, CacheNext, NEW h \in Getters,
                      getter'[h].sent # getter[h].sent
               PROVE  \/ getter'[h].sent \in {"nothing", "whole", "error"}
                      \/ getter[h].file \in recreated
    BY DEF cacheVars
  <2> USE DEF CacheInvariant, Requests, Becomes, Ends
  <2>1. ASSUME NEW g \in Getters, Send(g)
        PROVE  \/ getter'[h].sent \in {"nothing", "whole", "error"}
               \/ getter[h].file \in recreated
    BY <2>1 DEF Send, Entries
  <2>2. ASSUME NEW g \in Getters,
               \/ \E f \in Files : Resolve(g, f)
               \/ LookLocal(g) \/ Touch(g) \/ Fetch(g) \/ FetchFails(g)
        PROVE  getter'[h].sent \in {"nothing", "whole", "error"}
    BY <2>2 DEF Resolve, LookLocal, Touch, Fetch, FetchFails
  <2>3. ASSUME NEW f \in Files,
               \/ RecordSync(f) \/ DropLocal(f) \/ DeleteFile(f)
               \/ Expire(f) \/ FindExpired(f) \/ Purge(f)
        PROVE  FALSE
    BY <2>3 DEF RecordSync, DropLocal, DeleteFile, Expire, FindExpired, Purge
  <2> QED
    BY <2>1, <2>2, <2>3 DEF CacheNext
<1> QED
  BY <1>1, CacheCorrect, PTL DEF CacheSpec, ServedComplete

-----------------------------------------------------------------------------
(* The copy of the BOOTH library. *)

\* The pages of a listing before the k-th hold nothing a sync would miss: what
\* was listed when it began it has read, or knows to be lost.
PagesSeen(s, l, k) ==
  \A j \in 1 .. Len(shelf[l]) :
    (j < k /\ shelf[l][j] \in sync[s].before) => shelf[l][j] \in sync[s].got \cup sync[s].lost
AllSeen(s, l) == PagesSeen(s, l, Len(shelf[l]) + 1)

\* What was listed at the start still is, and a sync that robots.txt did not
\* keep out has seen the pages that it is past.
SyncSees(s) ==
  /\ sync[s].pc # "idle" => sync[s].before \subseteq Listed
  /\ ~sync[s].blind =>
       /\ sync[s].pc \in Listings => PagesSeen(s, sync[s].pc, sync[s].page)
       /\ sync[s].pc \in {"askFree", "free", "replace"} => AllSeen(s, "purchases")
       /\ sync[s].pc = "replace" => AllSeen(s, "free")

BoothInvariant == BoothTypeOK /\ \A s \in Syncs : SyncSees(s)

\* The listings as sequences of products.
LEMMA Shelves ==
  ASSUME BoothTypeOK, NEW l \in Listings
  PROVE  /\ shelf[l] \in Seq(Products) /\ Len(shelf[l]) \in Nat
         /\ \A j \in 1 .. Len(shelf[l]) : shelf[l][j] \in Listed /\ shelf[l][j] \in Products
         /\ Range(shelf[l]) = {shelf[l][j] : j \in 1 .. Len(shelf[l])}
<1>1. shelf[l] \in Seq(Products)
  BY DEF BoothTypeOK
<1>2. /\ Len(shelf[l]) \in Nat /\ DOMAIN shelf[l] = 1 .. Len(shelf[l])
      /\ \A j \in 1 .. Len(shelf[l]) : shelf[l][j] \in Products
  BY <1>1
<1>3. Range(shelf[l]) = {shelf[l][j] : j \in 1 .. Len(shelf[l])}
  BY <1>2 DEF Range
<1>4. Range(shelf[l]) \subseteq Listed
  BY DEF Listings, Listed
<1> QED
  BY <1>1, <1>2, <1>3, <1>4

\* A purchase is put before all others, each of which moves by one page.
LEMMA Acquired ==
  ASSUME BoothTypeOK, NEW p \in Products, Acquire(p)
  PROVE  \E l \in Listings :
           /\ shelf' = [shelf EXCEPT ![l] = <<p>> \o shelf[l]]
           /\ l = "free" => p \in Free
           /\ Len(shelf'[l]) = Len(shelf[l]) + 1
           /\ shelf'[l][1] = p
           /\ \A j \in 2 .. Len(shelf'[l]) : shelf'[l][j] = shelf[l][j - 1]
           /\ Listed' = Listed \cup {p}
<1>1. PICK l \in Listings : /\ l = (IF p \in Free THEN "free" ELSE "purchases")
                            /\ shelf' = [shelf EXCEPT ![l] = <<p>> \o @]
  BY DEF Acquire, Listings
<1>2. shelf[l] \in Seq(Products) /\ Len(shelf[l]) \in Nat
  BY Shelves
<1> DEFINE q == <<p>> \o shelf[l]
<1>3. /\ q \in Seq(Products) /\ Len(q) = Len(shelf[l]) + 1 /\ q[1] = p
      /\ \A j \in 2 .. Len(q) : q[j] = shelf[l][j - 1]
  BY <1>2
<1>4. shelf'[l] = q /\ \A m \in Listings \ {l} : shelf'[m] = shelf[m]
  BY <1>1 DEF BoothTypeOK
<1>5. Range(q) = Range(shelf[l]) \cup {p}
  <2>1. DOMAIN q = 1 .. Len(shelf[l]) + 1 /\ DOMAIN shelf[l] = 1 .. Len(shelf[l])
    BY <1>2, <1>3
  <2>2. ASSUME NEW x \in Range(q) PROVE x \in Range(shelf[l]) \cup {p}
    <3>1. PICK j \in 1 .. Len(shelf[l]) + 1 : x = q[j]
      BY <2>1, <2>2 DEF Range
    <3>2. CASE j = 1
      BY <3>1, <3>2, <1>3
    <3>3. CASE j # 1
      <4>1. j - 1 \in DOMAIN shelf[l] /\ x = shelf[l][j - 1]
        BY <3>1, <3>3, <2>1, <1>2, <1>3
      <4> QED
        BY <4>1 DEF Range
    <3> QED
      BY <3>2, <3>3
  <2>3. ASSUME NEW x \in Range(shelf[l]) PROVE x \in Range(q)
    <3>1. PICK j \in 1 .. Len(shelf[l]) : x = shelf[l][j]
      BY <2>1, <2>3 DEF Range
    <3>2. j + 1 \in DOMAIN q /\ q[j + 1] = x
      BY <3>1, <2>1, <1>2, <1>3
    <3> QED
      BY <3>2 DEF Range
  <2>4. p \in Range(q)
    BY <2>1, <1>2, <1>3 DEF Range
  <2> QED
    BY <2>2, <2>3, <2>4
<1>6. Listed' = Listed \cup {p}
  BY <1>1, <1>4, <1>5 DEF Listed, Listings
<1> QED
  BY ONLY <1>1, <1>3, <1>4, <1>6 DEF q

\* No sync has begun.
LEMMA BoothInitInvariant == BoothInit => BoothInvariant
<1> SUFFICES ASSUME BoothInit PROVE BoothInvariant
  OBVIOUS
<1>1. NoSync \in [pc : {"idle", "ask", "purchases", "askFree", "free", "replace"},
                  page : 1 .. MaxPages + 1, got : SUBSET Products,
                  before : SUBSET Products, blind : BOOLEAN, lost : SUBSET Products]
  BY LibraryAssumption DEF NoSync
<1>2. shelf \in [Listings -> Seq(Products)] /\ Range(shelf["free"]) = {}
  BY DEF BoothInit, Listings, Range
<1>3. BoothTypeOK
  BY <1>1, <1>2 DEF BoothInit, BoothTypeOK
<1> QED
  BY <1>3 DEF BoothInit, BoothInvariant, SyncSees, NoSync, Listings

\* A purchase moves products to later pages, which a sync has yet to read.
LEMMA AcquireSeen ==
  ASSUME BoothInvariant, NEW p \in Products, Acquire(p)
  PROVE  BoothInvariant'
<1>1. PICK l \in Listings :
        /\ shelf' = [shelf EXCEPT ![l] = <<p>> \o shelf[l]]
        /\ l = "free" => p \in Free
        /\ Len(shelf'[l]) = Len(shelf[l]) + 1
        /\ shelf'[l][1] = p
        /\ \A j \in 2 .. Len(shelf'[l]) : shelf'[l][j] = shelf[l][j - 1]
        /\ Listed' = Listed \cup {p}
  BY Acquired DEF BoothInvariant
<1>2. p \notin Listed /\ sync' = sync /\ table' = table
  BY DEF Acquire
<1>3. \A m \in Listings : shelf[m] \in Seq(Products) /\ Len(shelf[m]) \in Nat
  BY Shelves DEF BoothInvariant
<1>4. /\ DOMAIN shelf = Listings
      /\ \A m \in Listings \ {l} : shelf'[m] = shelf[m]
  BY <1>1 DEF BoothInvariant, BoothTypeOK
<1>5. BoothTypeOK'
  <2>1. shelf' \in [Listings -> Seq(Products)]
    <3>1. <<p>> \o shelf[l] \in Seq(Products)
      BY <1>3
    <3> QED
      BY <3>1, <1>1 DEF BoothInvariant, BoothTypeOK
  <2>2. Range(shelf'["free"]) \subseteq Free
    <3>1. CASE l # "free"
      BY <3>1, <1>4 DEF BoothInvariant, BoothTypeOK, Listings
    <3>2. CASE l = "free"
      <4>1. DOMAIN shelf'[l] = 1 .. Len(shelf'[l]) /\ DOMAIN shelf[l] = 1 .. Len(shelf[l])
        BY <1>3, <2>1
      <4>2. \A j \in 1 .. Len(shelf[l]) : shelf[l][j] \in Free
        BY <4>1, <3>2 DEF BoothInvariant, BoothTypeOK, Range
      <4>3. ASSUME NEW j \in 1 .. Len(shelf'[l]) PROVE shelf'[l][j] \in Free
        <5>1. CASE j = 1
          BY <5>1, <1>1, <3>2
        <5>2. CASE j # 1
          <6>1. j \in 2 .. Len(shelf'[l]) /\ j - 1 \in 1 .. Len(shelf[l])
            BY <5>2, <1>1, <1>3
          <6> QED
            BY <6>1, <4>2, <1>1
        <5> QED
          BY <5>1, <5>2
      <4> QED
        BY <3>2, <4>1, <4>3 DEF Range
    <3> QED
      BY <3>1, <3>2
  <2> QED
    BY <2>1, <2>2, <1>2 DEF BoothInvariant, BoothTypeOK
<1>6. ASSUME NEW s \in Syncs, NEW m \in Listings, NEW k \in Nat,
             sync[s].before \subseteq Listed, PagesSeen(s, m, k)
      PROVE  /\ PagesSeen(s, m, k)'
             /\ k = Len(shelf[m]) + 1 => AllSeen(s, m)'
  <2>1. CASE m # l
    <3>1. shelf'[m] = shelf[m]
      BY <2>1, <1>4
    <3> QED
      BY <3>1, <1>2, <1>6 DEF PagesSeen, AllSeen
  <2>2. CASE m = l
    <3> SUFFICES ASSUME NEW j \in 1 .. Len(shelf'[l]), j < k + 1,
                        shelf'[l][j] \in sync[s].before
                 PROVE  shelf'[l][j] \in sync[s].got \cup sync[s].lost
      BY <2>2, <1>1, <1>2, <1>3 DEF PagesSeen, AllSeen
    <3>1. j # 1
      BY <1>1, <1>2, <1>6
    <3>2. /\ j \in 2 .. Len(shelf'[l]) /\ j - 1 \in 1 .. Len(shelf[l]) /\ j - 1 < k
      BY <3>1, <1>1, <1>3
    <3> QED
      BY <3>2, <2>2, <1>1, <1>6 DEF PagesSeen
  <2> QED
    BY <2>1, <2>2
<1>7. ASSUME NEW s \in Syncs PROVE SyncSees(s)'
  <2>1. SyncSees(s) /\ sync'[s] = sync[s]
    BY <1>2 DEF BoothInvariant
  <2>2. sync[s].pc # "idle" => sync[s].before \subseteq Listed /\ sync[s].before \subseteq Listed'
    BY <2>1, <1>1 DEF SyncSees
  <2>3. sync[s].page \in Nat /\ {"purchases", "free"} \subseteq Listings
    BY LibraryAssumption DEF BoothInvariant, BoothTypeOK, Listings
  <2>4. ASSUME sync[s].pc \in Listings, PagesSeen(s, sync[s].pc, sync[s].page)
        PROVE  PagesSeen(s, sync[s].pc, sync[s].page)'
    <3>1. PagesSeen(s, sync[s].pc, sync[s].page)' <=>
            LET m == sync[s].pc
                k == sync[s].page IN PagesSeen(s, m, k)'
      BY <1>2 DEF PagesSeen
    <3>2. "idle" \notin Listings
      BY DEF Listings
    <3> QED
      BY <3>1, <3>2, <2>2, <2>3, <2>4, <1>6, <1>2 DEF PagesSeen
  <2>5. ASSUME NEW m \in Listings, sync[s].pc # "idle", AllSeen(s, m) PROVE AllSeen(s, m)'
    <3>1. Len(shelf[m]) + 1 \in Nat
      BY <1>3
    <3> QED
      BY <3>1, <2>2, <2>5, <1>6 DEF AllSeen
  <2>6. sync[s].pc \in Listings => "idle" # sync[s].pc
    BY DEF Listings
  <2> QED
    BY <2>1, <2>2, <2>3, <2>4, <2>5, <2>6 DEF SyncSees
<1> QED
  BY <1>5, <1>7 DEF BoothInvariant

SyncRecords == [pc : {"idle", "ask", "purchases", "askFree", "free", "replace"},
                page : 1 .. MaxPages + 1, got : SUBSET Products,
                before : SUBSET Products, blind : BOOLEAN, lost : SUBSET Products]

\* The locals of a sync that begins.
LEMMA Started ==
  ASSUME NEW b \in SUBSET Products, NEW page \in 1 .. MaxPages + 1,
         NEW r, r = [pc |-> "ask", page |-> page, got |-> {}, before |-> b, blind |-> FALSE,
                     lost |-> {}]
  PROVE  r \in SyncRecords /\ r.pc = "ask" /\ r.before = b
  BY DEF SyncRecords

\* A step of one sync: the listings stay, and so do the other syncs.
LEMMA SyncStep ==
  ASSUME BoothInvariant, NEW s \in Syncs,
         StartSync(s) \/ AskRobots(s) \/ FetchPage(s) \/ FetchRaises(s) \/ Replace(s)
  PROVE  BoothInvariant'
<1>1. shelf' = shelf /\ Listed' = Listed /\ \A q \in Syncs \ {s} : sync'[q] = sync[q]
  BY DEF StartSync, AskRobots, FetchPage, FetchRaises, Replace, BoothInvariant, BoothTypeOK, Listed
<1>2. /\ sync \in [Syncs -> SyncRecords] /\ SyncSees(s) /\ table \subseteq Products
      /\ MaxPages \in Nat
  BY LibraryAssumption DEF BoothInvariant, BoothTypeOK, SyncRecords
<1>3. NoSync \in SyncRecords /\ NoSync.pc = "idle"
  BY <1>2 DEF NoSync, SyncRecords
<1>4. Listed \subseteq Products
  BY Shelves DEF BoothInvariant, Listed, Listings
<1>5. SUFFICES /\ sync' = [sync EXCEPT ![s] = sync'[s]] /\ sync'[s] \in SyncRecords
               /\ table' \subseteq Products /\ SyncSees(s)'
  <2>1. sync' \in [Syncs -> SyncRecords]
    BY <1>2, <1>5
  <2>2. BoothTypeOK'
    BY <2>1, <1>5, <1>1 DEF BoothInvariant, BoothTypeOK, SyncRecords
  <2>3. ASSUME NEW q \in Syncs \ {s} PROVE SyncSees(q)'
    BY <1>1 DEF BoothInvariant, SyncSees, PagesSeen, AllSeen
  <2> QED
    BY <2>2, <2>3, <1>5 DEF BoothInvariant
<1>6. CASE StartSync(s)
  <2>1. /\ sync' = [sync EXCEPT ![s] = [NoSync EXCEPT !.pc = "ask", !.before = Listed]]
        /\ table' = table
    BY <1>6 DEF StartSync
  <2>2. sync'[s] = [NoSync EXCEPT !.pc = "ask", !.before = Listed]
    BY <2>1, <1>2
  <2>3. /\ sync'[s] \in SyncRecords /\ sync'[s].pc = "ask" /\ sync'[s].before = Listed
    <3> DEFINE first == 1
    <3>1. first \in 1 .. MaxPages + 1
      BY <1>2
    <3>2. sync'[s] = [pc |-> "ask", page |-> first, got |-> {}, before |-> Listed,
                      blind |-> FALSE, lost |-> {}]
      BY <2>2 DEF NoSync
    <3> HIDE DEF first
    <3> QED
      BY <3>1, <3>2, <1>4, Started
  <2> QED
    BY <2>1, <2>3, <1>1, <1>2 DEF SyncSees, Listings
<1>7. CASE AskRobots(s)
  <2> DEFINE r == sync[s]
             here == IF r.pc = "ask" THEN "purchases" ELSE "free"
  <2>1. PICK allowed \in BOOLEAN : sync' = [sync EXCEPT ![s] =
         [r EXCEPT !.pc = IF allowed THEN here ELSE After(here), !.page = 1,
                   !.blind = r.blind \/ ~allowed]]
    BY <1>7 DEF AskRobots
  <2>2. /\ r.pc \in {"ask", "askFree"} /\ table' = table
    BY <1>7 DEF AskRobots
  <2>3. /\ sync'[s] \in SyncRecords /\ sync'[s].page = 1
        /\ sync'[s].before = r.before /\ sync'[s].got = r.got /\ sync'[s].lost = r.lost
        /\ ~sync'[s].blind => ~r.blind /\ allowed
        /\ allowed => sync'[s].pc = here
        /\ sync'[s].pc # "idle" /\ sync' = [sync EXCEPT ![s] = sync'[s]]
    <3> DEFINE pc == IF allowed THEN here ELSE After(here)
               first == 1
               blind == r.blind \/ ~allowed
    <3>1. /\ pc \in {"purchases", "askFree", "free", "replace"} /\ blind \in BOOLEAN
          /\ first \in 1 .. MaxPages + 1
      BY <1>2 DEF After
    <3>2. /\ ~blind => ~r.blind /\ allowed
          /\ allowed => pc = here
      OBVIOUS
    <3>3. sync' = [sync EXCEPT ![s] = [r EXCEPT !.pc = pc, !.page = first, !.blind = blind]]
      BY <2>1
    <3>5. r \in SyncRecords /\ first = 1
      BY <1>2
    <3> HIDE DEF pc, blind, first, r
    <3>4. sync'[s] = [r EXCEPT !.pc = pc, !.page = first, !.blind = blind]
      BY <3>3, <1>2
    <3>6. /\ sync'[s] \in SyncRecords /\ sync'[s].pc = pc /\ sync'[s].page = first
          /\ sync'[s].blind = blind /\ sync'[s].before = r.before
          /\ sync'[s].got = r.got /\ sync'[s].lost = r.lost
      BY ONLY <3>1, <3>4, <3>5 DEF SyncRecords
    <3>7. sync' = [sync EXCEPT ![s] = sync'[s]]
      BY <3>3, <3>4
    <3> QED
      BY <3>1, <3>2, <3>5, <3>6, <3>7
  <2>4. \A l \in Listings : PagesSeen(s, l, 1)'
    BY Shelves, <1>1 DEF BoothInvariant, PagesSeen
  <2>5. SyncSees(s)'
    BY <2>2, <2>3, <2>4, <1>1, <1>2 DEF SyncSees, Listings, PagesSeen, AllSeen
  <2> QED
    BY <2>1, <2>2, <2>3, <2>5, <1>2
<1>8. CASE FetchPage(s)
  <2> DEFINE r == sync[s]
             l == r.pc
             k == r.page
             end == k > MaxPages \/ k > Len(shelf[l])
             unread == {shelf[l][j] : j \in k .. Len(shelf[l])}
             one == {shelf[l][k]}
             next == k + 1
  <2>1. l \in Listings /\ table' = table
    BY <1>8 DEF FetchPage
  <2>2. PICK fails \in BOOLEAN :
          sync' = [sync EXCEPT ![s] =
               IF end THEN [r EXCEPT !.pc = After(l), !.lost = r.lost \cup unread]
               ELSE IF fails
                 THEN [r EXCEPT !.page = next, !.lost = r.lost \cup one]
                 ELSE [r EXCEPT !.page = next, !.got = r.got \cup one]]
    BY <1>8 DEF FetchPage
  <2>3. /\ k \in 1 .. MaxPages + 1 /\ k \in Nat /\ Len(shelf[l]) \in Nat
        /\ \A j \in 1 .. Len(shelf[l]) : shelf[l][j] \in Products
    BY <2>1, <1>2, Shelves DEF BoothInvariant, SyncRecords
  <2>6. SyncSees(s) /\ r \in SyncRecords
    BY <1>2
  <2>7. ASSUME ~r.blind, NEW j \in 1 .. Len(shelf[l]), j < k, shelf[l][j] \in r.before
        PROVE  shelf[l][j] \in r.got \cup r.lost
    BY <2>1, <2>6, <2>7 DEF SyncSees, PagesSeen
  <2>4. CASE end
    <3>1. /\ unread \in SUBSET Products /\ After(l) \in {"askFree", "replace"}
          /\ \A j \in 1 .. Len(shelf[l]) : ~(j < k) => shelf[l][j] \in unread
      BY <2>3 DEF After
    <3> HIDE DEF unread, next, end
    <3>2. /\ sync'[s] = [r EXCEPT !.pc = After(l), !.lost = r.lost \cup unread]
          /\ sync' = [sync EXCEPT ![s] = sync'[s]]
      BY <2>2, <2>4, <1>2
    <3> DEFINE after == After(l)
    <3>3. /\ sync'[s] \in SyncRecords /\ sync'[s].pc = After(l) /\ sync'[s].blind = r.blind
          /\ sync'[s].before = r.before /\ sync'[s].got = r.got
          /\ sync'[s].lost = r.lost \cup unread
      <4>1. after \in {"askFree", "replace"}
        BY <3>1
      <4>2. sync'[s] = [r EXCEPT !.pc = after, !.lost = r.lost \cup unread]
        BY <3>2
      <4>3. unread \in SUBSET Products
        BY <3>1
      <4> HIDE DEF after, r
      <4>4. /\ sync'[s] \in SyncRecords /\ sync'[s].pc = after /\ sync'[s].blind = r.blind
            /\ sync'[s].before = r.before /\ sync'[s].got = r.got
            /\ sync'[s].lost = r.lost \cup unread
        BY ONLY <4>1, <4>2, <4>3, <2>6, ZenonT(40) DEF SyncRecords
      <4> QED
        BY <4>4 DEF after
    <3>4. ~r.blind => \A j \in 1 .. Len(shelf[l]) : shelf[l][j] \in r.before =>
                        shelf[l][j] \in r.got \cup r.lost \cup unread
      BY <2>7, <3>1
    <3>5. SyncSees(s)'
      <4>1. ASSUME ~r.blind, NEW m \in Listings, m = l PROVE AllSeen(s, m)'
        BY <3>3, <3>4, <4>1, <1>1 DEF AllSeen, PagesSeen
      <4>2. ~r.blind /\ l = "free" => AllSeen(s, "purchases")'
        BY <3>3, <2>6, <1>1 DEF SyncSees, AllSeen, PagesSeen
      <4>3. After(l) = IF l = "purchases" THEN "askFree" ELSE "replace"
        BY DEF After
      <4>4. l \in {"purchases", "free"} /\ l # "idle"
        BY <2>1 DEF Listings
      <4> HIDE DEF l, after
      <4> QED
        BY <4>1, <4>2, <4>3, <4>4, <3>3, <2>6, <1>1 DEF SyncSees, Listings, l
    <3> QED
      BY <2>1, <3>2, <3>3, <3>5, <1>2
  <2>5. CASE ~end
    <3>1. k \in 1 .. Len(shelf[l]) /\ next \in 1 .. MaxPages + 1 /\ one \in SUBSET Products
      BY <2>3, <2>5, <1>2
    <3>2. /\ \/ sync'[s] = [r EXCEPT !.page = next, !.lost = r.lost \cup one]
             \/ sync'[s] = [r EXCEPT !.page = next, !.got = r.got \cup one]
          /\ sync' = [sync EXCEPT ![s] = sync'[s]]
      BY <2>2, <2>5, <1>2
    <3>3. /\ sync'[s] \in SyncRecords /\ sync'[s].pc = l /\ sync'[s].page = next
          /\ sync'[s].before = r.before
          /\ sync'[s].got \cup sync'[s].lost = r.got \cup r.lost \cup one
          /\ sync'[s].blind = r.blind
      <4>1. next \in 1 .. MaxPages + 1 /\ one \in SUBSET Products
        BY <3>1
      <4>2. \/ sync'[s] = [r EXCEPT !.page = next, !.lost = r.lost \cup one]
            \/ sync'[s] = [r EXCEPT !.page = next, !.got = r.got \cup one]
        BY <3>2
      <4> HIDE DEF next, one, r
      <4> QED
        BY ONLY <4>1, <4>2, <2>6, ZenonT(40) DEF l, SyncRecords
    <3>4. ~r.blind => \A j \in 1 .. Len(shelf[l]) : (j < next /\ shelf[l][j] \in r.before) =>
                        shelf[l][j] \in r.got \cup r.lost \cup one
      <4> SUFFICES ASSUME ~r.blind, NEW j \in 1 .. Len(shelf[l]), j < next,
                          shelf[l][j] \in r.before
                   PROVE  shelf[l][j] \in r.got \cup r.lost \cup one
        OBVIOUS
      <4>1. CASE j < k
        BY <4>1, <2>7
      <4>2. CASE ~(j < k)
        BY <4>2, <2>3
      <4> QED
        BY <4>1, <4>2
    <3>5. SyncSees(s)'
      <4>1. ~r.blind => PagesSeen(s, sync[s].pc, sync[s].page)'
        BY <3>3, <3>4, <1>1 DEF PagesSeen
      <4>2. l \notin {"askFree", "replace"} /\ l # "idle"
        BY <2>1 DEF Listings
      <4>3. l = "free" /\ ~r.blind => AllSeen(s, "purchases")'
        BY <3>3, <2>6, <1>1 DEF SyncSees, AllSeen, PagesSeen
      <4> QED
        BY <4>1, <4>2, <4>3, <3>3, <2>6, <1>1 DEF SyncSees
    <3> QED
      BY <2>1, <3>2, <3>3, <3>5, <1>2
  <2> QED
    BY <2>4, <2>5
<1>9. CASE FetchRaises(s) \/ Replace(s)
  <2>1. sync' = [sync EXCEPT ![s] = NoSync] /\ table' \in {table, sync[s].got}
    BY <1>9 DEF FetchRaises, Replace
  <2>2. sync'[s] = NoSync /\ sync[s].got \subseteq Products
    BY <2>1, <1>2 DEF SyncRecords
  <2> QED
    BY <2>1, <2>2, <1>2, <1>3 DEF SyncSees, Listings
<1> QED
  BY <1>6, <1>7, <1>8, <1>9

\* A purchase and the steps of a sync keep the invariant.
LEMMA BoothStep == BoothInvariant /\ [BoothNext]_boothVars => BoothInvariant'
<1> SUFFICES ASSUME BoothInvariant, [BoothNext]_boothVars PROVE BoothInvariant'
  OBVIOUS
<1>1. CASE BoothNext
  BY <1>1, AcquireSeen, SyncStep DEF BoothNext
<1>2. CASE UNCHANGED boothVars
  BY <1>2 DEF boothVars, BoothInvariant, BoothTypeOK, SyncSees, PagesSeen, AllSeen, Listed
<1> QED
  BY <1>1, <1>2

\* A sync has seen the part of a listing that it is past, however many
\* purchases move the pages meanwhile.
THEOREM BoothCorrect == BoothSpec => []BoothInvariant
  BY BoothInitInvariant, BoothStep, PTL DEF BoothSpec

\* A sync that robots.txt did not keep out stores everything that was listed
\* when it began, and one that fails on the way changes nothing (sync_library).
THEOREM SyncsAreComplete == BoothSpec => SyncComplete
<1>1. BoothInvariant /\ [BoothNext]_boothVars =>
        [table' # table =>
           \E s \in Syncs :
             /\ sync[s].pc = "replace" /\ sync'[s].pc = "idle"
             /\ sync[s].blind \/ (sync[s].before \ sync[s].lost) \subseteq table']_boothVars
  <2> SUFFICES ASSUME BoothInvariant, BoothNext, table' # table
               PROVE  \E s \in Syncs :
                        /\ sync[s].pc = "replace" /\ sync'[s].pc = "idle"
                        /\ sync[s].blind \/ (sync[s].before \ sync[s].lost) \subseteq table'
    OBVIOUS
  <2>1. PICK s \in Syncs : Replace(s)
    BY DEF BoothNext, Acquire, StartSync, AskRobots, FetchPage, FetchRaises
  <2>2. /\ sync[s].pc = "replace" /\ sync'[s].pc = "idle" /\ table' = sync[s].got
    BY <2>1 DEF Replace, BoothInvariant, BoothTypeOK, NoSync
  <2>3. ASSUME ~sync[s].blind, NEW p \in sync[s].before \ sync[s].lost PROVE p \in table'
    <3>1. AllSeen(s, "purchases") /\ AllSeen(s, "free") /\ p \in Listed
      BY <2>2, <2>3 DEF BoothInvariant, SyncSees
    <3>2. PICK l \in Listings : p \in Range(shelf[l])
      BY <3>1 DEF Listed, Listings
    <3>3. AllSeen(s, l)
      BY <3>1 DEF Listings
    <3>4. PICK j \in 1 .. Len(shelf[l]) : p = shelf[l][j]
      BY <3>2, Shelves DEF BoothInvariant
    <3>5. j < Len(shelf[l]) + 1
      BY <3>4, Shelves DEF BoothInvariant
    <3> QED
      BY <3>3, <3>4, <3>5, <2>2, <2>3 DEF AllSeen, PagesSeen
  <2> QED
    BY <2>2, <2>3
<1> QED
  BY <1>1, BoothCorrect, PTL DEF BoothSpec, SyncComplete

-----------------------------------------------------------------------------
(* The grouping of the item list. *)

\* The rows that the loop has visited.
Seen == Matching \ Range(rest)

Ascending(s) == \A m, n \in DOMAIN s : m < n => s[m] < s[n]

\* It visits them in order, lists the anchors among them and nests each of the
\* others under its own; anchor_by_url knows the urls it has seen.
ListInvariant ==
  /\ ListTypeOK
  /\ Range(rest) \subseteq Matching /\ Ascending(rest)
  /\ \A k \in Seen : \A j \in Range(rest) : k < j
  /\ \A m, n \in DOMAIN grouped : m < n => grouped[m].row < grouped[n].row
  /\ {grouped[n].row : n \in DOMAIN grouped} = {k \in Seen : IsAnchor(k)}
  /\ \A n \in DOMAIN grouped :
       Lists(grouped[n].siblings, Siblings(grouped[n].row) \cap Seen)
  /\ \A u \in Urls : /\ anchors[u] # 0 => Url(grouped[anchors[u]].row) = u
                     /\ anchors[u] = 0 => \A k \in Seen : Url(k) # u

\* A sequence of indices is a sequence of numbers.
LEMMA NumbersInSeq ==
  ASSUME NEW S \in SUBSET Nat, NEW s \in Seq(S)
  PROVE  s \in Seq(Nat)
<1>1. Len(s) \in Nat /\ s \in [1 .. Len(s) -> S]
  OBVIOUS
<1>2. s \in [1 .. Len(s) -> Nat]
  BY <1>1
<1> QED
  BY <1>1, <1>2

\* The head of an ascending sequence is the least of its elements.
LEMMA HeadAndTail ==
  ASSUME NEW s \in Seq(Nat), s # <<>>, Ascending(s)
  PROVE  /\ Head(s) \in Range(s) /\ Ascending(Tail(s))
         /\ Range(Tail(s)) = Range(s) \ {Head(s)}
         /\ \A x \in Range(Tail(s)) : Head(s) < x
<1>1. /\ Len(s) \in Nat \ {0} /\ DOMAIN s = 1 .. Len(s) /\ Head(s) = s[1]
      /\ \A n \in 1 .. Len(s) : s[n] \in Nat
  OBVIOUS
<1>2. /\ DOMAIN Tail(s) = 1 .. Len(s) - 1
      /\ \A n \in 1 .. Len(s) - 1 : Tail(s)[n] = s[n + 1]
  BY <1>1
<1>3. Ascending(Tail(s))
  <2> SUFFICES ASSUME NEW m \in 1 .. Len(s) - 1, NEW n \in 1 .. Len(s) - 1, m < n
               PROVE  s[m + 1] < s[n + 1]
    BY <1>2 DEF Ascending
  <2>1. m + 1 \in DOMAIN s /\ n + 1 \in DOMAIN s /\ m + 1 < n + 1
    BY <1>1
  <2> QED
    BY <2>1 DEF Ascending
<1>4. \A x \in Range(Tail(s)) : x \in Range(s) /\ Head(s) < x /\ Head(s) # x
  <2> TAKE x \in Range(Tail(s))
  <2>1. PICK n \in 1 .. Len(s) - 1 : x = s[n + 1]
    BY <1>2 DEF Range
  <2>2. n + 1 \in DOMAIN s /\ 1 \in DOMAIN s /\ 1 < n + 1
    BY <1>1, <2>1
  <2>3. Head(s) < x /\ x \in Nat /\ Head(s) \in Nat
    BY <1>1, <2>1, <2>2 DEF Ascending
  <2> QED
    BY <2>1, <2>2, <2>3 DEF Range
<1>5. \A x \in Range(s) : x # Head(s) => x \in Range(Tail(s))
  <2> SUFFICES ASSUME NEW n \in 1 .. Len(s), s[n] # Head(s) PROVE s[n] \in Range(Tail(s))
    BY <1>1 DEF Range
  <2>1. n - 1 \in DOMAIN Tail(s) /\ Tail(s)[n - 1] = s[n]
    BY <1>1, <1>2
  <2> QED
    BY <2>1 DEF Range
<1>6. Head(s) \in Range(s)
  BY <1>1 DEF Range
<1> QED
  BY <1>3, <1>4, <1>5, <1>6

\* What is greater than all elements may be put behind them.
LEMMA AppendGreatest ==
  ASSUME NEW s \in Seq(Nat), NEW S, Lists(s, S), NEW x \in Nat, \A y \in S : y < x
  PROVE  Lists(Append(s, x), S \cup {x})
<1>1. /\ DOMAIN s = 1 .. Len(s) /\ Len(s) \in Nat /\ DOMAIN Append(s, x) = 1 .. Len(s) + 1
      /\ \A n \in 1 .. Len(s) : Append(s, x)[n] = s[n]
      /\ Append(s, x)[Len(s) + 1] = x
  OBVIOUS
<1>2. \A n \in 1 .. Len(s) : s[n] \in S
  BY <1>1 DEF Lists, Range
<1>3. Range(Append(s, x)) = S \cup {x}
  <2>1. \A n \in 1 .. Len(s) + 1 : Append(s, x)[n] \in S \cup {x}
    BY <1>1, <1>2
  <2>2. \A y \in S : \E n \in 1 .. Len(s) : y = s[n]
    BY <1>1 DEF Lists, Range
  <2>3. S \cup {x} \subseteq Range(Append(s, x))
    BY <1>1, <2>2 DEF Range
  <2> QED
    BY <1>1, <2>1, <2>3 DEF Range
<1>4. ASSUME NEW m \in 1 .. Len(s) + 1, NEW n \in 1 .. Len(s) + 1, m < n
      PROVE  Append(s, x)[m] < Append(s, x)[n]
  <2>1. CASE n = Len(s) + 1
    BY <1>1, <1>2, <1>4, <2>1
  <2>2. CASE n # Len(s) + 1
    BY <1>1, <1>4, <2>2, SMTT(20) DEF Lists
  <2> QED
    BY <2>1, <2>2
<1> QED
  BY <1>1, <1>3, <1>4 DEF Lists

\* What the loop knows of the row that it visits.
LEMMA RowInHand ==
  ASSUME ListInvariant, rest # <<>>, rest' = Tail(rest), library' = library
  PROVE  LET k == Head(rest) IN
         /\ k \in Matching \ Seen /\ k \in Indices /\ Indices \subseteq Nat
         /\ rest' \in Seq(Indices)
         /\ Range(rest') \subseteq Matching /\ Ascending(rest') /\ Seen' = Seen \cup {k}
         /\ \A j \in Seen : j < k
         /\ \A j \in Range(rest') : k < j
         /\ \A j \in Matching : j < k => j \in Seen
<1> DEFINE k == Head(rest)
<1>1. Indices \in SUBSET Nat /\ rest \in Seq(Indices) /\ Matching \subseteq Indices /\ Matching' = Matching
  <2>1. Indices = 1 .. Len(library) /\ Len(library) \in Nat
    BY DEF ListInvariant, ListTypeOK, Indices
  <2> QED
    BY <2>1 DEF ListInvariant, ListTypeOK, Matching, Indices
<1>2. rest \in Seq(Nat) /\ Tail(rest) \in Seq(Indices)
  BY <1>1, NumbersInSeq
<1>3. /\ k \in Range(rest) /\ Ascending(rest') /\ Range(rest') = Range(rest) \ {k}
      /\ \A x \in Range(rest') : k < x
  BY <1>2, HeadAndTail DEF ListInvariant
<1>4. /\ k \in Matching \ Seen /\ Range(rest') \subseteq Matching
      /\ \A j \in Seen : j < k
  BY <1>3 DEF ListInvariant, Seen
<1>5. Seen' = Seen \cup {k}
  BY <1>1, <1>3, <1>4 DEF Seen
<1>6. ASSUME NEW j \in Matching, j < k PROVE j \in Seen
  <2>1. j \in Nat /\ k \in Nat
    BY <1>1, <1>4
  <2>2. j \notin Range(rest)
    BY <1>3, <1>6, <2>1
  <2> QED
    BY <2>2, <1>6 DEF Seen
<1> QED
  BY <1>1, <1>2, <1>3, <1>4, <1>5, <1>6

\* A row in the list is an anchor, and has a url of its own.
LEMMA AnchorsApart ==
  ASSUME ListInvariant, NEW m \in DOMAIN grouped
  PROVE  /\ grouped[m].row \in Seen /\ grouped[m].row \in Matching
         /\ IsAnchor(grouped[m].row)
         /\ \A n \in DOMAIN grouped \ {m} :
              Url(grouped[m].row) \in Urls => Url(grouped[n].row) # Url(grouped[m].row)
<1>1. \A n \in DOMAIN grouped : /\ grouped[n].row \in Seen /\ IsAnchor(grouped[n].row)
                               /\ grouped[n].row \in Matching
  BY DEF ListInvariant, Seen
<1>2. ASSUME NEW n \in DOMAIN grouped \ {m}, Url(grouped[m].row) \in Urls,
             Url(grouped[n].row) = Url(grouped[m].row)
      PROVE  FALSE
  <2>1. DOMAIN grouped \subseteq Nat
    BY DEF ListInvariant, ListTypeOK
  <2>2. m < n \/ n < m
    BY <2>1
  <2>3. grouped[m].row < grouped[n].row \/ grouped[n].row < grouped[m].row
    BY <2>2 DEF ListInvariant
  <2> QED
    BY <1>1, <1>2, <2>3, ListAssumption DEF IsAnchor
<1> QED
  BY <1>1, <1>2

\* Before its first row, the loop has listed nothing.
LEMMA ListStart ==
  ListInit => ListInvariant
<1> SUFFICES ASSUME ListInit PROVE ListInvariant
  OBVIOUS
<1>1. library \in Seq([url : Urls \cup {NoUrl}, matches : BOOLEAN])
  <2> DEFINE I == [url : Urls \cup {NoUrl}, matches : BOOLEAN]
  <2>1. PICK n \in 0 .. MaxRows : library \in [1 .. n -> I]
    BY DEF ListInit
  <2>2. n \in Nat
    BY ListAssumption
  <2> HIDE DEF I
  <2>3. library \in Seq(I)
    BY ONLY <2>1, <2>2
  <2> QED
    BY <2>3 DEF I
<1>2. rest \in Seq(Indices) /\ grouped = <<>> /\ anchors = [u \in Urls |-> 0] /\ Lists(rest, Matching)
  <2>1. PICK n \in 0 .. Len(library) : rest \in [1 .. n -> Indices]
    BY DEF ListInit
  <2>2. n \in Nat
    BY <1>1
  <2>3. rest \in Seq(Indices)
    BY ONLY <2>1, <2>2
  <2> QED
    BY <2>3 DEF ListInit
<1>3. ListTypeOK
  BY <1>1, <1>2 DEF ListTypeOK
<1>4. Seen = {} /\ DOMAIN grouped = {}
  BY <1>2 DEF Seen, Lists
<1>5. Ascending(rest) /\ Range(rest) = Matching
  BY <1>2 DEF Lists, Ascending
<1> QED
  BY <1>2, <1>3, <1>4, <1>5 DEF ListInvariant

\* A nested row is no anchor, and it is a sibling of one anchor only.
LEMMA NestStep ==
  ListInvariant /\ Nest => ListInvariant'
<1> SUFFICES ASSUME ListInvariant, Nest PROVE ListInvariant'
  OBVIOUS
<1> DEFINE k == Head(rest)
           at == anchors[Url(k)]
           r == grouped[at].row
           sib == grouped[at].siblings
<1>1. rest # <<>> /\ rest' = Tail(rest) /\ library' = library /\ anchors' = anchors
      /\ Url(k) \in Urls /\ at # 0
      /\ grouped' = [grouped EXCEPT ![at] = [row |-> r, siblings |-> Append(sib, k)]]
  BY DEF Nest
<1>2. /\ k \in Matching \ Seen /\ k \in Indices /\ Indices \subseteq Nat
      /\ rest' \in Seq(Indices)
      /\ Range(rest') \subseteq Matching /\ Ascending(rest') /\ Seen' = Seen \cup {k}
      /\ \A j \in Seen : j < k
      /\ \A j \in Range(rest') : k < j
  BY <1>1, RowInHand
<1>3. /\ grouped \in Seq([row : Indices, siblings : Seq(Indices)]) /\ anchors \in [Urls -> 0 .. Len(grouped)]
      /\ library \in Seq([url : Urls \cup {NoUrl}, matches : BOOLEAN])
  BY DEF ListInvariant, ListTypeOK
<1>4. Matching' = Matching /\ Indices' = Indices
      /\ \A j : Url(j)' = Url(j) /\ IsAnchor(j)' = IsAnchor(j) /\ Siblings(j)' = Siblings(j)
  BY <1>1 DEF Matching, Indices, Url, IsAnchor, Siblings
<1>5. at \in DOMAIN grouped /\ DOMAIN grouped = 1 .. Len(grouped) /\ Len(grouped) \in Nat
      /\ r \in Indices /\ sib \in Seq(Indices) /\ Url(r) = Url(k)
  <2>1. at \in DOMAIN grouped /\ DOMAIN grouped = 1 .. Len(grouped) /\ Len(grouped) \in Nat
    BY <1>1, <1>3
  <2>2. grouped[at] \in [row : Indices, siblings : Seq(Indices)]
    <3> DEFINE R == [row : Indices, siblings : Seq(Indices)]
    <3>1. grouped \in Seq(R) /\ at \in 1 .. Len(grouped)
      BY <1>3, <2>1
    <3> HIDE DEF R, at
    <3>2. grouped[at] \in R
      BY ONLY <3>1
    <3> QED
      BY <3>2 DEF R
  <2> QED
    BY <1>1, <2>1, <2>2 DEF ListInvariant
<1>6. r \in Seen /\ r \in Matching /\ r < k /\ ~IsAnchor(k) /\ k \in Siblings(r)
  <2>1. r \in Seen /\ r \in Matching
    BY <1>5, AnchorsApart
  <2>2. r < k /\ k > r
    BY <1>2, <1>5, <2>1
  <2> QED
    BY <1>1, <1>2, <1>5, <2>1, <2>2, ListAssumption DEF IsAnchor, Siblings
<1> HIDE DEF k, at, r, sib
<1>7. /\ DOMAIN grouped' = DOMAIN grouped /\ Len(grouped') = Len(grouped)
      /\ grouped'[at] = [row |-> r, siblings |-> Append(sib, k)]
      /\ \A n \in DOMAIN grouped \ {at} : grouped'[n] = grouped[n]
      /\ \A n \in DOMAIN grouped : grouped'[n].row = grouped[n].row
  <2>1. /\ DOMAIN grouped' = DOMAIN grouped
        /\ grouped'[at] = [row |-> r, siblings |-> Append(sib, k)]
        /\ \A n \in DOMAIN grouped \ {at} : grouped'[n] = grouped[n]
    BY <1>1, <1>5
  <2>2. grouped[at].row = r
    BY DEF r
  <2>3. Len(grouped') = Len(grouped)
    BY <1>1, <1>3
  <2> QED
    BY <2>1, <2>2, <2>3
<1>8. ListTypeOK'
  <2>1. [row |-> r, siblings |-> Append(sib, k)] \in [row : Indices, siblings : Seq(Indices)]
    BY <1>2, <1>5
  <2>2. grouped' \in Seq([row : Indices, siblings : Seq(Indices)])
    BY <1>1, <1>3, <1>5, <2>1
  <2> QED
    BY <1>1, <1>2, <1>3, <1>4, <1>7, <2>2 DEF ListTypeOK
<1>9. {grouped'[n].row : n \in DOMAIN grouped'} = {j \in Seen' : IsAnchor(j)}
  <2>1. {grouped'[n].row : n \in DOMAIN grouped'} = {grouped[n].row : n \in DOMAIN grouped}
    BY <1>7
  <2> QED
    BY <1>2, <1>6, <2>1 DEF ListInvariant
<1>10. ASSUME NEW n \in DOMAIN grouped
       PROVE  Lists(grouped'[n].siblings, Siblings(grouped[n].row) \cap Seen')
  <2>1. Lists(grouped[n].siblings, Siblings(grouped[n].row) \cap Seen)
    BY DEF ListInvariant
  <2>2. CASE n = at
    <3>1. Lists(sib, Siblings(r) \cap Seen) /\ grouped[n].row = r
      BY <2>1, <2>2 DEF sib, r
    <3>2. sib \in Seq(Nat) /\ k \in Nat
      BY <1>2, <1>5, NumbersInSeq
    <3>3. Lists(Append(sib, k), (Siblings(r) \cap Seen) \cup {k})
      BY <1>2, <3>1, <3>2, AppendGreatest
    <3>4. (Siblings(r) \cap Seen) \cup {k} = Siblings(r) \cap Seen'
      BY <1>2, <1>6
    <3>5. grouped'[n].siblings = Append(sib, k)
      BY <1>7, <2>2
    <3> QED
      BY ONLY <3>1, <3>3, <3>4, <3>5
  <2>3. CASE n # at
    <3>1. Url(grouped[n].row) # Url(k)
      BY <1>1, <1>5, <2>3, AnchorsApart DEF r
    <3>2. Siblings(grouped[n].row) \cap Seen' = Siblings(grouped[n].row) \cap Seen
      BY <1>2, <3>1 DEF Siblings
    <3> QED
      BY <1>7, <2>1, <2>3, <3>2
  <2> QED
    BY <2>2, <2>3
<1>11. ASSUME NEW u \in Urls
       PROVE  /\ anchors'[u] # 0 => Url(grouped'[anchors'[u]].row) = u
              /\ anchors'[u] = 0 => \A j \in Seen' : Url(j) # u
  <2>1. anchors[u] # 0 => anchors[u] \in DOMAIN grouped
    BY <1>3, <1>5
  <2>2. anchors[u] = 0 => Url(k) # u
    BY <1>1 DEF at
  <2> QED
    BY <1>1, <1>2, <1>7, <2>1, <2>2 DEF ListInvariant
<1>12. \A j \in Seen' : \A i \in Range(rest') : j < i
  <2>1. \A i \in Range(rest') : i \in Range(rest)
    BY <1>1, <1>2 DEF ListInvariant, Seen
  <2> QED
    BY <1>2, <2>1 DEF ListInvariant
<1>13. \A m, n \in DOMAIN grouped' : m < n => grouped'[m].row < grouped'[n].row
  BY <1>7 DEF ListInvariant
<1> QED
  BY <1>2, <1>4, <1>7, <1>8, <1>9, <1>10, <1>11, <1>12, <1>13 DEF ListInvariant

\* Any other row is the first of its product, or has none.
LEMMA ListStep ==
  ListInvariant /\ List => ListInvariant'
<1> SUFFICES ASSUME ListInvariant, List PROVE ListInvariant'
  OBVIOUS
<1> DEFINE k == Head(rest)
           new == [row |-> k, siblings |-> <<>>]
<1>1. /\ rest # <<>> /\ rest' = Tail(rest) /\ library' = library
      /\ Url(k) \in Urls => anchors[Url(k)] = 0
      /\ grouped' = Append(grouped, new)
      /\ anchors' = [u \in Urls |-> IF u = Url(k) THEN Len(grouped) + 1 ELSE anchors[u]]
  BY DEF List
<1>2. /\ k \in Matching \ Seen /\ k \in Indices /\ Indices \subseteq Nat
      /\ rest' \in Seq(Indices)
      /\ Range(rest') \subseteq Matching /\ Ascending(rest') /\ Seen' = Seen \cup {k}
      /\ \A j \in Seen : j < k
      /\ \A j \in Range(rest') : k < j
      /\ \A j \in Matching : j < k => j \in Seen
  BY <1>1, RowInHand
<1>3. /\ grouped \in Seq([row : Indices, siblings : Seq(Indices)]) /\ anchors \in [Urls -> 0 .. Len(grouped)]
      /\ library \in Seq([url : Urls \cup {NoUrl}, matches : BOOLEAN])
  BY DEF ListInvariant, ListTypeOK
<1>4. Matching' = Matching /\ Indices' = Indices
      /\ \A j : Url(j)' = Url(j) /\ IsAnchor(j)' = IsAnchor(j) /\ Siblings(j)' = Siblings(j)
  BY <1>1 DEF Matching, Indices, Url, IsAnchor, Siblings
<1>5. IsAnchor(k)
  <2>1. Url(k) \in Urls \cup {NoUrl}
    <3> DEFINE I == [url : Urls \cup {NoUrl}, matches : BOOLEAN]
    <3>1. library \in Seq(I) /\ k \in DOMAIN library
      BY <1>2, <1>3 DEF Indices
    <3> HIDE DEF I, k
    <3>2. library[k] \in I
      BY ONLY <3>1
    <3> QED
      BY <3>2 DEF I, Url
  <2>2. Url(k) \in Urls => \A j \in Seen : Url(j) # Url(k)
    BY <1>1 DEF ListInvariant
  <2> QED
    BY <1>2, <2>1, <2>2 DEF IsAnchor
<1> HIDE DEF k
<1>6. new \in [row : Indices, siblings : Seq(Indices)]
  BY <1>2
<1>7. /\ DOMAIN grouped = 1 .. Len(grouped) /\ Len(grouped) \in Nat
      /\ Len(grouped') = Len(grouped) + 1 /\ DOMAIN grouped' = 1 .. Len(grouped) + 1
      /\ \A n \in DOMAIN grouped : grouped'[n] = grouped[n]
      /\ grouped'[Len(grouped) + 1] = new
      /\ grouped' \in Seq([row : Indices, siblings : Seq(Indices)])
  <2> DEFINE R == [row : Indices, siblings : Seq(Indices)]
  <2>1. grouped \in Seq(R) /\ new \in R /\ grouped' = Append(grouped, new)
    BY <1>1, <1>3, <1>6
  <2> HIDE DEF R, new
  <2>2. /\ DOMAIN grouped = 1 .. Len(grouped) /\ Len(grouped) \in Nat
        /\ Len(grouped') = Len(grouped) + 1 /\ DOMAIN grouped' = 1 .. Len(grouped) + 1
        /\ \A n \in DOMAIN grouped : grouped'[n] = grouped[n]
        /\ grouped'[Len(grouped) + 1] = new
        /\ grouped' \in Seq(R)
    BY ONLY <2>1
  <2> QED
    BY <2>2 DEF R
<1>8. ListTypeOK'
  <2>1. anchors' \in [Urls -> 0 .. Len(grouped')]
    BY <1>1, <1>3, <1>7
  <2> QED
    BY <1>1, <1>2, <1>3, <1>4, <1>7, <2>1 DEF ListTypeOK
<1>9. \A n \in DOMAIN grouped : grouped[n].row \in Seen /\ grouped[n].row < k
  BY <1>2, AnchorsApart
<1>10. {grouped'[n].row : n \in DOMAIN grouped'} = {j \in Seen' : IsAnchor(j)}
  <2>1. {grouped'[n].row : n \in DOMAIN grouped'} = {grouped[n].row : n \in DOMAIN grouped} \cup {k}
    <3>1. \A n \in DOMAIN grouped : n \in DOMAIN grouped' /\ grouped'[n].row = grouped[n].row
      BY <1>7
    <3>2. Len(grouped) + 1 \in DOMAIN grouped' /\ grouped'[Len(grouped) + 1].row = k
      BY <1>7
    <3>3. \A n \in DOMAIN grouped' : n \in DOMAIN grouped \/ n = Len(grouped) + 1
      BY <1>7
    <3> QED
      BY ONLY <3>1, <3>2, <3>3
  <2> QED
    BY <1>2, <1>5, <2>1 DEF ListInvariant
<1>11. ASSUME NEW m \in DOMAIN grouped', NEW n \in DOMAIN grouped', m < n
       PROVE  grouped'[m].row < grouped'[n].row
  <2>1. m \in DOMAIN grouped
    BY <1>7, <1>11
  <2>2. CASE n \in DOMAIN grouped
    BY <1>7, <1>11, <2>1, <2>2 DEF ListInvariant
  <2>3. CASE n = Len(grouped) + 1
    BY <1>7, <1>9, <2>1, <2>3
  <2> QED
    BY <1>7, <2>2, <2>3
<1>12. ASSUME NEW n \in DOMAIN grouped'
       PROVE  Lists(grouped'[n].siblings, Siblings(grouped'[n].row) \cap Seen')
  <2>1. CASE n \in DOMAIN grouped
    <3>1. Lists(grouped[n].siblings, Siblings(grouped[n].row) \cap Seen)
      BY <2>1 DEF ListInvariant
    <3>2. k \notin Siblings(grouped[n].row)
      <4>1. grouped[n].row \in Matching /\ grouped[n].row < k
        BY <1>9, <2>1, AnchorsApart
      <4> QED
        BY <1>5, <4>1 DEF IsAnchor, Siblings
    <3>3. Siblings(grouped[n].row) \cap Seen' = Siblings(grouped[n].row) \cap Seen
      BY <1>2, <3>2
    <3> QED
      BY <1>7, <2>1, <3>1, <3>3
  <2>2. CASE n = Len(grouped) + 1
    <3>1. grouped'[n].siblings = <<>> /\ grouped'[n].row = k
      BY <1>7, <2>2
    <3>2. Siblings(k) \cap Seen' = {}
      <4>1. k \in Nat /\ Seen \subseteq Nat
        BY <1>2 DEF Seen, Matching, Indices
      <4>2. \A j \in Seen' : ~(j > k)
        BY <1>2, <4>1
      <4> QED
        BY <4>2 DEF Siblings
    <3>3. Lists(<<>>, {})
      BY DEF Lists, Range
    <3> QED
      BY <3>1, <3>2, <3>3
  <2> QED
    BY <1>7, <2>1, <2>2
<1>13. ASSUME NEW u \in Urls
       PROVE  /\ anchors'[u] # 0 => Url(grouped'[anchors'[u]].row) = u
              /\ anchors'[u] = 0 => \A j \in Seen' : Url(j) # u
  <2>1. CASE u = Url(k)
    BY <1>1, <1>7, <2>1
  <2>2. CASE u # Url(k)
    <3>1. anchors'[u] = anchors[u] /\ (anchors[u] # 0 => anchors[u] \in DOMAIN grouped)
      BY <1>1, <1>3, <1>7, <2>2
    <3> QED
      BY <1>2, <1>7, <2>2, <3>1 DEF ListInvariant
  <2> QED
    BY <2>1, <2>2
<1>14. \A j \in Seen' : \A i \in Range(rest') : j < i
  <2>1. \A i \in Range(rest') : i \in Range(rest)
    BY <1>1, <1>2 DEF ListInvariant, Seen
  <2> QED
    BY <1>2, <2>1 DEF ListInvariant
<1> QED
  BY <1>2, <1>4, <1>8, <1>10, <1>11, <1>12, <1>13, <1>14 DEF ListInvariant

\* A turn of the loop keeps the invariant.
LEMMA LoopStep == ListInvariant /\ [ListNext]_listVars => ListInvariant'
<1>1. ListInvariant /\ UNCHANGED listVars => ListInvariant'
  BY DEF ListInvariant, ListTypeOK, listVars, Seen, Matching, Indices, Url, IsAnchor, Siblings,
         Ascending, Lists
<1> QED
  BY <1>1, NestStep, ListStep DEF ListNext

\* What the loop has listed and nested so far is right (ListInvariant), whatever
\* the rows are.
THEOREM ListCorrect == ListSpec => []ListInvariant
  BY ListStart, LoopStep, PTL DEF ListSpec

\* The list of items that a search answers is grouped as the docstring of
\* _group_by_product_url says.
THEOREM ListGrouped == ListSpec => []ListIsGrouped
<1>1. ListInvariant => ListIsGrouped
  <2> SUFFICES ASSUME ListInvariant, rest = <<>> PROVE ListIsGrouped
    BY DEF ListIsGrouped
  <2>1. Seen = Matching
    BY DEF Seen, Range
  <2> DEFINE s == [n \in DOMAIN grouped |-> grouped[n].row]
  <2>2. Range(s) = {k \in Matching : IsAnchor(k)}
    <3>1. Range(s) = {grouped[n].row : n \in DOMAIN grouped}
      BY DEF Range
    <3> QED
      BY <2>1, <3>1 DEF ListInvariant
  <2>3. \A m, n \in DOMAIN s : m < n => s[m] < s[n]
    BY DEF ListInvariant
  <2>4. \A n \in DOMAIN grouped :
          Siblings(grouped[n].row) \cap Seen = Siblings(grouped[n].row)
    BY <2>1 DEF Siblings
  <2>5. \A n \in DOMAIN grouped : Lists(grouped[n].siblings, Siblings(grouped[n].row))
    BY <2>4 DEF ListInvariant
  <2> QED
    BY <2>2, <2>3, <2>5 DEF ListIsGrouped, Lists
<1> QED
  BY <1>1, ListCorrect, PTL

-----------------------------------------------------------------------------
(* Avatars. *)

\* Besides the types and keys: a row has a name.
AvatarInvariant ==
  AvatarTypeOK /\ \A a \in Rows : avatar[a].name \in AvatarNames

\* The id of a new row is free.
LEMMA NewIdIsFree == NewAvatarId \notin Rows
<1>1. Rows \cup {0} \in SUBSET (0 .. MaxAvatar) /\ MaxAvatar \in Nat
  BY AvatarAssumption DEF Rows, AvatarIds
<1> DEFINE m == Max(Rows \cup {0})
<1>2. m \in 0 .. MaxAvatar /\ \A y \in Rows : y <= m
  BY <1>1, GreatestOf
<1> HIDE DEF m
<1>3. 1 + m \notin Rows
  BY <1>2
<1> QED
  BY <1>3 DEF NewAvatarId, m

\* Before any registration.
LEMMA AvatarStart == AvatarInit => AvatarInvariant
<1> SUFFICES ASSUME AvatarInit PROVE AvatarInvariant
  OBVIOUS
<1>1. Rows = {} /\ Registered = {}
  BY DEF AvatarInit, Rows, Registered
<1>2. /\ avatar \in [AvatarIds -> [name : AvatarNames \cup {Nobody}, base : Models \cup {Nobody}]]
      /\ present \subseteq Models /\ fits \in [Models -> SUBSET AvatarIds]
  BY DEF AvatarInit, NoAvatar
<1>3. panel \in [item : Models \cup {Nobody}, boxes : SUBSET AvatarIds]
  BY DEF AvatarInit, Closed
<1>4. autosave \in [at : {"idle", "sent", "saved", "own"}, item : Models \cup {Nobody},
                    names : SUBSET AvatarNames, as : AvatarNames \cup {Nobody},
                    own : AvatarIds \cup {0}]
  BY DEF AvatarInit, NoSave
<1>5. \A i \in Models : fits[i] = {} /\ i \in present
  BY DEF AvatarInit
<1> QED
  BY <1>1, <1>2, <1>3, <1>4, <1>5 DEF AvatarInvariant, AvatarTypeOK

\* The records of the panel and of its save.
Saves == [at : {"idle", "sent", "saved", "own"}, item : Models \cup {Nobody},
          names : SUBSET AvatarNames, as : AvatarNames \cup {Nobody},
          own : AvatarIds \cup {0}]

\* A step that leaves the rows: the panel and its save remain typed, tags are
\* those of rows, and an item that is not there has none.
LEMMA RowsStay ==
  ASSUME AvatarInvariant, avatar' = avatar, autosave' \in Saves,
         panel' \in [item : Models \cup {Nobody}, boxes : SUBSET AvatarIds],
         present' \subseteq Models, Registered = {} \/ present \subseteq present',
         fits' \in [Models -> SUBSET AvatarIds],
         \A i \in Models : fits'[i] \subseteq Rows /\ (i \notin present' => fits'[i] = {})
  PROVE  AvatarInvariant'
<1>1. Rows' = Rows /\ Registered' = Registered
  BY DEF Rows, Registered
<1>2. \A a \in Registered : avatar[a].base \in present'
  BY DEF AvatarInvariant, AvatarTypeOK
<1> QED
  BY <1>1, <1>2 DEF AvatarInvariant, AvatarTypeOK, Saves

\* The panel, the saves of tags and a new item change no row.
LEMMA PanelStep ==
  ASSUME AvatarInvariant,
         \/ \E i \in Models : OpenPanel(i) \/ AddModel(i)
         \/ \E checked \in SUBSET AvatarIds, as \in AvatarNames \cup {Nobody} :
              SubmitPanel(checked, as)
         \/ \E i \in Models, names \in SUBSET AvatarNames :
              InlineAvatars(i, names) \/ BulkAvatars(i, names)
         \/ SaveItem \/ LookOwn
  PROVE  AvatarInvariant'
<1> USE DEF AvatarInvariant, AvatarTypeOK
<1>1. autosave \in Saves
  BY DEF Saves
<1>2. CASE \E i \in Models : OpenPanel(i)
  <2>1. PICK i \in Models : OpenPanel(i)
    BY <1>2
  <2>2. panel' \in [item : Models \cup {Nobody}, boxes : SUBSET AvatarIds]
    BY <2>1 DEF OpenPanel, Registered, Rows
  <2> QED
    BY <1>1, <2>1, <2>2, RowsStay DEF OpenPanel
<1>3. CASE \E i \in Models : AddModel(i)
  BY <1>1, <1>3, RowsStay DEF AddModel
<1>4. ASSUME NEW checked \in SUBSET AvatarIds, NEW as \in AvatarNames \cup {Nobody},
             SubmitPanel(checked, as)
      PROVE  AvatarInvariant'
  <2>1. {avatar[a].name : a \in checked \cap Rows} \subseteq AvatarNames
    OBVIOUS
  <2>2. autosave' \in Saves
    BY <1>4, <2>1 DEF SubmitPanel, Saves
  <2> QED
    BY <1>4, <2>2, RowsStay DEF SubmitPanel
<1>5. ASSUME NEW i \in Models, NEW names \in SUBSET AvatarNames,
             InlineAvatars(i, names) \/ BulkAvatars(i, names)
      PROVE  AvatarInvariant'
  <2>1. Named(names) \subseteq Rows /\ Rows \subseteq AvatarIds
    BY DEF Named, Rows
  <2>2. /\ fits' \in [Models -> SUBSET AvatarIds] /\ i \in present
        /\ \A j \in Models : fits'[j] \subseteq Rows /\ (j # i => fits'[j] = fits[j])
    BY <1>5, <2>1 DEF InlineAvatars, BulkAvatars
  <2> QED
    BY <1>1, <1>5, <2>2, RowsStay DEF InlineAvatars, BulkAvatars
<1>6. CASE SaveItem
  <2>1. Named(autosave.names) \subseteq Rows /\ Rows \subseteq AvatarIds
    BY DEF Named, Rows
  <2>2. autosave' \in Saves
    <3>1. NoSave \in Saves
      BY DEF Saves, NoSave
    <3>2. [autosave EXCEPT !.at = "saved", !.names = {}] \in Saves
      BY <1>1 DEF Saves
    <3> QED
      BY <1>6, <3>1, <3>2 DEF SaveItem
  <2>3. /\ fits' \in [Models -> SUBSET AvatarIds]
        /\ \A j \in Models : fits'[j] \subseteq Rows /\ (j \notin present => fits'[j] = fits[j])
    BY <1>6, <2>1 DEF SaveItem
  <2> QED
    BY <1>6, <2>2, <2>3, RowsStay DEF SaveItem
<1>7. CASE LookOwn
  <2> DEFINE own == Max(BasedOn(autosave.item) \cup {0})
  <2>1. own \in AvatarIds \cup {0}
    <3>1. BasedOn(autosave.item) \cup {0} \in SUBSET (0 .. MaxAvatar) /\ MaxAvatar \in Nat
      BY AvatarAssumption DEF BasedOn, Rows, AvatarIds
    <3>2. own \in BasedOn(autosave.item) \cup {0}
      BY <3>1, GreatestOf
    <3> QED
      BY <3>2 DEF BasedOn, Rows
  <2>2. autosave' = [autosave EXCEPT !.at = "own", !.own = own]
    BY <1>7 DEF LookOwn
  <2> HIDE DEF own
  <2>3. autosave' \in Saves
    BY <1>1, <2>1, <2>2 DEF Saves
  <2> QED
    BY <1>7, <2>3, RowsStay DEF LookOwn
<1> QED
  BY <1>2, <1>3, <1>4, <1>5, <1>6, <1>7

\* A row that gets a name of its own; a new one also a base that has none.
LEMMA SetAvatarStep ==
  ASSUME AvatarInvariant, SetAvatar
  PROVE  AvatarInvariant'
<1> DEFINE own == autosave.own
           as == autosave.as
           base == autosave.item
<1>1. /\ own \in AvatarIds \cup {0} /\ as \in AvatarNames /\ base \in Models \cup {Nobody}
      /\ Nobody \notin AvatarNames /\ Nobody \notin Models /\ 0 \notin AvatarIds
  BY AvatarAssumption DEF AvatarInvariant, AvatarTypeOK, SetAvatar, AvatarIds
<1>2. /\ autosave' \in Saves /\ present' = present /\ fits' = fits /\ panel' = panel
      /\ present \subseteq Models /\ fits \in [Models -> SUBSET AvatarIds]
      /\ panel \in [item : Models \cup {Nobody}, boxes : SUBSET AvatarIds]
      /\ \A i \in Models : fits[i] \subseteq Rows /\ (i \notin present => fits[i] = {})
  BY DEF AvatarInvariant, AvatarTypeOK, SetAvatar, NoSave, Saves
<1>3. /\ avatar \in [AvatarIds -> [name : AvatarNames \cup {Nobody}, base : Models \cup {Nobody}]]
      /\ \A a \in Rows : avatar[a].name \in AvatarNames
      /\ \A a, b \in Rows : a # b => /\ avatar[a].name # avatar[b].name
                                     /\ avatar[a].base = avatar[b].base => avatar[a].base = Nobody
      /\ \A a \in Rows : avatar[a].base # Nobody => avatar[a].base \in present
      /\ Rows \subseteq AvatarIds
  BY DEF AvatarInvariant, AvatarTypeOK, Registered, Rows
<1>4. CASE avatar' = avatar
  BY <1>2, <1>4, RowsStay
<1>5. ASSUME NEW c \in AvatarIds, NEW r, r.name = as,
             r \in [name : AvatarNames \cup {Nobody}, base : Models \cup {Nobody}],
             avatar' = [avatar EXCEPT ![c] = r],
             r.base # Nobody => r.base \in present,
             \A a \in Rows \ {c} : avatar[a].name # as /\ (r.base = Nobody \/ avatar[a].base # r.base)
      PROVE  AvatarInvariant'
  <2>1. /\ avatar'[c] = r /\ \A a \in AvatarIds \ {c} : avatar'[a] = avatar[a]
        /\ avatar' \in [AvatarIds -> [name : AvatarNames \cup {Nobody}, base : Models \cup {Nobody}]]
    BY <1>3, <1>5
  <2>2. r # NoAvatar
    BY <1>1, <1>5 DEF NoAvatar
  <2>3. Rows' = Rows \cup {c}
    BY <2>1, <2>2 DEF Rows
  <2>4. /\ \A a \in Rows' : avatar'[a].name \in AvatarNames
        /\ \A a \in Rows' : avatar'[a].base # Nobody => avatar'[a].base \in present
    BY <1>1, <1>3, <1>5, <2>1, <2>3
  <2>5. \A a, b \in Rows' : a # b =>
          /\ avatar'[a].name # avatar'[b].name
          /\ avatar'[a].base = avatar'[b].base => avatar'[a].base = Nobody
    BY <1>3, <1>5, <2>1, <2>3
  <2>6. \A a \in Registered' : a \in Rows' /\ avatar'[a].base # Nobody
    BY DEF Registered
  <2> HIDE DEF own, as, base
  <2> QED
    BY <1>2, <2>1, <2>3, <2>4, <2>5, <2>6 DEF AvatarInvariant, AvatarTypeOK, Saves
<1>6. CASE avatar' # avatar
  <2>1. Named({as}) \ {own} = {}
    BY <1>6 DEF SetAvatar
  <2>2. \A a \in Rows \ {own} : avatar[a].name # as
    BY <2>1 DEF Named
  <2>3. CASE own = 0
    <3> DEFINE r == [name |-> as, base |-> base]
               c == NewAvatarId
    <3>1. /\ c \in AvatarIds /\ base \in present /\ BasedOn(base) = {}
          /\ avatar' = [avatar EXCEPT ![c] = r]
      BY <1>6, <2>1, <2>3 DEF SetAvatar
    <3>2. \A a \in Rows \ {c} : avatar[a].name # as /\ avatar[a].base # base
      BY <1>1, <1>3, <2>2, <2>3, <3>1 DEF BasedOn
    <3>3. /\ r.name = as /\ r.base = base
          /\ r \in [name : AvatarNames \cup {Nobody}, base : Models \cup {Nobody}]
      BY <1>1
    <3>4. /\ r.base # Nobody => r.base \in present
          /\ \A a \in Rows \ {c} : avatar[a].name # as /\ (r.base = Nobody \/ avatar[a].base # r.base)
      BY <3>1, <3>2, <3>3
    <3> HIDE DEF c, r, own, as, base
    <3> QED
      BY ONLY <1>5, <3>1, <3>3, <3>4
  <2>4. CASE own # 0
    <3> DEFINE r == [avatar[own] EXCEPT !.name = as]
    <3>1. own \in Rows /\ avatar' = [avatar EXCEPT ![own] = r]
      BY <1>6, <2>1, <2>4 DEF SetAvatar
    <3>2. /\ r.name = as /\ r.base = avatar[own].base
          /\ r \in [name : AvatarNames \cup {Nobody}, base : Models \cup {Nobody}]
      BY <1>1, <1>3, <3>1
    <3>3. \A a \in Rows \ {own} : avatar[a].base = avatar[own].base => avatar[own].base = Nobody
      BY <1>3, <3>1
    <3>4. /\ r.base # Nobody => r.base \in present
          /\ \A a \in Rows \ {own} : avatar[a].name # as /\ (r.base = Nobody \/ avatar[a].base # r.base)
          /\ own \in AvatarIds
      BY <1>3, <2>2, <3>1, <3>2, <3>3
    <3> HIDE DEF r, own, as, base
    <3> QED
      BY ONLY <1>5, <3>1, <3>2, <3>4
  <2> QED
    BY <2>3, <2>4
<1> QED
  BY <1>4, <1>6

\* A row goes with its tags; an item goes and leaves its avatar without a base.
LEMMA RowsGoStep ==
  ASSUME AvatarInvariant, UnsetAvatar \/ \E i \in Models : RemoveModel(i)
  PROVE  AvatarInvariant'
<1>1. /\ avatar \in [AvatarIds -> [name : AvatarNames \cup {Nobody}, base : Models \cup {Nobody}]]
      /\ \A a \in Rows : avatar[a].name \in AvatarNames
      /\ \A a, b \in Rows : a # b => /\ avatar[a].name # avatar[b].name
                                     /\ avatar[a].base = avatar[b].base => avatar[a].base = Nobody
      /\ \A a \in Rows : avatar[a].base # Nobody => avatar[a].base \in present
      /\ Rows \subseteq AvatarIds
      /\ present \subseteq Models /\ fits \in [Models -> SUBSET AvatarIds]
      /\ \A i \in Models : fits[i] \subseteq Rows /\ (i \notin present => fits[i] = {})
      /\ Nobody \notin AvatarNames /\ Nobody \notin Models
  BY AvatarAssumption DEF AvatarInvariant, AvatarTypeOK, Registered, Rows
<1>2. CASE UnsetAvatar
  <2> DEFINE own == autosave.own
  <2>1. autosave' \in Saves /\ present' = present /\ panel' = panel
    BY <1>2 DEF AvatarInvariant, AvatarTypeOK, UnsetAvatar, NoSave, Saves
  <2>2. /\ fits' \in [Models -> SUBSET AvatarIds]
        /\ \A i \in Models : fits'[i] = fits[i] \ {own}
    BY <1>1, <1>2 DEF UnsetAvatar
  <2>3. /\ avatar' \in [AvatarIds -> [name : AvatarNames \cup {Nobody}, base : Models \cup {Nobody}]]
        /\ \A a \in AvatarIds \ {own} : avatar'[a] = avatar[a]
        /\ own \in Rows => avatar'[own] = NoAvatar
        /\ own \notin Rows => avatar' = avatar
    BY <1>1, <1>2 DEF UnsetAvatar, NoAvatar
  <2> HIDE DEF own
  <2>4. Rows' = Rows \ {own}
    BY <1>1, <2>3 DEF Rows
  <2>5. \A a \in Rows' : a \in Rows /\ avatar'[a] = avatar[a]
    BY <1>1, <2>3, <2>4
  <2>6. \A a \in Registered' : a \in Rows' /\ avatar'[a].base # Nobody
    BY DEF Registered
  <2>7. panel \in [item : Models \cup {Nobody}, boxes : SUBSET AvatarIds]
    BY DEF AvatarInvariant, AvatarTypeOK
  <2> QED
    BY <1>1, <2>1, <2>2, <2>3, <2>4, <2>5, <2>6, <2>7 DEF AvatarInvariant, AvatarTypeOK, Saves
<1>3. ASSUME NEW i \in Models, RemoveModel(i) PROVE AvatarInvariant'
  <2>1. /\ present' = present \ {i} /\ panel' = panel /\ autosave' = autosave
        /\ fits' = [fits EXCEPT ![i] = {}]
    BY <1>3 DEF RemoveModel
  <2>2. ASSUME NEW a \in AvatarIds
        PROVE  /\ avatar'[a] \in [name : AvatarNames \cup {Nobody}, base : Models \cup {Nobody}]
               /\ avatar'[a].name = avatar[a].name
               /\ avatar'[a].base = IF avatar[a].base = i THEN Nobody ELSE avatar[a].base
    <3>1. avatar'[a] = IF avatar[a].base = i THEN [avatar[a] EXCEPT !.base = Nobody] ELSE avatar[a]
      BY <1>3 DEF RemoveModel
    <3>2. avatar[a] \in [name : AvatarNames \cup {Nobody}, base : Models \cup {Nobody}]
      BY <1>1
    <3> QED
      BY <3>1, <3>2
  <2>3. avatar' \in [AvatarIds -> [name : AvatarNames \cup {Nobody}, base : Models \cup {Nobody}]]
    <3>1. avatar' = [a \in AvatarIds |-> avatar'[a]]
      BY <1>3 DEF RemoveModel
    <3> QED
      BY <2>2, <3>1
  <2>4. Rows' = Rows
    <3>1. ASSUME NEW a \in AvatarIds PROVE avatar'[a] = NoAvatar <=> avatar[a] = NoAvatar
      <4>1. CASE avatar[a] = NoAvatar
        BY <1>1, <1>3, <4>1 DEF RemoveModel, NoAvatar
      <4>2. CASE avatar[a] # NoAvatar
        <5>1. avatar'[a].name \in AvatarNames
          BY <1>1, <2>2, <4>2 DEF Rows
        <5> QED
          BY <1>1, <4>2, <5>1 DEF NoAvatar
      <4> QED
        BY <4>1, <4>2
    <3> QED
      BY <3>1 DEF Rows
  <2>5. /\ \A a \in Rows' : avatar'[a].name \in AvatarNames
        /\ \A a \in Rows' : avatar'[a].base # Nobody => avatar'[a].base \in present'
    BY <1>1, <2>1, <2>2, <2>4
  <2>6. \A a, b \in Rows' : a # b =>
          /\ avatar'[a].name # avatar'[b].name
          /\ avatar'[a].base = avatar'[b].base => avatar'[a].base = Nobody
    BY <1>1, <2>2, <2>4
  <2>7. \A a \in Registered' : a \in Rows' /\ avatar'[a].base # Nobody
    BY DEF Registered
  <2>8. /\ fits' \in [Models -> SUBSET AvatarIds]
        /\ \A j \in Models : fits'[j] \subseteq Rows' /\ (j \notin present' => fits'[j] = {})
    BY <1>1, <2>1, <2>4
  <2>9. /\ panel \in [item : Models \cup {Nobody}, boxes : SUBSET AvatarIds]
        /\ autosave \in Saves /\ present' \subseteq Models
    BY <1>1, <2>1 DEF AvatarInvariant, AvatarTypeOK, Saves
  <2> QED
    BY <2>1, <2>3, <2>5, <2>6, <2>7, <2>8, <2>9 DEF AvatarInvariant, AvatarTypeOK, Saves
<1> QED
  BY <1>2, <1>3

\* Every step keeps the invariant of the avatars.
LEMMA AvatarStep ==
  AvatarInvariant /\ [AvatarNext]_avatarVars => AvatarInvariant'
<1>1. AvatarInvariant /\ UNCHANGED avatarVars => AvatarInvariant'
  BY DEF avatarVars, AvatarInvariant, AvatarTypeOK, Rows, Registered
<1> QED
  BY <1>1, PanelStep, SetAvatarStep, RowsGoStep DEF AvatarNext

\* Names and bases of avatars are unique, bases are items that are there, and
\* tags are of avatars that are registered or were.
THEOREM AvatarsCorrect == AvatarSpec => []AvatarInvariant
  BY AvatarStart, AvatarStep, PTL DEF AvatarSpec

-----------------------------------------------------------------------------
(* The components together. *)

\* A list without rows.
LEMMA EmptyList == AnyList => ListInvariant
<1> SUFFICES ASSUME AnyList PROVE ListInvariant
  OBVIOUS
<1>1. /\ library = <<>> /\ rest = <<>> /\ grouped = <<>>
      /\ anchors = [u \in Urls |-> 0] /\ Indices = {}
  BY DEF AnyList, Indices
<1>2. ListTypeOK
  BY <1>1 DEF ListTypeOK
<1>3. Seen = {} /\ Range(rest) = {} /\ DOMAIN grouped = {} /\ DOMAIN rest = {}
  BY <1>1 DEF Seen, Matching, Range
<1> QED
  BY <1>1, <1>2, <1>3 DEF ListInvariant, Ascending

ServicesInvariant ==
  /\ EditsInvariant /\ CacheInvariant /\ SetupInvariant
  /\ BoothInvariant /\ AvatarInvariant /\ ListInvariant

\* The types of all the small components, whichever of them moves and within any
\* bounds: with the foreign keys of the rows, unique names and bases of avatars,
\* and the only copy of a file that is still to be uploaded.
THEOREM ServicesTypeCorrect == MCSpec => []ServicesTypeOK
<1>1. MCInit => ServicesInvariant
  BY EditsInitInvariant, CacheInitInvariant, SetupInitInvariant, BoothInitInvariant,
     AvatarStart, ListStart, EmptyList DEF MCInit, ServicesInvariant
<1>2. ServicesInvariant /\ [MCNext]_allVars => ServicesInvariant'
  <2> SUFFICES ASSUME ServicesInvariant, [MCNext]_allVars PROVE ServicesInvariant'
    OBVIOUS
  <2>1. /\ [EditsNext]_editsVars /\ [CacheNext]_cacheVars /\ [SetupNext]_setupVars
        /\ [BoothNext]_boothVars /\ [AvatarNext]_avatarVars /\ [ListNext]_listVars
    BY DEF MCNext, TagEdits, ShopEdits, Still, allVars
  <2> QED
    BY <2>1, EditsStep, CacheStep, SetupStep, BoothStep, AvatarStep, LoopStep
       DEF ServicesInvariant
<1>3. ServicesInvariant => ServicesTypeOK
  <2>1. CacheInvariant => CacheTypeOK
    BY DEF CacheInvariant, Entries, Requests, FilesKnown, CacheTypeOK
  <2> QED
    BY <2>1 DEF ServicesInvariant, ServicesTypeOK, EditsInvariant, SetupInvariant,
                BoothInvariant, AvatarInvariant, ListInvariant
<1> QED
  BY <1>1, <1>2, <1>3, PTL DEF MCSpec
=============================================================================
