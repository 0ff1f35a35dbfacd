--------------------------- MODULE ItemEditsProofs ---------------------------
(***************************************************************************)
(* Proofs about ItemEdits, for any items, savers, labels and bounds: that  *)
(* saves register a shop once, that a save carries over what its user did  *)
(* not edit, and that a merge of tags loses none.                          *)
(***************************************************************************)
EXTENDS ItemEdits, FiniteSetTheorems, WellFoundedInduction, TLAPS

-----------------------------------------------------------------------------
(* Least and greatest ids. *)

\* A set of numbers has a least one.
LEMMA LeastOf ==
  ASSUME NEW S \in SUBSET Nat, S # {}
  PROVE  /\ Min(S) \in S
         /\ \A y \in S : Min(S) <= y
<1> DEFINE R == OpToRel(<, Nat)
<1>1. PICK x \in S : \A y \in S : ~(<<y, x>> \in R)
  BY NatLessThanWellFounded, WFMin
<1>2. \A y, z \in Nat : y < z => <<y, z>> \in R
  BY DEF OpToRel
<1> HIDE DEF R
<1>3. ASSUME NEW y \in S PROVE x <= y
  <2>1. x \in Nat /\ y \in Nat /\ ~(y < x)
    BY <1>1, <1>2
  <2> QED BY <2>1
<1> QED BY <1>3 DEF Min

\* A set of numbers that has a bound has a greatest one.
LEMMA GreatestOf ==
  ASSUME NEW n \in Nat, NEW S \in SUBSET (0 .. n), S # {}
  PROVE  /\ Max(S) \in S
         /\ \A y \in S : y <= Max(S)
<1> DEFINE T == {n - z : z \in S}
<1>1. T \in SUBSET Nat /\ T # {} /\ \A y \in S : n - y \in T
  <2>1. \A z \in S : z \in 0 .. n /\ n - z \in Nat
    OBVIOUS
  <2>2. \A z \in S : n - z \in T
    OBVIOUS
  <2>3. T \subseteq Nat
    BY <2>1
  <2>4. T # {}
    BY <2>2
  <2> HIDE DEF T
  <2> QED BY <2>2, <2>3, <2>4
<1>2. PICK t \in T : \A y \in T : t <= y
  BY <1>1, LeastOf
<1>3. PICK x \in S : t = n - x
  BY <1>2
<1>4. \A y \in S : x >= y
  <2> TAKE y \in S
  <2>1. n - y \in T
    BY <1>1
  <2>3. x \in 0 .. n /\ y \in 0 .. n
    OBVIOUS
  <2>2. n - x <= n - y
    BY <1>2, <1>3, <2>1
  <2> QED BY <2>2, <2>3
<1>5. Max(S) \in S /\ \A y \in S : Max(S) >= y
  BY <1>4 DEF Max
<1> QED BY <1>5

-----------------------------------------------------------------------------
(* The inductive invariant. *)

\* A shop without a name is no shop, and an item that is gone has no labels.
RowsOK ==
  /\ \A s \in ShopIds : shop[s].name = NoName => shop[s] = NoShop
  /\ \A i \in Items : ~row[i].there => row[i].tags = {} /\ row[i].shop = 0

\* What the tag page has read.
AdminOK ==
  /\ admin.pc = "rename" => admin.tag \in TagIds /\ admin.name \in TagNames
  /\ admin.pc = "merge" =>
       /\ admin.tag \in TagIds /\ admin.target \in TagIds /\ admin.tag # admin.target
       /\ admin.withTarget \subseteq admin.listed

\* While a save that found no shop of its name holds the lock, no other save
\* registers one.
NameIsFree(e) ==
  job[e].pc = "locked" /\ RegistersShop(e) =>
    \A s \in ShopIds : shop[s].auto => shop[s].name # job[e].shop

\* What a save carries over is what the item has, until it is overtaken.
CarriesOver(e) ==
  LET now == row[job[e].item] IN
  job[e].pc # "idle" /\ ~job[e].overtaken =>
    /\ now.there
    /\ job[e].kind \in {"autosave", "inline"} => job[e].kept = now.kept
    /\ job[e].kind = "inline" =>
         /\ job[e].typed = now.typed
         /\ now.shop # 0 =>
              /\ shop[now.shop].name = job[e].shop
              /\ job[e].pc = "locked" => job[e].shopId = now.shop

EditsInvariant ==
  /\ EditsTypeOK /\ RowsOK /\ AdminOK /\ SavedShopsDistinct
  /\ \A e \in Savers : NameIsFree(e) /\ CarriesOver(e)

-----------------------------------------------------------------------------
(* Records. *)

\* The idle job.
LEMMA NoJobOK == NoJob \in Job /\ NoJob.pc = "idle"
<1> DEFINE i == CHOOSE i \in Items : TRUE
           v == CHOOSE v \in Values : TRUE
<1>1. i \in Items /\ v \in Values /\ Unassigned \in ShopNames
  BY EditsAssumption
<1>2. NoJob = [pc |-> "idle", kind |-> "booth", item |-> i, typed |-> v, kept |-> v,
               shop |-> Unassigned, tags |-> {}, shopId |-> 0, tagIds |-> {}, had |-> {},
               overtaken |-> FALSE]
  BY DEF NoJob
<1> HIDE DEF i, v
<1> QED
  BY <1>1, <1>2 DEF Job

\* A job that has just read its item.
LEMMA StartingOK ==
  ASSUME NEW i \in Items, NEW kind \in {"autosave", "inline", "bulk", "booth"},
         NEW r, r = Starting(i, kind)
  PROVE  /\ r \in Job /\ r.pc = "read" /\ r.kind = kind /\ r.item = i /\ ~r.overtaken
         /\ r.shop = Unassigned
  BY NoJobOK DEF Starting, Job, NoJob

\* What a commit of another request may do to a job.
JobAges(q) == job'[q] = job[q] \/ job'[q] = [job[q] EXCEPT !.overtaken = TRUE]

\* A job that a commit of another request has overtaken.
LEMMA AgedJob ==
  ASSUME NEW r \in Job, NEW t, t = r \/ t = [r EXCEPT !.overtaken = TRUE]
  PROVE  /\ t \in Job /\ t.pc = r.pc /\ t.kind = r.kind /\ t.item = r.item
         /\ t.shop = r.shop /\ t.shopId = r.shopId
         /\ ~t.overtaken => t = r
<1>1. CASE t = r
  BY <1>1
<1>2. CASE t = [r EXCEPT !.overtaken = TRUE]
  BY <1>2 DEF Job
<1> QED
  BY <1>1, <1>2

\* Overtake marks the jobs on the items, the committing one's apart.
LEMMA Overtaken ==
  ASSUME job \in [Savers -> Job], NEW e, NEW items, NEW q \in Savers
  PROVE  LET t == Overtake(e, items)[q] IN
         /\ t = job[q] \/ t = [job[q] EXCEPT !.overtaken = TRUE]
         /\ q # e /\ job[q].pc # "idle" /\ job[q].item \in items => t.overtaken
<1>1. ASSUME NEW r \in Job, NEW t, t = [r EXCEPT !.overtaken = TRUE] PROVE t.overtaken
  BY <1>1 DEF Job
<1>2. job[q] \in Job
  OBVIOUS
<1>3. CASE q # e /\ job[q].pc # "idle" /\ job[q].item \in items
  <2>1. Overtake(e, items)[q] = [job[q] EXCEPT !.overtaken = TRUE]
    BY <1>3 DEF Overtake
  <2> QED
    BY <2>1, <1>1, <1>2
<1>4. CASE ~(q # e /\ job[q].pc # "idle" /\ job[q].item \in items)
  BY <1>4 DEF Overtake
<1> QED
  BY <1>3, <1>4

\* A shop that is registered has an id of its own.
LEMMA NewShopIsFresh ==
  ASSUME EditsTypeOK, NewShopId \in ShopIds
  PROVE  shop[NewShopId] = NoShop
<1> DEFINE S == {s \in ShopIds : shop[s] # NoShop} \cup {0}
<1>1. S \in SUBSET (0 .. MaxShop) /\ S # {} /\ MaxShop \in Nat
  BY EditsAssumption DEF ShopIds
<1> HIDE DEF S
<1>2. /\ Max(S) \in 0 .. MaxShop
      /\ \A y \in S : y <= Max(S)
  BY <1>1, GreatestOf
<1>3. NewShopId = 1 + Max(S)
  BY DEF NewShopId, S
<1>4. ASSUME NewShopId \in S PROVE FALSE
  BY <1>2, <1>3, <1>4
<1> QED
  BY <1>4 DEF S

\* The least of some ids is one of them.
LEMMA MinOK ==
  ASSUME NEW S \in SUBSET Nat, S # {} PROVE Min(S) \in S
  BY LeastOf

\* The invariant of a job that ages, when the item it is for keeps its fields
\* and no save registers a shop while it has the lock.
LEMMA JobKept ==
  ASSUME EditsInvariant, NEW q \in Savers, JobAges(q),
         job[q].pc = "locked" =>
           \A s \in ShopIds : shop'[s].auto => shop'[s] = shop[s],
         ~job'[q].overtaken /\ job[q].pc # "idle" =>
           LET now == row[job[q].item]
               new == row'[job[q].item] IN
           /\ new.there = now.there /\ new.kept = now.kept /\ new.typed = now.typed
           /\ new.shop = now.shop
           /\ now.shop # 0 => shop'[now.shop].name = shop[now.shop].name
  PROVE  NameIsFree(q)' /\ CarriesOver(q)'
<1>1. job[q] \in Job /\ NameIsFree(q) /\ CarriesOver(q)
  BY DEF EditsInvariant, EditsTypeOK
<1>2. /\ job'[q].pc = job[q].pc /\ job'[q].kind = job[q].kind /\ job'[q].item = job[q].item
      /\ job'[q].shop = job[q].shop /\ job'[q].shopId = job[q].shopId
      /\ ~job'[q].overtaken => job'[q] = job[q]
  BY <1>1, AgedJob DEF JobAges
<1>3. NameIsFree(q)'
  BY <1>1, <1>2 DEF NameIsFree, RegistersShop, SetsShop
<1>4. CarriesOver(q)'
  BY <1>1, <1>2 DEF CarriesOver
<1> QED
  BY <1>3, <1>4

-----------------------------------------------------------------------------
(* The initial states. *)

\* An empty library without jobs.
LEMMA EditsInitInvariant == EditsInit => EditsInvariant
<1> SUFFICES ASSUME EditsInit PROVE EditsInvariant
  OBVIOUS
<1>1. PICK v \in Values :
        row = [i \in Items |-> [there |-> TRUE, typed |-> v, kept |-> v,
                                shop |-> 0, tags |-> {}]]
  BY DEF EditsInit
<1>2. \A i \in Items : /\ row[i] \in ItemFields /\ row[i].tags = {} /\ row[i].shop = 0
                       /\ row[i].there
  BY <1>1 DEF ItemFields
<1>3. /\ row \in [Items -> ItemFields]
      /\ tag \in [TagIds -> TagNames \cup {NoName}]
      /\ shop \in [ShopIds -> [name : ShopNames \cup {NoName}, auto : BOOLEAN]]
      /\ job \in [Savers -> Job]
  BY <1>1, <1>2, NoJobOK DEF EditsInit, NoShop
<1>4. /\ admin \in [pc : {"idle", "rename", "merge"}, tag : TagIds \cup {0},
                    name : TagNames \cup {NoName}, target : TagIds \cup {0},
                    listed : SUBSET Items, withTarget : SUBSET Items]
      /\ admin.pc = "idle"
  BY DEF EditsInit, NoAdmin
<1>5. /\ \A e \in Savers : holder # e /\ job[e].pc = "idle"
      /\ holder = NoName
  BY NoJobOK, EditsAssumption DEF EditsInit
<1>6. EditsTypeOK
  BY <1>2, <1>3, <1>4, <1>5 DEF EditsTypeOK
<1>7. \A s \in ShopIds : shop[s] = NoShop /\ ~shop[s].auto
  BY DEF EditsInit, NoShop
<1> QED
  BY <1>2, <1>4, <1>5, <1>6, <1>7
     DEF EditsInvariant, RowsOK, AdminOK, SavedShopsDistinct, NameIsFree, CarriesOver

-----------------------------------------------------------------------------
(* Saves. *)

\* A step that changes the locals of one job, and perhaps who has the lock.
LEMMA OneJob ==
  ASSUME EditsInvariant, NEW e \in Savers,
         UNCHANGED <<row, tag, shop, admin>>,
         job' = [job EXCEPT ![e] = job'[e]], job'[e] \in Job,
         holder' \in Savers \cup {NoName},
         \A q \in Savers : (holder' = q) <=> (job'[q].pc = "locked"),
         NameIsFree(e)', CarriesOver(e)'
  PROVE  EditsInvariant'
<1>1. job' \in [Savers -> Job]
  BY DEF EditsInvariant, EditsTypeOK
<1>2. EditsTypeOK'
  BY <1>1 DEF EditsInvariant, EditsTypeOK
<1>3. (RowsOK /\ AdminOK /\ SavedShopsDistinct)'
  BY DEF EditsInvariant, RowsOK, AdminOK, SavedShopsDistinct
<1>4. ASSUME NEW q \in Savers PROVE NameIsFree(q)' /\ CarriesOver(q)'
  <2>1. CASE q = e
    BY <2>1
  <2>2. CASE q # e
    <3>1. JobAges(q)
      BY <2>2 DEF JobAges, EditsInvariant, EditsTypeOK
    <3> QED
      BY <3>1, JobKept
  <2> QED
    BY <2>1, <2>2
<1> QED
  BY <1>2, <1>3, <1>4 DEF EditsInvariant

\* A save that reads its item carries over what the item has.
LEMMA ReadStep ==
  ASSUME EditsInvariant, NEW e \in Savers, NEW i \in Items,
         \/ ReadForAutosave(e, i) \/ ReadForInline(e, i)
         \/ BeginBulk(e, i) \/ BeginBooth(e, i)
  PROVE  EditsInvariant'
<1>1. /\ UNCHANGED <<row, tag, shop, admin, holder>>
      /\ job[e].pc = "idle" /\ row[i].there
  BY DEF ReadForAutosave, ReadForInline, BeginBulk, BeginBooth, Begin
<1>2. /\ job \in [Savers -> Job] /\ row[i] \in ItemFields
      /\ row[i].shop # 0 => shop[row[i].shop].name \in ShopNames
      /\ Unassigned \in ShopNames
  BY EditsAssumption DEF EditsInvariant, EditsTypeOK, ItemFields, RowsOK
<1>3. /\ job' = [job EXCEPT ![e] = job'[e]] /\ job'[e] \in Job
      /\ job'[e].pc = "read" /\ job'[e].item = i
      /\ job'[e].kind \in {"autosave", "inline"} => job'[e].kept = row[i].kept
      /\ job'[e].kind = "inline" =>
           /\ job'[e].typed = row[i].typed
           /\ row[i].shop # 0 => shop[row[i].shop].name = job'[e].shop
  <2>1. CASE ReadForAutosave(e, i)
    <3>1. PICK v \in Values, s \in ShopNames, names \in SUBSET TagNames :
       job' = [job EXCEPT ![e] =
         [Starting(i, "autosave") EXCEPT !.typed = v,
            !.shop = s, !.tags = names, !.kept = row[i].kept]]
      BY <2>1 DEF ReadForAutosave
    <3> DEFINE r == Starting(i, "autosave")
    <3>2. r \in Job /\ r.pc = "read" /\ r.kind = "autosave" /\ r.item = i
      BY StartingOK
    <3>3. row[i].kept \in Values
      BY <1>2 DEF ItemFields
    <3> HIDE DEF r
    <3>4. job' = [job EXCEPT ![e] = [r EXCEPT !.typed = v, !.shop = s, !.tags = names,
                                              !.kept = row[i].kept]]
      BY <3>1 DEF r
    <3>5. job'[e] = [r EXCEPT !.typed = v, !.shop = s, !.tags = names, !.kept = row[i].kept]
      BY <3>4, <1>2
    <3>6. job' = [job EXCEPT ![e] = job'[e]]
      BY <3>4, <3>5
    <3>7. /\ job'[e] \in Job /\ job'[e].pc = "read" /\ job'[e].item = i
          /\ job'[e].kind = "autosave" /\ job'[e].kept = row[i].kept
      BY <3>2, <3>3, <3>5 DEF Job
    <3> QED
      BY <3>6, <3>7
  <2>2. CASE ReadForInline(e, i)
    <3> DEFINE r == Starting(i, "inline")
               s == IF row[i].shop = 0 THEN Unassigned ELSE shop[row[i].shop].name
    <3>1. PICK names \in SUBSET TagNames :
       job' = [job EXCEPT ![e] = [r EXCEPT !.typed = row[i].typed, !.kept = row[i].kept,
                                           !.tags = names, !.shop = s]]
      BY <2>2 DEF ReadForInline
    <3>2. r \in Job /\ r.pc = "read" /\ r.kind = "inline" /\ r.item = i
      BY StartingOK
    <3>3. /\ row[i].kept \in Values /\ row[i].typed \in Values /\ s \in ShopNames
          /\ row[i].shop # 0 => shop[row[i].shop].name = s
      BY <1>2 DEF ItemFields
    <3> HIDE DEF r, s
    <3>5. job'[e] = [r EXCEPT !.typed = row[i].typed, !.kept = row[i].kept, !.tags = names,
                              !.shop = s]
      BY <3>1, <1>2
    <3>6. job' = [job EXCEPT ![e] = job'[e]]
      BY <3>1, <3>5
    <3>7. /\ job'[e] \in Job /\ job'[e].pc = "read" /\ job'[e].item = i
          /\ job'[e].kind = "inline" /\ job'[e].kept = row[i].kept
          /\ job'[e].typed = row[i].typed /\ job'[e].shop = s
      BY <3>2, <3>3, <3>5 DEF Job
    <3> QED
      BY <3>3, <3>6, <3>7
  <2>3. CASE BeginBulk(e, i)
    <3> DEFINE r == Starting(i, "bulk")
    <3>1. PICK v \in Values, names \in SUBSET TagNames :
            job' = [job EXCEPT ![e] = [r EXCEPT !.kept = v, !.tags = names]]
      BY <2>3 DEF BeginBulk
    <3>2. r \in Job /\ r.pc = "read" /\ r.kind = "bulk" /\ r.item = i
      BY StartingOK
    <3> HIDE DEF r
    <3>5. job'[e] = [r EXCEPT !.kept = v, !.tags = names]
      BY <3>1, <1>2
    <3>6. job' = [job EXCEPT ![e] = job'[e]]
      BY <3>1, <3>5
    <3>7. /\ job'[e] \in Job /\ job'[e].pc = "read" /\ job'[e].item = i
          /\ job'[e].kind = "bulk"
      BY <3>2, <3>5 DEF Job
    <3> QED
      BY <3>6, <3>7
  <2>4. CASE BeginBooth(e, i)
    <3> DEFINE r == Starting(i, "booth")
    <3>1. PICK v \in Values, s \in ShopNames :
            job' = [job EXCEPT ![e] = [r EXCEPT !.typed = v, !.shop = s]]
      BY <2>4 DEF BeginBooth
    <3>2. r \in Job /\ r.pc = "read" /\ r.kind = "booth" /\ r.item = i
      BY StartingOK
    <3> HIDE DEF r
    <3>5. job'[e] = [r EXCEPT !.typed = v, !.shop = s]
      BY <3>1, <1>2
    <3>6. job' = [job EXCEPT ![e] = job'[e]]
      BY <3>1, <3>5
    <3>7. /\ job'[e] \in Job /\ job'[e].pc = "read" /\ job'[e].item = i
          /\ job'[e].kind = "booth"
      BY <3>2, <3>5 DEF Job
    <3> QED
      BY <3>6, <3>7
  <2> QED
    BY <2>1, <2>2, <2>3, <2>4
<1>4. NameIsFree(e)' /\ CarriesOver(e)'
  BY <1>1, <1>3 DEF NameIsFree, CarriesOver
<1>5. /\ holder' \in Savers \cup {NoName}
      /\ \A q \in Savers : (holder' = q) <=> (job'[q].pc = "locked")
  BY <1>1, <1>2, <1>3 DEF EditsInvariant, EditsTypeOK
<1> QED
  BY <1>1, <1>3, <1>4, <1>5, OneJob

\* A request that raises leaves everything but its lock as it was.
LEMMA AbandonStep ==
  ASSUME EditsInvariant, NEW e \in Savers, Abandon(e),
         \/ holder' = NoName /\ holder \in {e, NoName}
         \/ holder' = holder /\ holder # e
  PROVE  EditsInvariant'
<1>1. /\ job' = [job EXCEPT ![e] = NoJob] /\ UNCHANGED <<row, tag, shop, admin>>
      /\ job \in [Savers -> Job]
  BY DEF Abandon, EditsInvariant, EditsTypeOK
<1>2. job'[e] = NoJob /\ job'[e] \in Job /\ job'[e].pc = "idle"
  BY <1>1, NoJobOK
<1>3. NameIsFree(e)' /\ CarriesOver(e)'
  BY <1>2 DEF NameIsFree, CarriesOver
<1>4. /\ holder' \in Savers \cup {NoName}
      /\ \A q \in Savers : (holder' = q) <=> (job'[q].pc = "locked")
  BY <1>1, <1>2, EditsAssumption DEF EditsInvariant, EditsTypeOK
<1> QED
  BY <1>1, <1>2, <1>3, <1>4, OneJob

\* Under the lock, a save finds the shop of its name or may register it.
LEMMA LookUpStep ==
  ASSUME EditsInvariant, NEW e \in Savers, LookUp(e)
  PROVE  EditsInvariant'
<1> DEFINE r == job[e]
           i == r.item
           found == ShopsOf(r.shop)
           fine == row[i].there /\ (SetsShop(e) => Cardinality(found) <= 1)
           shopId == IF ~SetsShop(e) \/ found = {} THEN 0 ELSE Min(found)
           tagIds == TagsOf(r.tags)
           had == row[i].tags
           names == {n \in r.tags : TagsOf({n}) = {}}
<1>1. /\ r.pc = "read" /\ holder = NoName
      /\ fine => /\ job' = [job EXCEPT ![e] = [r EXCEPT !.pc = "locked", !.shopId = shopId,
                              !.tagIds = tagIds, !.had = had, !.tags = names]]
                 /\ holder' = e /\ UNCHANGED <<row, tag, shop, admin>>
      /\ ~fine => Abandon(e) /\ UNCHANGED holder
  BY DEF LookUp
<1>2. CASE ~fine
  <2>1. holder # e
    BY <1>1, EditsAssumption
  <2> QED
    BY <1>1, <1>2, <2>1, AbandonStep
<1>3. CASE fine
  <2>1. /\ r \in Job /\ job \in [Savers -> Job] /\ row \in [Items -> ItemFields]
        /\ CarriesOver(e)
    BY DEF EditsInvariant, EditsTypeOK
  <2>2. /\ found \in SUBSET Nat /\ found \in SUBSET ShopIds /\ IsFiniteSet(found)
    <3>1. found \in SUBSET ShopIds
      BY DEF ShopsOf
    <3>2. ShopIds \in SUBSET Nat /\ IsFiniteSet(ShopIds)
      BY EditsAssumption, FS_Interval DEF ShopIds
    <3> HIDE DEF found
    <3> QED
      BY <3>1, <3>2, FS_Subset
  <2>3. found # {} => Min(found) \in found
    BY <2>2, MinOK
  <2>4. /\ shopId \in ShopIds \cup {0} /\ tagIds \in SUBSET TagIds /\ had \in SUBSET TagIds
        /\ names \in SUBSET TagNames
    <3>1. had \in SUBSET TagIds /\ names \in SUBSET TagNames
      BY <2>1 DEF Job, ItemFields
    <3>2. tagIds \in SUBSET TagIds
      BY DEF TagsOf
    <3> HIDE DEF found
    <3> QED
      BY <2>2, <2>3, <3>1, <3>2
  <2>5. SetsShop(e) /\ shopId = 0 => \A s \in ShopIds : shop[s].name # r.shop
    <3>1. 0 \notin found
      BY <2>2 DEF ShopIds
    <3>2. SetsShop(e) /\ shopId = 0 => found = {}
      BY <2>3, <3>1
    <3> QED
      BY <3>2 DEF ShopsOf
  <2>6. ASSUME NEW s \in found, SetsShop(e) PROVE shopId = s
    <3>1. Cardinality(found) <= 1
      BY <1>3, <2>6
    <3> DEFINE m == Min(found)
    <3>2. m \in found /\ shopId = m
      BY <2>3, <2>6
    <3> HIDE DEF found, m
    <3>3. CASE m # s
      <4>1. IsFiniteSet({m}) /\ Cardinality({m}) = 1 /\ s \notin {m}
        BY <3>3, FS_Singleton
      <4>2. Cardinality({m} \cup {s}) = 2
        BY <4>1, FS_AddElement
      <4>3. {m} \cup {s} \subseteq found
        BY <2>6, <3>2
      <4>4. Cardinality({m} \cup {s}) <= Cardinality(found)
        BY <4>3, <2>2, FS_Subset
      <4>5. Cardinality(found) \in Nat
        BY <2>2, FS_CardinalityType
      <4> QED
        BY <4>2, <4>4, <4>5, <3>1
    <3> QED
      BY <3>2, <3>3
  <2>7. row[i].shop \in ShopIds \cup {0} /\ i \in Items
    BY <2>1 DEF Job, ItemFields
  <2>8. \A s \in ShopIds : shop[s].name = r.shop => s \in found
    BY DEF ShopsOf
  <2> HIDE DEF shopId, tagIds, had, names, found
  <2>9. job'[e] = [r EXCEPT !.pc = "locked", !.shopId = shopId, !.tagIds = tagIds,
                            !.had = had, !.tags = names]
    BY <1>1, <1>3, <2>1
  <2>10. job' = [job EXCEPT ![e] = job'[e]]
    BY <1>1, <1>3, <2>9
  <2>11. /\ job'[e] \in Job /\ job'[e].pc = "locked" /\ job'[e].shopId = shopId
         /\ job'[e].kind = r.kind /\ job'[e].item = i /\ job'[e].shop = r.shop
         /\ job'[e].typed = r.typed /\ job'[e].kept = r.kept
         /\ job'[e].overtaken = r.overtaken
    <3> HIDE DEF r
    <3> QED
      BY ONLY <2>1, <2>4, <2>9, ZenonT(40) DEF Job, i
  <2>12. NameIsFree(e)'
    BY <2>5, <2>11, <1>1, <1>3 DEF NameIsFree, RegistersShop, SetsShop
  <2>13. CarriesOver(e)'
    BY <2>1, <2>6, <2>7, <2>8, <2>11, <1>1, <1>3 DEF CarriesOver, SetsShop
  <2>14. \A q \in Savers : (e = q) <=> (job'[q].pc = "locked")
    <3>1. \A q \in Savers : job[q].pc # "locked"
      BY <1>1, EditsAssumption DEF EditsInvariant, EditsTypeOK
    <3> QED
      BY <3>1, <2>1, <2>10, <2>11
  <2> QED
    BY <1>1, <1>3, <2>10, <2>11, <2>12, <2>13, <2>14, OneJob
<1> QED
  BY <1>2, <1>3

\* A commit that raises changes no row.
LEMMA CommitRaisesStep ==
  ASSUME EditsInvariant, NEW e \in Savers, CommitRaises(e)
  PROVE  EditsInvariant'
<1>1. holder = e /\ holder' = NoName /\ Abandon(e)
  BY DEF CommitRaises, EditsInvariant, EditsTypeOK
<1> QED
  BY <1>1, AbandonStep

\* The commit of a save.  What the item has afterwards:
LEMMA Committed ==
  ASSUME EditsInvariant, NEW e \in Savers, Commit(e)
  PROVE  LET i == job[e].item IN
         /\ row' = [row EXCEPT ![i] = row'[i]] /\ row'[i] \in ItemFields
         /\ i \in Items /\ row[i].there /\ row'[i].there
         /\ row'[i].typed = FieldsOf(e).typed /\ row'[i].kept = FieldsOf(e).kept
         /\ row'[i].shop = IF RegistersShop(e) THEN NewShopId
                           ELSE IF SetsShop(e) THEN job[e].shopId ELSE row[i].shop
         /\ TagsAfter(e) \subseteq row'[i].tags
         /\ \A t \in row'[i].tags : tag'[t] # NoName
<1> DEFINE j == job[e]
           i == j.item
           names == j.tags
           r == row[i]
           shopId == IF RegistersShop(e) THEN NewShopId
                     ELSE IF SetsShop(e) THEN j.shopId ELSE r.shop
           new == IF names = {} THEN {} ELSE {NewTagId}
           tags == TagsAfter(e) \cup new
           typed == FieldsOf(e).typed
           kept == FieldsOf(e).kept
<1>1. /\ j \in Job /\ i \in Items /\ r \in ItemFields /\ row \in [Items -> ItemFields]
      /\ j.pc = "locked" /\ Room(e) /\ Writable(e)
  BY DEF Commit, EditsInvariant, EditsTypeOK, Job
<1>2. row' = [row EXCEPT ![i] = [r EXCEPT !.typed = typed, !.kept = kept,
                                          !.shop = shopId, !.tags = tags]]
  BY DEF Commit
<1>3. typed \in Values /\ kept \in Values
  BY <1>1 DEF FieldsOf, Job, ItemFields
<1>4. shopId \in ShopIds \cup {0}
  BY <1>1 DEF Room, Job, ItemFields
<1>5. /\ r.there
      /\ TagsAfter(e) \in SUBSET TagIds
      /\ \A t \in TagsAfter(e) : tag[t] # NoName
  <2>1. /\ \A t \in r.tags : tag[t] # NoName
        /\ SetsTags(e) => \A t \in j.tagIds \ j.had : tag[t] # NoName
        /\ r.there
    BY <1>1 DEF Writable, EditsInvariant, EditsTypeOK
  <2>2. r.tags \in SUBSET TagIds /\ j.tagIds \in SUBSET TagIds
    BY <1>1 DEF Job, ItemFields
  <2>3. \/ j.kind = "booth" /\ TagsAfter(e) = r.tags
        \/ j.kind = "bulk" /\ TagsAfter(e) = r.tags \cup (j.tagIds \ j.had)
        \/ /\ j.kind \notin {"booth", "bulk"}
           /\ TagsAfter(e) = (r.tags \ (j.had \ j.tagIds)) \cup (j.tagIds \ j.had)
    BY DEF TagsAfter
  <2> HIDE DEF j, r
  <2> QED
    BY <2>1, <2>2, <2>3 DEF SetsTags, j
<1>6. /\ new \in SUBSET TagIds
      /\ \A t \in TagIds : tag'[t] = IF names # {} /\ t = NewTagId
                                       THEN CHOOSE n \in names : TRUE ELSE tag[t]
  BY <1>1 DEF Room, Commit
<1>7. \A t \in TagIds : tag[t] # NoName \/ t \in new => tag'[t] # NoName
  <2>1. names \subseteq TagNames /\ NoName \notin TagNames
    BY <1>1, EditsAssumption DEF Job
  <2>2. names # {} => (CHOOSE n \in names : TRUE) \in TagNames
    BY <2>1
  <2> QED
    BY <2>1, <2>2, <1>6
<1>8. tags \in SUBSET TagIds /\ \A t \in tags : tag'[t] # NoName
  BY <1>5, <1>6, <1>7
<1>11. TagsAfter(e) \subseteq tags
  OBVIOUS
<1> HIDE DEF j, i, r, shopId, tags, typed, kept
<1>9. row'[i] = [r EXCEPT !.typed = typed, !.kept = kept, !.shop = shopId, !.tags = tags]
  BY <1>1, <1>2
<1>10. /\ row'[i] \in ItemFields /\ row'[i].there = r.there /\ row'[i].typed = typed
       /\ row'[i].kept = kept /\ row'[i].shop = shopId /\ row'[i].tags = tags
  BY ONLY <1>1, <1>3, <1>4, <1>8, <1>9 DEF ItemFields
<1>12. row' = [row EXCEPT ![i] = row'[i]]
  BY <1>2, <1>9
<1> QED
  BY <1>1, <1>5, <1>8, <1>10, <1>11, <1>12 DEF i, j, r, shopId, typed, kept

\* A commit overtakes the other jobs on its item.
LEMMA CommitStep ==
  ASSUME EditsInvariant, NEW e \in Savers, Commit(e)
  PROVE  EditsInvariant'
<1> DEFINE j == job[e]
           i == j.item
<1>1. /\ job \in [Savers -> Job] /\ j \in Job /\ row \in [Items -> ItemFields]
      /\ shop \in [ShopIds -> [name : ShopNames \cup {NoName}, auto : BOOLEAN]]
      /\ tag \in [TagIds -> TagNames \cup {NoName}]
      /\ \A q \in Savers : (holder = q) <=> (job[q].pc = "locked")
      /\ NameIsFree(e) /\ NoName \notin Savers \cup TagNames \cup ShopNames
  BY EditsAssumption DEF EditsInvariant, EditsTypeOK
<1>2. /\ j.pc = "locked" /\ Room(e) /\ Writable(e)
      /\ tag' = [t \in TagIds |-> IF j.tags # {} /\ t = NewTagId
                                   THEN CHOOSE n \in j.tags : TRUE ELSE tag[t]]
      /\ shop' = [s \in ShopIds |-> IF RegistersShop(e) /\ s = NewShopId
                   THEN [name |-> j.shop, auto |-> TRUE] ELSE shop[s]]
      /\ job' = [Overtake(e, {i}) EXCEPT ![e] = NoJob]
      /\ holder' = NoName /\ admin' = admin
  BY DEF Commit
<1>3. /\ row' = [row EXCEPT ![i] = row'[i]] /\ row'[i] \in ItemFields
      /\ i \in Items /\ row[i].there /\ row'[i].there
      /\ row'[i].shop = IF RegistersShop(e) THEN NewShopId
                        ELSE IF SetsShop(e) THEN j.shopId ELSE row[i].shop
      /\ \A t \in row'[i].tags : tag'[t] # NoName
  BY Committed
<1>4. job'[e] = NoJob /\ \A q \in Savers \ {e} : job'[q] = Overtake(e, {i})[q]
  BY <1>2 DEF Overtake
<1>5. \A q \in Savers \ {e} :
        /\ JobAges(q) /\ job'[q] \in Job /\ job'[q].pc = job[q].pc
        /\ job[q].pc # "idle" /\ job[q].item = i => job'[q].overtaken
  <2> SUFFICES ASSUME NEW q \in Savers \ {e}
               PROVE  /\ JobAges(q) /\ job'[q] \in Job /\ job'[q].pc = job[q].pc
                      /\ job[q].pc # "idle" /\ job[q].item = i => job'[q].overtaken
    OBVIOUS
  <2>1. /\ JobAges(q)
        /\ job[q].pc # "idle" /\ job[q].item \in {i} => job'[q].overtaken
    <3> HIDE DEF i
    <3>1. LET t == Overtake(e, {i})[q] IN
          /\ t = job[q] \/ t = [job[q] EXCEPT !.overtaken = TRUE]
          /\ q # e /\ job[q].pc # "idle" /\ job[q].item \in {i} => t.overtaken
      BY <1>1, Overtaken
    <3> QED
      BY <3>1, <1>4 DEF JobAges
  <2>2. job[q] \in Job
    BY <1>1
  <2> QED
    BY <2>1, <2>2, AgedJob DEF JobAges
<1>6. job' \in [Savers -> Job] /\ job'[e].pc = "idle"
  <2>1. DOMAIN job' = Savers /\ job' = [q \in DOMAIN job' |-> job'[q]]
    BY <1>2 DEF Overtake
  <2>2. \A q \in Savers : job'[q] \in Job
    BY <1>4, <1>5, NoJobOK
  <2> QED
    BY <2>1, <2>2, <1>4, NoJobOK
<1>7. \A q \in Savers \ {e} : job[q].pc # "locked"
  BY <1>1, <1>2
<1>8. /\ shop' \in [ShopIds -> [name : ShopNames \cup {NoName}, auto : BOOLEAN]]
      /\ tag' \in [TagIds -> TagNames \cup {NoName}]
  <2>1. j.shop \in ShopNames /\ j.tags \subseteq TagNames
    BY <1>1 DEF Job
  <2>2. j.tags # {} => (CHOOSE n \in j.tags : TRUE) \in TagNames
    BY <2>1
  <2> HIDE DEF j
  <2> QED
    BY <1>1, <1>2, <2>1, <2>2
<1>9. \A s \in ShopIds : shop[s] # NoShop => shop'[s] = shop[s]
  <2>1. RegistersShop(e) => NewShopId \in ShopIds
    BY <1>2 DEF Room
  <2>2. RegistersShop(e) => shop[NewShopId] = NoShop
    BY <2>1, NewShopIsFresh DEF EditsInvariant
  <2> QED
    BY <1>2, <2>2
<1>10. RegistersShop(e) => NewShopId \in ShopIds /\ shop'[NewShopId] = [name |-> j.shop, auto |-> TRUE]
  BY <1>2 DEF Room
<1>11. j.shop \in ShopNames /\ j.shopId \in ShopIds \cup {0}
  BY <1>1 DEF Job
<1>12. \A k \in Items : /\ \A t \in row[k].tags : tag[t] # NoName
                        /\ row[k].shop # 0 => shop[row[k].shop] # NoShop
                        /\ row[k].shop \in ShopIds \cup {0} /\ row[k].tags \subseteq TagIds
  BY <1>1 DEF EditsInvariant, EditsTypeOK, ItemFields
<1>13. \A t \in TagIds : tag[t] # NoName => tag'[t] # NoName
  <2>1. j.tags \subseteq TagNames
    BY <1>1 DEF Job
  <2>2. j.tags # {} => (CHOOSE n \in j.tags : TRUE) \in TagNames
    BY <2>1
  <2> HIDE DEF j
  <2> QED
    BY <1>1, <1>2, <2>2
<1>14. \A k \in Items : /\ \A t \in row'[k].tags : tag'[t] # NoName
                        /\ row'[k].shop # 0 => shop'[row'[k].shop] # NoShop
  <2> TAKE k \in Items
  <2>1. CASE k # i
    <3>1. row'[k] = row[k]
      BY <1>1, <1>3, <2>1
    <3> QED
      BY <3>1, <1>9, <1>12, <1>13
  <2>2. CASE k = i
    <3>1. RegistersShop(e) => shop'[row'[i].shop] # NoShop
      BY <1>3, <1>10, <1>11, <1>1 DEF NoShop
    <3>2. ~RegistersShop(e) /\ SetsShop(e) => row'[i].shop # 0 /\ shop[row'[i].shop] # NoShop
      BY <1>2, <1>3 DEF RegistersShop, Writable
    <3>3. ~SetsShop(e) => ~RegistersShop(e) /\ row'[i].shop = row[i].shop
      BY <1>3 DEF RegistersShop
    <3>4. ~RegistersShop(e) => row'[i].shop \in ShopIds \cup {0}
      BY <1>3, <1>11, <1>12
    <3> QED
      BY <2>2, <3>1, <3>2, <3>3, <3>4, <1>3, <1>9, <1>12
  <2> QED
    BY <2>1, <2>2
<1>15. row' \in [Items -> ItemFields]
  BY <1>1, <1>3
<1>16. EditsTypeOK'
  <2>1. \A q \in Savers : (holder' = q) <=> (job'[q].pc = "locked")
    BY <1>1, <1>2, <1>5, <1>6, <1>7
  <2> QED
    BY <2>1, <1>2, <1>6, <1>8, <1>14, <1>15 DEF EditsInvariant, EditsTypeOK
<1>17. RowsOK'
  <2>1. \A s \in ShopIds : shop'[s].name = NoName => shop'[s] = NoShop
    BY <1>1, <1>2, <1>11 DEF EditsInvariant, RowsOK
  <2>2. ASSUME NEW k \in Items, ~row'[k].there PROVE row'[k].tags = {} /\ row'[k].shop = 0
    <3>1. k # i
      BY <2>2, <1>3
    <3>2. row'[k] = row[k]
      BY <1>1, <1>3, <3>1
    <3> QED
      BY <2>2, <3>2 DEF EditsInvariant, RowsOK
  <2> QED
    BY <2>1, <2>2 DEF RowsOK
<1>18. AdminOK'
  BY <1>2 DEF EditsInvariant, AdminOK
<1>19. SavedShopsDistinct'
  <2>1. RegistersShop(e) => \A s \in ShopIds : shop[s].auto => shop[s].name # j.shop
    BY <1>1, <1>2 DEF NameIsFree
  <2>2. \A s \in ShopIds : \/ shop'[s] = shop[s]
                           \/ /\ RegistersShop(e) /\ s = NewShopId
                              /\ shop'[s].name = j.shop
    BY <1>2
  <2>3. SavedShopsDistinct
    BY DEF EditsInvariant
  <2> HIDE DEF j
  <2> QED
    BY <2>1, <2>2, <2>3 DEF SavedShopsDistinct
<1>20. ASSUME NEW q \in Savers PROVE NameIsFree(q)' /\ CarriesOver(q)'
  <2>1. CASE q = e
    BY <2>1, <1>6 DEF NameIsFree, CarriesOver
  <2>2. CASE q # e
    <3>1. job[q].pc # "idle" /\ ~job'[q].overtaken => job[q].item # i
      BY <1>5, <2>2
    <3>2. job[q].item \in Items
      BY <1>1 DEF Job
    <3>3. job[q].pc # "idle" /\ ~job'[q].overtaken => row'[job[q].item] = row[job[q].item]
      BY <1>1, <1>3, <3>1, <3>2
    <3>4. row[job[q].item].shop # 0 => shop'[row[job[q].item].shop] = shop[row[job[q].item].shop]
      BY <3>2, <1>9, <1>12
    <3> QED
      BY <2>2, <3>3, <3>4, <1>5, <1>7, JobKept
  <2> QED
    BY <2>1, <2>2
<1> QED
  BY <1>16, <1>17, <1>18, <1>19, <1>20 DEF EditsInvariant

-----------------------------------------------------------------------------
(* Deletions, and the tag and shop pages. *)

\* What the invariant says of the items.
LEMMA RowFacts ==
  ASSUME EditsInvariant, NEW i \in Items
  PROVE  /\ row[i] \in ItemFields /\ row[i].tags \in SUBSET TagIds
         /\ row[i].shop \in ShopIds \cup {0}
         /\ ~row[i].there => row[i].tags = {} /\ row[i].shop = 0
         /\ \A t \in row[i].tags : tag[t] # NoName
         /\ row[i].shop # 0 => shop[row[i].shop] # NoShop
<1>1. row[i] \in ItemFields
  BY DEF EditsInvariant, EditsTypeOK
<1> QED
  BY <1>1 DEF EditsInvariant, EditsTypeOK, RowsOK, ItemFields

\* A step that overtakes the jobs on some items: the locals of every job but
\* for that stay.
LEMMA AgedJobs ==
  ASSUME EditsInvariant, NEW items, job' = Overtake(NoName, items)
  PROVE  /\ job' \in [Savers -> Job]
         /\ \A q \in Savers : /\ JobAges(q) /\ job'[q].pc = job[q].pc
                              /\ job[q].pc # "idle" /\ job[q].item \in items =>
                                   job'[q].overtaken
<1>1. job \in [Savers -> Job] /\ NoName \notin Savers
  BY EditsAssumption DEF EditsInvariant, EditsTypeOK
<1>2. ASSUME NEW q \in Savers
      PROVE  /\ JobAges(q) /\ job'[q].pc = job[q].pc /\ job'[q] \in Job
             /\ job[q].pc # "idle" /\ job[q].item \in items => job'[q].overtaken
  <2>1. /\ JobAges(q)
        /\ job[q].pc # "idle" /\ job[q].item \in items => job'[q].overtaken
    <3>1. LET t == Overtake(NoName, items)[q] IN
          /\ t = job[q] \/ t = [job[q] EXCEPT !.overtaken = TRUE]
          /\ q # NoName /\ job[q].pc # "idle" /\ job[q].item \in items => t.overtaken
      BY <1>1, Overtaken
    <3> QED
      BY <3>1, <1>1 DEF JobAges
  <2>2. job[q] \in Job
    BY <1>1
  <2> QED
    BY <2>1, <2>2, AgedJob DEF JobAges
<1>3. DOMAIN job' = Savers /\ job' = [q \in DOMAIN job' |-> job'[q]]
  BY DEF Overtake
<1> QED
  BY <1>2, <1>3

\* A deleted item overtakes the jobs on it.
LEMMA DeleteRowStep ==
  ASSUME EditsInvariant, NEW i \in Items, DeleteRow(i)
  PROVE  EditsInvariant'
<1>1. /\ row' = [row EXCEPT ![i] = [row[i] EXCEPT !.there = FALSE, !.tags = {}, !.shop = 0]]
      /\ job' = Overtake(NoName, {i})
      /\ UNCHANGED <<tag, shop, admin, holder>>
      /\ row \in [Items -> ItemFields] /\ row[i] \in ItemFields
  BY DEF DeleteRow, EditsInvariant, EditsTypeOK
<1>2. /\ job' \in [Savers -> Job]
      /\ \A q \in Savers : /\ JobAges(q) /\ job'[q].pc = job[q].pc
                           /\ job[q].pc # "idle" /\ job[q].item \in {i} => job'[q].overtaken
  BY <1>1, AgedJobs
<1>3. row'[i] = [row[i] EXCEPT !.there = FALSE, !.tags = {}, !.shop = 0]
  BY <1>1
<1>4. row'[i] \in ItemFields /\ row'[i].tags = {} /\ row'[i].shop = 0
  BY <1>1, <1>3 DEF ItemFields
<1>5. /\ row' \in [Items -> ItemFields]
      /\ \A k \in Items \ {i} : row'[k] = row[k]
  BY <1>1, <1>3, <1>4
<1>6. EditsTypeOK'
  <2>1. \A k \in Items : /\ \A t \in row'[k].tags : tag'[t] # NoName
                         /\ row'[k].shop # 0 => shop'[row'[k].shop] # NoShop
    BY <1>1, <1>4, <1>5, RowFacts
  <2>2. \A q \in Savers : (holder' = q) <=> (job'[q].pc = "locked")
    BY <1>1, <1>2 DEF EditsInvariant, EditsTypeOK
  <2> QED
    BY <2>1, <2>2, <1>1, <1>2, <1>5 DEF EditsInvariant, EditsTypeOK
<1>7. (RowsOK /\ AdminOK /\ SavedShopsDistinct)'
  BY <1>1, <1>4, <1>5 DEF EditsInvariant, RowsOK, AdminOK, SavedShopsDistinct
<1>8. ASSUME NEW q \in Savers PROVE NameIsFree(q)' /\ CarriesOver(q)'
  <2>1. job[q].item \in Items
    BY DEF EditsInvariant, EditsTypeOK, Job
  <2>2. job[q].pc # "idle" /\ ~job'[q].overtaken => row'[job[q].item] = row[job[q].item]
    BY <1>2, <1>5, <2>1
  <2> QED
    BY <2>2, <1>1, <1>2, JobKept
<1> QED
  BY <1>6, <1>7, <1>8 DEF EditsInvariant

\* A step that changes the tags of items, and the jobs no more than by
\* overtaking them.
LEMMA TagsChange ==
  ASSUME EditsInvariant, UNCHANGED <<shop, holder>>,
         tag' \in [TagIds -> TagNames \cup {NoName}],
         row' \in [Items -> ItemFields],
         \A i \in Items : /\ row'[i].there = row[i].there /\ row'[i].kept = row[i].kept
                          /\ row'[i].typed = row[i].typed /\ row'[i].shop = row[i].shop
                          /\ ~row[i].there => row'[i].tags = {}
                          /\ \A t \in row'[i].tags : tag'[t] # NoName,
         job' \in [Savers -> Job],
         \A q \in Savers : JobAges(q) /\ job'[q].pc = job[q].pc,
         admin' \in [pc : {"idle", "rename", "merge"}, tag : TagIds \cup {0},
                     name : TagNames \cup {NoName}, target : TagIds \cup {0},
                     listed : SUBSET Items, withTarget : SUBSET Items],
         AdminOK'
  PROVE  EditsInvariant'
<1>1. EditsTypeOK'
  BY DEF EditsInvariant, EditsTypeOK
<1>2. (RowsOK /\ SavedShopsDistinct)'
  BY DEF EditsInvariant, RowsOK, SavedShopsDistinct
<1>3. ASSUME NEW q \in Savers PROVE NameIsFree(q)' /\ CarriesOver(q)'
  <2>1. job[q].item \in Items
    BY DEF EditsInvariant, EditsTypeOK, Job
  <2> QED
    BY <2>1, JobKept
<1> QED
  BY <1>1, <1>2, <1>3 DEF EditsInvariant

\* A tag page at rest.
LEMMA NoAdminOK ==
  ASSUME admin' = NoAdmin
  PROVE  /\ admin' \in [pc : {"idle", "rename", "merge"}, tag : TagIds \cup {0},
                        name : TagNames \cup {NoName}, target : TagIds \cup {0},
                        listed : SUBSET Items, withTarget : SUBSET Items]
         /\ AdminOK'
  BY DEF NoAdmin, AdminOK

\* Nothing of a job changes.
LEMMA JobsStay ==
  ASSUME EditsInvariant, job' = job
  PROVE  /\ job' \in [Savers -> Job]
         /\ \A q \in Savers : JobAges(q) /\ job'[q].pc = job[q].pc
  BY DEF EditsInvariant, EditsTypeOK, JobAges

\* The tag page reads the tag, the name and the items that have either.
LEMMA ReadTagStep ==
  ASSUME EditsInvariant, NEW t \in TagIds, NEW n \in TagNames, ReadTag(t, n)
  PROVE  EditsInvariant'
<1> DEFINE existing == TagsOf({n}) \ {t}
           target == Min(existing)
<1>1. /\ UNCHANGED <<row, tag, shop, job, holder>>
      /\ admin' = IF existing = {}
           THEN [NoAdmin EXCEPT !.pc = "rename", !.tag = t, !.name = n]
           ELSE [NoAdmin EXCEPT !.pc = "merge", !.tag = t, !.target = target,
                   !.listed = TaggedWith(t),
                   !.withTarget = TaggedWith(t) \cap TaggedWith(target)]
  BY DEF ReadTag
<1>2. existing \in SUBSET TagIds /\ existing \in SUBSET Nat /\ t \notin existing
  BY EditsAssumption DEF TagsOf, TagIds
<1>3. existing # {} => target \in existing
  BY <1>2, MinOK
<1>4. /\ TaggedWith(t) \in SUBSET Items
      /\ TaggedWith(t) \cap TaggedWith(target) \in SUBSET TaggedWith(t)
  BY DEF TaggedWith
<1>5. /\ admin' \in [pc : {"idle", "rename", "merge"}, tag : TagIds \cup {0},
                     name : TagNames \cup {NoName}, target : TagIds \cup {0},
                     listed : SUBSET Items, withTarget : SUBSET Items]
      /\ AdminOK'
  <2> HIDE DEF existing, target
  <2>1. CASE existing = {}
    <3>1. admin' = [pc |-> "rename", tag |-> t, name |-> n, target |-> 0,
                    listed |-> {}, withTarget |-> {}]
      BY <2>1, <1>1 DEF NoAdmin
    <3> QED
      BY <3>1 DEF AdminOK
  <2>2. CASE existing # {}
    <3> DEFINE listed == TaggedWith(t)
               both == TaggedWith(t) \cap TaggedWith(target)
    <3>1. admin' = [pc |-> "merge", tag |-> t, name |-> NoName, target |-> target,
                    listed |-> listed, withTarget |-> both]
      BY <2>2, <1>1 DEF NoAdmin
    <3>2. target \in TagIds /\ target # t
      BY <2>2, <1>2, <1>3
    <3>3. listed \in SUBSET Items /\ both \in SUBSET Items /\ both \subseteq listed
      BY <1>4
    <3> HIDE DEF listed, both
    <3> QED
      BY <3>1, <3>2, <3>3 DEF AdminOK
  <2> QED
    BY <2>1, <2>2
<1>6. /\ tag' \in [TagIds -> TagNames \cup {NoName}]
      /\ row' \in [Items -> ItemFields]
  BY <1>1 DEF EditsInvariant, EditsTypeOK
<1> QED
  BY <1>1, <1>5, <1>6, RowFacts, JobsStay, TagsChange

\* A rename or its error.
LEMMA RenameTagStep ==
  ASSUME EditsInvariant, RenameTag
  PROVE  EditsInvariant'
<1>1. /\ admin' = NoAdmin /\ UNCHANGED <<row, shop, job, holder>>
      /\ \/ tag' = tag
         \/ tag[admin.tag] # NoName /\ tag' = [tag EXCEPT ![admin.tag] = admin.name]
      /\ admin.tag \in TagIds /\ admin.name \in TagNames
      /\ tag \in [TagIds -> TagNames \cup {NoName}]
      /\ row' \in [Items -> ItemFields]
      /\ NoName \notin TagNames
  BY EditsAssumption DEF RenameTag, EditsInvariant, EditsTypeOK, AdminOK
<1>2. tag' \in [TagIds -> TagNames \cup {NoName}]
  BY <1>1
<1>3. \A t \in TagIds : tag[t] # NoName => tag'[t] # NoName
  BY <1>1
<1> QED
  BY <1>1, <1>2, <1>3, RowFacts, JobsStay, NoAdminOK, TagsChange

\* A merge overtakes the jobs on the items that it writes.
LEMMA MergeTagStep ==
  ASSUME EditsInvariant, MergeTag
  PROVE  EditsInvariant'
<1> DEFINE source == admin.tag
           target == admin.target
           added == admin.listed \ admin.withTarget
           tags(i) == (row[i].tags \ {source}) \cup (IF i \in added THEN {target} ELSE {})
<1>1. /\ source \in TagIds /\ target \in TagIds /\ source # target
      /\ admin' = NoAdmin /\ UNCHANGED <<shop, holder>>
      /\ tag \in [TagIds -> TagNames \cup {NoName}]
      /\ row \in [Items -> ItemFields]
  BY DEF MergeTag, EditsInvariant, AdminOK, EditsTypeOK
<1>2. CASE tag' # tag
  <2>1. /\ tag' = [tag EXCEPT ![source] = NoName] /\ tag[target] # NoName
        /\ row' = [i \in Items |-> [row[i] EXCEPT !.tags = tags(i)]]
        /\ job' = Overtake(NoName, TaggedWith(source))
        /\ \A i \in admin.listed : row[i].there
    BY <1>2 DEF MergeTag
  <2>2. \A i \in Items : /\ tags(i) \in SUBSET TagIds
                         /\ \A t \in tags(i) : t # source /\ tag[t] # NoName
                         /\ ~row[i].there => tags(i) = {}
    <3> TAKE i \in Items
    <3>1. /\ row[i].tags \in SUBSET TagIds /\ \A t \in row[i].tags : tag[t] # NoName
          /\ ~row[i].there => row[i].tags = {}
      BY RowFacts
    <3>2. i \in added => row[i].there
      BY <2>1
    <3> QED
      BY <1>1, <2>1, <3>1, <3>2
  <2> HIDE DEF tags
  <2>3. \A i \in Items : /\ row'[i] \in ItemFields /\ row'[i].tags = tags(i)
                         /\ row'[i].there = row[i].there /\ row'[i].kept = row[i].kept
                         /\ row'[i].typed = row[i].typed /\ row'[i].shop = row[i].shop
    <3> TAKE i \in Items
    <3>1. row'[i] = [row[i] EXCEPT !.tags = tags(i)] /\ row[i] \in ItemFields
      BY <1>1, <2>1
    <3> DEFINE new == tags(i)
    <3>2. new \in SUBSET TagIds /\ row'[i] = [row[i] EXCEPT !.tags = new]
      BY <3>1, <2>2
    <3> HIDE DEF new
    <3>3. /\ row'[i] \in ItemFields /\ row'[i].tags = new
          /\ row'[i].there = row[i].there /\ row'[i].kept = row[i].kept
          /\ row'[i].typed = row[i].typed /\ row'[i].shop = row[i].shop
      BY ONLY <3>1, <3>2 DEF ItemFields
    <3> QED
      BY <3>3 DEF new
  <2>4. row' \in [Items -> ItemFields]
    BY <2>1, <2>3
  <2>5. /\ job' \in [Savers -> Job]
        /\ \A q \in Savers : JobAges(q) /\ job'[q].pc = job[q].pc
    BY <2>1, AgedJobs
  <2>6. /\ tag' \in [TagIds -> TagNames \cup {NoName}]
        /\ \A t \in TagIds \ {source} : tag'[t] = tag[t]
    BY <1>1, <2>1
  <2>7. \A i \in Items : /\ ~row[i].there => row'[i].tags = {}
                         /\ \A t \in row'[i].tags : tag'[t] # NoName
    BY <2>2, <2>3, <2>6
  <2> QED
    BY <1>1, <2>3, <2>4, <2>5, <2>6, <2>7, NoAdminOK, TagsChange
<1>3. CASE tag' = tag
  <2>1. \/ UNCHANGED <<row, job>>
        \/ tag[source] # NoName /\ tag' = [tag EXCEPT ![source] = NoName]
    BY DEF MergeTag
  <2>2. UNCHANGED <<row, job>>
    BY <2>1, <1>1, <1>3
  <2>3. row' \in [Items -> ItemFields] /\ tag' \in [TagIds -> TagNames \cup {NoName}]
    BY <1>1, <1>3, <2>2
  <2> QED
    BY <1>1, <1>3, <2>2, <2>3, RowFacts, JobsStay, NoAdminOK, TagsChange
<1> QED
  BY <1>2, <1>3

\* A deleted tag leaves the items that had it.
LEMMA DeleteTagStep ==
  ASSUME EditsInvariant, NEW t \in TagIds, DeleteTag(t)
  PROVE  EditsInvariant'
<1>1. /\ tag' = [tag EXCEPT ![t] = NoName]
      /\ row' = [i \in Items |-> [row[i] EXCEPT !.tags = row[i].tags \ {t}]]
      /\ job' = Overtake(NoName, TaggedWith(t))
      /\ UNCHANGED <<shop, admin, holder>>
      /\ tag \in [TagIds -> TagNames \cup {NoName}]
      /\ row \in [Items -> ItemFields]
  BY DEF DeleteTag, EditsInvariant, EditsTypeOK
<1>2. \A i \in Items : /\ row'[i] \in ItemFields /\ row'[i].tags = row[i].tags \ {t}
                       /\ row'[i].there = row[i].there /\ row'[i].kept = row[i].kept
                       /\ row'[i].typed = row[i].typed /\ row'[i].shop = row[i].shop
  <2> TAKE i \in Items
  <2> DEFINE tags == row[i].tags \ {t}
  <2>1. row'[i] = [row[i] EXCEPT !.tags = tags] /\ row[i] \in ItemFields
    BY <1>1
  <2>2. tags \in SUBSET TagIds
    BY RowFacts
  <2> HIDE DEF tags
  <2>3. /\ row'[i] \in ItemFields /\ row'[i].tags = tags
        /\ row'[i].there = row[i].there /\ row'[i].kept = row[i].kept
        /\ row'[i].typed = row[i].typed /\ row'[i].shop = row[i].shop
    BY ONLY <2>1, <2>2 DEF ItemFields
  <2> QED
    BY <2>3 DEF tags
<1>3. row' \in [Items -> ItemFields]
  BY <1>1, <1>2
<1>4. /\ tag' \in [TagIds -> TagNames \cup {NoName}]
      /\ \A k \in TagIds \ {t} : tag'[k] = tag[k]
  BY <1>1
<1>5. \A i \in Items : /\ ~row[i].there => row'[i].tags = {}
                       /\ \A k \in row'[i].tags : tag'[k] # NoName
  BY <1>2, <1>4, RowFacts
<1>6. /\ job' \in [Savers -> Job]
      /\ \A q \in Savers : JobAges(q) /\ job'[q].pc = job[q].pc
  BY <1>1, AgedJobs
<1>7. /\ admin' \in [pc : {"idle", "rename", "merge"}, tag : TagIds \cup {0},
                     name : TagNames \cup {NoName}, target : TagIds \cup {0},
                     listed : SUBSET Items, withTarget : SUBSET Items]
      /\ AdminOK'
  BY <1>1 DEF EditsInvariant, EditsTypeOK, AdminOK
<1> QED
  BY <1>1, <1>2, <1>3, <1>4, <1>5, <1>6, <1>7, TagsChange

\* The shop page registers a shop, which no save did.
LEMMA CreateShopStep ==
  ASSUME EditsInvariant, NEW n \in ShopNames, CreateShop(n)
  PROVE  EditsInvariant'
<1>1. /\ NewShopId \in ShopIds
      /\ shop' = [shop EXCEPT ![NewShopId] = [name |-> n, auto |-> FALSE]]
      /\ UNCHANGED <<row, tag, job, admin, holder>>
      /\ shop \in [ShopIds -> [name : ShopNames \cup {NoName}, auto : BOOLEAN]]
      /\ NoName \notin ShopNames
  BY EditsAssumption DEF CreateShop, EditsInvariant, EditsTypeOK
<1>2. shop[NewShopId] = NoShop
  BY <1>1, NewShopIsFresh DEF EditsInvariant
<1>3. \A s \in ShopIds : /\ shop[s] # NoShop => shop'[s] = shop[s]
                         /\ shop'[s] = shop[s] \/ (shop'[s].name = n /\ ~shop'[s].auto)
  BY <1>1, <1>2
<1>4. shop' \in [ShopIds -> [name : ShopNames \cup {NoName}, auto : BOOLEAN]]
  BY <1>1
<1>5. EditsTypeOK'
  <2>1. \A k \in Items : /\ \A t \in row'[k].tags : tag'[t] # NoName
                         /\ row'[k].shop # 0 => shop'[row'[k].shop] # NoShop
    BY <1>1, <1>3, RowFacts
  <2> QED
    BY <2>1, <1>1, <1>4 DEF EditsInvariant, EditsTypeOK
<1>6. (RowsOK /\ AdminOK)'
  BY <1>1, <1>3 DEF EditsInvariant, RowsOK, AdminOK
<1>7. SavedShopsDistinct'
  <2>1. \A s \in ShopIds : shop'[s].auto => shop'[s] = shop[s]
    BY <1>3
  <2> QED
    BY <2>1 DEF EditsInvariant, SavedShopsDistinct
<1>8. ASSUME NEW q \in Savers PROVE NameIsFree(q)' /\ CarriesOver(q)'
  <2>1. job[q].item \in Items /\ JobAges(q)
    BY <1>1 DEF EditsInvariant, EditsTypeOK, Job, JobAges
  <2>2. row[job[q].item].shop # 0 =>
          shop'[row[job[q].item].shop].name = shop[row[job[q].item].shop].name
    BY <2>1, <1>3, RowFacts
  <2>3. \A s \in ShopIds : shop'[s].auto => shop'[s] = shop[s]
    BY <1>3
  <2> QED
    BY <2>1, <2>2, <2>3, <1>1, JobKept
<1> QED
  BY <1>5, <1>6, <1>7, <1>8 DEF EditsInvariant

\* A deleted shop is nobody's.
LEMMA DeleteShopStep ==
  ASSUME EditsInvariant, NEW s \in ShopIds, DeleteShop(s)
  PROVE  EditsInvariant'
<1>1. /\ shop' = [shop EXCEPT ![s] = NoShop]
      /\ row' = [i \in Items |-> IF row[i].shop = s THEN [row[i] EXCEPT !.shop = 0]
                                 ELSE row[i]]
      /\ job' = Overtake(NoName, InShop(s))
      /\ UNCHANGED <<tag, admin, holder>>
      /\ shop \in [ShopIds -> [name : ShopNames \cup {NoName}, auto : BOOLEAN]]
      /\ row \in [Items -> ItemFields]
  BY DEF DeleteShop, EditsInvariant, EditsTypeOK
<1>2. /\ job' \in [Savers -> Job]
      /\ \A q \in Savers : /\ JobAges(q) /\ job'[q].pc = job[q].pc
                           /\ job[q].pc # "idle" /\ job[q].item \in InShop(s) =>
                                job'[q].overtaken
  BY <1>1, AgedJobs
<1>3. /\ shop' \in [ShopIds -> [name : ShopNames \cup {NoName}, auto : BOOLEAN]]
      /\ shop'[s] = NoShop /\ \A k \in ShopIds \ {s} : shop'[k] = shop[k]
      /\ ~NoShop.auto /\ s # 0
  BY <1>1, EditsAssumption DEF NoShop, ShopIds
<1>4. \A i \in Items : /\ row'[i] \in ItemFields /\ row'[i].tags = row[i].tags
                       /\ row'[i].there = row[i].there
                       /\ row'[i].shop = IF row[i].shop = s THEN 0 ELSE row[i].shop
                       /\ row[i].shop # s => row'[i] = row[i]
  <2> TAKE i \in Items
  <2>1. ASSUME NEW r \in ItemFields, NEW u, u = [r EXCEPT !.shop = 0]
        PROVE  u \in ItemFields /\ u.tags = r.tags /\ u.there = r.there /\ u.shop = 0
    BY <2>1 DEF ItemFields
  <2>2. CASE row[i].shop = s
    <3>1. row'[i] = [row[i] EXCEPT !.shop = 0] /\ row[i] \in ItemFields
      BY <1>1, <2>2
    <3> QED
      BY <3>1, <2>1, <2>2
  <2>3. CASE row[i].shop # s
    BY <1>1, <2>3
  <2> QED
    BY <2>2, <2>3
<1>5. row' \in [Items -> ItemFields]
  BY <1>1, <1>4
<1>6. EditsTypeOK'
  <2>1. \A k \in Items : /\ \A t \in row'[k].tags : tag'[t] # NoName
                         /\ row'[k].shop # 0 => shop'[row'[k].shop] # NoShop
    BY <1>1, <1>3, <1>4, RowFacts
  <2>2. \A q \in Savers : (holder' = q) <=> (job'[q].pc = "locked")
    BY <1>1, <1>2 DEF EditsInvariant, EditsTypeOK
  <2> QED
    BY <2>1, <2>2, <1>1, <1>2, <1>3, <1>5 DEF EditsInvariant, EditsTypeOK
<1>7. (RowsOK /\ AdminOK)'
  BY <1>1, <1>3, <1>4 DEF EditsInvariant, RowsOK, AdminOK
<1>8. SavedShopsDistinct'
  BY <1>3 DEF EditsInvariant, SavedShopsDistinct
<1>9. ASSUME NEW q \in Savers PROVE NameIsFree(q)' /\ CarriesOver(q)'
  <2>1. job[q].item \in Items
    BY DEF EditsInvariant, EditsTypeOK, Job
  <2>2. /\ CarriesOver(q)
        /\ row[job[q].item].shop \in ShopIds \cup {0}
        /\ ~row[job[q].item].there => row[job[q].item].shop = 0
    BY <2>1, RowFacts DEF EditsInvariant
  <2>3. job[q].pc # "idle" /\ ~job'[q].overtaken => row[job[q].item].shop # s
    <3>1. job[q].pc # "idle" /\ ~job'[q].overtaken => job[q].item \notin InShop(s)
      BY <1>2
    <3> QED
      BY <3>1, <2>1, <2>2, <1>3 DEF InShop
  <2>4. \A k \in ShopIds : shop'[k].auto => shop'[k] = shop[k]
    BY <1>3
  <2> QED
    BY <2>1, <2>2, <2>3, <2>4, <1>2, <1>3, <1>4, JobKept
<1> QED
  BY <1>6, <1>7, <1>8, <1>9 DEF EditsInvariant

-----------------------------------------------------------------------------
(* Theorems. *)

\* Every step keeps the invariant.
LEMMA EditsStep == EditsInvariant /\ [EditsNext]_editsVars => EditsInvariant'
<1> SUFFICES ASSUME EditsInvariant, [EditsNext]_editsVars PROVE EditsInvariant'
  OBVIOUS
<1>1. ASSUME NEW e \in Savers, NEW i \in Items,
             \/ ReadForAutosave(e, i) \/ ReadForInline(e, i)
             \/ BeginBulk(e, i) \/ BeginBooth(e, i)
      PROVE  EditsInvariant'
  BY <1>1, ReadStep
<1>2. ASSUME NEW e \in Savers, LookUp(e) \/ Commit(e) \/ CommitRaises(e)
      PROVE  EditsInvariant'
  BY <1>2, LookUpStep, CommitStep, CommitRaisesStep
<1>3. ASSUME NEW i \in Items, DeleteRow(i) PROVE EditsInvariant'
  BY <1>3, DeleteRowStep
<1>4. ASSUME NEW t \in TagIds, (\E n \in TagNames : ReadTag(t, n)) \/ DeleteTag(t)
      PROVE  EditsInvariant'
  BY <1>4, ReadTagStep, DeleteTagStep
<1>5. ASSUME RenameTag \/ MergeTag PROVE EditsInvariant'
  BY <1>5, RenameTagStep, MergeTagStep
<1>6. ASSUME NEW n \in ShopNames, CreateShop(n) PROVE EditsInvariant'
  BY <1>6, CreateShopStep
<1>7. ASSUME NEW s \in ShopIds, DeleteShop(s) PROVE EditsInvariant'
  BY <1>7, DeleteShopStep
<1>8. CASE UNCHANGED editsVars
  <2>1. UNCHANGED <<row, tag, shop, job, admin, holder>>
    BY <1>8 DEF editsVars
  <2>2. EditsTypeOK' /\ (RowsOK /\ AdminOK /\ SavedShopsDistinct)'
    BY <2>1 DEF EditsInvariant, EditsTypeOK, RowsOK, AdminOK, SavedShopsDistinct
  <2>3. ASSUME NEW q \in Savers PROVE NameIsFree(q)' /\ CarriesOver(q)'
    BY <2>1 DEF EditsInvariant, NameIsFree, CarriesOver, RegistersShop, SetsShop
  <2> QED
    BY <2>2, <2>3 DEF EditsInvariant
<1> QED
  BY <1>1, <1>2, <1>3, <1>4, <1>5, <1>6, <1>7, <1>8 DEF EditsNext

\* The edits keep their invariant, whoever saves, renames, merges and deletes.
THEOREM EditsCorrect == EditsSpec => []EditsInvariant
  BY EditsInitInvariant, EditsStep, PTL DEF EditsSpec

\* Type correctness, with the foreign keys and the owner of the lock.
THEOREM EditsTypeCorrect == EditsSpec => []EditsTypeOK
<1>1. EditsInvariant => EditsTypeOK
  BY DEF EditsInvariant
<1> QED
  BY <1>1, EditsCorrect, PTL

\* The write lock makes "look up, else insert" of get_or_create_shop one step
\* for saves: they never register two shops of one name.
THEOREM ShopsRegisteredOnce == EditsSpec => []SavedShopsDistinct
<1>1. EditsInvariant => SavedShopsDistinct
  BY DEF EditsInvariant
<1> QED
  BY <1>1, EditsCorrect, PTL

\* A save leaves what its user did not edit as it is, unless another commit
\* changed the item after the save had read it.
THEOREM CarriesOverAll == EditsSpec => OthersCarryOver
<1>1. ASSUME EditsInvariant, NEW e \in Savers, Commit(e), ~job[e].overtaken
      PROVE  LET old == row[job[e].item]
                 new == row'[job[e].item]
             IN /\ job[e].kind \in {"autosave", "inline", "booth"} => new.kept = old.kept
                /\ job[e].kind \in {"inline", "bulk"} => new.typed = old.typed
                /\ job[e].kind = "inline" =>
                     (old.shop = 0 \/ shop'[new.shop].name = shop[old.shop].name)
                /\ job[e].kind = "bulk" => old.tags \subseteq new.tags
  <2> DEFINE i == job[e].item
  <2>1. job[e].pc = "locked" /\ job[e] \in Job /\ CarriesOver(e)
    BY <1>1 DEF Commit, EditsInvariant, EditsTypeOK
  <2>2. /\ i \in Items
        /\ row'[i].typed = FieldsOf(e).typed /\ row'[i].kept = FieldsOf(e).kept
        /\ row'[i].shop = IF RegistersShop(e) THEN NewShopId
                          ELSE IF SetsShop(e) THEN job[e].shopId ELSE row[i].shop
        /\ TagsAfter(e) \subseteq row'[i].tags
    BY <1>1, Committed
  <2>3. job[e].kind \in {"autosave", "inline", "booth"} => row'[i].kept = row[i].kept
    BY <1>1, <2>1, <2>2 DEF FieldsOf, CarriesOver
  <2>4. job[e].kind \in {"inline", "bulk"} => row'[i].typed = row[i].typed
    BY <1>1, <2>1, <2>2 DEF FieldsOf, CarriesOver
  <2>5. ASSUME job[e].kind = "inline", row[i].shop # 0
        PROVE  shop'[row'[i].shop].name = shop[row[i].shop].name
    <3>1. job[e].shopId = row[i].shop
      BY <1>1, <2>1, <2>5 DEF CarriesOver
    <3>2. ~RegistersShop(e) /\ SetsShop(e)
      BY <3>1, <2>5 DEF RegistersShop, SetsShop
    <3>3. row'[i].shop = row[i].shop
      BY <2>2, <3>1, <3>2
    <3>4. row[i].shop \in ShopIds
      BY <1>1, <2>2, <2>5, RowFacts
    <3>5. shop'[row[i].shop] = shop[row[i].shop]
      BY <1>1, <3>2, <3>4 DEF Commit
    <3> QED
      BY <3>3, <3>5
  <2>6. job[e].kind = "bulk" => row[i].tags \subseteq row'[i].tags
    BY <2>2 DEF TagsAfter
  <2> QED
    BY <2>3, <2>4, <2>5, <2>6
<1>2. EditsInvariant =>
       [\A e \in Savers : (Commit(e) /\ ~job[e].overtaken) =>
         LET old == row[job[e].item]
             new == row'[job[e].item]
         IN /\ job[e].kind \in {"autosave", "inline", "booth"} => new.kept = old.kept
            /\ job[e].kind \in {"inline", "bulk"} => new.typed = old.typed
            /\ job[e].kind = "inline" =>
                 (old.shop = 0 \/ shop'[new.shop].name = shop[old.shop].name)
            /\ job[e].kind = "bulk" => old.tags \subseteq new.tags]_editsVars
  BY <1>1
<1> QED
  BY <1>2, EditsCorrect, PTL DEF OthersCarryOver

\* Every item with the source of a merge gets its target and keeps its other
\* tags (_merge of tag_service.py), unless a save came between the merge's
\* reads and its commit.
THEOREM MergesFollow == EditsSpec => MergedTagsFollow
<1>1. ASSUME EditsInvariant, MergeTag, tag' # tag, NEW i \in Items
      PROVE  LET old == row[i].tags
                 new == row'[i].tags
             IN /\ new \ {admin.target} = old \ {admin.tag, admin.target}
                /\ (admin.tag \in old /\ i \in admin.listed
                    /\ (i \in admin.withTarget => admin.target \in old))
                     => admin.target \in new
  <2> DEFINE tags == (row[i].tags \ {admin.tag})
                       \cup (IF i \in admin.listed \ admin.withTarget THEN {admin.target} ELSE {})
  <2>1. /\ row'[i] = [row[i] EXCEPT !.tags = tags]
        /\ row[i] \in ItemFields
        /\ admin.tag # admin.target
    BY <1>1, RowFacts DEF MergeTag, EditsInvariant, AdminOK
  <2>2. row'[i].tags = tags
    <3> HIDE DEF tags
    <3> QED
      BY <2>1 DEF ItemFields
  <2> QED
    BY <2>1, <2>2
<1>2. EditsInvariant =>
       [MergeTag /\ tag' # tag =>
         \A i \in Items :
           LET old == row[i].tags
               new == row'[i].tags
           IN /\ new \ {admin.target} = old \ {admin.tag, admin.target}
              /\ (admin.tag \in old /\ i \in admin.listed
                  /\ (i \in admin.withTarget => admin.target \in old))
                   => admin.target \in new]_editsVars
  BY <1>1
<1> QED
  BY <1>2, EditsCorrect, PTL DEF MergedTagsFollow

=============================================================================
