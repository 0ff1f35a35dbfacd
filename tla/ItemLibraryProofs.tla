-------------------------- MODULE ItemLibraryProofs --------------------------
(***************************************************************************)
(* Proofs about ItemLibrary, for any files, links, pages and number of     *)
(* items: no merge loses a download or a chosen thumbnail.                 *)
(***************************************************************************)
EXTENDS ItemLibrary, ItemEditsProofs

-----------------------------------------------------------------------------
(* The inductive invariant. *)

\* A row that is not there holds nothing.
Absent == \A i \in Ids \ There : item[i] = NoItem

\* What a page that has not aged shows is there, and the main files it offers
\* to reduce to one have one name, those aside that reconcile has dropped.
PageOK(e) ==
  /\ page[e].pc = "merge" => page[e].item # page[e].target
  /\ page[e].pc = "group" /\ ~page[e].stale =>
       /\ page[e].target \in There \ page[e].group
       /\ page[e].group \subseteq There
       /\ \A i, j \in page[e].group \cup {page[e].target} :
            item[i].primary # NoFile /\ item[j].primary # NoFile =>
              SameName(item[i].primary, item[j].primary)

LibraryInvariant ==
  /\ LibraryTypeOK /\ Absent
  /\ \A e \in Editors : PageOK(e)

-----------------------------------------------------------------------------
(* Ids. *)

\* The id of a new item is free.
LEMMA FreshIsFree == FreshId \notin There
<1>1. There \cup {0} \in SUBSET (0 .. MaxItem) /\ MaxItem \in Nat
  BY LibraryAssumption DEF There, Ids
<1> DEFINE m == Max(There \cup {0})
<1>2. m \in 0 .. MaxItem /\ \A y \in There : y <= m
  BY <1>1, GreatestOf
<1> HIDE DEF m
<1>3. 1 + m \notin There
  BY <1>2
<1> QED BY <1>3 DEF FreshId, m

-----------------------------------------------------------------------------
(* Rows and pages. *)

\* What the steps write into a row is well typed.
LEMMA RowTypes ==
  ASSUME NEW r \in ItemRow
  PROVE  /\ NoItem \in ItemRow
         /\ \A u \in Urls \cup {NoUrl} :
              /\ [r EXCEPT !.url = u] \in ItemRow
              /\ [r EXCEPT !.url = u].there = r.there
              /\ [r EXCEPT !.url = u].primary = r.primary
              /\ [r EXCEPT !.url = u].attached = r.attached
              /\ [r EXCEPT !.url = u].thumb = r.thumb
         /\ \A t \in {"none", "fetched", "chosen"} :
              /\ WithThumb(r, t) \in ItemRow
              /\ WithThumb(r, t).there = r.there
              /\ WithThumb(r, t).primary = r.primary
              /\ WithThumb(r, t).attached = r.attached
              /\ r.thumb = "chosen" => WithThumb(r, t).thumb = "chosen"
<1>1. NoItem \in ItemRow
  BY DEF ItemRow, NoItem
<1>2. ASSUME NEW u \in Urls \cup {NoUrl}, NEW s, s = [r EXCEPT !.url = u]
      PROVE  /\ s \in ItemRow /\ s.there = r.there /\ s.primary = r.primary
             /\ s.attached = r.attached /\ s.thumb = r.thumb
  BY <1>2 DEF ItemRow
<1>3. ASSUME NEW t \in {"none", "fetched", "chosen"}, NEW s, s = WithThumb(r, t)
      PROVE  /\ s \in ItemRow /\ s.there = r.there /\ s.primary = r.primary
             /\ s.attached = r.attached
             /\ r.thumb = "chosen" => s.thumb = "chosen"
  <2>1. CASE t = "chosen" \/ r.thumb = "none"
    <3>1. s = [r EXCEPT !.thumb = t]
      BY <1>3, <2>1 DEF WithThumb
    <3> QED BY <2>1, <3>1 DEF ItemRow
  <2>2. CASE ~(t = "chosen" \/ r.thumb = "none")
    BY <1>3, <2>2 DEF WithThumb
  <2> QED BY <2>1, <2>2
<1>4. ASSUME NEW u \in Urls \cup {NoUrl}
      PROVE  /\ [r EXCEPT !.url = u] \in ItemRow
             /\ [r EXCEPT !.url = u].there = r.there
             /\ [r EXCEPT !.url = u].primary = r.primary
             /\ [r EXCEPT !.url = u].attached = r.attached
             /\ [r EXCEPT !.url = u].thumb = r.thumb
  BY <1>2
<1>5. ASSUME NEW t \in {"none", "fetched", "chosen"}
      PROVE  /\ WithThumb(r, t) \in ItemRow
             /\ WithThumb(r, t).there = r.there
             /\ WithThumb(r, t).primary = r.primary
             /\ WithThumb(r, t).attached = r.attached
             /\ r.thumb = "chosen" => WithThumb(r, t).thumb = "chosen"
  BY <1>3
<1> QED BY ONLY <1>1, <1>4, <1>5

\* Pages stay well typed and truthful when only the rows of ids, which are on
\* no page that has not aged, go or change their main file.
LEMMA PagesStay ==
  ASSUME LibraryTypeOK, \A e \in Editors : PageOK(e), NEW ids,
         \A i \in There \ ids :
           i \in There' /\ item'[i].primary \in {item[i].primary, NoFile},
         NEW e \in Editors, page' \in [Editors -> Page],
         \/ page'[e] = NoPage
         \/ page'[e] = page[e] /\ ids = {}
         \/ page'[e] = [page[e] EXCEPT !.stale = @ \/ OnPage(e) \cap ids # {}]
  PROVE  PageOK(e)'
<1>1. CASE page'[e] = NoPage
  BY <1>1 DEF PageOK, NoPage
<1>2. CASE page'[e] = page[e] /\ ids = {}
  BY <1>2 DEF PageOK, SameName
<1>3. CASE page'[e] = [page[e] EXCEPT !.stale = @ \/ OnPage(e) \cap ids # {}]
  <2>1. ASSUME NEW r \in Page, NEW b, NEW s, s = [r EXCEPT !.stale = b]
        PROVE  /\ s.pc = r.pc /\ s.item = r.item /\ s.target = r.target
               /\ s.group = r.group /\ s.stale = b
    BY <2>1 DEF Page
  <2>2. /\ page'[e].pc = page[e].pc /\ page'[e].item = page[e].item
        /\ page'[e].target = page[e].target /\ page'[e].group = page[e].group
        /\ page'[e].stale = (page[e].stale \/ OnPage(e) \cap ids # {})
    BY <1>3, <2>1 DEF LibraryTypeOK
  <2>3. page[e].pc = "merge" => page[e].item # page[e].target
    BY DEF PageOK
  <2>4. ASSUME page[e].pc = "group", ~page[e].stale, OnPage(e) \cap ids = {}
        PROVE  /\ page[e].target \in There' \ page[e].group
               /\ page[e].group \subseteq There'
               /\ \A i, j \in page[e].group \cup {page[e].target} :
                    item'[i].primary # NoFile /\ item'[j].primary # NoFile =>
                      SameName(item'[i].primary, item'[j].primary)
    <3>1. /\ page[e].target \in There \ page[e].group
          /\ page[e].group \subseteq There
          /\ \A i, j \in page[e].group \cup {page[e].target} :
               item[i].primary # NoFile /\ item[j].primary # NoFile =>
                 SameName(item[i].primary, item[j].primary)
      BY <2>4 DEF PageOK
    <3>2. \A i \in page[e].group \cup {page[e].target} : i \in There \ ids
      BY <2>4, <3>1 DEF OnPage
    <3> QED BY <3>1, <3>2
  <2>5. ~page'[e].stale => ~page[e].stale /\ OnPage(e) \cap ids = {}
    BY <2>2
  <2> QED BY <2>2, <2>3, <2>4, <2>5 DEF PageOK, SameName
<1> QED BY <1>1, <1>2, <1>3

\* Pages only age.
LEMMA AgedPages ==
  ASSUME LibraryTypeOK, NEW ids
  PROVE  /\ \A done \in Editors, p \in Page :
              Turn(done, p, ids) =>
                /\ page' \in [Editors -> Page] /\ page'[done] = p
                /\ \A e \in Editors \ {done} :
                     page'[e] = [page[e] EXCEPT !.stale = @ \/ OnPage(e) \cap ids # {}]
         /\ Age(ids) =>
              /\ page' \in [Editors -> Page]
              /\ \A e \in Editors :
                   page'[e] = [page[e] EXCEPT !.stale = @ \/ OnPage(e) \cap ids # {}]
<1>1. ASSUME NEW r \in Page, NEW b \in BOOLEAN
      PROVE  [r EXCEPT !.stale = b] \in Page
  BY DEF Page
<1>2. ASSUME NEW e \in Editors
      PROVE  [page[e] EXCEPT !.stale = @ \/ OnPage(e) \cap ids # {}] \in Page
  <2>1. page[e] \in Page /\ (page[e].stale \/ OnPage(e) \cap ids # {}) \in BOOLEAN
    BY DEF LibraryTypeOK
  <2> QED BY <1>1, <2>1
<1> QED BY <1>2 DEF Turn, Age

\* merge_item_into: the target takes the files of the sources, and nothing else
\* changes.
LEMMA Merged ==
  ASSUME LibraryTypeOK, Absent, NEW dups, dups \subseteq There,
         NEW t \in There \ dups, item' = MergedInto(item, dups, t)
  PROVE  /\ item' \in [Ids -> ItemRow] /\ Absent'
         /\ There' = There \ dups
         /\ \A i \in There \ dups : /\ item'[i].primary = item[i].primary
                                    /\ i # t => item'[i] = item[i]
         /\ item[t].thumb = "chosen" => item'[t].thumb = "chosen"
         /\ item'[t].attached \subseteq Files
         /\ item'[t].attached =
              item[t].attached \cup UNION {Downloads(item[d]) : d \in dups}
<1> DEFINE pictured == {i \in dups \cup {t} : item[i].thumb # "none"}
           keeper == IF t \in pictured THEN t ELSE Min(pictured)
           thumb == IF pictured = {} THEN "none" ELSE item[keeper].thumb
           taken == UNION {Downloads(item[d]) : d \in dups}
           files == item[t].attached \cup taken
<1>1. There \subseteq Ids /\ Ids \subseteq Nat /\ t \in Ids
  BY LibraryAssumption DEF There, Ids
<1>2. \A i \in Ids : item[i] \in ItemRow
  BY DEF LibraryTypeOK
<1>3. thumb \in {"none", "fetched", "chosen"}
  <2>1. CASE pictured = {}
    BY <2>1
  <2>2. CASE pictured # {}
    <3>1. pictured \in SUBSET Nat /\ pictured \subseteq Ids
      BY <1>1
    <3>2. Min(pictured) \in pictured
      <4> HIDE DEF pictured
      <4> QED BY <2>2, <3>1, LeastOf
    <3>3. keeper \in Ids
      BY <1>1, <3>1, <3>2
    <3>4. item[keeper].thumb \in {"none", "fetched", "chosen"}
      <4> HIDE DEF keeper
      <4> QED BY <1>2, <3>3 DEF ItemRow
    <3> QED BY <2>2, <3>4
  <2> QED BY <2>1, <2>2
<1>4. item[t].thumb = "chosen" => thumb = "chosen"
  OBVIOUS
<1>5. files \in SUBSET Files
  <2>1. \A i \in Ids : item[i].primary \in Files \cup {NoFile} /\ item[i].attached \subseteq Files
    BY <1>2 DEF ItemRow
  <2>2. \A d \in dups : Downloads(item[d]) \subseteq Files
    BY <1>1, <2>1 DEF Downloads
  <2>3. taken \subseteq Files
    BY <2>2
  <2>4. item[t].attached \subseteq Files
    BY <1>1, <2>1
  <2> HIDE DEF taken
  <2> QED BY <2>3, <2>4
<1>6. item' = [i \in Ids |->
                 IF i \in dups THEN NoItem
                 ELSE IF i # t THEN item[i]
                 ELSE [item[t] EXCEPT !.attached = files, !.thumb = thumb]]
  BY ONLY item' = MergedInto(item, dups, t)
     DEF MergedInto, files, taken, thumb, keeper, pictured
<1>7. ASSUME NEW s, s = [item[t] EXCEPT !.attached = files, !.thumb = thumb]
      PROVE  /\ s \in ItemRow /\ s.there = item[t].there
             /\ s.primary = item[t].primary
             /\ s.attached = files /\ s.thumb = thumb
  <2>1. ASSUME NEW r \in ItemRow, NEW x \in SUBSET Files,
               NEW y \in {"none", "fetched", "chosen"}, 
               s = [r EXCEPT !.attached = x, !.thumb = y]
        PROVE  /\ s \in ItemRow /\ s.there = r.there /\ s.primary = r.primary
               /\ s.attached = x /\ s.thumb = y
    BY <2>1 DEF ItemRow
  <2> HIDE DEF files, thumb
  <2> QED BY <1>1, <1>2, <1>3, <1>5, <1>7, <2>1
<1> HIDE DEF thumb
<1>8. /\ item' \in [Ids -> ItemRow]
      /\ item'[t].primary = item[t].primary /\ item'[t].there = item[t].there
      /\ item'[t].attached = files /\ item'[t].thumb = thumb
      /\ \A i \in dups : item'[i] = NoItem
      /\ \A i \in Ids \ (dups \cup {t}) : item'[i] = item[i]
  <2> HIDE DEF files
  <2>1. NoItem \in ItemRow
    BY DEF NoItem, ItemRow
  <2> QED BY <1>1, <1>2, <1>6, <1>7, <2>1
<1>9. There' = There \ dups /\ Absent'
  <2>1. \A i \in Ids : i \in There <=> item[i].there
    BY DEF There
  <2>2. \A i \in Ids : i \in There' <=> item'[i].there
    BY DEF There
  <2>3. ~NoItem.there
    BY DEF NoItem
  <2>4. There' \subseteq Ids
    BY DEF There
  <2>5. \A i \in Ids : i \in There' <=> i \in There \ dups
    BY <1>1, <1>8, <2>1, <2>2, <2>3
  <2>6. There' = There \ dups
    BY <1>1, <2>4, <2>5
  <2> QED BY <1>1, <1>8, <2>6 DEF Absent
<1>10. \A i \in There \ dups : /\ item'[i].primary = item[i].primary
                               /\ i # t => item'[i] = item[i]
  BY <1>1, <1>8
<1> QED BY <1>4, <1>5, <1>8, <1>9, <1>10

-----------------------------------------------------------------------------
(* Kinds of steps. *)

\* A chosen thumbnail stays while its item does, unless reconcile drops a file
\* of the item.
ThumbsStay ==
  \A i \in Ids :
    (item[i].thumb = "chosen" /\ item'[i].there) =>
      item'[i].thumb = "chosen" \/ DropReference(i)

\* A page stays, is turned or ages.
PageAges(e, ids) ==
  \/ page'[e] = NoPage
  \/ page'[e] = page[e] /\ ids = {}
  \/ page'[e] = [page[e] EXCEPT !.stale = @ \/ OnPage(e) \cap ids # {}]

PagesAge(ids) ==
  page' \in [Editors -> Page] /\ \A e \in Editors : PageAges(e, ids)

\* Items are merged.
LEMMA MergeKept ==
  ASSUME LibraryInvariant, NEW dups, dups \subseteq There,
         NEW t \in There \ dups, item' = MergedInto(item, dups, t),
         uploaded' = uploaded, failures' \in BOOLEAN, PagesAge(dups)
  PROVE  LibraryInvariant' /\ ThumbsStay /\ Held \subseteq Held'
<1>1. /\ LibraryTypeOK /\ Absent
      /\ \A e \in Editors : PageOK(e)
  BY DEF LibraryInvariant
<1>2. /\ item' \in [Ids -> ItemRow] /\ Absent'
      /\ There' = There \ dups
      /\ \A i \in There \ dups : /\ item'[i].primary = item[i].primary
                                 /\ i # t => item'[i] = item[i]
      /\ item[t].thumb = "chosen" => item'[t].thumb = "chosen"
      /\ item'[t].attached = item[t].attached \cup UNION {Downloads(item[d]) : d \in dups}
  BY <1>1, Merged
<1>3. Downloads(item'[t]) = UNION {Downloads(item[d]) : d \in dups \cup {t}}
  <2> DEFINE taken == UNION {Downloads(item[d]) : d \in dups}
  <2>1. NoFile \notin taken
    BY DEF Downloads
  <2>2. UNION {Downloads(item[d]) : d \in dups \cup {t}} = taken \cup Downloads(item[t])
    OBVIOUS
  <2>3. item'[t].attached = item[t].attached \cup taken /\ item'[t].primary = item[t].primary
    BY <1>2
  <2> HIDE DEF taken
  <2> QED BY <2>1, <2>2, <2>3 DEF Downloads
<1>4. \A i \in There' \ {t} : item'[i] = item[i] /\ i \in There /\ i \notin dups
  BY <1>2
<1>6. Held' = Held
  <2>1. t \in There' /\ There = There' \cup dups
    BY <1>2
  <2>2. Held' = UNION {Downloads(item'[i]) : i \in There'}
    BY DEF Held, Downloads
  <2>3. ASSUME NEW f \in Held PROVE f \in Held'
    <3>1. PICK i \in There : f \in Downloads(item[i])
      BY <2>3 DEF Held
    <3>2. CASE i \in dups \cup {t}
      BY <1>3, <2>1, <2>2, <3>1, <3>2
    <3>3. CASE i \in There' \ {t}
      BY <1>4, <2>2, <3>1, <3>3
    <3> QED BY <2>1, <3>2, <3>3
  <2>4. ASSUME NEW f \in Held' PROVE f \in Held
    <3>1. PICK i \in There' : f \in Downloads(item'[i])
      BY <2>2, <2>4
    <3>2. CASE i = t
      BY <1>3, <2>1, <3>1, <3>2 DEF Held
    <3>3. CASE i # t
      BY <1>4, <3>1, <3>3 DEF Held
    <3> QED BY <3>2, <3>3
  <2> QED BY <2>3, <2>4
<1>7. ASSUME NEW e \in Editors PROVE PageOK(e)'
  <2>1. \A i \in There \ dups : i \in There' /\ item'[i].primary \in {item[i].primary, NoFile}
    BY <1>2
  <2> QED BY <1>1, <2>1, PagesStay DEF PagesAge, PageAges
<1>8. LibraryTypeOK'
  BY <1>1, <1>2 DEF LibraryTypeOK, PagesAge
<1>9. ThumbsStay
  <2>1. \A i \in Ids : item'[i].there => i \in There'
    BY DEF There
  <2> QED BY <1>2, <1>4, <2>1 DEF ThumbsStay
<1> QED BY <1>1, <1>2, <1>6, <1>7, <1>8, <1>9 DEF LibraryInvariant

\* Items go.
LEMMA GoneKept ==
  ASSUME LibraryInvariant, NEW ids, ids \subseteq Ids,
         item' = [i \in Ids |-> IF i \in ids THEN NoItem ELSE item[i]],
         uploaded' = uploaded, failures' = failures, PagesAge(ids)
  PROVE  /\ LibraryInvariant' /\ ThumbsStay /\ There' = There \ ids
         /\ \A f \in Held \ Held' : \E i \in ids : f \in Downloads(item[i])
<1>1. /\ LibraryTypeOK /\ Absent
      /\ \A e \in Editors : PageOK(e)
  BY DEF LibraryInvariant
<1>2. NoItem \in ItemRow /\ ~NoItem.there
  BY DEF NoItem, ItemRow
<1>3. item' \in [Ids -> ItemRow]
  BY <1>1, <1>2 DEF LibraryTypeOK
<1>4. There' = There \ ids
  <2>1. \A i \in Ids : i \in There <=> item[i].there
    BY DEF There
  <2>2. \A i \in Ids : i \in There' <=> item'[i].there
    BY DEF There
  <2>3. There \subseteq Ids /\ There' \subseteq Ids
    BY DEF There
  <2> QED BY <1>2, <2>1, <2>2, <2>3
<1>5. \A i \in There' : item'[i] = item[i] /\ i \in There
  BY <1>4 DEF There
<1>6. Absent'
  BY <1>1, <1>4 DEF Absent
<1>9. \A f \in Held \ Held' : \E i \in ids : f \in Downloads(item[i])
  <2> TAKE f \in Held \ Held'
  <2>1. PICK i \in There : f \in Downloads(item[i])
    BY DEF Held
  <2>2. i \notin There'
    BY <1>5, <2>1 DEF Held, Downloads
  <2> QED BY <1>4, <2>1, <2>2
<1>10. ASSUME NEW e \in Editors PROVE PageOK(e)'
  <2>1. \A i \in There \ ids : i \in There' /\ item'[i].primary \in {item[i].primary, NoFile}
    BY <1>4, <1>5
  <2> QED BY <1>1, <2>1, PagesStay DEF PagesAge, PageAges
<1>11. ThumbsStay
  <2>1. \A i \in Ids : item'[i].there => i \in There'
    BY DEF There
  <2> QED BY <1>5, <2>1 DEF ThumbsStay
<1>12. LibraryTypeOK'
  BY <1>1, <1>3 DEF LibraryTypeOK, PagesAge
<1> QED BY <1>1, <1>4, <1>6, <1>9, <1>10, <1>11, <1>12 DEF LibraryInvariant

\* The row of an item that is there is written, and its files stay or go.
LEMMA RowKept ==
  ASSUME LibraryInvariant, NEW i \in There, NEW r \in ItemRow,
         item' = [item EXCEPT ![i] = r],
         r.there, r.primary \in {item[i].primary, NoFile},
         item[i].thumb = "chosen" => r.thumb = "chosen" \/ DropReference(i),
         uploaded' = uploaded, failures' = failures, PagesAge({})
  PROVE  /\ LibraryInvariant' /\ ThumbsStay
         /\ r.primary = item[i].primary /\ r.attached = item[i].attached =>
              Held' = Held
<1>1. /\ LibraryTypeOK /\ Absent
      /\ \A e \in Editors : PageOK(e)
  BY DEF LibraryInvariant
<1>2. i \in Ids /\ item[i].there
  BY DEF There
<1>3. /\ item' \in [Ids -> ItemRow] /\ item'[i] = r
      /\ \A j \in Ids \ {i} : item'[j] = item[j]
  BY <1>1, <1>2 DEF LibraryTypeOK
<1>4. There' = There
  <2>1. \A j \in Ids : item'[j].there <=> item[j].there
    BY <1>2, <1>3
  <2> QED BY <2>1 DEF There
<1>5. r.primary = item[i].primary /\ r.attached = item[i].attached =>
        \A j \in There : Downloads(item'[j]) = Downloads(item[j])
  <2>1. \A j \in There \ {i} : item'[j] = item[j]
    BY <1>3 DEF There
  <2> QED BY <1>3, <2>1 DEF Downloads
<1>6. Absent'
  BY <1>1, <1>2, <1>3, <1>4 DEF Absent, There
<1>8. r.primary = item[i].primary /\ r.attached = item[i].attached => Held' = Held
  BY <1>4, <1>5 DEF Held, Downloads
<1>9. ASSUME NEW e \in Editors PROVE PageOK(e)'
  <2>1. \A j \in There \ {} : j \in There' /\ item'[j].primary \in {item[j].primary, NoFile}
    BY <1>3, <1>4 DEF There
  <2> QED BY <1>1, <2>1, PagesStay DEF PagesAge, PageAges
<1>10. ThumbsStay
  BY <1>2, <1>3 DEF ThumbsStay
<1>11. LibraryTypeOK'
  BY <1>1, <1>3 DEF LibraryTypeOK, PagesAge
<1> QED BY <1>1, <1>6, <1>8, <1>9, <1>10, <1>11 DEF LibraryInvariant

\* A page is turned and nothing is written.
LEMMA PageKept ==
  ASSUME LibraryInvariant, NEW done \in Editors, NEW p \in Page,
         page' = [page EXCEPT ![done] = p], PageOK(done)',
         item' = item, uploaded' = uploaded, failures' = failures
  PROVE  LibraryInvariant' /\ ThumbsStay /\ Held' = Held
<1>1. /\ LibraryTypeOK /\ Absent
      /\ \A e \in Editors : PageOK(e)
  BY DEF LibraryInvariant
<1>2. There' = There /\ Held' = Held
  BY DEF There, Held, Downloads
<1>3. Absent'
  BY <1>1, <1>2 DEF Absent
<1>4. page' \in [Editors -> Page]
  BY <1>1 DEF LibraryTypeOK
<1>5. ASSUME NEW e \in Editors \ {done} PROVE PageOK(e)'
  <2>1. page'[e] = page[e]
    BY <1>1 DEF LibraryTypeOK
  <2> QED BY <1>1, <1>2, <2>1 DEF PageOK, SameName
<1> QED BY <1>1, <1>2, <1>3, <1>4, <1>5 DEF LibraryInvariant, LibraryTypeOK, ThumbsStay

-----------------------------------------------------------------------------
(* The operations. *)

\* How the actions change the pages.
LEMMA Ages ==
  ASSUME LibraryTypeOK, NEW ids
  PROVE  /\ NoPage \in Page
         /\ \A e \in Editors : Turn(e, NoPage, ids) => PagesAge(ids)
         /\ Age(ids) => PagesAge(ids)
         /\ page' = page => PagesAge({})
<1>1. NoPage \in Page
  BY DEF NoPage, Page
<1>2. ASSUME NEW done \in Editors, Turn(done, NoPage, ids) PROVE PagesAge(ids)
  <2>1. /\ page' \in [Editors -> Page] /\ page'[done] = NoPage
        /\ \A e \in Editors \ {done} :
             page'[e] = [page[e] EXCEPT !.stale = @ \/ OnPage(e) \cap ids # {}]
    BY <1>1, <1>2, AgedPages, ZenonT(40)
  <2> QED BY <2>1 DEF PagesAge, PageAges
<1>3. ASSUME Age(ids) PROVE PagesAge(ids)
  BY <1>3, AgedPages DEF PagesAge, PageAges
<1>4. ASSUME page' = page PROVE PagesAge({})
  BY <1>4 DEF PagesAge, PageAges, LibraryTypeOK
<1> QED BY <1>1, <1>2, <1>3, <1>4

\* A step that writes no row, and turns one page to nothing.
LEMMA NothingWritten ==
  ASSUME LibraryInvariant, NEW e \in Editors, item' = item, Turn(e, NoPage, {}),
         uploaded' = uploaded, failures' = failures
  PROVE  LibraryInvariant' /\ ThumbsStay /\ Held' = Held
<1>1. LibraryTypeOK
  BY DEF LibraryInvariant
<1>2. item' = [i \in Ids |-> IF i \in {} THEN NoItem ELSE item[i]]
  BY <1>1 DEF LibraryTypeOK
<1>3. PagesAge({})
  BY <1>1, Ages
<1>4. {} \subseteq Ids
  OBVIOUS
<1>5. LibraryInvariant' /\ ThumbsStay
  BY <1>2, <1>3, <1>4, GoneKept
<1>6. Held' = Held
  BY DEF Held, There, Downloads
<1> QED BY <1>5, <1>6

\* A new file is nobody else's, and its twin is there.
LEMMA UploadKept ==
  ASSUME LibraryInvariant, NEW e \in Editors, NEW f \in Files, Upload(e, f)
  PROVE  LibraryInvariant' /\ ThumbsStay /\ Held \subseteq Held'
<1> DEFINE i == FreshId
           r == [NoItem EXCEPT !.there = TRUE, !.primary = f]
<1>1. /\ LibraryTypeOK /\ Absent
      /\ \A d \in Editors : PageOK(d)
  BY DEF LibraryInvariant
<1>2. /\ i \in Ids \ There /\ f \in Files \ uploaded /\ f # NoFile
      /\ item' = [item EXCEPT ![i] = r]
      /\ uploaded' = uploaded \cup {f} /\ failures' = failures
  BY FreshIsFree, LibraryAssumption DEF Upload
<1>3. /\ r \in ItemRow /\ r.there /\ r.primary = f /\ r.attached = {}
      /\ r.thumb = "none" /\ Downloads(r) = {f}
  <2>1. ASSUME NEW x \in ItemRow, NEW y, y = [x EXCEPT !.there = TRUE, !.primary = f]
        PROVE  /\ y \in ItemRow /\ y.there /\ y.primary = f
               /\ y.attached = x.attached /\ y.thumb = x.thumb
    BY <2>1 DEF ItemRow
  <2>2. NoItem \in ItemRow /\ NoItem.attached = {} /\ NoItem.thumb = "none"
    BY DEF NoItem, ItemRow
  <2>3. /\ r \in ItemRow /\ r.there /\ r.primary = f /\ r.attached = {}
        /\ r.thumb = "none"
    BY <2>1, <2>2
  <2> QED BY <1>2, <2>3 DEF Downloads
<1> HIDE DEF i, r
<1>4. /\ item' \in [Ids -> ItemRow] /\ item'[i] = r
      /\ \A j \in Ids \ {i} : item'[j] = item[j]
  BY <1>1, <1>2, <1>3 DEF LibraryTypeOK
<1>5. There' = There \cup {i}
  <2>1. \A j \in Ids : j \in There <=> item[j].there
    BY DEF There
  <2>2. \A j \in Ids : j \in There' <=> item'[j].there
    BY DEF There
  <2>3. There \subseteq Ids /\ There' \subseteq Ids
    BY DEF There
  <2> QED BY <1>2, <1>3, <1>4, <2>1, <2>2, <2>3
<1>6. \A j \in There : item'[j] = item[j] /\ j # i
  BY <1>2, <1>4 DEF There
<1>7. Absent'
  BY <1>1, <1>2, <1>4, <1>5 DEF Absent
<1>9. Held' = Held \cup {f}
  <2>1. Held' = UNION {Downloads(item'[j]) : j \in There'}
    BY DEF Held, Downloads
  <2>2. ASSUME NEW g \in Held PROVE g \in Held'
    BY <1>5, <1>6, <2>1, <2>2 DEF Held
  <2>3. f \in Held'
    BY <1>3, <1>4, <1>5, <2>1
  <2>4. ASSUME NEW g \in Held' PROVE g \in Held \/ g = f
    BY <1>3, <1>4, <1>5, <1>6, <2>1, <2>4 DEF Held
  <2> QED BY <2>2, <2>3, <2>4
<1>10. ThumbsStay
  <2>1. r.thumb # "chosen" /\ item[i].thumb # "chosen"
    BY <1>1, <1>2, <1>3 DEF Absent, NoItem
  <2> QED BY <1>2, <1>4, <2>1 DEF ThumbsStay
<1>11. \A d \in Editors : page'[d] = page[d] => PageOK(d)'
  <2>1. \A j \in There \ {} : j \in There' /\ item'[j].primary \in {item[j].primary, NoFile}
    BY <1>5, <1>6
  <2>2. \A j \in There : item'[j].primary = item[j].primary
    BY <1>6
  <2> QED BY <1>1, <1>5, <2>2 DEF PageOK, SameName
<1>12. page' \in [Editors -> Page] /\ \A d \in Editors : PageOK(d)'
  <2>1. CASE page' = page
    BY <1>1, <1>11, <2>1 DEF LibraryTypeOK
  <2>2. ASSUME NEW t \in FileGroup(NameOf[f]),
               page' = [page EXCEPT ![e] = [NoPage EXCEPT !.pc = "group",
                                              !.target = t, !.group = {i}]]
        PROVE  page' \in [Editors -> Page] /\ \A d \in Editors : PageOK(d)'
    <3> DEFINE p == [NoPage EXCEPT !.pc = "group", !.target = t, !.group = {i}]
    <3>1. t \in There /\ NameOf[item[t].primary] = NameOf[f] /\ t \in Ids
      BY DEF FileGroup, There
    <3>2. p \in Page /\ p.pc = "group" /\ p.target = t /\ p.group = {i}
      <4>1. ASSUME NEW x \in Page, NEW y,
                   y = [x EXCEPT !.pc = "group", !.target = t, !.group = {i}]
            PROVE  y \in Page /\ y.pc = "group" /\ y.target = t /\ y.group = {i}
        BY <1>2, <3>1, <4>1 DEF Page
      <4> QED BY <1>1, <4>1, Ages
    <3> HIDE DEF p
    <3>3. page' \in [Editors -> Page] /\ page'[e] = p
          /\ \A d \in Editors \ {e} : page'[d] = page[d]
      BY <1>1, <2>2, <3>2 DEF LibraryTypeOK, p
    <3>4. PageOK(e)'
      BY <1>3, <1>4, <1>5, <1>6, <3>1, <3>2, <3>3 DEF PageOK, SameName
    <3> QED BY <1>11, <3>3, <3>4
  <2> QED BY <2>1, <2>2 DEF Upload, i
<1>13. LibraryTypeOK'
  BY <1>1, <1>2, <1>4, <1>12 DEF LibraryTypeOK
<1> QED BY <1>1, <1>2, <1>7, <1>9, <1>10, <1>12, <1>13 DEF LibraryInvariant

\* A merge of duplicates moves their files to one item.
LEMMA AutoMergeKept ==
  ASSUME LibraryInvariant, NEW u \in Urls, AutoMerge(u)
  PROVE  LibraryInvariant' /\ ThumbsStay /\ Held \subseteq Held'
<1>1. LibraryTypeOK
  BY DEF LibraryInvariant
<1>2. PICK dups \in SUBSET Duplicates(u) :
        /\ dups # {}
        /\ IF dups = Duplicates(u) THEN UNCHANGED failures
                                   ELSE ~failures /\ failures' = TRUE
        /\ item' = MergedInto(item, dups, Oldest(u))
        /\ Age(dups)
  BY DEF AutoMerge
<1>3. Linked(u) \subseteq There /\ Linked(u) \in SUBSET Nat /\ Linked(u) # {}
  <2>1. Linked(u) \subseteq There /\ Linked(u) \in SUBSET Nat
    BY LibraryAssumption DEF Linked, There, Ids
  <2>2. Duplicates(u) \subseteq Linked(u) /\ Duplicates(u) # {}
    BY <1>2 DEF Duplicates
  <2> QED BY <2>1, <2>2
<1>4. Oldest(u) \in Linked(u) /\ \A i \in Linked(u) : Oldest(u) <= i
  BY <1>3, LeastOf DEF Oldest
<1>5. Oldest(u) \notin Duplicates(u)
  BY <1>3, <1>4 DEF Duplicates
<1>6. dups \subseteq There /\ Oldest(u) \in There \ dups
  BY <1>2, <1>3, <1>4, <1>5 DEF Duplicates
<1>7. failures' \in BOOLEAN /\ uploaded' = uploaded /\ PagesAge(dups)
  BY <1>1, <1>2, Ages DEF LibraryTypeOK, AutoMerge
<1> QED BY <1>2, <1>6, <1>7, MergeKept

\* So does the merge that a new link leads to.
LEMMA MergeByLinkKept ==
  ASSUME LibraryInvariant, NEW e \in Editors, MergeByLink(e)
  PROVE  LibraryInvariant' /\ ThumbsStay /\ Held \subseteq Held'
<1> DEFINE s == page[e].item
           t == page[e].target
<1>1. LibraryTypeOK /\ s # t
  BY DEF LibraryInvariant, PageOK, MergeByLink
<1>2. uploaded' = uploaded /\ failures' = failures /\ failures' \in BOOLEAN
  BY <1>1 DEF MergeByLink, LibraryTypeOK
<1>3. CASE {s, t} \subseteq There
  <2>1. item' = MergedInto(item, {s}, t) /\ Turn(e, NoPage, {s})
    BY <1>3 DEF MergeByLink
  <2>2. {s} \subseteq There /\ t \in There \ {s} /\ PagesAge({s})
    BY <1>1, <1>3, <2>1, Ages
  <2> QED BY <1>2, <2>1, <2>2, MergeKept
<1>4. CASE ~({s, t} \subseteq There)
  <2>1. item' = item /\ Turn(e, NoPage, {})
    BY <1>4 DEF MergeByLink
  <2> QED BY <1>2, <2>1, NothingWritten
<1> QED BY <1>3, <1>4

\* A deleted item takes its files along, and pages that show it age.
LEMMA DeleteItemKept ==
  ASSUME LibraryInvariant, NEW i \in Ids, DeleteItem(i)
  PROVE  LibraryInvariant' /\ ThumbsStay
<1>1. LibraryTypeOK
  BY DEF LibraryInvariant
<1>2. item' = [j \in Ids |-> IF j \in {i} THEN NoItem ELSE item[j]]
  BY <1>1 DEF DeleteItem, LibraryTypeOK
<1>3. uploaded' = uploaded /\ failures' = failures /\ PagesAge({i}) /\ {i} \subseteq Ids
  BY <1>1, Ages DEF DeleteItem
<1> QED BY <1>2, <1>3, GoneKept

\* A dropped reference leaves the item and its link.
LEMMA DropReferenceKept ==
  ASSUME LibraryInvariant, NEW i \in Ids, DropReference(i)
  PROVE  LibraryInvariant' /\ ThumbsStay
<1>1. LibraryTypeOK /\ i \in There
  BY DEF LibraryInvariant, DropReference
<1>2. item[i] \in ItemRow /\ item[i].there
  BY <1>1 DEF LibraryTypeOK, There
<1>3. PICK r \in Reduced(item[i]) : item' = [item EXCEPT ![i] = r]
  BY DEF DropReference
<1>4. /\ r \in ItemRow /\ r.there = item[i].there
      /\ r.primary \in {item[i].primary, NoFile}
  <2>1. CASE r = [item[i] EXCEPT !.primary = NoFile]
    BY <1>2, <2>1 DEF ItemRow
  <2>2. CASE r = [item[i] EXCEPT !.thumb = "none"]
    BY <1>2, <2>2 DEF ItemRow
  <2>3. ASSUME NEW f, r = [item[i] EXCEPT !.attached = @ \ {f}]
        PROVE  r \in ItemRow /\ r.there = item[i].there /\ r.primary = item[i].primary
    BY <1>2, <2>3 DEF ItemRow
  <2> QED BY <2>1, <2>2, <2>3 DEF Reduced
<1>5. uploaded' = uploaded /\ failures' = failures /\ PagesAge({})
  BY <1>1, Ages DEF DropReference
<1> QED BY <1>1, <1>2, <1>3, <1>4, <1>5, RowKept

\* What update_item and the refresh from BOOTH write into a row.
LEMMA LinkAndThumb ==
  ASSUME NEW x \in ItemRow, NEW u \in Urls \cup {NoUrl},
         NEW t \in {"none", "fetched", "chosen"}, NEW r,
         r = WithThumb([x EXCEPT !.url = u], t)
  PROVE  /\ r \in ItemRow /\ r.there = x.there /\ r.primary = x.primary
         /\ r.attached = x.attached
         /\ x.thumb = "chosen" => r.thumb = "chosen"
<1> DEFINE y == [x EXCEPT !.url = u]
<1>1. /\ y \in ItemRow /\ y.there = x.there /\ y.primary = x.primary
      /\ y.attached = x.attached /\ y.thumb = x.thumb
  BY RowTypes
<1>2. r = WithThumb(y, t)
  OBVIOUS
<1> HIDE DEF y
<1>3. /\ WithThumb(y, t) \in ItemRow /\ WithThumb(y, t).there = y.there
      /\ WithThumb(y, t).primary = y.primary
      /\ WithThumb(y, t).attached = y.attached
      /\ y.thumb = "chosen" => WithThumb(y, t).thumb = "chosen"
  BY <1>1, RowTypes
<1> QED BY <1>1, <1>2, <1>3

\* A save moves no file.
LEMMA SaveKept ==
  ASSUME LibraryInvariant, NEW e \in Editors, Save(e)
  PROVE  LibraryInvariant' /\ ThumbsStay /\ Held' = Held
<1> DEFINE i == page[e].item
           u == page[e].url
           r == WithThumb([item[i] EXCEPT !.url = u], page[e].thumb)
<1>1. LibraryTypeOK
  BY DEF LibraryInvariant
<1>2. /\ uploaded' = uploaded /\ failures' = failures /\ Turn(e, NoPage, {})
      /\ PagesAge({})
  BY <1>1, Ages DEF Save
<1>3. CASE i \in There
  <2>1. item[i] \in ItemRow /\ item[i].there
    BY <1>1, <1>3 DEF LibraryTypeOK, There
  <2>2. u \in Urls \cup {NoUrl} /\ page[e].thumb \in {"none", "fetched", "chosen"}
    BY <1>1 DEF LibraryTypeOK, Page
  <2>3. item' = [item EXCEPT ![i] = r]
    BY <1>3 DEF Save
  <2> HIDE DEF u
  <2>4. /\ r \in ItemRow /\ r.there /\ r.primary = item[i].primary
        /\ r.attached = item[i].attached
        /\ item[i].thumb = "chosen" => r.thumb = "chosen"
    BY <2>1, <2>2, LinkAndThumb
  <2> HIDE DEF r
  <2> QED BY <1>2, <1>3, <2>3, <2>4, RowKept
<1>4. CASE i \notin There
  <2>1. item' = item
    BY <1>4 DEF Save
  <2> QED BY <1>2, <2>1, NothingWritten
<1> QED BY <1>3, <1>4

\* Nor does a BOOTH refresh.
LEMMA ApplyBoothKept ==
  ASSUME LibraryInvariant, NEW e \in Editors, ApplyBooth(e)
  PROVE  LibraryInvariant' /\ ThumbsStay /\ Held' = Held
<1> DEFINE i == page[e].item
           u == IF page[e].url = NoUrl THEN item[i].url ELSE page[e].url
           r == WithThumb([item[i] EXCEPT !.url = u], page[e].thumb)
<1>1. LibraryTypeOK
  BY DEF LibraryInvariant
<1>2. /\ uploaded' = uploaded /\ failures' = failures /\ Turn(e, NoPage, {})
      /\ PagesAge({})
  BY <1>1, Ages DEF ApplyBooth
<1>3. CASE i \in There
  <2>1. item[i] \in ItemRow /\ item[i].there /\ item[i].url \in Urls \cup {NoUrl}
    BY <1>1, <1>3 DEF LibraryTypeOK, There, ItemRow
  <2>2. u \in Urls \cup {NoUrl} /\ page[e].thumb \in {"none", "fetched", "chosen"}
    BY <1>1, <2>1 DEF LibraryTypeOK, Page
  <2>3. item' = [item EXCEPT ![i] = r]
    BY <1>3 DEF ApplyBooth
  <2> HIDE DEF u
  <2>4. /\ r \in ItemRow /\ r.there /\ r.primary = item[i].primary
        /\ r.attached = item[i].attached
        /\ item[i].thumb = "chosen" => r.thumb = "chosen"
    BY <2>1, <2>2, LinkAndThumb
  <2> HIDE DEF r
  <2> QED BY <1>2, <1>3, <2>3, <2>4, RowKept
<1>4. CASE i \notin There
  <2>1. item' = item
    BY <1>4 DEF ApplyBooth
  <2> QED BY <1>2, <2>1, NothingWritten
<1> QED BY <1>3, <1>4

\* What the steps write into a page is well typed.
LEMMA PageTypes ==
  ASSUME NEW i \in Ids \cup {0}, NEW t \in Ids \cup {0}, NEW u \in Urls \cup {NoUrl},
         NEW pic \in {"none", "fetched", "chosen"}, NEW ids \in SUBSET Ids
  PROVE  /\ [NoPage EXCEPT !.pc = "merge", !.item = i, !.target = t, !.url = u] \in Page
         /\ [NoPage EXCEPT !.pc = "save", !.item = i, !.url = u, !.thumb = pic] \in Page
         /\ [NoPage EXCEPT !.pc = "booth", !.item = i, !.url = u, !.thumb = pic] \in Page
         /\ [NoPage EXCEPT !.pc = "group", !.target = t, !.group = ids] \in Page
<1>1. NoPage \in Page
  BY DEF NoPage, Page
<1>2. ASSUME NEW x \in Page
      PROVE  /\ [x EXCEPT !.pc = "merge", !.item = i, !.target = t, !.url = u] \in Page
             /\ [x EXCEPT !.pc = "save", !.item = i, !.url = u, !.thumb = pic] \in Page
             /\ [x EXCEPT !.pc = "booth", !.item = i, !.url = u, !.thumb = pic] \in Page
             /\ [x EXCEPT !.pc = "group", !.target = t, !.group = ids] \in Page
  BY ZenonT(40) DEF Page
<1> QED BY <1>1, <1>2

\* A page that offers no reduction says nothing of the rows.
LEMMA OtherPage ==
  ASSUME LibraryInvariant, NEW e \in Editors, NEW p \in Page,
         page' = [page EXCEPT ![e] = p],
         p.pc # "group", p.pc = "merge" => p.item # p.target,
         item' = item, uploaded' = uploaded, failures' = failures
  PROVE  LibraryInvariant' /\ ThumbsStay /\ Held' = Held
<1>1. page'[e] = p
  BY DEF LibraryInvariant, LibraryTypeOK
<1>2. PageOK(e)'
  BY <1>1 DEF PageOK
<1> QED BY <1>2, PageKept

\* Opening a page changes no item: a save or a merge to come,
LEMMA ReadForSaveKept ==
  ASSUME LibraryInvariant, NEW e \in Editors, NEW i \in Ids,
         NEW u \in Urls \cup {NoUrl}, ReadForSave(e, i, u)
  PROVE  LibraryInvariant' /\ ThumbsStay /\ Held' = Held
<1>1. item' = item /\ uploaded' = uploaded /\ failures' = failures
  BY DEF ReadForSave
<1>2. ASSUME NEW t \in Linked(u) \ {i},
             page' = [page EXCEPT ![e] = [NoPage EXCEPT !.pc = "merge",
                                            !.item = i, !.target = t, !.url = u]]
      PROVE  LibraryInvariant' /\ ThumbsStay /\ Held' = Held
  <2> DEFINE p == [NoPage EXCEPT !.pc = "merge", !.item = i, !.target = t, !.url = u]
  <2>1. t \in Ids /\ t # i
    BY DEF Linked, There
  <2>2. p \in Page
    BY <2>1, PageTypes
  <2>3. p.pc = "merge" /\ p.item = i /\ p.target = t
    BY DEF NoPage
  <2>4. page' = [page EXCEPT ![e] = p]
    BY <1>2
  <2> HIDE DEF p
  <2> QED BY <1>1, <2>1, <2>2, <2>3, <2>4, OtherPage
<1>3. ASSUME NEW t \in Fetched(i, u) \cup {"chosen"},
             page' = [page EXCEPT ![e] = [NoPage EXCEPT !.pc = "save",
                                            !.item = i, !.url = u, !.thumb = t]]
      PROVE  LibraryInvariant' /\ ThumbsStay /\ Held' = Held
  <2> DEFINE p == [NoPage EXCEPT !.pc = "save", !.item = i, !.url = u, !.thumb = t]
  <2>1. t \in {"none", "fetched", "chosen"}
    BY DEF Fetched
  <2>2. p \in Page
    BY <2>1, PageTypes
  <2>3. p.pc = "save"
    BY DEF NoPage
  <2>4. page' = [page EXCEPT ![e] = p]
    BY <1>3
  <2> HIDE DEF p
  <2> QED BY <1>1, <2>2, <2>3, <2>4, OtherPage
<1> QED BY <1>2, <1>3 DEF ReadForSave

\* a fetch from BOOTH,
LEMMA ReadForBoothKept ==
  ASSUME LibraryInvariant, NEW e \in Editors, NEW i \in Ids,
         NEW u \in Urls \cup {NoUrl}, ReadForBooth(e, i, u)
  PROVE  LibraryInvariant' /\ ThumbsStay /\ Held' = Held
<1>1. item' = item /\ uploaded' = uploaded /\ failures' = failures
  BY DEF ReadForBooth
<1>2. PICK t \in Fetched(i, u), new \in {u, NoUrl} :
        page' = [page EXCEPT ![e] = [NoPage EXCEPT !.pc = "booth",
                                       !.item = i, !.url = new, !.thumb = t]]
  BY DEF ReadForBooth
<1> DEFINE p == [NoPage EXCEPT !.pc = "booth", !.item = i, !.url = new, !.thumb = t]
<1>3. t \in {"none", "fetched", "chosen"} /\ new \in Urls \cup {NoUrl}
  BY <1>2 DEF Fetched
<1>4. p \in Page
  BY <1>3, PageTypes
<1>5. p.pc = "booth"
  BY DEF NoPage
<1>6. page' = [page EXCEPT ![e] = p]
  BY <1>2
<1> HIDE DEF p
<1> QED BY <1>1, <1>4, <1>5, <1>6, OtherPage

\* a page that is closed,
LEMMA DismissKept ==
  ASSUME LibraryInvariant, NEW e \in Editors, Dismiss(e)
  PROVE  LibraryInvariant' /\ ThumbsStay /\ Held' = Held
<1>1. NoPage \in Page /\ NoPage.pc = "idle"
  BY DEF NoPage, Page
<1> QED BY <1>1, OtherPage DEF Dismiss

\* and the duplicates page, whose groups have one name.
LEMMA ScanFilesKept ==
  ASSUME LibraryInvariant, NEW e \in Editors, ScanFiles(e)
  PROVE  LibraryInvariant' /\ ThumbsStay /\ Held' = Held
<1>1. item' = item /\ uploaded' = uploaded /\ failures' = failures
  BY DEF ScanFiles
<1>2. PICK n \in {NameOf[f] : f \in uploaded} :
        /\ Cardinality(FileGroup(n)) > 1
        /\ page' = [page EXCEPT ![e] = [NoPage EXCEPT !.pc = "group",
                     !.target = Min(FileGroup(n)),
                     !.group = FileGroup(n) \ {Min(FileGroup(n))}]]
  BY DEF ScanFiles
<1> DEFINE ids == FileGroup(n)
           t == Min(ids)
           p == [NoPage EXCEPT !.pc = "group", !.target = t, !.group = ids \ {t}]
<1>3. ids # {} /\ ids \subseteq There /\ ids \subseteq Ids /\ ids \in SUBSET Nat
  <2>1. ids # {}
    BY <1>2, FS_EmptySet
  <2> QED BY <2>1, LibraryAssumption DEF FileGroup, There, Ids
<1>4. t \in ids
  BY <1>3, LeastOf
<1>5. \A i \in ids : NameOf[item[i].primary] = n
  BY DEF FileGroup
<1>6. page' = [page EXCEPT ![e] = p]
  BY <1>2
<1> HIDE DEF ids, t
<1>7. p \in Page
  BY <1>3, <1>4, PageTypes
<1>8. p.pc = "group" /\ p.target = t /\ p.group = ids \ {t}
  BY DEF NoPage
<1> HIDE DEF p
<1>9. page'[e] = p
  BY <1>6 DEF LibraryInvariant, LibraryTypeOK
<1>10. There' = There
  BY <1>1 DEF There
<1>11. PageOK(e)'
  BY <1>1, <1>3, <1>4, <1>5, <1>8, <1>9, <1>10 DEF PageOK, SameName
<1> QED BY <1>1, <1>6, <1>7, <1>11, PageKept

\* The items of a page are reduced to the first.
LEMMA MergeGroupKept ==
  ASSUME LibraryInvariant, NEW e \in Editors, MergeGroup(e)
  PROVE  /\ LibraryInvariant' /\ ThumbsStay
         /\ \A f \in Held \ Held' :
              \/ page[e].stale
              \/ \E i \in page[e].group : f \in item[i].attached
              \/ item[page[e].target].primary = NoFile
              \/ SameName(f, item[page[e].target].primary)
                   /\ item'[page[e].target].there
<1> DEFINE doomed == {i \in page[e].group :
                        \A j \in page[e].group : j <= i => j \in There}
<1>1. LibraryTypeOK /\ PageOK(e)
  BY DEF LibraryInvariant
<1>2. doomed \subseteq page[e].group /\ page[e].group \subseteq Ids
  BY <1>1 DEF LibraryTypeOK, Page
<1>3. /\ item' = [i \in Ids |-> IF i \in doomed THEN NoItem ELSE item[i]]
      /\ Turn(e, NoPage, doomed)
      /\ uploaded' = uploaded /\ failures' = failures /\ page[e].pc = "group"
  BY DEF MergeGroup
<1> HIDE DEF doomed
<1>4. PagesAge(doomed) /\ doomed \subseteq Ids
  BY <1>1, <1>2, <1>3, Ages
<1>5. /\ LibraryInvariant' /\ ThumbsStay /\ There' = There \ doomed
      /\ \A f \in Held \ Held' : \E i \in doomed : f \in Downloads(item[i])
  BY <1>3, <1>4, GoneKept
<1>6. ASSUME NEW f \in Held \ Held', ~page[e].stale,
             ~ \E i \in page[e].group : f \in item[i].attached,
             item[page[e].target].primary # NoFile
      PROVE  /\ SameName(f, item[page[e].target].primary)
             /\ item'[page[e].target].there
  <2>1. PICK i \in doomed : f \in Downloads(item[i])
    BY <1>5
  <2>2. f = item[i].primary /\ f # NoFile /\ i \in page[e].group
    BY <1>2, <1>6, <2>1 DEF Downloads
  <2>3. /\ page[e].target \in There \ page[e].group
        /\ SameName(item[i].primary, item[page[e].target].primary)
    BY <1>1, <1>3, <1>6, <2>2 DEF PageOK
  <2>4. page[e].target \in There'
    BY <1>2, <1>5, <2>3
  <2> QED BY <2>2, <2>3, <2>4 DEF There
<1> QED BY <1>5, <1>6

-----------------------------------------------------------------------------
(* The invariant, and what follows from it. *)

\* The empty library.
LEMMA LibraryInitInvariant == LibraryInit => LibraryInvariant
<1> SUFFICES ASSUME LibraryInit PROVE LibraryInvariant
  OBVIOUS
<1>1. NoItem \in ItemRow /\ ~NoItem.there /\ NoPage \in Page /\ NoPage.pc = "idle"
  BY DEF NoItem, ItemRow, NoPage, Page
<1>2. LibraryTypeOK
  BY <1>1 DEF LibraryInit, LibraryTypeOK
<1>3. There = {} /\ Absent
  BY <1>1 DEF LibraryInit, There, Absent
<1>5. \A e \in Editors : PageOK(e)
  BY <1>1 DEF LibraryInit, PageOK
<1> QED BY <1>2, <1>3, <1>5 DEF LibraryInvariant

\* A step keeps the invariant and the chosen thumbnails, and files leave the
\* library as MainFilesKept says.
LEMMA LibraryStep ==
  ASSUME LibraryInvariant, LibraryNext
  PROVE  /\ LibraryInvariant' /\ ThumbsStay
         /\ \A f \in Held \ Held' :
              \/ \E i \in Ids : DeleteItem(i) \/ DropReference(i)
              \/ \E e \in Editors :
                   /\ MergeGroup(e)
                   /\ \/ page[e].stale
                      \/ \E i \in page[e].group : f \in item[i].attached
                      \/ item[page[e].target].primary = NoFile
                      \/ SameName(f, item[page[e].target].primary)
                           /\ item'[page[e].target].there
<1> DEFINE Fine == LibraryInvariant' /\ ThumbsStay /\ Held \subseteq Held'
<1>1. ASSUME NEW u \in Urls, AutoMerge(u) PROVE Fine
  BY <1>1, AutoMergeKept
<1>2. ASSUME NEW i \in Ids, DeleteItem(i) \/ DropReference(i)
      PROVE  LibraryInvariant' /\ ThumbsStay
  BY <1>2, DeleteItemKept, DropReferenceKept
<1>3. ASSUME NEW e \in Editors, NEW f \in Files, Upload(e, f) PROVE Fine
  BY <1>3, UploadKept
<1>4. ASSUME NEW e \in Editors, ScanFiles(e) \/ Dismiss(e) PROVE Fine
  BY <1>4, ScanFilesKept, DismissKept
<1>5. ASSUME NEW e \in Editors, NEW i \in Ids, NEW u \in Urls \cup {NoUrl},
             ReadForSave(e, i, u) \/ ReadForBooth(e, i, u)
      PROVE  Fine
  BY <1>5, ReadForSaveKept, ReadForBoothKept
<1>6. ASSUME NEW e \in Editors, MergeByLink(e) \/ Save(e) \/ ApplyBooth(e)
      PROVE  Fine
  BY <1>6, MergeByLinkKept, SaveKept, ApplyBoothKept
<1>7. ASSUME NEW e \in Editors, MergeGroup(e)
      PROVE  /\ LibraryInvariant' /\ ThumbsStay
             /\ \A f \in Held \ Held' :
                  \/ page[e].stale
                  \/ \E i \in page[e].group : f \in item[i].attached
                  \/ item[page[e].target].primary = NoFile
                  \/ SameName(f, item[page[e].target].primary)
                       /\ item'[page[e].target].there
  BY <1>7, MergeGroupKept
<1>8. ASSUME Fine
      PROVE  LibraryInvariant' /\ ThumbsStay /\ Held \ Held' = {}
  BY <1>8
<1> HIDE DEF Fine
<1> QED BY <1>1, <1>2, <1>3, <1>4, <1>5, <1>6, <1>7, <1>8 DEF LibraryNext

\* A step that changes nothing.
LEMMA LibraryStutter ==
  ASSUME LibraryInvariant, UNCHANGED libraryVars
  PROVE  LibraryInvariant'
<1>1. /\ item' = item /\ uploaded' = uploaded /\ page' = page /\ failures' = failures
      /\ LibraryTypeOK
  BY DEF libraryVars, LibraryInvariant
<1>2. item' = [i \in Ids |-> IF i \in {} THEN NoItem ELSE item[i]] /\ {} \subseteq Ids
  BY <1>1 DEF LibraryTypeOK
<1>3. PagesAge({})
  BY <1>1, Ages
<1> QED BY <1>1, <1>2, <1>3, GoneKept

\* Every state is one the inductive invariant describes.
THEOREM LibraryCorrect == LibrarySpec => []LibraryInvariant
<1>1. LibraryInvariant /\ [LibraryNext]_libraryVars => LibraryInvariant'
  BY LibraryStep, LibraryStutter
<1> QED BY <1>1, LibraryInitInvariant, PTL DEF LibrarySpec

\* The rows and the open pages stay well typed.
THEOREM LibraryTypeCorrect == LibrarySpec => []LibraryTypeOK
<1>1. LibraryInvariant => LibraryTypeOK
  BY DEF LibraryInvariant
<1> QED BY <1>1, LibraryCorrect, PTL

\* No merge loses a download: files leave the library by a deletion, by
\* reconcile, or as copies that a page named as such.
THEOREM DownloadsKept == LibrarySpec => MainFilesKept
<1>1. LibraryInvariant /\ [LibraryNext]_libraryVars =>
        [\A f \in Held \ Held' :
           \/ \E i \in Ids : DeleteItem(i) \/ DropReference(i)
           \/ \E e \in Editors :
                /\ MergeGroup(e)
                /\ \/ page[e].stale
                   \/ \E i \in page[e].group : f \in item[i].attached
                   \/ item[page[e].target].primary = NoFile
                   \/ SameName(f, item[page[e].target].primary)
                        /\ item'[page[e].target].there]_libraryVars
  BY LibraryStep
<1> QED BY <1>1, LibraryCorrect, PTL DEF LibrarySpec, MainFilesKept

\* What was fetched from BOOTH, however late it is applied, never replaces a
\* thumbnail that the user chose, and no merge does: only reconcile's dropping
\* of references takes it from an item that stays.
THEOREM ChosenStays == LibrarySpec => ChosenThumbnailStays
<1>1. LibraryInvariant /\ [LibraryNext]_libraryVars =>
        [\A i \in Ids :
           (item[i].thumb = "chosen" /\ item'[i].there) =>
             item'[i].thumb = "chosen" \/ DropReference(i)]_libraryVars
  BY LibraryStep DEF ThumbsStay
<1> QED BY <1>1, LibraryCorrect, PTL DEF LibrarySpec, ChosenThumbnailStays

=============================================================================
