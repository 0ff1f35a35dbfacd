---------------------------- MODULE ItemLibrary ----------------------------
(***************************************************************************)
(* The items of the library and the files they hold: uploads, the BOOTH    *)
(* link of an item, the merging of items that link to one BOOTH page or    *)
(* hold files of one name, and thumbnails (app/services/item_service.py    *)
(* with the routes of app/web/fragments/items.py and settings.py).         *)
(*                                                                         *)
(* A request reads what it needs, often fetches from BOOTH, and then       *)
(* writes under db_write_lock; a page that the user has open can be older  *)
(* still.  So each request is a read step and a write step, and the merge  *)
(* loop, which holds the lock throughout, is one step.                     *)
(*                                                                         *)
(* The field stale of a page is a history variable: no guard reads it.     *)
(***************************************************************************)
EXTENDS Integers, FiniteSets, FiniteSetsExt

CONSTANTS
  Editors,     \* requests and open pages
  Files,       \* files a user may upload, each once
  NameOf,      \* file -> its original_filename
  Urls,        \* BOOTH product pages
  NoUrl, NoFile,
  MaxItem      \* bound: ids of items

Ids == 1 .. MaxItem

ASSUME LibraryAssumption ==
  /\ MaxItem \in Nat
  /\ NoUrl \notin Urls /\ NoFile \notin Files
  /\ Files \subseteq DOMAIN NameOf

VARIABLES
  item,      \* id -> row of items with its item_files
  uploaded,  \* the files that were uploaded so far
  page,      \* editor -> what its request has read
  failures   \* a sweep of the merge loop has failed

libraryVars == <<item, uploaded, page, failures>>

ItemRow == [there : BOOLEAN, url : Urls \cup {NoUrl},
            primary : Files \cup {NoFile}, attached : SUBSET Files,
            thumb : {"none", "fetched", "chosen"}]
NoItem == [there |-> FALSE, url |-> NoUrl, primary |-> NoFile,
           attached |-> {}, thumb |-> "none"]

\* group: the items a page offers to reduce to their first.
Page == [pc : {"idle", "merge", "save", "booth", "group"},
         item : Ids \cup {0}, target : Ids \cup {0},
         url : Urls \cup {NoUrl}, thumb : {"none", "fetched", "chosen"},
         group : SUBSET Ids, stale : BOOLEAN]
NoPage == [pc |-> "idle", item |-> 0, target |-> 0, url |-> NoUrl,
           thumb |-> "none", group |-> {}, stale |-> FALSE]

LibraryTypeOK ==
  /\ item \in [Ids -> ItemRow]
  /\ uploaded \subseteq Files
  /\ page \in [Editors -> Page]
  /\ failures \in BOOLEAN

LibraryInit ==
  /\ item = [i \in Ids |-> NoItem]
  /\ uploaded = {}
  /\ page = [e \in Editors |-> NoPage]
  /\ failures = FALSE

There == {i \in Ids : item[i].there}
Linked(u) == {i \in There : item[i].url = u}

\* SQLite gives a new item the largest id in use plus one, so that the order of
\* the ids is the order of created_at.
FreshId == 1 + Max(There \cup {0})

Downloads(row) == ({row.primary} \cup row.attached) \ {NoFile}
Held == UNION {Downloads(item[i]) : i \in There}
SameName(f, g) == NameOf[f] = NameOf[g]
FileGroup(n) == {i \in There : item[i].primary # NoFile
                                 /\ NameOf[item[i].primary] = n}

OnPage(e) == {page[e].item, page[e].target} \cup page[e].group

\* The editor done turns to the page p; pages that show an item of ids age.
Turn(done, p, ids) ==
  page' = [e \in Editors |->
             IF e = done THEN p
             ELSE [page[e] EXCEPT !.stale = @ \/ OnPage(e) \cap ids # {}]]
Age(ids) ==
  page' = [e \in Editors |->
             [page[e] EXCEPT !.stale = @ \/ OnPage(e) \cap ids # {}]]

-----------------------------------------------------------------------------
(* Merging. *)

\* Mutant: the source keeps its files when its row is deleted.
MergedIntoBare(rows, dups, t) ==
  [i \in Ids |-> IF i \in dups THEN NoItem ELSE rows[i]]

\* Mutant: the source is taken to have a main file.
MergedIntoBlind(rows, dups, t) ==
  [i \in Ids |->
     IF i \in dups THEN NoItem
     ELSE IF i # t THEN rows[i]
     ELSE [rows[t] EXCEPT !.attached = @ \cup {rows[d].primary : d \in dups}]]

\* merge_item_into, for the sources dups in the order of their ids: their files
\* become attachments of t, the first thumbnail stays if t has none.
MergedInto(rows, dups, t) ==
  LET pictured == {i \in dups \cup {t} : rows[i].thumb # "none"}
      keeper == IF t \in pictured THEN t ELSE Min(pictured)
  IN [i \in Ids |->
        IF i \in dups THEN NoItem
        ELSE IF i # t THEN rows[i]
        ELSE [rows[t] EXCEPT
               !.attached = @ \cup UNION {Downloads(rows[d]) : d \in dups},
               !.thumb = IF pictured = {} THEN "none" ELSE rows[keeper].thumb]]

\* Of the items with one link, all but the oldest.
Duplicates(u) == {i \in Linked(u) : \E j \in Linked(u) : j < i}
Oldest(u) == Min(Linked(u))

\* Mutant: a group of exactly two items is looked for.
AutoMergePairs(u) ==
  /\ Cardinality(Duplicates(u)) = 1
  /\ item' = MergedInto(item, Duplicates(u), Oldest(u))
  /\ Age(Duplicates(u))
  /\ UNCHANGED <<uploaded, failures>>

\* auto_merge_duplicate_products for the group of one link, from the merge loop
\* or the settings page.  Each merge is committed on its own, so that a sweep
\* that fails (once here) has merged the first few.
AutoMerge(u) ==
  /\ \E dups \in SUBSET Duplicates(u) :
       /\ dups # {}
       /\ \A d \in dups, i \in Duplicates(u) : i < d => i \in dups
       /\ IF dups = Duplicates(u) THEN UNCHANGED failures
                                 ELSE ~failures /\ failures' = TRUE
       /\ item' = MergedInto(item, dups, Oldest(u))
       /\ Age(dups)
  /\ UNCHANGED uploaded

-----------------------------------------------------------------------------
(* Uploads, deletions and the missing file. *)

\* create_item_with_file from the upload routes; the answer names an item whose
\* file has the same name, and the page offers to drop the new one.
Upload(e, f) ==
  LET i == FreshId
      twins == FileGroup(NameOf[f])
  IN /\ page[e] = NoPage
     /\ f \in Files \ uploaded
     /\ i \in Ids
     /\ item' = [item EXCEPT ![i] = [NoItem EXCEPT !.there = TRUE, !.primary = f]]
     /\ uploaded' = uploaded \cup {f}
     /\ \/ twins = {} /\ UNCHANGED page
        \/ \E t \in twins :
             page' = [page EXCEPT ![e] = [NoPage EXCEPT !.pc = "group",
                                            !.target = t, !.group = {i}]]
     /\ UNCHANGED failures

DeleteItem(i) ==
  /\ i \in There
  /\ item' = [item EXCEPT ![i] = NoItem]
  /\ Age({i})
  /\ UNCHANGED <<uploaded, failures>>

\* One file of the item less: its main file, an attachment or its thumbnail,
\* which is a row of item_files like the others.
Reduced(row) ==
  ({[row EXCEPT !.primary = NoFile], [row EXCEPT !.thumb = "none"]}
     \cup {[row EXCEPT !.attached = @ \ {f}] : f \in row.attached}) \ {row}

\* drive_reconcile drops the row of a file, of whatever kind, that it does not
\* find on Drive; each is a commit of its own.
DropReference(i) ==
  /\ i \in There
  /\ \E row \in Reduced(item[i]) : item' = [item EXCEPT ![i] = row]
  /\ UNCHANGED <<uploaded, page, failures>>

-----------------------------------------------------------------------------
(* Files of the same name. *)

\* find_duplicate_filename_groups on the settings page.
ScanFiles(e) ==
  /\ page[e] = NoPage
  /\ \E n \in {NameOf[f] : f \in uploaded} :
       LET ids == FileGroup(n) IN
       /\ Cardinality(ids) > 1
       /\ page' = [page EXCEPT ![e] = [NoPage EXCEPT !.pc = "group",
                     !.target = Min(ids), !.group = ids \ {Min(ids)}]]
  /\ UNCHANGED <<item, uploaded, failures>>

\* merge_duplicate_group: the items after the first are deleted one by one, up
\* to one that is not there; the first is looked up at the end only.
MergeGroup(e) ==
  LET doomed == {i \in page[e].group :
                   \A j \in page[e].group : j <= i => j \in There}
  IN /\ page[e].pc = "group"
     /\ item' = [i \in Ids |-> IF i \in doomed THEN NoItem ELSE item[i]]
     /\ Turn(e, NoPage, doomed)
     /\ UNCHANGED <<uploaded, failures>>

Dismiss(e) ==
  /\ page[e].pc = "group"
  /\ page' = [page EXCEPT ![e] = NoPage]
  /\ UNCHANGED <<item, uploaded, failures>>

-----------------------------------------------------------------------------
(* The BOOTH link and the thumbnail. *)

\* An unset thumbnail is fetched from the linked page, as well as that goes.
Fetched(i, u) == IF item[i].thumb = "none" /\ u # NoUrl
                   THEN {"none", "fetched"} ELSE {"none"}

\* The autosave of the edit panel: a new link that another item has already
\* leads to a merge, anything else to update_item.
ReadForSave(e, i, u) ==
  LET others == Linked(u) \ {i}
      merges == u # NoUrl /\ u # item[i].url /\ others # {}
  IN /\ page[e] = NoPage
     /\ i \in There
     /\ \/ /\ merges
           /\ \E t \in others :
                page' = [page EXCEPT ![e] = [NoPage EXCEPT !.pc = "merge",
                           !.item = i, !.target = t, !.url = u]]
        \/ /\ ~merges
           /\ \E t \in Fetched(i, u) \cup {"chosen"} :
                page' = [page EXCEPT ![e] = [NoPage EXCEPT !.pc = "save",
                           !.item = i, !.url = u, !.thumb = t]]
     /\ UNCHANGED <<item, uploaded, failures>>

\* merge_item_into; an item that is gone by now raises NotFoundError.
MergeByLink(e) ==
  LET s == page[e].item
      t == page[e].target
  IN /\ page[e].pc = "merge"
     /\ IF {s, t} \subseteq There
          THEN item' = MergedInto(item, {s}, t) /\ Turn(e, NoPage, {s})
          ELSE UNCHANGED item /\ Turn(e, NoPage, {})
     /\ UNCHANGED <<uploaded, failures>>

\* Mutant: a fetched thumbnail is applied without a second look at the item.
WithThumbBlind(row, t) == [row EXCEPT !.thumb = IF t = "none" THEN @ ELSE t]

\* A thumbnail the user chose replaces any; a fetched one fills a gap.
WithThumb(row, t) ==
  IF t = "chosen" \/ row.thumb = "none" THEN [row EXCEPT !.thumb = t] ELSE row

\* update_item.
Save(e) ==
  LET i == page[e].item IN
  /\ page[e].pc = "save"
  /\ IF i \in There
       THEN item' = [item EXCEPT ![i] =
              WithThumb([@ EXCEPT !.url = page[e].url], page[e].thumb)]
       ELSE UNCHANGED item
  /\ Turn(e, NoPage, {})
  /\ UNCHANGED <<uploaded, failures>>

\* refresh_from_booth, which keeps the link, and apply_booth_url, which sets u.
ReadForBooth(e, i, u) ==
  /\ page[e] = NoPage
  /\ i \in There
  /\ \E t \in Fetched(i, u), new \in {u, NoUrl} :
       /\ new = NoUrl => u = item[i].url
       /\ page' = [page EXCEPT ![e] = [NoPage EXCEPT !.pc = "booth",
                     !.item = i, !.url = new, !.thumb = t]]
  /\ UNCHANGED <<item, uploaded, failures>>

ApplyBooth(e) ==
  LET i == page[e].item
      u == IF page[e].url = NoUrl THEN item[i].url ELSE page[e].url
  IN /\ page[e].pc = "booth"
     /\ IF i \in There
          THEN item' = [item EXCEPT ![i] =
                 WithThumb([@ EXCEPT !.url = u], page[e].thumb)]
          ELSE UNCHANGED item
     /\ Turn(e, NoPage, {})
     /\ UNCHANGED <<uploaded, failures>>

-----------------------------------------------------------------------------
LibraryNext ==
  \/ \E u \in Urls : AutoMerge(u)
  \/ \E i \in Ids : DeleteItem(i) \/ DropReference(i)
  \/ \E e \in Editors :
       \/ \E f \in Files : Upload(e, f)
       \/ ScanFiles(e) \/ MergeGroup(e) \/ Dismiss(e)
       \/ \E i \in Ids, u \in Urls \cup {NoUrl} :
            ReadForSave(e, i, u) \/ (u # NoUrl /\ ReadForBooth(e, i, u))
       \/ MergeByLink(e) \/ Save(e) \/ ApplyBooth(e)

LibrarySpec == LibraryInit /\ [][LibraryNext]_libraryVars

\* merge_loop runs every ten minutes and looks at every link.
LibraryFairness == \A u \in Urls : WF_libraryVars(AutoMerge(u))

-----------------------------------------------------------------------------
(* Properties. *)

\* No merge loses a download: a file leaves the library when the user deletes
\* its item, when reconcile finds it missing, or as the main file of an item
\* that is dropped as a copy, and then the item that is kept has a file of that
\* name, unless an item of the page was deleted or merged after it was read.
MainFilesKept ==
  [][\A f \in Held \ Held' :
       \/ \E i \in Ids : DeleteItem(i) \/ DropReference(i)
       \/ \E e \in Editors :
            /\ MergeGroup(e)
            /\ \/ page[e].stale
               \/ \E i \in page[e].group : f \in item[i].attached
               \/ item[page[e].target].primary = NoFile
               \/ SameName(f, item[page[e].target].primary)
                    /\ item'[page[e].target].there]_libraryVars

\* A thumbnail that the user chose is never replaced by a fetched one
\* (docstring of refresh_from_booth), whatever was fetched meanwhile, and no
\* merge takes it from its item: only reconcile removes it, when Drive does not
\* answer for its file.
ChosenThumbnailStays ==
  [][\A i \in Ids :
       (item[i].thumb = "chosen" /\ item'[i].there) =>
         item'[i].thumb = "chosen" \/ DropReference(i)]_libraryVars

\* Items with one link do not stay that way: merge_loop catches what the
\* edit panel let through.
DuplicatesGetMerged ==
  \A u \in Urls : (Duplicates(u) # {}) ~> (Duplicates(u) = {})
=============================================================================
