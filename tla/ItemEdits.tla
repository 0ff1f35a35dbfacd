----------------------------- MODULE ItemEdits -----------------------------
(***************************************************************************)
(* Edits of an item's fields and labels by several requests: the autosave  *)
(* of the edit panel, the inline edit of its tags, bulk updates and the    *)
(* BOOTH refresh, all of which commit under db_write_lock, and the tag and *)
(* shop pages, which commit without it (app/web/fragments/items.py,        *)
(* item_service.py, tag_service.py, shop_service.py).                      *)
(*                                                                         *)
(* A save reads the item before it has the lock (read), looks the labels   *)
(* up under the lock (locked) and commits.  What the ORM writes is the     *)
(* difference to what it loaded under the lock; a row it means to change   *)
(* or refer to that is gone by then, or a name that is taken, raises.      *)
(*                                                                         *)
(* The fields overtaken of a job and auto of a shop are history variables: *)
(* no guard reads them.                                                    *)
(***************************************************************************)
EXTENDS Integers, FiniteSets, FiniteSetsExt

CONSTANTS
  Items,
  Savers,       \* requests that save an item
  TagNames, ShopNames,
  Unassigned,   \* the shop of items without one, "未設定"
  NoName,       \* no name and no saver
  Values,       \* values of a field
  MaxTag, MaxShop   \* bounds: ids of tags and shops

TagIds == 1 .. MaxTag
ShopIds == 1 .. MaxShop

ASSUME EditsAssumption ==
  /\ Unassigned \in ShopNames
  /\ NoName \notin TagNames \cup ShopNames \cup Savers
  /\ Items # {} /\ Values # {}
  /\ MaxTag \in Nat /\ MaxShop \in Nat

VARIABLES
  row,    \* item -> its row, its shop and its tags
  tag,    \* id -> name of the tag
  shop,   \* id -> name of the shop, and whether a save registered it
  job,    \* saver -> locals of its request
  admin,  \* the tag page: the rename or merge in progress
  holder  \* the saver that holds db_write_lock

editsVars == <<row, tag, shop, job, admin, holder>>

\* typed: a field of the edit form; kept: one of the fields the form does not
\* show (price, dates, status, licence, favourite).
ItemFields == [there : BOOLEAN, typed : Values, kept : Values,
               shop : ShopIds \cup {0}, tags : SUBSET TagIds]
Job == [pc : {"idle", "read", "locked"},
        kind : {"autosave", "inline", "bulk", "booth"}, item : Items,
        typed : Values, kept : Values, shop : ShopNames, tags : SUBSET TagNames,
        shopId : ShopIds \cup {0}, tagIds : SUBSET TagIds, had : SUBSET TagIds,
        overtaken : BOOLEAN]

NoShop == [name |-> NoName, auto |-> FALSE]

TagsOf(names) == {t \in TagIds : tag[t] \in names}
ShopsOf(n) == {s \in ShopIds : shop[s].name = n}
NewShopId == 1 + Max({s \in ShopIds : shop[s] # NoShop} \cup {0})
NewTagId == 1 + Max({t \in TagIds : tag[t] # NoName} \cup {0})

NoJob == [pc |-> "idle", kind |-> "booth", item |-> CHOOSE i \in Items : TRUE,
          typed |-> CHOOSE v \in Values : TRUE, kept |-> CHOOSE v \in Values : TRUE,
          shop |-> Unassigned, tags |-> {}, shopId |-> 0, tagIds |-> {}, had |-> {},
          overtaken |-> FALSE]
Starting(i, kind) == [NoJob EXCEPT !.pc = "read", !.kind = kind, !.item = i]

EditsTypeOK ==
  /\ row \in [Items -> ItemFields]
  /\ tag \in [TagIds -> TagNames \cup {NoName}]
  /\ shop \in [ShopIds -> [name : ShopNames \cup {NoName}, auto : BOOLEAN]]
  /\ job \in [Savers -> Job]
  /\ admin \in [pc : {"idle", "rename", "merge"}, tag : TagIds \cup {0},
                name : TagNames \cup {NoName}, target : TagIds \cup {0},
                listed : SUBSET Items, withTarget : SUBSET Items]
  /\ \A e \in Savers : (holder = e) <=> (job[e].pc = "locked")
  /\ holder \in Savers \cup {NoName}
  \* The foreign keys.
  /\ \A i \in Items : /\ \A t \in row[i].tags : tag[t] # NoName
                      /\ row[i].shop # 0 => shop[row[i].shop] # NoShop

NoAdmin == [pc |-> "idle", tag |-> 0, name |-> NoName, target |-> 0,
            listed |-> {}, withTarget |-> {}]

EditsInit ==
  /\ \E v \in Values :
       row = [i \in Items |-> [there |-> TRUE, typed |-> v, kept |-> v,
                               shop |-> 0, tags |-> {}]]
  /\ tag = [t \in TagIds |-> NoName]
  /\ shop = [s \in ShopIds |-> NoShop]
  /\ job = [e \in Savers |-> NoJob]
  /\ admin = NoAdmin
  /\ holder = NoName

\* Other jobs on the items that a commit changes are overtaken.
Overtake(e, items) ==
  [q \in Savers |-> IF q # e /\ job[q].pc # "idle" /\ job[q].item \in items
                      THEN [job[q] EXCEPT !.overtaken = TRUE] ELSE job[q]]
TaggedWith(t) == {i \in Items : row[i].there /\ t \in row[i].tags}
InShop(s) == {i \in Items : row[i].there /\ row[i].shop = s}

-----------------------------------------------------------------------------
(* Saves. *)

Begin(e, i) ==
  /\ job[e].pc = "idle"
  /\ row[i].there
  /\ UNCHANGED <<row, tag, shop, admin, holder>>

\* The form brings its own fields; the rest is carried over from what the item
\* is now.
ReadForAutosave(e, i) ==
  /\ Begin(e, i)
  /\ \E v \in Values, s \in ShopNames, names \in SUBSET TagNames :
       job' = [job EXCEPT ![e] =
         [Starting(i, "autosave") EXCEPT !.typed = v,
            !.shop = s, !.tags = names, !.kept = row[i].kept]]

\* Only the tags are new; an item without a shop is given the unassigned one.
ReadForInline(e, i) ==
  /\ Begin(e, i)
  /\ \E names \in SUBSET TagNames :
       job' = [job EXCEPT ![e] =
         [Starting(i, "inline") EXCEPT !.typed = row[i].typed,
            !.kept = row[i].kept, !.tags = names,
            !.shop = IF row[i].shop = 0 THEN Unassigned
                     ELSE shop[row[i].shop].name]]

\* bulk_update sets a kept field and adds a tag; refresh_from_booth and
\* apply_booth_url set typed fields and the shop.  They bring all they write.
BeginBulk(e, i) ==
  /\ Begin(e, i)
  /\ \E v \in Values, names \in SUBSET TagNames :
       job' = [job EXCEPT ![e] = [Starting(i, "bulk") EXCEPT !.kept = v,
                                                              !.tags = names]]
BeginBooth(e, i) ==
  /\ Begin(e, i)
  /\ \E v \in Values, s \in ShopNames :
       job' = [job EXCEPT ![e] = [Starting(i, "booth") EXCEPT !.typed = v,
                                                               !.shop = s]]

SetsShop(e) == job[e].kind # "bulk"
SetsTags(e) == job[e].kind # "booth"

Abandon(e) ==
  /\ job' = [job EXCEPT ![e] = NoJob]
  /\ UNCHANGED <<row, tag, shop, admin>>

\* Mutant: get_or_create_shop is called before the lock is taken.
LookUpUnlocked(e) ==
  LET i == job[e].item
      found == ShopsOf(job[e].shop)
  IN /\ job[e].pc = "read"
     /\ row[i].there /\ Cardinality(found) <= 1
     /\ job' = [job EXCEPT ![e].pc = "locked",
                  ![e].shopId = IF found = {} THEN 0 ELSE Min(found),
                  ![e].tagIds = TagsOf(job[e].tags), ![e].had = row[i].tags,
                  ![e].tags = {n \in @ : TagsOf({n}) = {}}]
     /\ UNCHANGED <<row, tag, shop, admin, holder>>

\* Under the lock the item is read anew, and its shop and tags are looked up;
\* tags keeps the names to register.
\* An item that is gone and a shop name that two shops have both raise.
LookUp(e) ==
  LET j == job[e]
      found == ShopsOf(j.shop)
  IN /\ j.pc = "read"
     /\ holder = NoName
     /\ IF row[j.item].there /\ (SetsShop(e) => Cardinality(found) <= 1)
          THEN /\ job' = [job EXCEPT ![e] =
                    [j EXCEPT !.pc = "locked",
                       !.shopId = IF ~SetsShop(e) \/ found = {} THEN 0 ELSE Min(found),
                       !.tagIds = TagsOf(j.tags), !.had = row[j.item].tags,
                       !.tags = {n \in j.tags : TagsOf({n}) = {}}]]
               /\ holder' = e
               /\ UNCHANGED <<row, tag, shop, admin>>
          ELSE Abandon(e) /\ UNCHANGED holder

\* What the ORM is about to write refers to rows that are there, removes tags
\* the item still has, adds those it has not, and inserts names that are free.
Writable(e) ==
  LET j == job[e]
      dropped == IF j.kind = "bulk" THEN {} ELSE j.had \ j.tagIds
      added == j.tagIds \ j.had
  IN /\ row[j.item].there
     /\ SetsShop(e) /\ j.shopId # 0 => shop[j.shopId] # NoShop
     /\ SetsTags(e) => /\ \A t \in added : tag[t] # NoName
                       /\ added \cap row[j.item].tags = {}
                       /\ dropped \subseteq row[j.item].tags

\* A request that found no shop of the name registers one.
RegistersShop(e) == SetsShop(e) /\ job[e].shopId = 0
\* Bound: one new tag at a time, and room for it.
Room(e) == /\ Cardinality(job[e].tags) <= 1
           /\ job[e].tags # {} => NewTagId \in TagIds
           /\ RegistersShop(e) => NewShopId \in ShopIds

\* Mutant: a save writes every field it holds, the tags alone excepted.
FieldsOfAll(e) ==
  [typed |-> job[e].typed, kept |-> job[e].kept]

\* The two fields as the request writes them.
FieldsOf(e) ==
  LET i == job[e].item IN
  [typed |-> IF job[e].kind = "bulk" THEN row[i].typed ELSE job[e].typed,
   kept |-> IF job[e].kind = "booth" THEN row[i].kept ELSE job[e].kept]

\* The tags of the item after the commit, the new one excepted.
TagsAfter(e) ==
  LET now == row[job[e].item].tags IN
  CASE job[e].kind = "booth" -> now
    [] job[e].kind = "bulk" -> now \cup (job[e].tagIds \ job[e].had)
    [] OTHER -> (now \ (job[e].had \ job[e].tagIds)) \cup (job[e].tagIds \ job[e].had)

Commit(e) ==
  LET i == job[e].item
      names == job[e].tags
      shopId == IF RegistersShop(e) THEN NewShopId
                ELSE IF SetsShop(e) THEN job[e].shopId ELSE row[i].shop
  IN /\ job[e].pc = "locked"
     /\ Room(e)
     /\ Writable(e) /\ TagsOf(names) = {}
     /\ tag' = [t \in TagIds |-> IF names # {} /\ t = NewTagId
                                   THEN CHOOSE n \in names : TRUE ELSE tag[t]]
     /\ shop' = [s \in ShopIds |-> IF RegistersShop(e) /\ s = NewShopId
                   THEN [name |-> job[e].shop, auto |-> TRUE] ELSE shop[s]]
     /\ row' = [row EXCEPT ![i] =
          [row[i] EXCEPT !.typed = FieldsOf(e).typed, !.kept = FieldsOf(e).kept,
                         !.shop = shopId,
                         !.tags = TagsAfter(e) \cup (IF names = {} THEN {} ELSE {NewTagId})]]
     /\ job' = [Overtake(e, {i}) EXCEPT ![e] = NoJob]
     /\ holder' = NoName
     /\ UNCHANGED admin

\* Mutant: a save that raises keeps the lock.
CommitRaisesHolding(e) ==
  /\ job[e].pc = "locked"
  /\ ~Writable(e) \/ TagsOf(job[e].tags) # {}
  /\ Abandon(e)
  /\ UNCHANGED holder

\* The commit raises; the request answers with an error.
CommitRaises(e) ==
  /\ job[e].pc = "locked"
  /\ ~Writable(e) \/ TagsOf(job[e].tags) # {}
  /\ Abandon(e)
  /\ holder' = NoName

DeleteRow(i) ==
  /\ holder = NoName
  /\ row[i].there
  /\ row' = [row EXCEPT ![i] = [row[i] EXCEPT !.there = FALSE, !.tags = {}, !.shop = 0]]
  /\ job' = Overtake(NoName, {i})
  /\ UNCHANGED <<tag, shop, admin, holder>>

-----------------------------------------------------------------------------
(* The tag page and the shop page; none of them takes the lock. *)

\* rename_or_merge_tag reads the tag, the tag of that name and, to merge, the
\* items of the source.
ReadTag(t, n) ==
  LET existing == TagsOf({n}) \ {t} IN
  /\ admin = NoAdmin
  /\ tag[t] \notin {NoName, n}
  /\ admin' = IF existing = {}
       THEN [NoAdmin EXCEPT !.pc = "rename", !.tag = t, !.name = n]
       ELSE [NoAdmin EXCEPT !.pc = "merge", !.tag = t, !.target = Min(existing),
               !.listed = TaggedWith(t),
               !.withTarget = TaggedWith(t) \cap TaggedWith(Min(existing))]
  /\ UNCHANGED <<row, tag, shop, job, holder>>

RenameTag ==
  /\ admin.pc = "rename"
  /\ IF tag[admin.tag] # NoName /\ TagsOf({admin.name}) \subseteq {admin.tag}
       THEN tag' = [tag EXCEPT ![admin.tag] = admin.name]
       ELSE UNCHANGED tag        \* raises
  /\ admin' = NoAdmin
  /\ UNCHANGED <<row, shop, job, holder>>

\* Mutant: the target is added to the items that lack it all, and to no other.
MergeTagRemoveOnly ==
  /\ admin.pc = "merge"
  /\ tag[admin.tag] # NoName
  /\ tag' = [tag EXCEPT ![admin.tag] = NoName]
  /\ row' = [i \in Items |-> [row[i] EXCEPT !.tags = @ \ {admin.tag}]]
  /\ job' = Overtake(NoName, TaggedWith(admin.tag))
  /\ admin' = NoAdmin
  /\ UNCHANGED <<shop, holder>>

\* _merge: the listed items are given the target and lose the source; the row
\* of the source goes, and whatever still refers to it with it.
MergeTag ==
  LET source == admin.tag
      target == admin.target
      added == admin.listed \ admin.withTarget
      fine == /\ tag[source] # NoName /\ tag[target] # NoName
              /\ \A i \in admin.listed : row[i].there /\ source \in row[i].tags
              /\ \A i \in added : target \notin row[i].tags
  IN /\ admin.pc = "merge"
     /\ IF fine
          THEN /\ tag' = [tag EXCEPT ![source] = NoName]
               /\ row' = [i \in Items |-> [row[i] EXCEPT !.tags =
                    (row[i].tags \ {source}) \cup (IF i \in added THEN {target} ELSE {})]]
               /\ job' = Overtake(NoName, TaggedWith(source))
          ELSE UNCHANGED <<tag, row, job>>       \* raises
     /\ admin' = NoAdmin
     /\ UNCHANGED <<shop, holder>>

DeleteTag(t) ==
  /\ tag[t] # NoName
  /\ tag' = [tag EXCEPT ![t] = NoName]
  /\ row' = [i \in Items |-> [row[i] EXCEPT !.tags = row[i].tags \ {t}]]
  /\ job' = Overtake(NoName, TaggedWith(t))
  /\ UNCHANGED <<shop, admin, holder>>

\* create_shop takes any name, one that is in use included.
CreateShop(n) ==
  /\ NewShopId \in ShopIds
  /\ shop' = [shop EXCEPT ![NewShopId] = [name |-> n, auto |-> FALSE]]
  /\ UNCHANGED <<row, tag, job, admin, holder>>

DeleteShop(s) ==
  /\ shop[s] # NoShop
  /\ shop' = [shop EXCEPT ![s] = NoShop]
  /\ row' = [i \in Items |-> IF row[i].shop = s THEN [row[i] EXCEPT !.shop = 0]
                             ELSE row[i]]
  /\ job' = Overtake(NoName, InShop(s))
  /\ UNCHANGED <<tag, admin, holder>>

-----------------------------------------------------------------------------
EditsNext ==
  \/ \E e \in Savers :
       \/ \E i \in Items : \/ ReadForAutosave(e, i) \/ ReadForInline(e, i)
                           \/ BeginBulk(e, i) \/ BeginBooth(e, i)
       \/ LookUp(e) \/ Commit(e) \/ CommitRaises(e)
  \/ \E i \in Items : DeleteRow(i)
  \/ \E t \in TagIds : (\E n \in TagNames : ReadTag(t, n)) \/ DeleteTag(t)
  \/ RenameTag \/ MergeTag
  \/ \E n \in ShopNames : CreateShop(n)
  \/ \E s \in ShopIds : DeleteShop(s)

EditsSpec == EditsInit /\ [][EditsNext]_editsVars

-----------------------------------------------------------------------------
(* Properties. *)

\* Everything else carries over unchanged from the current record
\* (fragments/items.py): a save leaves what its user did not edit as it is,
\* unless another commit changed the item after the save had read it.
OthersCarryOver ==
  [][\A e \in Savers : (Commit(e) /\ ~job[e].overtaken) =>
       LET old == row[job[e].item]
           new == row'[job[e].item]
       IN /\ job[e].kind \in {"autosave", "inline", "booth"} => new.kept = old.kept
          /\ job[e].kind \in {"inline", "bulk"} => new.typed = old.typed
          /\ job[e].kind = "inline" =>
               (old.shop = 0 \/ shop'[new.shop].name = shop[old.shop].name)
          /\ job[e].kind = "bulk" => old.tags \subseteq new.tags]_editsVars

\* Every item tagged with the source picks up the target and keeps its other
\* tags (docstring of rename_or_merge_tag), unless a save, which may run
\* between the merge's reads and its commit, gave it the source or took the
\* target from it.
MergedTagsFollow ==
  [][MergeTag /\ tag' # tag =>
       \A i \in Items :
         LET old == row[i].tags
             new == row'[i].tags
         IN /\ new \ {admin.target} = old \ {admin.tag, admin.target}
            /\ (admin.tag \in old /\ i \in admin.listed
                /\ (i \in admin.withTarget => admin.target \in old))
                 => admin.target \in new]_editsVars

\* The lock makes "look up, else insert" one step for saves: two shops of one
\* name are never both registered by saves.
SavedShopsDistinct ==
  \A s, q \in ShopIds :
    (shop[s].auto /\ shop[q].auto /\ shop[s].name = shop[q].name) => s = q

=============================================================================
