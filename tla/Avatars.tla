------------------------------ MODULE Avatars ------------------------------
(***************************************************************************)
(* Avatars and the items made for them (avatar_service.py, models/avatar.py*)
(* and the edit panel of web/fragments/items.py).  An avatar is registered *)
(* on its base item; other items are tagged with the avatars they fit.     *)
(* The panel shows one checkbox per registered avatar, and every autosave  *)
(* sends all the boxes: the item is saved, under the lock, and afterwards, *)
(* without it, the registration of the item itself.                        *)
(***************************************************************************)
EXTENDS Naturals, FiniteSets, FiniteSetsExt

CONSTANTS
  Models,      \* items
  AvatarNames,
  Nobody,
  MaxAvatar    \* bound: avatar ids

ASSUME AvatarAssumption ==
  Nobody \notin Models \cup AvatarNames /\ MaxAvatar \in Nat

AvatarIds == 1 .. MaxAvatar

VARIABLES
  avatar,   \* id -> its row: name and base item
  present,  \* the items that exist
  fits,     \* item -> the avatars it is tagged with
  panel,    \* the edit panel: its item and the boxes it shows
  autosave  \* the request that saves it

avatarVars == <<avatar, present, fits, panel, autosave>>

NoAvatar == [name |-> Nobody, base |-> Nobody]
Closed == [item |-> Nobody, boxes |-> {}]
NoSave == [at |-> "idle", item |-> Nobody, names |-> {}, as |-> Nobody, own |-> 0]

Rows == {a \in AvatarIds : avatar[a] # NoAvatar}
Named(names) == {a \in Rows : avatar[a].name \in names}
BasedOn(i) == {a \in Rows : avatar[a].base = i}
\* list_avatar_options: rows without a base item are not offered.
Registered == {a \in Rows : avatar[a].base # Nobody}
NewAvatarId == 1 + Max(Rows \cup {0})

AvatarTypeOK ==
  /\ avatar \in [AvatarIds -> [name : AvatarNames \cup {Nobody},
                               base : Models \cup {Nobody}]]
  /\ present \subseteq Models
  /\ fits \in [Models -> SUBSET AvatarIds]
  /\ panel \in [item : Models \cup {Nobody}, boxes : SUBSET AvatarIds]
  /\ autosave \in [at : {"idle", "sent", "saved", "own"}, item : Models \cup {Nobody},
                   names : SUBSET AvatarNames, as : AvatarNames \cup {Nobody},
                   own : AvatarIds \cup {0}]
  \* The unique columns and the foreign keys.
  /\ \A a, b \in Rows : a # b => /\ avatar[a].name # avatar[b].name
                                 /\ avatar[a].base = avatar[b].base => avatar[a].base = Nobody
  /\ \A a \in Registered : avatar[a].base \in present
  /\ \A i \in Models : fits[i] \subseteq Rows /\ (i \notin present => fits[i] = {})

AvatarInit ==
  /\ avatar = [a \in AvatarIds |-> NoAvatar]
  /\ present = Models
  /\ fits = [i \in Models |-> {}]
  /\ panel = Closed
  /\ autosave = NoSave

-----------------------------------------------------------------------------
OpenPanel(i) ==
  /\ i \in present /\ autosave = NoSave
  /\ panel' = [item |-> i, boxes |-> Registered]
  /\ UNCHANGED <<avatar, present, fits, autosave>>

\* A field of the panel loses the focus: the boxes that are checked are sent,
\* and the name when the item is to be an avatar.  resolve_avatars_by_ids maps
\* the boxes to the names they have now.
SubmitPanel(checked, as) ==
  /\ panel # Closed /\ autosave = NoSave
  /\ checked \subseteq panel.boxes
  /\ autosave' = [at |-> "sent", item |-> panel.item, as |-> as, own |-> 0,
                  names |-> {avatar[a].name : a \in checked \cap Rows}]
  /\ UNCHANGED <<avatar, present, fits, panel>>

\* update_item: resolve_existing_avatars looks the names up.
SaveItem ==
  /\ autosave.at = "sent"
  /\ IF autosave.item \in present
       THEN /\ fits' = [fits EXCEPT ![autosave.item] = Named(autosave.names)]
            /\ autosave' = [autosave EXCEPT !.at = "saved", !.names = {}]
       ELSE autosave' = NoSave /\ UNCHANGED fits
  /\ UNCHANGED <<avatar, present, panel>>

\* get_avatar_for_item.
LookOwn ==
  /\ autosave.at = "saved"
  /\ autosave' = [autosave EXCEPT !.at = "own",
                    !.own = Max(BasedOn(autosave.item) \cup {0})]
  /\ UNCHANGED <<avatar, present, fits, panel>>

\* set_item_as_avatar: a new row, or the name of the one that was found.  A name
\* that is taken, an item that got an avatar meanwhile or is gone, a row that
\* is gone: the commit raises.
SetAvatar ==
  /\ autosave.at = "own" /\ autosave.as # Nobody
  /\ autosave.own = 0 => NewAvatarId \in AvatarIds
  /\ LET own == autosave.own
         taken == Named({autosave.as}) \ {own} # {}
     IN avatar' =
          IF taken THEN avatar
          ELSE IF own = 0
            THEN IF autosave.item \in present /\ BasedOn(autosave.item) = {}
                   THEN [avatar EXCEPT ![NewAvatarId] =
                           [name |-> autosave.as, base |-> autosave.item]]
                   ELSE avatar
            ELSE IF own \in Rows THEN [avatar EXCEPT ![own].name = autosave.as]
                 ELSE avatar
  /\ autosave' = NoSave
  /\ UNCHANGED <<present, fits, panel>>

\* unset_item_as_avatar: the row goes, and the tags with it.
UnsetAvatar ==
  /\ autosave.at = "own" /\ autosave.as = Nobody
  /\ avatar' = IF autosave.own \in Rows
                 THEN [avatar EXCEPT ![autosave.own] = NoAvatar] ELSE avatar
  /\ fits' = [i \in Models |-> fits[i] \ {autosave.own}]
  /\ autosave' = NoSave
  /\ UNCHANGED <<present, panel>>

\* Inline edit and bulk update of the avatars of an item, by name.
InlineAvatars(i, names) ==
  /\ i \in present
  /\ fits' = [fits EXCEPT ![i] = Named(names)]
  /\ UNCHANGED <<avatar, present, panel, autosave>>
BulkAvatars(i, names) ==
  /\ i \in present
  /\ fits' = [fits EXCEPT ![i] = @ \cup Named(names)]
  /\ UNCHANGED <<avatar, present, panel, autosave>>

\* delete_item, or merge_item_into of a source: the relationship as_avatar has
\* no cascade, so the ORM clears the base of the item's avatar and keeps the row.
RemoveModel(i) ==
  /\ i \in present
  /\ present' = present \ {i}
  /\ avatar' = [a \in AvatarIds |->
       IF avatar[a].base = i THEN [avatar[a] EXCEPT !.base = Nobody] ELSE avatar[a]]
  /\ fits' = [fits EXCEPT ![i] = {}]
  /\ UNCHANGED <<panel, autosave>>

\* An upload creates an item, which may get the id of one that was deleted.
AddModel(i) ==
  /\ i \notin present
  /\ present' = present \cup {i}
  /\ UNCHANGED <<avatar, fits, panel, autosave>>

AvatarNext ==
  \/ \E i \in Models : \/ OpenPanel(i) \/ RemoveModel(i) \/ AddModel(i)
                       \/ \E names \in SUBSET AvatarNames :
                            InlineAvatars(i, names) \/ BulkAvatars(i, names)
  \/ \E checked \in SUBSET AvatarIds, as \in AvatarNames \cup {Nobody} : SubmitPanel(checked, as)
  \/ SaveItem \/ LookOwn \/ SetAvatar \/ UnsetAvatar

AvatarSpec == AvatarInit /\ [][AvatarNext]_avatarVars

-----------------------------------------------------------------------------
(* Properties. *)

\* "Old items don't lose their existing avatar tags" (docstring of
\* list_avatar_names about rows without a base item): an autosave, whose panel
\* has no box for such a row, leaves the item's tag.
LegacyTagsKept ==
  [][SaveItem => \A i \in Models, a \in Rows \ Registered :
       a \in fits[i] => a \in fits'[i]]_avatarVars
=============================================================================
