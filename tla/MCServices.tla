----------------------------- MODULE MCServices -----------------------------
(***************************************************************************)
(* The small components, checked in one run: part, chosen at the start,    *)
(* says which of them moves; the others keep their initial states.         *)
(***************************************************************************)
EXTENDS ItemEdits, DownloadCache, FirstRun, BoothLibrary, Avatars, ItemList

CONSTANTS First, Second   \* the two savers

VARIABLE part

allVars == <<editsVars, cacheVars, setupVars, boothVars, avatarVars, listVars, part>>

\* One initial state of the item list while another part moves.
AnyList == library = <<>> /\ rest = <<>> /\ grouped = <<>> /\ anchors = [u \in Urls |-> 0]

MCInit ==
  /\ EditsInit /\ CacheInit /\ SetupInit /\ BoothInit /\ AvatarInit
  /\ \/ part = "list" /\ ListInit
     \/ part \in {"tags", "shops", "cache", "setup", "booth", "avatars"} /\ AnyList

Still(others) == UNCHANGED <<others, part>>

\* Bounds: tags are edited by one saver and shop names by two; a save of tags
\* uses the unassigned shop.
TagEdits ==
  /\ EditsNext
  /\ job'[Second] = NoJob /\ job'[First].shop = Unassigned
  /\ \A s \in ShopIds : shop'[s] = NoShop \/ (s = 1 /\ shop'[s].auto)
ShopEdits ==
  /\ EditsNext
  /\ admin' = NoAdmin
  /\ \A e \in Savers : job'[e].tags = {}
  /\ job'[Second].kind = "booth"

MCNext ==
  \/ /\ part \in {"tags", "shops"}
     /\ part = "tags" => TagEdits
     /\ part = "shops" => ShopEdits
     /\ Still(<<cacheVars, setupVars, boothVars, avatarVars, listVars>>)
  \/ /\ part = "cache" /\ CacheNext
     /\ Still(<<editsVars, setupVars, boothVars, avatarVars, listVars>>)
  \/ /\ part = "setup" /\ SetupNext
     /\ Still(<<editsVars, cacheVars, boothVars, avatarVars, listVars>>)
  \/ /\ part = "booth" /\ BoothNext
     /\ Still(<<editsVars, cacheVars, setupVars, avatarVars, listVars>>)
  \/ /\ part = "avatars" /\ AvatarNext
     /\ Still(<<editsVars, cacheVars, setupVars, boothVars, listVars>>)
  \/ /\ part = "list" /\ ListNext
     /\ Still(<<editsVars, cacheVars, setupVars, boothVars, avatarVars>>)

MCSpec == /\ MCInit /\ [][MCNext]_allVars
          /\ \A f \in Files : WF_allVars(part = "cache" /\ Cleaning(f) /\ MCNext)

\* The type invariants of the six components.
ServicesTypeOK ==
  EditsTypeOK /\ CacheTypeOK /\ SetupTypeOK /\ BoothTypeOK /\ AvatarTypeOK /\ ListTypeOK
=============================================================================
