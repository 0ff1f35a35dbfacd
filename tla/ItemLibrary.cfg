CONSTANTS
  Editors = {e1, e2}
  e1 = e1
  e2 = e2
  f1 = f1
  f2 = f2
  f3 = f3
  Files = {f1, f2, f3}
  NameOf <- TwoNames
  Urls = {u}
  NoUrl = nourl
  NoFile = nofile
  MaxItem = 3
SPECIFICATION MCSpec
INVARIANTS LibraryTypeOK
PROPERTIES DuplicatesGetMerged  ChosenThumbnailStays
CHECK_DEADLOCK FALSE
