CONSTANTS
  Items = {i1}
  First = s1
  Second = s2
  Savers = {s1, s2}
  TagNames = {a, b}
  ShopNames = {x, un}
  Unassigned = un
  NoName = nn
  Values = {0, 1}
  MaxTag = 2
  MaxShop = 2
  Files = {f1}
  Getters = {g1, g2}
  Backup = backup
  MaxObject = 3
  None = none
  Fallible = TRUE
  Looping = TRUE
  Products = {p1, p2, p3, p4}
  Free = {p4}
  Syncs = {y1}
  MaxPages = 2
  Models = {m1, m2}
  AvatarNames = {a1, a2}
  Nobody = nobody
  MaxAvatar = 2
  Urls = {u, v}
  NoUrl = nourl
  MaxRows = 4
SPECIFICATION MCSpec
INVARIANTS ServicesTypeOK SavedShopsDistinct ListIsGrouped
PROPERTIES OthersCarryOver MergedTagsFollow ServedComplete CacheEmpties BackupKept SyncComplete
CHECK_DEADLOCK FALSE
