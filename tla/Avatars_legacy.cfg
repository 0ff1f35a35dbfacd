CONSTANTS
  Models = {m1, m2}
  AvatarNames = {a, b}
  Nobody = nobody
  MaxAvatar = 2
SPECIFICATION AvatarSpec
PROPERTY LegacyTagsKept
CHECK_DEADLOCK FALSE
