CONSTANTS
  loop = loop
  request = request
  Sweepers = {loop, request}
  Loop = loop
  Assets = {zip}
  Images = {png}
  Stem <- StemOf
  NoObject = none
  MaxRow = 4
  Spare = 3
  MaxFaults = 1
SPECIFICATION MCSpec
INVARIANTS TypeOK ImportedOnce ChangesGetMarked
PROPERTIES GraceKept OnlyMissingDropped AssetsGetListed LegacyGetsMoved
CHECK_DEADLOCK FALSE
