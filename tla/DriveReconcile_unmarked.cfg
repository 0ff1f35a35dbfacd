CONSTANTS
  loop = loop
  request = request
  Sweepers = {loop, request}
  Loop = loop
  Assets = {zip}
  Images = {png}
  Stem <- StemOf
  NoObject = none
  MaxRow = 4
  Spare = 3
  MaxFaults = 0
SPECIFICATION MCSpec
INVARIANTS EveryCommitIsMarked
CHECK_DEADLOCK FALSE
