CONSTANTS
  ItemWriters = {item}
  LabelWriters = {}
  SyncNow = {}
  SyncLoop = loop
  ShutdownFlush = shutdown
  NoThread = nobody
  MaxVersion = 1
  MaxFile = 2
  MaxClicks = 0
  MaxFaults = 1
SPECIFICATION Spec
INVARIANT NothingSilentlyDropped
\* every writer, press and fault is bounded, so the instance runs dry
CHECK_DEADLOCK FALSE
