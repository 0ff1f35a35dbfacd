CONSTANTS
  ItemWriters = {item}
  LabelWriters = {label}
  SyncNow = {click}
  SyncLoop = loop
  ShutdownFlush = shutdown
  NoThread = nobody
  MaxVersion = 2
  MaxFile = 3
  MaxClicks = 1
  MaxFaults = 1
SPECIFICATION FairSpec
INVARIANTS Inductive CleanMeansPushed NoFalseDriftAlarm
PROPERTIES DirtyIsFlushed IsWriteBack
\* every writer, press and fault is bounded, so the instance runs dry
CHECK_DEADLOCK FALSE
