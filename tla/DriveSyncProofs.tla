-------------------------- MODULE DriveSyncProofs --------------------------
(***************************************************************************)
(* Proofs about DriveSync, for any sets of threads and any bounds: type    *)
(* correctness, the write-back promise CleanMeansPushed and the absence of *)
(* false drift alarms, from the inductive invariant Inductive.             *)
(***************************************************************************)
EXTENDS DriveSync, TLAPS

\* The state that setup leaves is well typed.
LEMMA InitTypeOK == Init => TypeOK
<1> SUFFICES ASSUME Init PROVE TypeOK
  OBVIOUS
<1> USE BoundsAssumption DEF Init, DbFiles, NoFile
<1>1. /\ dbVersion \in 0 .. MaxVersion
      /\ fileId \in DbFiles \cup {NoFile}
  OBVIOUS
<1>6. /\ lastKnown \in Nat
      /\ dirty \in BOOLEAN
      /\ lock \in Flushers \cup {NoThread}
      /\ writer \in [Writers -> {"idle", "committed"}]
  OBVIOUS
<1>2. /\ pc \in [Flushers -> Steps]
      /\ fid \in [Flushers -> DbFiles \cup {NoFile}]
      /\ snap \in [Flushers -> 0 .. MaxVersion]
      /\ meta \in [Flushers -> Nat]
      /\ result \in [Flushers -> Results]
  BY DEF Steps, Results
<1>3. files \subseteq DbFiles
  OBVIOUS
<1>4. /\ nextFile \in 1 .. (MaxFile + 1)
      /\ driveVer \in [DbFiles -> 0 .. MaxVersion]
      /\ driveTime \in [DbFiles -> Nat]
      /\ clock \in Nat
  OBVIOUS
<1>5. /\ phase \in {"running", "stopping", "flushing"}
      /\ clicks \in 0 .. MaxClicks
      /\ faults \in 0 .. MaxFaults
      /\ vouch \in [Flushers -> BOOLEAN]
      /\ lapses \subseteq Accidents
  OBVIOUS
<1> QED
  BY ONLY <1>1, <1>6, <1>2, <1>3, <1>4, <1>5 DEF TypeOK

\* What a restart leaves behind is well typed.
LEMMA RestartTypes ==
  ASSUME TypeOK, Restart
  PROVE  /\ pc' \in [Flushers -> Steps]
         /\ fid' \in [Flushers -> DbFiles \cup {NoFile}]
         /\ snap' \in [Flushers -> 0 .. MaxVersion]
         /\ meta' \in [Flushers -> Nat]
         /\ result' \in [Flushers -> Results]
         /\ writer' \in [Writers -> {"idle", "committed"}]
         /\ vouch' \in [Flushers -> BOOLEAN]
         /\ lapses' \subseteq Accidents
         /\ dirty' \in BOOLEAN
         /\ lock' \in Flushers \cup {NoThread}
         /\ phase' \in {"running", "stopping", "flushing"}
<1> USE DEF Restart
<1>1. /\ pc' \in [Flushers -> Steps]
      /\ fid' \in [Flushers -> DbFiles \cup {NoFile}]
      /\ result' \in [Flushers -> Results]
  BY DEF Steps, Results
<1>2. /\ snap' \in [Flushers -> 0 .. MaxVersion]
      /\ meta' \in [Flushers -> Nat]
  BY BoundsAssumption
<1>3. /\ writer' \in [Writers -> {"idle", "committed"}]
      /\ vouch' \in [Flushers -> BOOLEAN]
  OBVIOUS
<1>4. lapses' \subseteq Accidents
  BY DEF TypeOK, Accidents
<1> QED
  BY <1>1, <1>2, <1>3, <1>4

\* Every step keeps the types, action by action.
LEMMA NextTypeOK == TypeOK /\ [Next]_vars => TypeOK'
<1> SUFFICES ASSUME TypeOK, [Next]_vars PROVE TypeOK'
  OBVIOUS
<1> USE BoundsAssumption
    DEF TypeOK, Steps, FlushSteps, Results, Accidents, local, flush, drive, bounds,
        history
<1>1. ASSUME NEW w \in Writers, Commit(w) PROVE TypeOK'
  <2>1. lapses' \subseteq Accidents /\ vouch' \in [Flushers -> BOOLEAN]
    BY <1>1 DEF Commit, CommitItem, CommitLabel
  <2>2. dbVersion' \in 0 .. MaxVersion /\ writer' \in [Writers -> {"idle", "committed"}]
    BY <1>1 DEF Commit
  <2> QED
    BY <1>1, <2>1, <2>2 DEF Commit
<1>2. ASSUME NEW w \in Writers, MarkDirty(w) PROVE TypeOK'
  BY <1>2 DEF MarkDirty
<1>3. ASSUME LoopTick PROVE TypeOK'
  BY <1>3 DEF LoopTick, Enter, Goto
<1>4. ASSUME ShutdownTick PROVE TypeOK'
  BY <1>4 DEF ShutdownTick, Enter, Goto
<1>5. ASSUME NEW t \in SyncNow, Click(t) PROVE TypeOK'
  <2>1. pc' \in [Flushers -> Steps]
    BY <1>5 DEF Click, Goto
  <2>2. dirty' \in BOOLEAN /\ clicks' \in 0 .. MaxClicks
    BY <1>5 DEF Click
  <2> QED
    BY <1>5, <2>1, <2>2 DEF Click
<1>6. ASSUME NEW t \in SyncNow, CheckDirty(t) PROVE TypeOK'
  <2>1. pc' \in [Flushers -> Steps]
    BY <1>6 DEF CheckDirty, Enter, Return, Goto
  <2>2. CASE dirty
    <3>1. vouch' \in [Flushers -> BOOLEAN] /\ lapses' \subseteq Accidents
      BY <1>6, <2>2 DEF CheckDirty, Enter
    <3> QED
      BY <1>6, <2>1, <2>2, <3>1 DEF CheckDirty, Enter
  <2>3. CASE ~dirty
    <3>1. /\ fid' \in [Flushers -> DbFiles \cup {NoFile}]
          /\ snap' \in [Flushers -> 0 .. MaxVersion]
          /\ meta' \in [Flushers -> Nat]
          /\ result' \in [Flushers -> Results]
      BY <1>6, <2>3 DEF CheckDirty, Return
    <3> QED
      BY <1>6, <2>1, <2>3, <3>1 DEF CheckDirty
  <2> QED
    BY <2>2, <2>3
<1>7. ASSUME NEW t \in SyncNow, Answer(t) PROVE TypeOK'
  BY <1>7 DEF Answer, Goto
<1>8. ASSUME NEW t \in Flushers, Lookup(t) PROVE TypeOK'
  BY <1>8 DEF Lookup, Return, Goto
<1>9. ASSUME NEW t \in Flushers, EnsureFound(t) PROVE TypeOK'
  BY <1>9 DEF EnsureFound, Goto
<1>10. ASSUME NEW t \in Flushers, EnsureMissing(t) PROVE TypeOK'
  BY <1>10 DEF EnsureMissing, Fault, Goto
<1>11. ASSUME NEW t \in Flushers, RecoverSnapshot(t) PROVE TypeOK'
  BY <1>11 DEF RecoverSnapshot, Goto
<1>12. ASSUME NEW t \in Flushers, RecoverUpload(t) PROVE TypeOK'
  <2>1. nextFile \in DbFiles /\ nextFile' \in 1 .. (MaxFile + 1)
    BY <1>12 DEF RecoverUpload, DbFiles
  <2>2. clock' \in Nat /\ files' \subseteq DbFiles
    BY <1>12, <2>1 DEF RecoverUpload
  <2>3. /\ driveVer' \in [DbFiles -> 0 .. MaxVersion]
        /\ driveTime' \in [DbFiles -> Nat]
        /\ fid' \in [Flushers -> DbFiles \cup {NoFile}]
        /\ pc' \in [Flushers -> Steps]
    BY <1>12, <2>1, <2>2 DEF RecoverUpload, Goto
  <2> QED
    BY <1>12, <2>1, <2>2, <2>3 DEF RecoverUpload
<1>13. ASSUME NEW t \in Flushers, Repoint(t) PROVE TypeOK'
  BY <1>13 DEF Repoint, Goto
<1>14. ASSUME NEW t \in Flushers, Abort(t) PROVE TypeOK'
  BY <1>14 DEF Abort, Fault, Return, Goto
<1>15. ASSUME NEW t \in Flushers, SnapRead(t) PROVE TypeOK'
  BY <1>15 DEF SnapRead, Goto
<1>16. ASSUME NEW t \in Flushers, SnapReset(t) PROVE TypeOK'
  BY <1>16 DEF SnapReset, Goto
<1>17. ASSUME NEW t \in Flushers, Push(t) PROVE TypeOK'
  BY <1>17 DEF Push, PutContent, Goto
<1>18. ASSUME NEW t \in Flushers, PushFails(t) PROVE TypeOK'
  BY <1>18 DEF PushFails, PutContent, Fault, Return, Goto
<1>19. ASSUME NEW t \in Flushers, ReadMeta(t) PROVE TypeOK'
  BY <1>19 DEF ReadMeta, Goto
<1>20. ASSUME NEW t \in Flushers, ReadMetaFails(t) PROVE TypeOK'
  BY <1>20 DEF ReadMetaFails, Fault, Return, Goto
<1>21. ASSUME NEW t \in Flushers, RecordMeta(t) PROVE TypeOK'
  <2>1. /\ pc' \in [Flushers -> Steps]
        /\ result' \in [Flushers -> Results]
        /\ fid' \in [Flushers -> DbFiles \cup {NoFile}]
        /\ snap' \in [Flushers -> 0 .. MaxVersion]
        /\ meta' \in [Flushers -> Nat]
    BY <1>21 DEF RecordMeta, Return, Goto
  <2>2. /\ lastKnown' \in Nat
        /\ lapses' \subseteq Accidents
        /\ vouch' \in [Flushers -> BOOLEAN]
    BY <1>21 DEF RecordMeta
  <2> QED
    BY <1>21, <2>1, <2>2 DEF RecordMeta
<1>22. ASSUME NEW f \in DbFiles, DeleteOnDrive(f) PROVE TypeOK'
  BY <1>22 DEF DeleteOnDrive, Fault
<1>23. ASSUME Stop PROVE TypeOK'
  BY <1>23 DEF Stop, Fault
<1>24. ASSUME Exit PROVE TypeOK'
  BY <1>24, RestartTypes DEF Exit, Restart
<1>25. ASSUME Crash PROVE TypeOK'
  <2>1. faults' \in 0 .. MaxFaults
    BY <1>25 DEF Crash, Fault
  <2> QED
    BY <1>25, <2>1, RestartTypes DEF Crash, Restart
<1>26. CASE UNCHANGED vars
  BY <1>26 DEF vars
<1> QED
  BY <1>1, <1>2, <1>3, <1>4, <1>5, <1>6, <1>7, <1>8, <1>9, <1>10, <1>11,
     <1>12, <1>13, <1>14, <1>15, <1>16, <1>17, <1>18, <1>19, <1>20, <1>21,
     <1>22, <1>23, <1>24, <1>25, <1>26 DEF Next, FlushStep

\* Type correctness for every set of threads and every bound: no interleaving
\* of flush_now's steps gives a variable a value outside its type.
THEOREM TypeCorrect == Spec => []TypeOK
  BY InitTypeOK, NextTypeOK, PTL DEF Spec

-----------------------------------------------------------------------------
(* The inductive invariant. *)

Order == LockHeld /\ FilesNamed /\ VouchedAlone /\ VouchedUnlessLapse

\* A flush that starts is in order: it is the only one, or none is vouched for.
LEMMA EnterOrder ==
  ASSUME TypeOK, Order, NEW t \in Flushers, pc[t] \in {"idle", "check"}, Enter(t),
         UNCHANGED <<fileId, nextFile, lock>>
  PROVE  Order'
<1> USE DEF TypeOK, Order, Enter, Goto
<1>1. InFlight' = InFlight \cup {t} /\ t \notin InFlight
  BY DEF InFlight, FlushSteps
<1>2. LockHeld'
  BY ThreadsAssumption DEF LockHeld
<1>3. FilesNamed'
  BY DEF FilesNamed, FlushSteps
<1>4. VouchedAlone' /\ VouchedUnlessLapse'
  <2>1. CASE InFlight = {}
    BY <1>1, <2>1 DEF VouchedAlone, VouchedUnlessLapse
  <2>2. CASE InFlight # {}
    BY <1>1, <2>2, SMTT(20) DEF VouchedAlone, VouchedUnlessLapse, InFlight
  <2> QED
    BY <2>1, <2>2
<1> QED
  BY <1>2, <1>3, <1>4

\* A flush that returns frees no lock and leaves the others as they were.
LEMMA ReturnOrder ==
  ASSUME TypeOK, Order, NEW t \in Flushers, NEW outcome, Return(t, outcome),
         pc[t] # "snapreset", UNCHANGED <<fileId, nextFile, lock>>,
         \A u \in Flushers \ {t} : vouch'[u] = vouch[u],
         lapses \subseteq lapses' \/ InFlight \subseteq {t}
  PROVE  Order'
<1> USE DEF TypeOK, Order, Return, Goto
<1>1. InFlight' = InFlight \ {t}
  BY DEF InFlight, FlushSteps
<1>2. LockHeld'
  BY ThreadsAssumption DEF LockHeld
<1>3. FilesNamed'
  BY DEF FilesNamed, FlushSteps, NoFile, DbFiles
<1>4. VouchedAlone'
  BY <1>1 DEF VouchedAlone, InFlight
<1>5. VouchedUnlessLapse'
  BY <1>1 DEF VouchedUnlessLapse, InFlight
<1> QED
  BY <1>2, <1>3, <1>4, <1>5

\* After a restart no flush is in flight and the lock is free.
LEMMA RestartOrder ==
  ASSUME TypeOK, Order, Restart
  PROVE  Order'
<1> USE DEF TypeOK, Order, Restart
<1>1. InFlight' = {}
  BY DEF InFlight, FlushSteps
<1>2. LockHeld'
  BY ThreadsAssumption DEF LockHeld
<1>3. FilesNamed'
  BY DEF FilesNamed, FlushSteps, local, drive, NoFile
<1>4. VouchedAlone' /\ VouchedUnlessLapse'
  BY <1>1 DEF VouchedAlone, VouchedUnlessLapse
<1> QED
  BY <1>2, <1>3, <1>4

\* Every step keeps the lock where it belongs, the file names real, and
\* vouches only for flushes that run alone.
LEMMA OrderStep ==
  ASSUME TypeOK, Order, [Next]_vars
  PROVE  Order'
<1> USE ThreadsAssumption DEF TypeOK, Order, LockHeld, FilesNamed, VouchedAlone,
    VouchedUnlessLapse, InFlight, FlushSteps, local, flush, drive, bounds, history
<1>1. ASSUME NEW w \in Writers, Commit(w) PROVE Order'
  <2>1. UNCHANGED <<fileId, lock, flush, drive>>
    BY <1>1 DEF Commit
  <2>2. LockHeld' /\ FilesNamed'
    BY <2>1
  <2>3. \/ UNCHANGED history
        \/ lapses' # {} /\ vouch' = [t \in Flushers |-> FALSE]
    BY <1>1 DEF Commit, CommitItem, CommitLabel
  <2>4. VouchedAlone' /\ VouchedUnlessLapse'
    BY <2>1, <2>3
  <2> QED
    BY <2>2, <2>4
<1>2. ASSUME NEW w \in Writers, MarkDirty(w) PROVE Order'
  BY <1>2 DEF MarkDirty
<1>3. ASSUME LoopTick PROVE Order'
  BY <1>3, EnterOrder DEF LoopTick, Flushers
<1>4. ASSUME ShutdownTick PROVE Order'
  BY <1>4, EnterOrder DEF ShutdownTick, Flushers
<1>5. ASSUME NEW t \in SyncNow, Click(t) PROVE Order'
  BY <1>5 DEF Click, Goto
<1>6. ASSUME NEW t \in SyncNow, CheckDirty(t) PROVE Order'
  <2>1. CASE dirty
    BY <1>6, <2>1, EnterOrder DEF CheckDirty, Flushers
  <2>2. CASE ~dirty
    BY <1>6, <2>2, ReturnOrder DEF CheckDirty, Flushers
  <2> QED
    BY <2>1, <2>2
<1>7. ASSUME NEW t \in SyncNow, Answer(t) PROVE Order'
  BY <1>7 DEF Answer, Goto
<1>8. ASSUME NEW t \in Flushers, Lookup(t) PROVE Order'
  BY <1>8 DEF Lookup, Return, Goto
<1>9. ASSUME NEW t \in Flushers, EnsureFound(t) PROVE Order'
  BY <1>9 DEF EnsureFound, Goto
<1>10. ASSUME NEW t \in Flushers, EnsureMissing(t) PROVE Order'
  BY <1>10 DEF EnsureMissing, Fault, Goto
<1>11. ASSUME NEW t \in Flushers, RecoverSnapshot(t) PROVE Order'
  BY <1>11 DEF RecoverSnapshot, Goto
<1>12. ASSUME NEW t \in Flushers, RecoverUpload(t) PROVE Order'
  <2>1. InFlight' = InFlight
    BY <1>12 DEF RecoverUpload, Goto
  <2>2. LockHeld'
    BY <1>12 DEF RecoverUpload, Goto
  <2>3. FilesNamed'
    BY <1>12 DEF RecoverUpload, Goto, NoFile, DbFiles
  <2> QED
    BY <1>12, <2>1, <2>2, <2>3 DEF RecoverUpload
<1>13. ASSUME NEW t \in Flushers, Repoint(t) PROVE Order'
  BY <1>13 DEF Repoint, Goto
<1>14. ASSUME NEW t \in Flushers, Abort(t) PROVE Order'
  BY <1>14, ReturnOrder DEF Abort
<1>15. ASSUME NEW t \in Flushers, SnapRead(t) PROVE Order'
  <2>1. InFlight' = InFlight
    BY <1>15 DEF SnapRead, Goto
  <2>2. LockHeld'
    BY <1>15 DEF SnapRead, Goto, LockFree
  <2>3. FilesNamed'
    BY <1>15 DEF SnapRead, Goto
  <2> QED
    BY <1>15, <2>1, <2>2, <2>3 DEF SnapRead
<1>16. ASSUME NEW t \in Flushers, SnapReset(t) PROVE Order'
  BY <1>16 DEF SnapReset, Goto
<1>17. ASSUME NEW t \in Flushers, Push(t) PROVE Order'
  BY <1>17 DEF Push, PutContent, Goto
<1>18. ASSUME NEW t \in Flushers, PushFails(t) PROVE Order'
  BY <1>18, ReturnOrder DEF PushFails, PutContent
<1>19. ASSUME NEW t \in Flushers, ReadMeta(t) PROVE Order'
  BY <1>19 DEF ReadMeta, Goto
<1>20. ASSUME NEW t \in Flushers, ReadMetaFails(t) PROVE Order'
  BY <1>20, ReturnOrder DEF ReadMetaFails
<1>21. ASSUME NEW t \in Flushers, RecordMeta(t) PROVE Order'
  <2>1. t \in InFlight /\ (vouch[t] => InFlight = {t})
    BY <1>21 DEF RecordMeta
  <2> QED
    BY <1>21, <2>1, ReturnOrder DEF RecordMeta
<1>22. ASSUME NEW f \in DbFiles, DeleteOnDrive(f) PROVE Order'
  BY <1>22 DEF DeleteOnDrive, Fault
<1>23. ASSUME Stop PROVE Order'
  BY <1>23 DEF Stop, Fault
<1>24. ASSUME Exit PROVE Order'
  BY <1>24, RestartOrder DEF Exit
<1>25. ASSUME Crash PROVE Order'
  BY <1>25, RestartOrder DEF Crash
<1>26. CASE UNCHANGED vars
  BY <1>26 DEF vars
<1> QED
  BY <1>1, <1>2, <1>3, <1>4, <1>5, <1>6, <1>7, <1>8, <1>9, <1>10, <1>11,
     <1>12, <1>13, <1>14, <1>15, <1>16, <1>17, <1>18, <1>19, <1>20, <1>21,
     <1>22, <1>23, <1>24, <1>25, <1>26 DEF Next, FlushStep

\* A flush that starts finds the flag set, and no drift if it starts alone
\* and without accidents.
LEMMA EnterSound ==
  ASSUME TypeOK, Inductive, NEW t \in Flushers, pc[t] \in {"idle", "check"}, dirty,
         Enter(t), UNCHANGED <<local, dirty, drive>>
  PROVE  VouchedIsSound'
<1> USE DEF TypeOK, Enter, Goto, local, drive
<1>1. InFlight' = InFlight \cup {t} /\ t \notin InFlight
  BY DEF InFlight, FlushSteps
<1>2. CASE InFlight # {}
  BY <1>1, <1>2 DEF VouchedIsSound, InFlight
<1>3. CASE InFlight = {}
  <2>1. InFlight' = {t} /\ pc'[t] = "lookup"
    BY <1>1, <1>3
  <2>2. CapturedBy(t)'
    BY <2>1 DEF CapturedBy
  <2>3. lapses = {} => ~DriftLooksNewer
    <3>1. fileId \in files => fileId # NoFile
      BY DEF DbFiles, NoFile
    <3> QED
      BY <1>3, <3>1 DEF Inductive, NoFalseDriftAlarm, DriftLooksNewer
  <2>4. TimedBy(t)'
    BY <1>3, <2>1, <2>3 DEF TimedBy, DriftLooksNewer
  <2> QED
    BY <2>1, <2>2, <2>4 DEF VouchedIsSound
<1> QED
  BY <1>2, <1>3

\* Every step keeps what a vouched-for flush has captured, and where it is.
LEMMA SoundStep ==
  ASSUME TypeOK, Inductive, Order', [Next]_vars
  PROVE  VouchedIsSound'
<1> USE ThreadsAssumption DEF VouchedIsSound, CapturedBy, TimedBy, TypeOK,
   Inductive, Order, VouchedAlone, VouchedUnlessLapse, InFlight,
    FlushSteps, Unmarked, Pushed, DriftLooksNewer, LockHeld, LockFree, FilesNamed,
     BeforeReset,
    BeforeRepoint, local, flush, drive, bounds, history
<1>1. ASSUME NEW w \in Writers, Commit(w) PROVE VouchedIsSound'
  BY <1>1 DEF Commit, CommitItem, CommitLabel
<1>2. ASSUME NEW w \in Writers, MarkDirty(w) PROVE VouchedIsSound'
  BY <1>2 DEF MarkDirty
<1>3. ASSUME LoopTick PROVE VouchedIsSound'
  BY <1>3, EnterSound DEF LoopTick, Flushers
<1>4. ASSUME ShutdownTick PROVE VouchedIsSound'
  BY <1>4, EnterSound DEF ShutdownTick, Flushers
<1>5. ASSUME NEW t \in SyncNow, Click(t) PROVE VouchedIsSound'
  BY <1>5 DEF Click, Goto
<1>6. ASSUME NEW t \in SyncNow, CheckDirty(t) PROVE VouchedIsSound'
  <2>1. CASE dirty
    BY <1>6, <2>1, EnterSound DEF CheckDirty, Flushers
  <2>2. CASE ~dirty
    BY <1>6, <2>2 DEF CheckDirty, Return, Goto
  <2> QED
    BY <2>1, <2>2
<1>7. ASSUME NEW t \in SyncNow, Answer(t) PROVE VouchedIsSound'
  BY <1>7 DEF Answer, Goto
<1>8. ASSUME NEW t \in Flushers, Lookup(t) PROVE VouchedIsSound'
  BY <1>8 DEF Lookup, Return, Goto
<1>9. ASSUME NEW t \in Flushers, EnsureFound(t) PROVE VouchedIsSound'
  BY <1>9 DEF EnsureFound, Goto
<1>10. ASSUME NEW t \in Flushers, EnsureMissing(t) PROVE VouchedIsSound'
  BY <1>10 DEF EnsureMissing, Fault, Goto
<1>11. ASSUME NEW t \in Flushers, RecoverSnapshot(t) PROVE VouchedIsSound'
  BY <1>11 DEF RecoverSnapshot, Goto
<1>12. ASSUME NEW t \in Flushers, RecoverUpload(t) PROVE VouchedIsSound'
  BY <1>12 DEF RecoverUpload, Goto
<1>13. ASSUME NEW t \in Flushers, Repoint(t) PROVE VouchedIsSound'
  BY <1>13 DEF Repoint, Goto
<1>14. ASSUME NEW t \in Flushers, Abort(t) PROVE VouchedIsSound'
  BY <1>14 DEF Abort, Fault, Return, Goto
<1>15. ASSUME NEW t \in Flushers, SnapRead(t) PROVE VouchedIsSound'
  BY <1>15 DEF SnapRead, Goto
<1>16. ASSUME NEW t \in Flushers, SnapReset(t) PROVE VouchedIsSound'
  BY <1>16 DEF SnapReset, Goto
<1>17. ASSUME NEW t \in Flushers, Push(t) PROVE VouchedIsSound'
  BY <1>17 DEF Push, PutContent, Goto
<1>18. ASSUME NEW t \in Flushers, PushFails(t) PROVE VouchedIsSound'
  BY <1>18 DEF PushFails, PutContent, Fault, Return, Goto
<1>19. ASSUME NEW t \in Flushers, ReadMeta(t) PROVE VouchedIsSound'
  BY <1>19 DEF ReadMeta, Goto
<1>20. ASSUME NEW t \in Flushers, ReadMetaFails(t) PROVE VouchedIsSound'
  BY <1>20 DEF ReadMetaFails, Fault, Return, Goto
<1>21. ASSUME NEW t \in Flushers, RecordMeta(t) PROVE VouchedIsSound'
  BY <1>21 DEF RecordMeta, Return, Goto
<1>22. ASSUME NEW f \in DbFiles, DeleteOnDrive(f) PROVE VouchedIsSound'
  BY <1>22 DEF DeleteOnDrive, Fault
<1>23. ASSUME Stop PROVE VouchedIsSound'
  BY <1>23 DEF Stop, Fault
<1>24. ASSUME Exit PROVE VouchedIsSound'
  BY <1>24 DEF Exit, Restart
<1>25. ASSUME Crash PROVE VouchedIsSound'
  BY <1>25 DEF Crash, Fault, Restart
<1>26. CASE UNCHANGED vars
  BY <1>26 DEF vars
<1> QED
  BY <1>1, <1>2, <1>3, <1>4, <1>5, <1>6, <1>7, <1>8, <1>9, <1>10, <1>11,
     <1>12, <1>13, <1>14, <1>15, <1>16, <1>17, <1>18, <1>19, <1>20, <1>21,
     <1>22, <1>23, <1>24, <1>25, <1>26 DEF Next, FlushStep

\* The write-back promise holds after every step: what a vouched-for flush has
\* captured reaches Drive before the flag and the writers are all quiet.
LEMMA CleanStep ==
  ASSUME TypeOK, Inductive, Order', [Next]_vars
  PROVE  CleanMeansPushed'
<1> USE ThreadsAssumption DEF CleanMeansPushed, LooksClean, VouchedIsSound, CapturedBy,
   TypeOK, Inductive, Order, VouchedAlone, VouchedUnlessLapse, InFlight,
    FlushSteps, Unmarked, Pushed, DriftLooksNewer, LockHeld, LockFree, FilesNamed,
     BeforeReset,
    BeforeRepoint, local, flush, drive, bounds, history
<1>1. ASSUME NEW w \in Writers, Commit(w) PROVE CleanMeansPushed'
  BY <1>1 DEF Commit, CommitItem, CommitLabel
<1>2. ASSUME NEW w \in Writers, MarkDirty(w) PROVE CleanMeansPushed'
  BY <1>2 DEF MarkDirty
<1>3. ASSUME LoopTick PROVE CleanMeansPushed'
  BY <1>3 DEF LoopTick, Enter, Goto
<1>4. ASSUME ShutdownTick PROVE CleanMeansPushed'
  BY <1>4 DEF ShutdownTick, Enter, Goto
<1>5. ASSUME NEW t \in SyncNow, Click(t) PROVE CleanMeansPushed'
  BY <1>5 DEF Click, Goto
<1>6. ASSUME NEW t \in SyncNow, CheckDirty(t) PROVE CleanMeansPushed'
  BY <1>6 DEF CheckDirty, Enter, Return, Goto
<1>7. ASSUME NEW t \in SyncNow, Answer(t) PROVE CleanMeansPushed'
  BY <1>7 DEF Answer, Goto
<1>8. ASSUME NEW t \in Flushers, Lookup(t) PROVE CleanMeansPushed'
  BY <1>8 DEF Lookup, Return, Goto
<1>9. ASSUME NEW t \in Flushers, EnsureFound(t) PROVE CleanMeansPushed'
  BY <1>9 DEF EnsureFound, Goto
<1>10. ASSUME NEW t \in Flushers, EnsureMissing(t) PROVE CleanMeansPushed'
  BY <1>10 DEF EnsureMissing, Fault, Goto
<1>11. ASSUME NEW t \in Flushers, RecoverSnapshot(t) PROVE CleanMeansPushed'
  BY <1>11 DEF RecoverSnapshot, Goto
<1>12. ASSUME NEW t \in Flushers, RecoverUpload(t) PROVE CleanMeansPushed'
  BY <1>12 DEF RecoverUpload, Goto
<1>13. ASSUME NEW t \in Flushers, Repoint(t) PROVE CleanMeansPushed'
  BY <1>13 DEF Repoint, Goto
<1>14. ASSUME NEW t \in Flushers, Abort(t) PROVE CleanMeansPushed'
  BY <1>14 DEF Abort, Fault, Return, Goto
<1>15. ASSUME NEW t \in Flushers, SnapRead(t) PROVE CleanMeansPushed'
  BY <1>15 DEF SnapRead, Goto
<1>16. ASSUME NEW t \in Flushers, SnapReset(t) PROVE CleanMeansPushed'
  BY <1>16 DEF SnapReset, Goto
<1>17. ASSUME NEW t \in Flushers, Push(t) PROVE CleanMeansPushed'
  BY <1>17 DEF Push, PutContent, Goto
<1>18. ASSUME NEW t \in Flushers, PushFails(t) PROVE CleanMeansPushed'
  BY <1>18 DEF PushFails, PutContent, Fault, Return, Goto
<1>19. ASSUME NEW t \in Flushers, ReadMeta(t) PROVE CleanMeansPushed'
  BY <1>19 DEF ReadMeta, Goto
<1>20. ASSUME NEW t \in Flushers, ReadMetaFails(t) PROVE CleanMeansPushed'
  BY <1>20 DEF ReadMetaFails, Fault, Return, Goto
<1>21. ASSUME NEW t \in Flushers, RecordMeta(t) PROVE CleanMeansPushed'
  BY <1>21 DEF RecordMeta, Return, Goto
<1>22. ASSUME NEW f \in DbFiles, DeleteOnDrive(f) PROVE CleanMeansPushed'
  BY <1>22 DEF DeleteOnDrive, Fault
<1>23. ASSUME Stop PROVE CleanMeansPushed'
  BY <1>23 DEF Stop, Fault
<1>24. ASSUME Exit PROVE CleanMeansPushed'
  BY <1>24 DEF Exit, Restart
<1>25. ASSUME Crash PROVE CleanMeansPushed'
  BY <1>25 DEF Crash, Fault, Restart
<1>26. CASE UNCHANGED vars
  BY <1>26 DEF vars
<1> QED
  BY <1>1, <1>2, <1>3, <1>4, <1>5, <1>6, <1>7, <1>8, <1>9, <1>10, <1>11,
     <1>12, <1>13, <1>14, <1>15, <1>16, <1>17, <1>18, <1>19, <1>20, <1>21,
     <1>22, <1>23, <1>24, <1>25, <1>26 DEF Next, FlushStep

\* The drift promise holds after every step: the flush that ends undisturbed
\* records the time its own push got.
LEMMA AlarmStep ==
  ASSUME TypeOK, Inductive, Order', [Next]_vars
  PROVE  NoFalseDriftAlarm'
<1> USE ThreadsAssumption DEF NoFalseDriftAlarm, VouchedIsSound, CapturedBy,
   TimedBy, TypeOK, Inductive, Order, VouchedAlone, VouchedUnlessLapse,
   InFlight,
    FlushSteps, Unmarked, Pushed, DriftLooksNewer, LockHeld, LockFree, FilesNamed,
     BeforeReset,
    BeforeRepoint, local, flush, drive, bounds, history
<1>1. ASSUME NEW w \in Writers, Commit(w) PROVE NoFalseDriftAlarm'
  BY <1>1 DEF Commit, CommitItem, CommitLabel
<1>2. ASSUME NEW w \in Writers, MarkDirty(w) PROVE NoFalseDriftAlarm'
  BY <1>2 DEF MarkDirty
<1>3. ASSUME LoopTick PROVE NoFalseDriftAlarm'
  BY <1>3 DEF LoopTick, Enter, Goto
<1>4. ASSUME ShutdownTick PROVE NoFalseDriftAlarm'
  BY <1>4 DEF ShutdownTick, Enter, Goto
<1>5. ASSUME NEW t \in SyncNow, Click(t) PROVE NoFalseDriftAlarm'
  BY <1>5 DEF Click, Goto
<1>6. ASSUME NEW t \in SyncNow, CheckDirty(t) PROVE NoFalseDriftAlarm'
  BY <1>6 DEF CheckDirty, Enter, Return, Goto
<1>7. ASSUME NEW t \in SyncNow, Answer(t) PROVE NoFalseDriftAlarm'
  BY <1>7 DEF Answer, Goto
<1>8. ASSUME NEW t \in Flushers, Lookup(t) PROVE NoFalseDriftAlarm'
  BY <1>8 DEF Lookup, Return, Goto
<1>9. ASSUME NEW t \in Flushers, EnsureFound(t) PROVE NoFalseDriftAlarm'
  BY <1>9 DEF EnsureFound, Goto
<1>10. ASSUME NEW t \in Flushers, EnsureMissing(t) PROVE NoFalseDriftAlarm'
  BY <1>10 DEF EnsureMissing, Fault, Goto
<1>11. ASSUME NEW t \in Flushers, RecoverSnapshot(t) PROVE NoFalseDriftAlarm'
  BY <1>11 DEF RecoverSnapshot, Goto
<1>12. ASSUME NEW t \in Flushers, RecoverUpload(t) PROVE NoFalseDriftAlarm'
  BY <1>12 DEF RecoverUpload, Goto
<1>13. ASSUME NEW t \in Flushers, Repoint(t) PROVE NoFalseDriftAlarm'
  BY <1>13 DEF Repoint, Goto
<1>14. ASSUME NEW t \in Flushers, Abort(t) PROVE NoFalseDriftAlarm'
  BY <1>14 DEF Abort, Fault, Return, Goto
<1>15. ASSUME NEW t \in Flushers, SnapRead(t) PROVE NoFalseDriftAlarm'
  BY <1>15 DEF SnapRead, Goto
<1>16. ASSUME NEW t \in Flushers, SnapReset(t) PROVE NoFalseDriftAlarm'
  BY <1>16 DEF SnapReset, Goto
<1>17. ASSUME NEW t \in Flushers, Push(t) PROVE NoFalseDriftAlarm'
  BY <1>17 DEF Push, PutContent, Goto
<1>18. ASSUME NEW t \in Flushers, PushFails(t) PROVE NoFalseDriftAlarm'
  BY <1>18 DEF PushFails, PutContent, Fault, Return, Goto
<1>19. ASSUME NEW t \in Flushers, ReadMeta(t) PROVE NoFalseDriftAlarm'
  BY <1>19 DEF ReadMeta, Goto
<1>20. ASSUME NEW t \in Flushers, ReadMetaFails(t) PROVE NoFalseDriftAlarm'
  BY <1>20 DEF ReadMetaFails, Fault, Return, Goto
<1>21. ASSUME NEW t \in Flushers, RecordMeta(t) PROVE NoFalseDriftAlarm'
  BY <1>21 DEF RecordMeta, Return, Goto
<1>22. ASSUME NEW f \in DbFiles, DeleteOnDrive(f) PROVE NoFalseDriftAlarm'
  BY <1>22 DEF DeleteOnDrive, Fault
<1>23. ASSUME Stop PROVE NoFalseDriftAlarm'
  BY <1>23 DEF Stop, Fault
<1>24. ASSUME Exit PROVE NoFalseDriftAlarm'
  BY <1>24 DEF Exit, Restart
<1>25. ASSUME Crash PROVE NoFalseDriftAlarm'
  BY <1>25 DEF Crash, Fault, Restart
<1>26. CASE UNCHANGED vars
  BY <1>26 DEF vars
<1> QED
  BY <1>1, <1>2, <1>3, <1>4, <1>5, <1>6, <1>7, <1>8, <1>9, <1>10, <1>11,
     <1>12, <1>13, <1>14, <1>15, <1>16, <1>17, <1>18, <1>19, <1>20, <1>21,
     <1>22, <1>23, <1>24, <1>25, <1>26 DEF Next, FlushStep

\* Setup leaves a current file on Drive and no flush in flight.
LEMMA InitInductive == Init => Inductive
<1> SUFFICES ASSUME Init PROVE Inductive
  OBVIOUS
<1>1. InFlight = {}
  BY DEF Init, InFlight, FlushSteps
<1>2. LockHeld /\ FilesNamed
  BY ThreadsAssumption DEF Init, LockHeld, FilesNamed, FlushSteps, NoFile
<1>3. VouchedAlone /\ VouchedUnlessLapse /\ VouchedIsSound
  BY <1>1 DEF VouchedAlone, VouchedUnlessLapse, VouchedIsSound
<1>4. CleanMeansPushed
  BY BoundsAssumption DEF Init, CleanMeansPushed, LooksClean, Pushed, DbFiles, NoFile
<1>5. NoFalseDriftAlarm
  BY BoundsAssumption DEF Init, NoFalseDriftAlarm, DriftLooksNewer, DbFiles, NoFile
<1> QED
  BY <1>2, <1>3, <1>4, <1>5 DEF Inductive

\* The four lemmas above together: the invariant is inductive.
LEMMA NextInductive ==
  ASSUME TypeOK, Inductive, [Next]_vars
  PROVE  Inductive'
<1>1. Order'
  BY OrderStep DEF Inductive, Order
<1>2. VouchedIsSound'
  BY <1>1, SoundStep
<1>3. CleanMeansPushed'
  BY <1>1, CleanStep
<1>4. NoFalseDriftAlarm'
  BY <1>1, AlarmStep
<1> QED
  BY <1>1, <1>2, <1>3, <1>4 DEF Inductive, Order

\* The invariant Inductive holds in every reachable state.
THEOREM InductiveCorrect == Spec => []Inductive
<1>1. Init => TypeOK /\ Inductive
  BY InitTypeOK, InitInductive
<1>2. TypeOK /\ Inductive /\ [Next]_vars => (TypeOK /\ Inductive)'
  BY NextTypeOK, NextInductive
<1> QED
  BY <1>1, <1>2, PTL DEF Spec

\* flush_now keeps its write-back promise: without an accident since the last
\* undisturbed flush, a clean flag means that Drive holds the database.
THEOREM WriteBackCorrect == Spec => []CleanMeansPushed
<1>1. Inductive => CleanMeansPushed
  BY DEF Inductive
<1> QED
  BY <1>1, InductiveCorrect, PTL

\* check_remote_drift does not warn about the program's own pushes.
THEOREM DriftAlarmCorrect == Spec => []NoFalseDriftAlarm
<1>1. Inductive => NoFalseDriftAlarm
  BY DEF Inductive
<1> QED
  BY <1>1, InductiveCorrect, PTL

-----------------------------------------------------------------------------
(* The refinement of WriteBack. *)

\* No copy and no snapshot is newer than the database.
VersionsPast ==
  /\ \A f \in DbFiles : driveVer[f] <= dbVersion
  /\ \A t \in Flushers : snap[t] <= dbVersion

\* What a flush is about to put in the place of the copy is no older.
NotOlder(t) ==
  /\ pc[t] \in {"recupload", "snapreset", "push"} => Stored <= snap[t]
  /\ pc[t] = "repoint" => Stored <= driveVer[fid[t]]
GoesUp == \A t \in InFlight : vouch[t] => NotOlder(t)

\* Snapshots are of the present, and only they get to Drive.
LEMMA PastStep ==
  ASSUME TypeOK, FilesNamed, VersionsPast, [Next]_vars
  PROVE  VersionsPast'
<1> USE BoundsAssumption DEF VersionsPast, TypeOK, FilesNamed, FlushSteps, DbFiles, NoFile,
    local, flush, drive, bounds, history
<1>1. ASSUME NEW w \in Writers, Commit(w) PROVE VersionsPast'
  <2>1. dbVersion' = dbVersion + 1 /\ UNCHANGED <<driveVer, snap>>
    BY <1>1 DEF Commit
  <2> QED
    BY ONLY VersionsPast, TypeOK, <2>1, BoundsAssumption DEF VersionsPast, TypeOK
<1>2. ASSUME NEW w \in Writers, MarkDirty(w) PROVE VersionsPast'
  BY <1>2 DEF MarkDirty
<1>3. ASSUME LoopTick PROVE VersionsPast'
  BY <1>3 DEF LoopTick, Enter, Goto
<1>4. ASSUME ShutdownTick PROVE VersionsPast'
  BY <1>4 DEF ShutdownTick, Enter, Goto
<1>5. ASSUME NEW t \in SyncNow, Click(t) PROVE VersionsPast'
  BY <1>5 DEF Click, Goto
<1>6. ASSUME NEW t \in SyncNow, CheckDirty(t) PROVE VersionsPast'
  <2>1. CASE dirty
    BY <1>6, <2>1 DEF CheckDirty, Enter
  <2>2. CASE ~dirty
    <3>1. UNCHANGED <<dbVersion, driveVer>>
      BY <1>6 DEF CheckDirty
    <3>2. snap' = [snap EXCEPT ![t] = 0]
      BY <1>6, <2>2 DEF CheckDirty, Return
    <3> QED
      BY ONLY VersionsPast, TypeOK, <3>1, <3>2 DEF VersionsPast, TypeOK, Flushers
  <2> QED
    BY <2>1, <2>2
<1>7. ASSUME NEW t \in SyncNow, Answer(t) PROVE VersionsPast'
  BY <1>7 DEF Answer, Goto
<1>8. ASSUME NEW t \in Flushers, Lookup(t) PROVE VersionsPast'
  <2>1. UNCHANGED <<dbVersion, driveVer>>
    BY <1>8 DEF Lookup
  <2>2. snap' \in {snap, [snap EXCEPT ![t] = 0]}
    BY <1>8 DEF Lookup, Return
  <2> QED
    BY ONLY VersionsPast, TypeOK, <2>1, <2>2 DEF VersionsPast, TypeOK
<1>9. ASSUME NEW t \in Flushers, EnsureFound(t) PROVE VersionsPast'
  BY <1>9 DEF EnsureFound, Goto
<1>10. ASSUME NEW t \in Flushers, EnsureMissing(t) PROVE VersionsPast'
  BY <1>10 DEF EnsureMissing, Fault, Goto
<1>11. ASSUME NEW t \in Flushers, RecoverSnapshot(t) PROVE VersionsPast'
  BY <1>11 DEF RecoverSnapshot, Goto
<1>12. ASSUME NEW t \in Flushers, RecoverUpload(t) PROVE VersionsPast'
  BY <1>12 DEF RecoverUpload, Goto
<1>13. ASSUME NEW t \in Flushers, Repoint(t) PROVE VersionsPast'
  BY <1>13 DEF Repoint, Goto
<1>14. ASSUME NEW t \in Flushers, Abort(t) PROVE VersionsPast'
  BY <1>14 DEF Abort, Fault, Return, Goto
<1>15. ASSUME NEW t \in Flushers, SnapRead(t) PROVE VersionsPast'
  BY <1>15 DEF SnapRead, Goto
<1>16. ASSUME NEW t \in Flushers, SnapReset(t) PROVE VersionsPast'
  BY <1>16 DEF SnapReset, Goto
<1>17. ASSUME NEW t \in Flushers, Push(t) PROVE VersionsPast'
  BY <1>17 DEF Push, PutContent, Goto
<1>18. ASSUME NEW t \in Flushers, PushFails(t) PROVE VersionsPast'
  <2>1. dbVersion' = dbVersion /\ snap' = [snap EXCEPT ![t] = 0]
    BY <1>18 DEF PushFails, Return
  <2>2. driveVer' \in {driveVer, [driveVer EXCEPT ![fid[t]] = snap[t]]}
    BY <1>18 DEF PushFails, PutContent
  <2> QED
    <3>1. \A u \in Flushers : snap'[u] <= dbVersion'
      BY ONLY VersionsPast, TypeOK, t \in Flushers, BoundsAssumption, <2>1 DEF VersionsPast, TypeOK
    <3>2. \A f \in DbFiles : driveVer'[f] <= dbVersion'
      BY ONLY VersionsPast, TypeOK, t \in Flushers, <2>1, <2>2 DEF VersionsPast, TypeOK
    <3> QED
      BY <3>1, <3>2
<1>19. ASSUME NEW t \in Flushers, ReadMeta(t) PROVE VersionsPast'
  BY <1>19 DEF ReadMeta, Goto
<1>20. ASSUME NEW t \in Flushers, ReadMetaFails(t) PROVE VersionsPast'
  BY <1>20 DEF ReadMetaFails, Fault, Return, Goto
<1>21. ASSUME NEW t \in Flushers, RecordMeta(t) PROVE VersionsPast'
  BY <1>21 DEF RecordMeta, Return, Goto
<1>22. ASSUME NEW f \in DbFiles, DeleteOnDrive(f) PROVE VersionsPast'
  BY <1>22 DEF DeleteOnDrive, Fault
<1>23. ASSUME Stop PROVE VersionsPast'
  BY <1>23 DEF Stop, Fault
<1>24. ASSUME Exit PROVE VersionsPast'
  BY <1>24 DEF Exit, Restart
<1>25. ASSUME Crash PROVE VersionsPast'
  BY <1>25 DEF Crash, Fault, Restart
<1>26. CASE UNCHANGED vars
  BY <1>26 DEF vars
<1> QED
  BY <1>1, <1>2, <1>3, <1>4, <1>5, <1>6, <1>7, <1>8, <1>9, <1>10, <1>11,
     <1>12, <1>13, <1>14, <1>15, <1>16, <1>17, <1>18, <1>19, <1>20, <1>21,
     <1>22, <1>23, <1>24, <1>25, <1>26 DEF Next, FlushStep

\* What a vouched-for flush is about to store stays no older than the copy, since
\* it alone writes the copy.
LEMMA UpStep ==
  ASSUME TypeOK, Inductive, VersionsPast, GoesUp, Order', [Next]_vars
  PROVE  GoesUp'
<1> USE DEF GoesUp, NotOlder, Stored, VersionsPast, VouchedIsSound, CapturedBy, TypeOK, Inductive,
    Order, VouchedAlone, InFlight, FlushSteps, FilesNamed, BeforeReset, DbFiles, NoFile,
    local, flush, drive, bounds, history
<1>1. ASSUME NEW w \in Writers, Commit(w) PROVE GoesUp'
  BY <1>1 DEF Commit, CommitItem, CommitLabel
<1>2. ASSUME NEW w \in Writers, MarkDirty(w) PROVE GoesUp'
  BY <1>2 DEF MarkDirty
<1>3. ASSUME LoopTick PROVE GoesUp'
  BY <1>3 DEF LoopTick, Enter, Goto
<1>4. ASSUME ShutdownTick PROVE GoesUp'
  BY <1>4 DEF ShutdownTick, Enter, Goto
<1>5. ASSUME NEW t \in SyncNow, Click(t) PROVE GoesUp'
  BY <1>5 DEF Click, Goto
<1>6. ASSUME NEW t \in SyncNow, CheckDirty(t) PROVE GoesUp'
  <2>1. CASE dirty
    BY <1>6, <2>1 DEF CheckDirty, Enter, Goto
  <2>2. CASE ~dirty
    BY <1>6, <2>2 DEF CheckDirty, Return, Goto
  <2> QED
    BY <2>1, <2>2
<1>7. ASSUME NEW t \in SyncNow, Answer(t) PROVE GoesUp'
  BY <1>7 DEF Answer, Goto
<1>8. ASSUME NEW t \in Flushers, Lookup(t) PROVE GoesUp'
  <2>1. CASE fileId = NoFile
    BY <1>8, <2>1 DEF Lookup, Return, Goto
  <2>2. CASE fileId # NoFile
    BY <1>8, <2>2 DEF Lookup, Goto
  <2> QED
    BY <2>1, <2>2
<1>9. ASSUME NEW t \in Flushers, EnsureFound(t) PROVE GoesUp'
  BY <1>9 DEF EnsureFound, Goto
<1>10. ASSUME NEW t \in Flushers, EnsureMissing(t) PROVE GoesUp'
  BY <1>10 DEF EnsureMissing, Fault, Goto
<1>11. ASSUME NEW t \in Flushers, RecoverSnapshot(t) PROVE GoesUp'
  BY <1>11 DEF RecoverSnapshot, Goto
<1>12. ASSUME NEW t \in Flushers, RecoverUpload(t) PROVE GoesUp'
  BY <1>12 DEF RecoverUpload, Goto
<1>13. ASSUME NEW t \in Flushers, Repoint(t) PROVE GoesUp'
  BY <1>13 DEF Repoint, Goto
<1>14. ASSUME NEW t \in Flushers, Abort(t) PROVE GoesUp'
  BY <1>14 DEF Abort, Fault, Return, Goto
<1>15. ASSUME NEW t \in Flushers, SnapRead(t) PROVE GoesUp'
  BY <1>15 DEF SnapRead, Goto
<1>16. ASSUME NEW t \in Flushers, SnapReset(t) PROVE GoesUp'
  BY <1>16 DEF SnapReset, Goto
<1>17. ASSUME NEW t \in Flushers, Push(t) PROVE GoesUp'
  BY <1>17 DEF Push, PutContent, Goto
<1>18. ASSUME NEW t \in Flushers, PushFails(t) PROVE GoesUp'
  BY <1>18 DEF PushFails, PutContent, Fault, Return, Goto
<1>19. ASSUME NEW t \in Flushers, ReadMeta(t) PROVE GoesUp'
  BY <1>19 DEF ReadMeta, Goto
<1>20. ASSUME NEW t \in Flushers, ReadMetaFails(t) PROVE GoesUp'
  BY <1>20 DEF ReadMetaFails, Fault, Return, Goto
<1>21. ASSUME NEW t \in Flushers, RecordMeta(t) PROVE GoesUp'
  BY <1>21 DEF RecordMeta, Return, Goto
<1>22. ASSUME NEW f \in DbFiles, DeleteOnDrive(f) PROVE GoesUp'
  BY <1>22 DEF DeleteOnDrive, Fault
<1>23. ASSUME Stop PROVE GoesUp'
  BY <1>23 DEF Stop, Fault
<1>24. ASSUME Exit PROVE GoesUp'
  BY <1>24 DEF Exit, Restart
<1>25. ASSUME Crash PROVE GoesUp'
  BY <1>25 DEF Crash, Fault, Restart
<1>26. CASE UNCHANGED vars
  BY <1>26 DEF vars
<1> QED
  BY <1>1, <1>2, <1>3, <1>4, <1>5, <1>6, <1>7, <1>8, <1>9, <1>10, <1>11,
     <1>12, <1>13, <1>14, <1>15, <1>16, <1>17, <1>18, <1>19, <1>20, <1>21,
     <1>22, <1>23, <1>24, <1>25, <1>26 DEF Next, FlushStep

\* A step commits or leaves the database; it leaves the copy or replaces it by
\* one that is no older, but for an accident.
StoresUp ==
  /\ \/ dbVersion' = dbVersion
     \/ /\ dbVersion' = dbVersion + 1 /\ Stored' = Stored /\ Unmarked'
        /\ lapses' = {} => lapses = {}
  /\ lapses' = {} => Stored <= Stored'
  /\ lapses # {} /\ lapses' = {} => Stored' = Stored

\* The version of the copy is that of a file, or 0.
LEMMA StoredVersion ==
  ASSUME TypeOK, VersionsPast
  PROVE  Stored \in 0 .. dbVersion
  BY BoundsAssumption DEF TypeOK, VersionsPast, Stored, NoFile

\* Every step changes the database and the copy as StoresUp says.
LEMMA StoredStep ==
  ASSUME TypeOK, Inductive, VersionsPast, GoesUp, [Next]_vars
  PROVE  StoresUp
<1>1. Stored \in Nat
  BY StoredVersion DEF TypeOK
<1>2. ASSUME UNCHANGED <<dbVersion, fileId, driveVer>> PROVE StoresUp
  BY <1>1, <1>2 DEF StoresUp, Stored
<1>3. ASSUME dbVersion' = dbVersion, lapses' # {} PROVE StoresUp
  BY <1>3 DEF StoresUp
<1>4. ASSUME NEW w \in Writers, Commit(w) PROVE StoresUp
  <2>1. Unmarked' /\ Stored' = Stored /\ dbVersion' = dbVersion + 1
    BY <1>4 DEF Commit, Unmarked, Stored, drive, TypeOK
  <2>2. lapses' = {} => lapses = {}
    BY <1>4 DEF Commit, CommitItem, CommitLabel, history
  <2> QED
    BY <1>1, <2>1, <2>2 DEF StoresUp
<1>5. ASSUME NEW t \in Flushers, RecoverUpload(t) PROVE StoresUp
  <2>1. UNCHANGED <<dbVersion, fileId>> /\ (fileId # NoFile => driveVer'[fileId] = driveVer[fileId])
    BY <1>5 DEF RecoverUpload, local, Inductive, FilesNamed, TypeOK, DbFiles, NoFile
  <2> QED
    BY <1>1, <2>1 DEF StoresUp, Stored
<1>6. ASSUME NEW t \in Flushers, Repoint(t) PROVE StoresUp
  <2>1. /\ t \in InFlight /\ fid[t] # NoFile
        /\ UNCHANGED <<dbVersion, driveVer, lapses>> /\ fileId' = fid[t] /\ pc[t] = "repoint"
    BY <1>6 DEF Repoint, InFlight, FlushSteps, Inductive, FilesNamed, drive, history
  <2>2. lapses = {} => Stored <= driveVer[fid[t]]
    BY <2>1 DEF Inductive, VouchedUnlessLapse, GoesUp, NotOlder
  <2> QED
    BY <2>1, <2>2 DEF StoresUp, Stored
<1>7. ASSUME NEW t \in Flushers, Push(t) PROVE StoresUp
  <2>1. /\ t \in InFlight /\ pc[t] = "push" /\ UNCHANGED <<dbVersion, fileId, lapses>>
        /\ driveVer' = [driveVer EXCEPT ![fid[t]] = snap[t]]
        /\ fid[t] \in DbFiles
    BY <1>7 DEF Push, PutContent, InFlight, FlushSteps, local, history, TypeOK
  <2>2. CASE lapses = {}
    <3>1. Stored <= snap[t] /\ fid[t] = fileId
      BY <2>1, <2>2 DEF Inductive, VouchedUnlessLapse, GoesUp, NotOlder, VouchedIsSound, CapturedBy
    <3>2. Stored' = snap[t]
      BY <2>1, <3>1 DEF Stored, TypeOK, DbFiles, NoFile
    <3> QED
      BY <2>1, <2>2, <3>1, <3>2 DEF StoresUp
  <2>3. CASE lapses # {}
    BY <1>3, <2>1, <2>3
  <2> QED
    BY <2>2, <2>3
<1>8. ASSUME NEW t \in Flushers, PushFails(t) PROVE StoresUp
  BY <1>3, <1>8 DEF PushFails, local
<1>9. ASSUME NEW f \in DbFiles, DeleteOnDrive(f) PROVE StoresUp
  BY <1>3, <1>9 DEF DeleteOnDrive, local
<1>10. ASSUME \/ \E w \in Writers : MarkDirty(w)
              \/ LoopTick \/ ShutdownTick \/ Stop \/ Exit \/ Crash \/ UNCHANGED vars
              \/ \E t \in SyncNow : Click(t) \/ CheckDirty(t) \/ Answer(t)
       PROVE  StoresUp
  BY <1>2, <1>10 DEF MarkDirty, LoopTick, ShutdownTick, Stop, Exit, Crash, Restart, Click, CheckDirty,
                     Answer, vars, local, drive
<1>11. ASSUME NEW t \in Flushers,
              \/ Lookup(t) \/ EnsureFound(t) \/ EnsureMissing(t) \/ RecoverSnapshot(t)
              \/ Abort(t) \/ SnapRead(t) \/ SnapReset(t)
              \/ ReadMeta(t) \/ ReadMetaFails(t) \/ RecordMeta(t)
       PROVE  StoresUp
  BY <1>2, <1>11 DEF Lookup, EnsureFound, EnsureMissing, RecoverSnapshot, Abort, SnapRead,
                     SnapReset, ReadMeta, ReadMetaFails, RecordMeta, local, drive
<1> QED
  BY <1>4, <1>5, <1>6, <1>7, <1>8, <1>9, <1>10, <1>11 DEF Next, FlushStep

\* flush_now writes back: without accidents, no push or recovery ever replaces the
\* copy on Drive by an older version, and a clean flag means a current copy.
THEOREM WritesBack == Spec => IsWriteBack
<1>1. Init => VersionsPast /\ GoesUp /\ Copy!Init
  <2> SUFFICES ASSUME Init PROVE VersionsPast /\ GoesUp /\ Copy!Init
    OBVIOUS
  <2>1. VersionsPast
    BY DEF Init, VersionsPast
  <2>2. GoesUp
    BY DEF Init, GoesUp, InFlight, FlushSteps
  <2>3. LooksClean \in BOOLEAN
    BY DEF LooksClean, Unmarked
  <2>4. Stored = 0 /\ dbVersion = 0 /\ (lapses = {}) = TRUE
    BY BoundsAssumption DEF Init, Stored, DbFiles, NoFile
  <2> QED
    BY <2>1, <2>2, <2>3, <2>4 DEF Copy!Init
<1>2. /\ TypeOK /\ Inductive /\ VersionsPast /\ GoesUp /\ [Next]_vars
      /\ TypeOK' /\ Inductive' 
      => VersionsPast' /\ GoesUp' /\ [Copy!Next]_<<dbVersion, Stored, LooksClean, lapses = {}>>
  <2> SUFFICES ASSUME TypeOK, Inductive, VersionsPast, GoesUp, [Next]_vars, TypeOK', Inductive'
               PROVE  VersionsPast' /\ GoesUp' /\ Copy!Next
    OBVIOUS
  <2>1. VersionsPast' /\ GoesUp'
    BY PastStep, UpStep DEF Inductive, Order
  <2>2. StoresUp /\ Stored \in 0 .. dbVersion /\ Stored' \in 0 .. dbVersion' /\ dbVersion' \in Nat
    <3>1. dbVersion' \in Nat
      BY BoundsAssumption DEF TypeOK
    <3>2. Stored' \in 0 .. dbVersion'
      BY <2>1, BoundsAssumption DEF TypeOK, VersionsPast, Stored, DbFiles, NoFile
    <3> QED
      BY <3>1, <3>2, StoredStep, StoredVersion
  <2>3. /\ LooksClean' \in BOOLEAN
        /\ lapses' = {} /\ LooksClean' => Stored' = dbVersion'
        /\ Unmarked' => ~LooksClean'
    BY DEF LooksClean, Unmarked, Inductive, CleanMeansPushed, Pushed, Stored
  <2>4. CASE dbVersion' = dbVersion + 1 /\ Stored' = Stored /\ Unmarked' /\ (lapses' = {} => lapses = {})
    <3>1. LooksClean' = FALSE /\ (lapses' = {}) \in {lapses = {}, FALSE}
      BY <2>3, <2>4
    <3> QED
      BY ONLY <2>1, <2>4, <3>1 DEF Copy!Next, Copy!Commit
  <2>5. CASE dbVersion' = dbVersion
    <3>1. CASE lapses' # {}
      <4>1. Copy!Disturb
        BY ONLY <2>2, <2>3, <2>5, <3>1 DEF Copy!Disturb
      <4> QED
        BY ONLY <2>1, <4>1 DEF Copy!Next
    <3>2. CASE lapses' = {} /\ lapses = {}
      <4>1. Copy!Store
        BY ONLY <2>2, <2>3, <2>5, <3>2 DEF Copy!Store, StoresUp
      <4> QED
        BY ONLY <2>1, <4>1 DEF Copy!Next
    <3>3. CASE lapses' = {} /\ lapses # {}
      <4>1. Copy!Recover
        BY ONLY <2>2, <2>3, <2>5, <3>3 DEF Copy!Recover, StoresUp
      <4> QED
        BY ONLY <2>1, <4>1 DEF Copy!Next
    <3> QED
      BY <3>1, <3>2, <3>3
  <2> QED
    BY <2>2, <2>4, <2>5 DEF StoresUp
<1> QED
  BY <1>1, <1>2, TypeCorrect, InductiveCorrect, PTL DEF Spec, IsWriteBack, Copy!Spec
=============================================================================
