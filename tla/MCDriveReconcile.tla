-------------------------- MODULE MCDriveReconcile --------------------------
(* An instance of DriveReconcile for TLC: every file has the same stem.     *)
EXTENDS DriveReconcile
CONSTANTS loop, request

StemOf == [o \in Objects |-> "same"]

\* The library has not got the shop of the imports yet.
MCInit == Init /\ ~shop

\* Bounds: one sweep at a time when there is an image; a created item has a
\* shop of its own.
MCNext ==
  /\ Next
  /\ (\E g \in Images : place'[g] # "none") => sweep'[request] = Idle
  /\ shop' # shop => sweep' # sweep
MCSpec == MCInit /\ [][MCNext]_vars /\ Fairness
=============================================================================
