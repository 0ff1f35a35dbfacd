---------------------------- MODULE MCUploadSync ----------------------------
(* Instances of UploadSync for TLC. *)
EXTENDS UploadKeeps, TLC

\* Items and sweeps are interchangeable: no definition names one.
Symmetry == Permutations(Items) \cup Permutations(Sweepers)

\* Bound: the last of the files, the replacement of a thumbnail, comes in histories
\* without a failure only, and is the last request.
MCNext ==
  /\ Next
  /\ nextBlob' > MaxBlob => faults' = 0
  /\ nextBlob > MaxBlob /\ op = "none" => op' = "none"
MCSpec == Init /\ [][MCNext]_vars /\ Fairness
=============================================================================
