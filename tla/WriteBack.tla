----------------------------- MODULE WriteBack -----------------------------
(***************************************************************************)
(* What the program promises of the copy of its database on Drive, without *)
(* threads, locks, flags, files or snapshots: a commit makes the copy old, *)
(* it is only ever replaced by a newer one, and the program takes itself   *)
(* for clean only when the copy is current.  After an accident the copy    *)
(* may be any version, until a flush that nothing disturbs restores the    *)
(* promise.                                                                *)
(***************************************************************************)
EXTENDS Naturals

VARIABLES
  current,  \* version of the database
  stored,   \* version of its copy
  clean,    \* the program sees nothing to write back
  sound     \* no accident since the last flush that ran undisturbed

Init == current = 0 /\ stored = 0 /\ clean \in BOOLEAN /\ sound = TRUE

Commit ==
  /\ current' = current + 1
  /\ clean' = FALSE
  /\ sound' \in {sound, FALSE}
  /\ UNCHANGED stored

Store ==
  /\ sound /\ sound' = sound
  /\ stored' \in stored .. current
  /\ clean' \in BOOLEAN /\ (clean' => stored' = current)
  /\ UNCHANGED current

Disturb ==
  /\ sound' = FALSE
  /\ stored' \in 0 .. current
  /\ clean' \in BOOLEAN
  /\ UNCHANGED current

Recover ==
  /\ ~sound /\ sound' = TRUE
  /\ clean' \in BOOLEAN /\ (clean' => stored = current)
  /\ UNCHANGED <<current, stored>>

Next == Commit \/ Store \/ Disturb \/ Recover

Spec == Init /\ [][Next]_<<current, stored, clean, sound>>
=============================================================================
