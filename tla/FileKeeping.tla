---------------------------- MODULE FileKeeping ----------------------------
(***************************************************************************)
(* What the program promises of the files it accepts, without rows, locks, *)
(* sweeps or failures: an accepted file waits in the local cache, goes on  *)
(* Drive at most once, never comes back from there, and leaves either      *)
(* place only when its owner gives it up.                                  *)
(***************************************************************************)
CONSTANT Files

VARIABLES
  cached,   \* accepted files whose content is in the local cache
  stored,   \* accepted files whose content is on Drive
  gone      \* files given up, before or after they were accepted

places == <<cached, stored, gone>>

Init == cached = {} /\ stored = {} /\ gone = {}

New == Files \ (cached \cup stored \cup gone)

\* New files come under the promise together; those of unprotected do not.
Accept(accepted, unprotected) ==
  /\ cached' = cached \cup accepted
  /\ gone' = gone \cup unprotected
  /\ UNCHANGED stored

Store(f) ==
  /\ f \in cached
  /\ cached' = cached \ {f}
  /\ stored' = stored \cup {f}
  /\ UNCHANGED gone

GiveUp(given) ==
  /\ cached' = cached \ given
  /\ stored' = stored \ given
  /\ gone' = gone \cup given

Next ==
  \/ \E accepted, unprotected \in SUBSET New : Accept(accepted, unprotected)
  \/ \E f \in Files : Store(f)
  \/ \E given \in SUBSET Files : GiveUp(given)

Spec == Init /\ [][Next]_places
=============================================================================
