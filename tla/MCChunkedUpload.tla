--------------------------- MODULE MCChunkedUpload ---------------------------
(* Instances of ChunkedUpload for TLC: files are small numbers of pieces.   *)
EXTENDS ChunkedUpload

Pick(n, stated, kind, slow) ==
  [size |-> n, declared |-> stated, kind |-> kind, slow |-> slow]

\* Files around every boundary of the arithmetic: empty, a last chunk that is
\* short, one that is full, the largest that is allowed and one over it; and
\* files whose size was stated wrongly, beyond and within the limit.
BoundaryFiles ==
  {Pick(n, n, "good", slow) : n \in {0, 3, 4, 5, 6}, slow \in BOOLEAN}
    \cup {Pick(3, 3, kind, slow) : kind \in {"mismatched", "disallowed"},
                                   slow \in BOOLEAN}
    \cup {Pick(n, 4, "good", slow) : n \in {3, 6}, slow \in BOOLEAN}

LongerFile == {Pick(5, 5, "good", TRUE)}

\* Two quick uploads side by side, or one slow upload (the other is refused).
MCInit ==
  /\ Init
  /\ \/ \A u \in Uploads : ~file[u].slow
     \/ /\ \A u \in Uploads : file[u].slow
        /\ Cardinality({u \in Uploads : file[u].kind # "disallowed"}) <= 1

MCSpec == MCInit /\ [][Next]_vars /\ Fairness
=============================================================================
