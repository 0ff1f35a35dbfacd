--------------------------- MODULE MCItemLibrary ---------------------------
(* An instance of ItemLibrary for TLC: two files of one name and a third.   *)
EXTENDS ItemLibrary, TLC
CONSTANTS e1, e2, f1, f2, f3
TwoNames == (f1 :> "a" @@ f2 :> "a" @@ f3 :> "b")

\* Bounds: e2 has no page open any more when the third file is there; of the two
\* files of one name, which nothing else tells apart, f1 comes first.
MCNext == /\ LibraryNext
          /\ uploaded' = Files => page'[e2] = NoPage
          /\ f2 \in uploaded' => f1 \in uploaded'
MCSpec == LibraryInit /\ [][MCNext]_libraryVars /\ LibraryFairness
=============================================================================
