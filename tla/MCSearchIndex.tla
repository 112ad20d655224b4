--------------------------- MODULE MCSearchIndex ---------------------------
(* Small instances of SearchIndex.                                          *)
EXTENDS SearchIndex, TLC

CONSTANTS c1, c2, c3

\* c1 and c2 differ in what no review covers, such as the keywords.
MCReviewed == [c \in Contents |-> IF c = c3 THEN "d2" ELSE "d1"]

Symmetry == Permutations(Procs)
=============================================================================
