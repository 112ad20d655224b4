----------------------------- MODULE MCWikiTools -----------------------------
(* A small instance of WikiTools: two projects of one organization.          *)
EXTENDS WikiTools, TLC

CONSTANTS Projects

MCScopes == {[org |-> "A", project |-> p] : p \in Projects}

Symmetry == Permutations(Authors) \cup Permutations(Contents) \cup Permutations(Projects)
=============================================================================
