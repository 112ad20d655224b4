-------------------------- MODULE MCKnowledgeStore --------------------------
(* Small instances of KnowledgeStore.  The text and stamp constants are      *)
(* named so that the external file versions can be written down.             *)
EXTENDS KnowledgeStore, TLC

CONSTANTS t1, t2, v1, v2, s1, s2, l0, l1

\* Each source version yields facts of its own.
MCFactsOf == [v \in Versions |-> v]

\* A version of an approved entry as some earlier commit may hold it.
Committed(t, v, s) ==
  LET content == [facts |-> v, limits |-> l0, text |-> t] IN
  [state |-> "approved", digest |-> content, pin |-> v,
   mirror |-> [digest |-> content, stamp |-> s], org |-> NoOrgs]

\* Approved versions with either text and either stamp, one whose mirror is
\* missing, and removal of the file.
MCExternalFiles ==
  {None} \cup {Committed(t, v1, s) : t \in Texts, s \in Stamps}
         \cup {[Committed(t, v1, s1) EXCEPT !.mirror = None] : t \in Texts}

\* Entries, texts and processes are interchangeable.
Symmetry == Permutations(Ids) \cup Permutations(Texts) \cup Permutations(Procs)
=============================================================================
