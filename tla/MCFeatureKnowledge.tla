------------------------- MODULE MCFeatureKnowledge -------------------------
(* Small instances of FeatureKnowledge: the batches authors may propose.     *)
EXTENDS FeatureKnowledge, TLC

CONSTANTS e1, t1

Set(kind, id, data) == [op |-> "set", kind |-> kind, id |-> id, data |-> data]
Claim(authority, deps, refs) ==
  Set("FC", None, [live |-> TRUE, technical |-> authority # "human-attested",
                   authority |-> authority, citable |-> authority \in CitableAuthorities,
                   deps |-> deps, refs |-> refs])
Section == [op |-> "section", text |-> t1]
BindTo(e) == [op |-> "bind", entry |-> e]
Delete(id) == [op |-> "remove", id |-> id]
C1 == <<"FC", 1>>
B1 == <<"FB", 1>>
B2 == <<"FB", 2>>

\* An exact claim, a claim that rests on it and a relation; a new binding in
\* place of the first one.
MCBatches ==
  {<<BindTo(e1), Claim("source-exact", {}, {B1}), Section,
     Claim("human-attested", {C1}, {}),
     Set("FN", None, [live |-> TRUE, evidence |-> {C1}]),
     Set("FR", None, [live |-> TRUE, from |-> <<"FN", 1>>, to |-> <<"FN", 1>>,
                      authority |-> "source-derived-heuristic", refs |-> {}])>>,
   <<BindTo(e1), Set("FC", C1, [refs |-> {B2}]), Delete(B1)>>}

Symmetry == Permutations(Procs) \cup Permutations(Features) \cup Permutations(EntryDigests)
=============================================================================
