--------------------------- MODULE MCSearchQuery ---------------------------
(* A small instance of SearchQuery: an object, a field of it, a flow and a   *)
(* packaged flow of the same name; four entries that name one another.       *)
EXTENDS SearchQuery

MCNameOrder == <<"F:a", "F:b", "Flow", "O", "Obj", "Obj.Fld", "P", "Fld", "Pkg", "obj">>
MCTermOrder == <<"t1", "t2", "t3", "t4">>
MCEntries == {"F:a", "F:b", "O", "P"}
MCFullName == [e \in MCEntries |->
  CASE e \in {"F:a", "F:b"} -> "Flow" [] e = "O" -> "Obj" [] OTHER -> "Obj.Fld"]
MCMember == [n \in NameSet |-> IF n = "Obj.Fld" THEN "Fld" ELSE Absent]
MCTypeOf == [e \in MCEntries |->
  CASE e \in {"F:a", "F:b"} -> "flow" [] e = "O" -> "object" [] OTHER -> "field"]
MCNamespaceOf == [e \in MCEntries |-> IF e = "F:b" THEN "ns" ELSE "c"]
MCFold == [n \in NameSet |-> IF n = "obj" THEN "Obj" ELSE n]

Edge(kind, target, exact) == [kind |-> kind, target |-> target, exact |-> exact]

Pool ==
  {<<"P", Edge("belongs-to", "Obj", TRUE)>>, <<"F:a", Edge("reads", "Obj", TRUE)>>,
   <<"F:a", Edge("edit", "obj", FALSE)>>, <<"F:b", Edge("reads", "obj", TRUE)>>,
   <<"O", Edge("reads", "Fld", FALSE)>>, <<"F:b", Edge("reads", "Pkg", TRUE)>>,
   <<"P", Edge("reads", "Flow", TRUE)>>}

Lanes ==
  {[e \in MCEntries |-> "approved-current"],
   [e \in MCEntries |-> IF e = "F:a" THEN "revoked" ELSE "approved-current"],
   [e \in MCEntries |-> IF e = "P" THEN "draft" ELSE "approved-drifted"]}

MCTerms == [e \in MCEntries |->
  CASE e = "F:a" -> {"t1", "t2"} [] e = "F:b" -> {"t2"} [] e = "O" -> {"t2"} [] OTHER -> {"t3"}]

Corpus(edges, lanes, twin) ==
  [e \in IF twin THEN MCEntries ELSE MCEntries \ {"F:b"} |->
     [lane |-> lanes[e], edges |-> {x[2] : x \in {y \in edges : y[1] = e}},
      terms |-> MCTerms[e], facet |-> e \in {"F:a", "O"},
      dropped |-> IF e = "P" THEN {"edit"} ELSE {}]]

\* Four of the edges; with every entry effective also without the packaged flow
\* and its edges.
MCCorpora ==
  LET Edges == {s \in SUBSET Pool : Cardinality(s) = 4}
      Alone == {s \in Edges : \A x \in s : x[1] # "F:b"} IN
  {Corpus(edges, lanes, TRUE) : edges \in Edges, lanes \in Lanes}
    \cup {Corpus(edges, [e \in MCEntries |-> "approved-current"], FALSE) : edges \in Alone}

States == {EffectiveLanes, EffectiveLanes \cup {"revoked"}}

MCExplains ==
  [anchor : {"O", "P"}, states : States, heuristic : {TRUE}, top : {1, 3}]
MCContexts ==
  [anchor : {"O", "Flow"}, states : States, heuristic : {TRUE}, top : {1, 3},
   direction : {"incoming", "outgoing"}, patience : {9}]
MCImpacts ==
  [anchor : {"O", "P", "Flow"}, states : {EffectiveLanes}, heuristic : BOOLEAN, top : {2},
   direction : {"incoming", "outgoing"}, depth : {3}, patience : {1, 9}]

Question == [terms |-> {}, anchor |-> Absent, identity |-> Absent, kind |-> Absent,
             direction |-> "incoming", type |-> Absent, namespace |-> Absent,
             facet |-> Absent, heuristic |-> FALSE, top |-> 2,
             states |-> EffectiveLanes]
MCSearches ==
  {[Question EXCEPT !.terms = t, !.type = y, !.namespace = n, !.facet = f] :
     t \in {{"t1"}, {"t2"}, {"t1", "t3"}, {"t2", "t4"}},
     y \in {Absent, "flow"}, n \in {Absent, "c"}, f \in {Absent, "eq", "in"}}
  \cup {[Question EXCEPT !.identity = i, !.namespace = n, !.facet = f] :
     i \in {"P", "Flow"}, n \in {Absent, "c"}, f \in {Absent, "in"}}
  \cup {[Question EXCEPT !.anchor = a, !.kind = k, !.direction = d, !.facet = f] :
     a \in {"Obj", "P"}, k \in {Absent, "reads"}, d \in {"incoming", "outgoing"},
     f \in {Absent, "in"}}
  \cup {[Question EXCEPT !.type = "flow", !.states = s] : s \in States}
=============================================================================
