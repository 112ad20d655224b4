----------------------------- MODULE EntryReports -----------------------------
(***************************************************************************)
(* What scripts/knowledge_store.py and scripts/force_app_knowledge.py say  *)
(* of the entries without writing anything: lanes, citation verdicts, the  *)
(* entry check and its narrow form, coverage with its maintenance summary  *)
(* and facts analysis, readiness and the health of the edges.              *)
(*                                                                         *)
(* A corpus w is a record: tree, the content of each source file; entry,   *)
(* the content of each entry file; ledger, the latest record of each       *)
(* identity; day, the date.  live is the component map of an inventory.    *)
(* An entry file has the name of the component its path stands for; the    *)
(* subject inside may be another one.  Facts are the three kinds of lists  *)
(* a digest treats differently, and the edges.                             *)
(***************************************************************************)
EXTENDS Naturals, Sequences, FiniteSets, SequencesExt

CONSTANTS
  Names,      \* components; one source file each
  Draftable,  \* those whose type has an entry profile
  PathTells,  \* those whose entry path proves the identity: no escapes
  Owner,      \* the object of a field or other member, else None
  Token,      \* the last segment of each name
  Local,      \* names that only this source tree can create
  CycleDays,  \* --review-cycle-days
  None

-----------------------------------------------------------------------------
(* Lanes. *)

\* source_fragment_freshness, of the one fragment an entry has.
Freshness(w, e) ==
  IF w.tree[e.subject] = None THEN "missing"
  ELSE IF w.tree[e.subject] # e.pin THEN "drifted"
  ELSE "current"

\* reviewed_content_digest covers subject, facts and prose.
Reviewed(e) == [subject |-> e.subject, facts |-> e.facts, described |-> e.described]

\* validate_entry: an unfilled sentinel.
Problems(e) == IF e.described THEN {} ELSE {"sentinel"}

\* compute_lane: the lane and its problems.
Judged(w, n) ==
  LET e == w.entry[n]
      record == w.ledger[e.subject]
      Verdict(lane, problems) == [lane |-> lane, problems |-> Problems(e) \cup problems] IN
  IF e.subject # n THEN Verdict("not-effective", {"round-trip"})
  ELSE IF e.state = "draft" THEN Verdict("draft", {})
  ELSE IF Problems(e) # {} THEN Verdict("not-effective", {})
  ELSE IF record = None THEN Verdict("not-effective", {"quarantined"})
  ELSE IF record.action = "revoke" THEN Verdict("revoked", {})
  ELSE IF record.digest # Reviewed(e) THEN Verdict("not-effective", {"digest"})
  ELSE IF e.mirror # Reviewed(e) THEN Verdict("not-effective", {"mirror"})
  ELSE IF Freshness(w, e) = "missing" THEN Verdict("not-effective", {"missing"})
  ELSE IF Freshness(w, e) = "drifted" THEN Verdict("approved-drifted", {})
  ELSE Verdict("approved-current", {})

Lane(w, n) == Judged(w, n).lane

\* EFFECTIVE_ENTRY_LANES.
Effective == {"approved-current", "approved-drifted"}

Files(w) == {n \in Names : w.entry[n] # None}
InLane(w, lanes) == {n \in Files(w) : Lane(w, n) \in lanes}

\* verify_entry_citations of an identity, with the digest it cites or None.
\* The file is searched for by the identity inside.
Citation(w, n, digest) ==
  LET files == {f \in Files(w) : w.entry[f].subject = n}
      file == CHOOSE f \in files : TRUE
      lane == Lane(w, file) IN
  IF files = {} THEN [verdict |-> "missing", severity |-> "invalid", advisory |-> FALSE]
  ELSE IF lane \notin Effective THEN [verdict |-> lane, severity |-> "invalid", advisory |-> FALSE]
  ELSE IF digest # None /\ digest # Reviewed(w.entry[file]) THEN
         [verdict |-> "digest-mismatch", severity |-> "invalid", advisory |-> FALSE]
  ELSE IF lane = "approved-drifted" THEN [verdict |-> "drifted", severity |-> "ok", advisory |-> TRUE]
  ELSE [verdict |-> "current", severity |-> "ok", advisory |-> FALSE]

-----------------------------------------------------------------------------
(* entry-check. *)

\* Faulty variant: git diff alone.
TrackedOnly(w, base) == {n \in Files(w) : base.entry[n] # None /\ w.entry[n] # base.entry[n]}

\* changed_entry_paths since the commit base; git also lists untracked files.
Changed(w, base) == {n \in Files(w) : w.entry[n] # base.entry[n]}

\* What is reported of one entry, and the identity an entry is taken for: of
\* a file that is not opened it is read off the path.
OwnProblems(w, n) ==
  IF Lane(w, n) = "draft" THEN Judged(w, n).problems \ {"sentinel"} ELSE Judged(w, n).problems
Identity(w, opened, n) == IF n \in opened THEN w.entry[n].subject ELSE n
TwoFiles(w, opened) ==
  \E m, n \in Files(w) : m # n /\ Identity(w, opened, m) = Identity(w, opened, n)

\* What the check reports when it opens the files in opened.
CheckProblems(w, opened) ==
  (UNION {OwnProblems(w, n) : n \in opened})
    \cup {x \in {"two files"} : TwoFiles(w, opened)}

FullCheck(w) == CheckProblems(w, Files(w))
NarrowCheck(w, base) ==
  CheckProblems(w, {n \in Files(w) : n \in Changed(w, base) \/ n \notin PathTells})

-----------------------------------------------------------------------------
(* Facts and their analysis. *)

\* facts_digest: labels are sorted, rows are sorted by key, the order of
\* steps counts.
Occurs(seq, x) == Cardinality({i \in DOMAIN seq : seq[i] = x})
RowsOf(rows, key) == SelectSeq(rows, LAMBDA row : row.key = key)
Keys(rows) == {rows[i].key : i \in DOMAIN rows}
SameDigest(f, g) ==
  /\ \A x \in ToSet(f.labels \o g.labels) : Occurs(f.labels, x) = Occurs(g.labels, x)
  /\ Keys(f.rows) = Keys(g.rows)
  /\ \A key \in Keys(f.rows) : RowsOf(f.rows, key) = RowsOf(g.rows, key)
  /\ f.edges = g.edges

\* _keyed_index: a key that is repeated identifies nothing.
Keyed(rows) == Cardinality(Keys(rows)) = Len(rows)

Row(rows, key) == rows[CHOOSE i \in DOMAIN rows : rows[i].key = key]

\* structured_facts_delta: what was removed, added or changed, and where.
Delta(f, g) ==
  LET Sets(section, old, new) ==
        {<<"removed", section, x>> : x \in old \ new} \cup {<<"added", section, x>> : x \in new \ old}
      Places(rows) == DOMAIN rows
      Same(keys) == keys[1] \cap keys[2] IN
  Sets("labels", ToSet(f.labels), ToSet(g.labels))
    \cup Sets("edges", f.edges, g.edges)
    \cup IF Keyed(f.rows) /\ Keyed(g.rows)
         THEN Sets("rows", Keys(f.rows), Keys(g.rows))
                \cup {<<"changed", "rows", key>> : key \in
                        {k \in Same(<<Keys(f.rows), Keys(g.rows)>>) : Row(f.rows, k) # Row(g.rows, k)}}
         ELSE Sets("rows", Places(f.rows), Places(g.rows))
                \cup {<<"changed", "rows", i>> : i \in
                        {j \in Same(<<Places(f.rows), Places(g.rows)>>) : f.rows[j] # g.rows[j]}}

\* Faulty variant: no difference to list is no difference.
AnalysisOfDelta(w, n, live) ==
  LET e == w.entry[n] IN
  IF Problems(e) # {} THEN "ENTRY_NOT_EFFECTIVE"
  ELSE IF live[e.subject] = None THEN "ENTRY_COMPONENT_NOT_FOUND"
  ELSE IF Delta(e.facts, live[e.subject]) = {} THEN "FACTS_EQUIVALENT"
  ELSE "FACTS_CHANGED"

\* analyze_entry_facts: derive_structured_facts, the projection entry-draft
\* uses, of the component of the entry, with the entry's own limitations.
AnalysisCode(w, n, live) ==
  LET e == w.entry[n] IN
  IF Problems(e) # {} THEN "ENTRY_NOT_EFFECTIVE"
  ELSE IF live[e.subject] = None THEN "ENTRY_COMPONENT_NOT_FOUND"
  ELSE IF SameDigest(e.facts, live[e.subject]) THEN "FACTS_EQUIVALENT"
  ELSE IF Delta(e.facts, live[e.subject]) = {} THEN "REEXTRACTION_ERROR"
  ELSE "FACTS_CHANGED"

SelectedLanes(mode) == IF mode = "drifted" THEN {"approved-drifted"} ELSE Effective

\* fact_analysis_report; live is None when there is no inventory.
FactAnalysis(w, mode, live) ==
  LET candidates == InLane(w, SelectedLanes(mode))
      Code(n) == IF live = None THEN "REEXTRACTION_UNAVAILABLE" ELSE AnalysisCode(w, n, live) IN
  [equivalent |-> {n \in candidates : Code(n) = "FACTS_EQUIVALENT"},
   changed |-> {n \in candidates : Code(n) = "FACTS_CHANGED"},
   failures |-> {n \in candidates : Code(n) \notin {"FACTS_EQUIVALENT", "FACTS_CHANGED"}},
   excluded |-> Files(w) \ candidates]

-----------------------------------------------------------------------------
(* Coverage, readiness and edges. *)

Live(live) == {n \in Names : live[n] # None}

\* maintenance_summary.  The age is that of the latest ledger record.
Age(w, n) ==
  LET record == w.ledger[w.entry[n].subject] IN
  IF record = None THEN None ELSE w.day - record.at
Old(w, n) == Age(w, n) # None /\ Age(w, n) >= CycleDays

\* Faulty variant: an old approval of a drifted entry needs a decision.
MaintenanceOfAge(w) ==
  [currentNoAction |-> InLane(w, {"approved-current"}),
   olderCurrentNoAction |-> {},
   driftedDisclosureOnly |-> {n \in InLane(w, {"approved-drifted"}) : ~Old(w, n)},
   optionalRefresh |-> {},
   requiresDecision |-> {n \in Files(w) : Lane(w, n) = "not-effective"
                                          \/ (Lane(w, n) = "approved-drifted" /\ Old(w, n))}]

Maintenance(w) ==
  [currentNoAction |-> InLane(w, {"approved-current"}),
   olderCurrentNoAction |-> {n \in InLane(w, {"approved-current"}) : Old(w, n)},
   driftedDisclosureOnly |-> {n \in InLane(w, {"approved-drifted"}) : ~Old(w, n)},
   optionalRefresh |-> {n \in InLane(w, {"approved-drifted"}) : Old(w, n)},
   requiresDecision |-> InLane(w, {"not-effective"})]

\* entry-coverage: the files count by the identity inside.
Subjects(w) == {w.entry[n].subject : n \in Files(w)}
MissingEntries(w, live) == (Live(live) \cap Draftable) \ Subjects(w)

\* entry-readiness; resolve reports the same status of a component.
Readiness(w, live) ==
  [noEntry |-> (Live(live) \cap Draftable) \ Subjects(w),
   undescribed |-> {n \in Live(live) \cap Draftable :
                      \E f \in Files(w) : w.entry[f].subject = n /\ ~w.entry[f].described}]

\* _decidable_targets and _edge_target_verdict: the names that are gone for
\* sure, and whether the edge is disclosed as undecidable.
Verdict(edge, live) ==
  LET t == edge.target
      local == {x \in {t, Owner[t]} \ {None} : x \in Local} IN
  CASE edge.form = "dotted" ->
         [gone |-> IF Owner[t] \in Local THEN local \ Live(live) ELSE {}, open |-> FALSE]
    [] edge.form = "declared" ->
         [gone |-> ({t} \cap Local) \ Live(live), open |-> FALSE]
    [] edge.form = "bare" ->
         [gone |-> {},
          open |-> t \in Local /\ \A n \in Live(live) : Token[n] # Token[t]]

\* entry_edge_health: the findings and what is disclosed as undecidable.
EdgeHealth(w, live) ==
  LET effective == InLane(w, Effective)
      present == {n \in effective : live[n] # None}
      edges == UNION {{[from |-> n, edge |-> edge] : edge \in w.entry[n].facts.edges} : n \in present} IN
  [problems |-> {n \in Files(w) : Lane(w, n) \notin {"draft", "revoked"} /\ Judged(w, n).problems # {}},
   removed |-> effective \ present,
   gone |-> {x \in edges : Verdict(x.edge, live).gone # {}},
   undecidable |-> {x \in edges : Verdict(x.edge, live).open}]
=============================================================================
