---------------------------- MODULE SearchQuery ----------------------------
(***************************************************************************)
(* What a query of scripts/knowledge_search.py answers from one loaded     *)
(* generation of the index: search, explain, context and impact, over the  *)
(* reverse relation index and the one bounded traversal they share.  How   *)
(* the generation came about and whether it is fresh is the subject of     *)
(* SearchIndex; here it stays the same while entry files and their sources *)
(* go on changing, which a query notices by reading them again.            *)
(*                                                                         *)
(* A count that an answer reports is represented by whether it is zero.    *)
(* Relevance scores, snippets and wording are left out: rows are in the    *)
(* order of their names.                                                   *)
(***************************************************************************)
EXTENDS Naturals, Sequences, FiniteSets, SequencesExt

CONSTANTS
  NameOrder,      \* every identity, full name, edge target and anchor, in sort order
  Entries,        \* the identities a generation may hold
  FullName,       \* the full name of each entry
  Member,         \* the part of each full name behind its owner, or Absent
  TypeOf,         \* the metadata type of each entry
  NamespaceOf,    \* the namespace of each entry
  Fold,           \* the case-folded form of each name
  TermOrder,      \* the analyzed tokens of queries
  GrantFamily,    \* relation kinds whose edges the collector drops together
  Corpora,        \* the projections a generation may hold
  Searches, Explains, Contexts, Impacts,   \* the questions asked
  Hubs,           \* the stop lists of features hold one of these
  Watched,        \* the entry whose file and source change
  Cap,            \* LEXICAL_CANDIDATE_CAP
  MaxNodes,       \* TRAVERSAL_LIMITS
  MaxFanout,
  MinCorpus,      \* DF_SATURATION_MIN_CORPUS
  Absent          \* no name, no filter, no lane

NameSet == Range(NameOrder)
EffectiveLanes == {"approved-current", "approved-drifted"}

\* ALL_LANES.
Lifecycle ==
  EffectiveLanes \cup {"draft", "revoked", "scope-mismatch", "unsupported-profile",
                       "not-effective"}

\* A projected entry: its lane, a facet, its edges and the tokens of its text.
Document(d) ==
  /\ d.lane \in Lifecycle /\ d.facet \in BOOLEAN
  /\ IsFiniteSet(d.edges) /\ \A e \in d.edges : e.target \in NameSet /\ e.exact \in BOOLEAN
  /\ d.terms \subseteq Range(TermOrder)

\* What every question is made of, and what a question that walks adds.  A
\* --top of 0 stands for the default and a --depth below 1 for 1: here they are
\* what they stand for.
Asked(q) == q.states \subseteq Lifecycle /\ q.heuristic \in BOOLEAN /\ q.top \in Nat \ {0}
Walkable(q) == q.anchor \in NameSet /\ q.direction \in {"incoming", "outgoing"}

\* Names and tokens are finitely many and every name a generation holds is
\* one of them; the limits, and what questions are made of, have their types.
ASSUME QueryAssumption ==
  /\ NameOrder \in Seq(NameSet) /\ TermOrder \in Seq(Range(TermOrder))
  /\ Entries \subseteq NameSet /\ Absent \notin NameSet \cup {"eq", "in"}
  /\ \A e \in Entries : FullName[e] \in NameSet
  /\ \A c \in Corpora : DOMAIN c \subseteq Entries /\ \A d \in DOMAIN c : Document(c[d])
  /\ Cap \in Nat /\ MaxNodes \in Nat /\ MaxFanout \in Nat
  /\ \A q \in Searches : /\ Asked(q) /\ q.terms \subseteq Range(TermOrder)
                         /\ q.facet \in {Absent, "eq", "in"}
  /\ \A q \in Explains : Asked(q)
  /\ \A q \in Contexts \cup Impacts : Asked(q) /\ Walkable(q)
  /\ \A q \in Contexts : {"anchor", "states", "heuristic", "top"} \subseteq DOMAIN q
  /\ \A q \in Impacts : q.depth \in Nat \ {0}

VARIABLES
  docs,     \* the documents of the loaded generation, by identity
  file,     \* each entry file against the bytes that were projected; one that is
            \* gone is one that changed
  source,   \* its recorded source fragments against their approved digests
  reply     \* the last answer, until the working tree changes

queryVars == <<docs, file, source, reply>>

Kept(seq, S) ==
  FlattenSeq([i \in 1 .. Len(seq) |-> IF seq[i] \in S THEN <<seq[i]>> ELSE <<>>])
InOrder(S) == Kept(NameOrder, S)
ByName(seq) ==
  FlattenSeq([i \in 1 .. Len(NameOrder) |->
                Kept(seq, {x \in Range(seq) : x.node = NameOrder[i]})])
First(seq, n) == SubSeq(seq, 1, IF n < Len(seq) THEN n ELSE Len(seq))
SetInOrder(S) ==
  FlattenSeq([i \in 1 .. Len(NameOrder) |->
                SetToSeq({x \in S : x.node = NameOrder[i]})])

-----------------------------------------------------------------------------
(* The reverse relation index and the document store. *)

LaneOf(n) == IF n \in DOMAIN docs THEN docs[n].lane ELSE Absent
Effective(n) == LaneOf(n) \in EffectiveLanes
LaneIds(states) == {d \in DOMAIN docs : docs[d].lane \in states}
Named(n) == {d \in DOMAIN docs : Fold[FullName[d]] = Fold[n]}
ByIdentity(n) == {d \in DOMAIN docs : Fold[d] = Fold[n]}
ByMember(n) ==
  {d \in DOMAIN docs : Member[FullName[d]] # Absent /\ Fold[Member[FullName[d]]] = Fold[n]}

\* What an edge target resolves to: by full name, else by identity, else by
\* the bare name of a member, and only if there is one candidate.
Candidates(n) ==
  IF Named(n) # {} THEN Named(n)
  ELSE IF ByIdentity(n) # {} THEN ByIdentity(n) ELSE ByMember(n)
Resolved(n) ==
  IF Cardinality(Candidates(n)) = 1 THEN CHOOSE d \in Candidates(n) : TRUE ELSE n

\* Every edge that points at a name: one row per edge, not per source.
IncomingEdges(n) ==
  UNION {{[node |-> d, kind |-> e.kind, target |-> e.target, exact |-> e.exact] :
             e \in {f \in docs[d].edges : Fold[f.target] = Fold[n]}} : d \in DOMAIN docs}

\* truncation_gaps: the families the collector cut somewhere that a result
\* of these kinds may miss.  A kind no family knows always counts.
Truncated(kinds) ==
  {k \in UNION {docs[d].dropped : d \in DOMAIN docs} :
     kinds = {} \/ k \notin GrantFamily \/ kinds \cap GrantFamily # {}}

-----------------------------------------------------------------------------
(* Reading the working tree again. *)

\* hydrate: the entry files that still hold what was projected.
Hydrated(S) == {d \in S : file[d] = "asProjected"}
EntryGaps(S) == IF Hydrated(S) = S THEN {} ELSE {"entry"}

\* Faulty variant: a drifted entry's sources are not read again.
RecheckedCurrent(d) == file[d] = "asProjected" /\ docs[d].lane = "approved-current"

\* Whose source fragments are worth comparing: an effective entry's, once its
\* own file is known to be the one that was projected.
Rechecked(d) == file[d] = "asProjected" /\ Effective(d)

\* verify_anchor: the lane as projected, the file and the sources as they are.
AnchorGaps(d, states) ==
  (IF docs[d].lane \in states THEN {} ELSE {"anchor-lane"})
    \cup (IF file[d] = "asProjected" THEN {} ELSE {"anchor-entry"})
    \cup (IF Rechecked(d) /\ source[d] = "changed" THEN {"anchor-drift"} ELSE {})
    \cup (IF Rechecked(d) /\ source[d] = "missing" THEN {"anchor-integrity"} ELSE {})

\* lane_gaps for rows served outside the effective lanes.
LaneGaps(nodes) ==
  (IF \E n \in nodes : n \in DOMAIN docs /\ ~Effective(n) THEN {"opted-in"} ELSE {})
    \cup (IF nodes \subseteq DOMAIN docs THEN {} ELSE {"unresolved"})

-----------------------------------------------------------------------------
(* traverse: the breadth-first walk.  `q` says how: direction, heuristic,  *)
(* allowed, stops, patience (the nodes expanded before maxSeconds is up).  *)

Hop(node, e, via, owner) ==
  [node |-> node, kind |-> e.kind, via |-> via, exact |-> e.exact, ownerWard |-> owner]

NamesOf(n) == {n} \cup (IF n \in DOMAIN docs THEN {FullName[n]} ELSE {})
EdgesOf(n) == IF n \in DOMAIN docs THEN docs[n].edges ELSE {}

Hops(n, direction) ==
  IF direction = "outgoing"
    THEN {Hop(Resolved(e.target), e, e.target, FALSE) : e \in EdgesOf(n)}
  ELSE (UNION {{Hop(e.node, e, m, FALSE) : e \in IncomingEdges(m)} : m \in NamesOf(n)})
         \cup {Hop(Resolved(e.target), e, e.target, TRUE) :
                 e \in {f \in EdgesOf(n) : f.kind = "belongs-to"}}

\* Faulty variant: a chain is as good as its last hop.
LastHop(item, h) == h.exact

\* A chain is as trustworthy as its weakest hop.
Weakest(item, h) == item.exact /\ h.exact

\* One hop from a frontier item.  A node that an earlier level reached is
\* not offered again; one that this level reached is, once per chain.
Followed(walk, q, item, h) ==
  LET chain == [node |-> h.node, hop |-> Len(item.path) + 1,
                path |-> Append(item.path, h), exact |-> Weakest(item, h)]
      stopped == NamesOf(h.node) \cap q.stops # {}
  IN IF "nodes" \in walk.limits THEN walk
     ELSE IF ~h.exact /\ ~q.heuristic
       THEN [walk EXCEPT !.excluded = @ \cup {"heuristic"}]
     ELSE IF h.node \in DOMAIN docs \ q.allowed
       THEN [walk EXCEPT !.excluded = @ \cup {"lifecycle"}]
     ELSE IF h.node \in walk.visited THEN walk
     ELSE [walk EXCEPT !.chains = Append(@, chain),
                       !.next = IF stopped THEN @ ELSE Append(@, chain),
                       !.halted = IF stopped THEN @ \cup {h.node} ELSE @,
                       !.limits = IF Len(walk.chains) + 1 >= MaxNodes
                                    THEN @ \cup {"nodes"} ELSE @]

\* The walk after each of an item's hops in turn.
AlongHops(walk, q, item, hops) ==
  LET after[i \in 0 .. Len(hops)] ==
        IF i = 0 THEN walk ELSE Followed(after[i - 1], q, item, hops[i])
  IN after

Expanded(walk, q, item) ==
  LET hops == SetInOrder(Hops(item.node, q.direction))
      some == First(hops, MaxFanout)
      begun == [walk EXCEPT !.expanded = @ + 1,
                            !.limits = IF Len(hops) > MaxFanout
                                         THEN @ \cup {"fanout"} ELSE @]
  IN IF walk.limits \cap {"nodes", "time"} # {} THEN walk
     ELSE IF walk.expanded = q.patience THEN [walk EXCEPT !.limits = @ \cup {"time"}]
     ELSE AlongHops(begun, q, item, some)[Len(some)]

\* The walk after each item of a frontier in turn.
AlongItems(walk, q, items) ==
  LET after[i \in 0 .. Len(items)] ==
        IF i = 0 THEN walk ELSE Expanded(after[i - 1], q, items[i])
  IN after

\* Visited grows when a level is done.
Closed(walk) ==
  [walk EXCEPT !.visited = @ \cup {x.node : x \in Range(walk.next)} \cup walk.halted]

\* One level.
NextLevel(walk, q) ==
  LET items == ByName(walk.next)
  IN Closed(AlongItems([walk EXCEPT !.next = <<>>], q, items)[Len(items)])

Outset(q) ==
  [chains |-> <<>>, visited |-> {q.anchor}, halted |-> {},
   next |-> <<[node |-> q.anchor, hop |-> 0, path |-> <<>>, exact |-> TRUE]>>,
   limits |-> {}, excluded |-> {}, expanded |-> 0]

\* The walk after each level in turn.
Walk(q) ==
  LET after[level \in 0 .. q.depth] ==
        IF level = 0 THEN Outset(q) ELSE NextLevel(after[level - 1], q)
  IN after

\* The rows of a finished walk, level by level and by name.
Outcome(q, walk) ==
  [nodes |-> FlattenSeq([hop \in 1 .. q.depth |->
               ByName(Kept(walk.chains, {c \in Range(walk.chains) : c.hop = hop}))]),
   limits |-> walk.limits, excluded |-> walk.excluded]

Traverse(q) == Outcome(q, Walk(q)[q.depth])

-----------------------------------------------------------------------------
(* explain, context and impact. *)

\* Rows that a query without --include-heuristic, or for other lanes, drops.
Lawful(q, rows) ==
  {r \in rows : (r.exact \/ q.heuristic) /\ docs[r.node].lane \in q.states}
Excluded(q, rows) ==
  (IF q.heuristic \/ \A r \in rows : r.exact THEN {} ELSE {"heuristic"})
    \cup (IF \E r \in rows : (r.exact \/ q.heuristic) /\ docs[r.node].lane \notin q.states
            THEN {"lifecycle"} ELSE {})

\* Faulty variant: the lanes share one budget.
CutTogether(rows, top) ==
  LET cut == First(SetInOrder(rows), top) IN
  [current |-> Kept(cut, {r \in rows : Effective(r.node)}),
   other |-> Kept(cut, {r \in rows : ~Effective(r.node)})]

\* effectiveness_split under --top, each lane with a budget of its own.
Cut(rows, top) ==
  [current |-> First(SetInOrder({r \in rows : Effective(r.node)}), top),
   other |-> First(SetInOrder({r \in rows : ~Effective(r.node)}), top)]

Cuts(rows, top) == Range(Cut(rows, top).current) \cup Range(Cut(rows, top).other) # rows
CapGaps(sections, top) ==
  IF \E s \in DOMAIN sections : Cuts(sections[s], top) THEN {"cap"} ELSE {}
OptedIn(sections, top) ==
  IF \E s \in DOMAIN sections : Len(Cut(sections[s], top).other) > 0
    THEN {"opted-in"} ELSE {}

Pointing(d) == UNION {IncomingEdges(m) : m \in NamesOf(d)}
KindsOf(rows) == {r.kind : r \in rows}

Explain(q) ==
  LET all == Pointing(q.anchor)
      rows == [incoming |-> Lawful(q, all)]
      parts == {r \in IncomingEdges(FullName[q.anchor]) :
                  /\ r.kind = "belongs-to"
                  /\ r \in Lawful(q, all)}
  IN [surface |-> "explain", query |-> q,
      sections |-> [s \in DOMAIN rows |-> Cut(rows[s], q.top)],
      parts |-> First(SetInOrder(parts), q.top),
      truncated |-> Truncated(KindsOf(rows.incoming)),
      gaps |-> Excluded(q, all) \cup OptedIn(rows, q.top) \cup CapGaps(rows, q.top)
                 \cup (IF Cardinality(parts) > q.top THEN {"cap"} ELSE {})
                 \cup AnchorGaps(q.anchor, q.states)]

Section(r) ==
  CASE r.kind = "belongs-to" -> "parts"
    [] r.kind \in GrantFamily -> "permissions"
    [] OTHER -> "incoming"

WalkOf(q, depth) ==
  [anchor |-> q.anchor, depth |-> depth, direction |-> q.direction,
   heuristic |-> q.heuristic, allowed |-> LaneIds(q.states), stops |-> {},
   patience |-> q.patience]

\* The entries of the rows and the chains that context gives.
Mentioned(cut, chains) ==
  LET rows == UNION {Range(cut[s].current) \cup Range(cut[s].other) : s \in DOMAIN cut}
  IN {r.node : r \in rows \cup Range(chains)} \cap DOMAIN docs

\* What context leaves out or doubts, but for its anchor.
ContextGaps(q, rows, outgoing, walk, chains, read) ==
  EntryGaps(read) \cup Excluded(q, Pointing(q.anchor)) \cup walk.excluded
    \cup (IF q.heuristic \/ \A e \in docs[q.anchor].edges : e.exact
            THEN {} ELSE {"heuristic"})
    \cup LaneGaps({c.node : c \in Range(chains)})
    \cup (IF walk.limits # {} \/ Len(walk.nodes) > q.top THEN {"limits"} ELSE {})
    \cup OptedIn(rows, q.top) \cup CapGaps(rows, q.top)
    \cup (IF Cardinality(outgoing) > q.top THEN {"cap"} ELSE {})

\* Context for an entry: its sections are cut before anything is hydrated.
ContextOf(q) ==
  LET all == Pointing(q.anchor)
      rows == [s \in {"parts", "permissions", "incoming"} |->
                 {r \in Lawful(q, all) : Section(r) = s}]
      cut == [s \in DOMAIN rows |-> Cut(rows[s], q.top)]
      outgoing == {[node |-> e.target, kind |-> e.kind, exact |-> e.exact] :
                     e \in {f \in docs[q.anchor].edges : f.exact \/ q.heuristic}}
      walk == Traverse(WalkOf(q, 1))
      chains == First(walk.nodes, q.top)
      read == Mentioned(cut, chains)
  IN [surface |-> "context", query |-> q, sections |-> cut, walk |-> walk,
      outgoing |-> First(SetInOrder(outgoing), q.top), chains |-> chains,
      hydrated |-> Hydrated(read),
      truncated |-> Truncated(KindsOf(Lawful(q, all))),
      gaps |-> ContextGaps(q, rows, outgoing, walk, chains, read)
                 \cup AnchorGaps(q.anchor, q.states)]

\* A bare name stands for the one entry that has it.
Anchor(n) ==
  IF n \in DOMAIN docs THEN n
  ELSE IF Cardinality(Named(n)) = 1 THEN CHOOSE d \in Named(n) : TRUE
  ELSE Absent

NoContext(q) ==
  [surface |-> IF Named(q.anchor) = {} THEN "no-entry" ELSE "ambiguous",
   query |-> q, candidates |-> Named(q.anchor)]

Context(q) ==
  IF Anchor(q.anchor) = Absent THEN NoContext(q)
  ELSE ContextOf([q EXCEPT !.anchor = Anchor(q.anchor)])

\* impact walks from the name it is given and verifies the entry it names.
Impact(q) ==
  LET depth == IF q.depth > 2 THEN 2 ELSE q.depth
      walk == Traverse(WalkOf(q, depth))
      nodes == First(walk.nodes, q.top)
      read == {c.node : c \in Range(nodes)} \cap DOMAIN docs
      limits == walk.limits \cup IF Len(walk.nodes) > q.top THEN {"top"} ELSE {}
      anchor == Anchor(q.anchor)
  IN [surface |-> "impact", query |-> q, walk |-> walk, nodes |-> nodes,
      hydrated |-> Hydrated(read), limits |-> limits,
      truncated |-> Truncated(UNION {KindsOf(Range(c.path)) : c \in Range(nodes)}),
      gaps |-> EntryGaps(read) \cup walk.excluded
                 \cup (IF q.depth > 2 THEN {"depth"} ELSE {})
                 \cup LaneGaps({c.node : c \in Range(nodes)})
                 \cup (IF limits # {} THEN {"limits"} ELSE {})
                 \cup (IF anchor # Absent THEN AnchorGaps(anchor, q.states)
                        ELSE IF Named(q.anchor) # {} THEN {"anchor-ambiguous"}
                        ELSE {"anchor-no-entry"})]

-----------------------------------------------------------------------------
(* search. *)

WithTerm(t) == {d \in DOMAIN docs : t \in docs[d].terms}
Frequency(t) == Cardinality(WithTerm(t))
Saturated(t) ==
  /\ Cardinality(DOMAIN docs) >= MinCorpus
  /\ 2 * Frequency(t) >= Cardinality(DOMAIN docs)

ByRarity(terms) ==
  FlattenSeq([n \in 1 .. Cardinality(DOMAIN docs) + 1 |->
                Kept(TermOrder, {t \in terms : Frequency(t) = n - 1})])

\* Faulty variant: every term narrows the candidates.
SeededByAll(terms) ==
  FoldLeft(LAMBDA ids, t : IF Cardinality(ids) >= Cap \/ WithTerm(t) = {} THEN ids
                           ELSE IF ids = {} THEN WithTerm(t) ELSE ids \cap WithTerm(t),
           {}, ByRarity(terms))

\* The entries a text matches, from its rarest term on, until they are many.
SeededFrom(order) ==
  LET after[i \in 0 .. Len(order)] ==
        IF i = 0 THEN {}
        ELSE IF Cardinality(after[i - 1]) >= Cap THEN after[i - 1]
        ELSE after[i - 1] \cup WithTerm(order[i])
  IN after
Seeded(terms) == SeededFrom(ByRarity(terms))[Len(ByRarity(terms))]

InScope(q, d) == q.namespace = Absent \/ NamespaceOf[d] = q.namespace
OfType(q, d) == q.type = Absent \/ TypeOf[d] = q.type

\* The filters that become identity sets.  Of the facet operators only
\* equality does; the others are evaluated on the documents.
Survivors(q) ==
  {d \in LaneIds(q.states) : OfType(q, d) /\ InScope(q, d)
                               /\ (q.facet = "eq" => docs[d].facet)}
Seeding(q) == q.terms # {} /\ q.facet # "in"

\* The candidate set, and whether the cap on it is reported.
Matched(q) == IF Seeding(q) THEN Survivors(q) \cap Seeded(q.terms) ELSE Survivors(q)
Rarest(q) == WithTerm(ByRarity(q.terms)[1]) \cap Matched(q)
Capped(q) == Seeding(q) /\ Cardinality(Matched(q)) > Cap
CandidateIds(q) ==
  IF ~Capped(q) THEN Matched(q)
  ELSE IF Rarest(q) # {} THEN Rarest(q)
  ELSE Range(First(InOrder(Matched(q)), Cap))
CapReported(q) == Capped(q) /\ Rarest(q) \notin {{}, Matched(q)}
Scanned(q) == {d \in CandidateIds(q) : q.facet = "in" => docs[d].facet}

ExcludedCounts(q) ==
  {x \in {"lifecycle", "metadataType", "scope", "facet"} :
     \E d \in DOMAIN docs :
       CASE x = "lifecycle" -> docs[d].lane \notin q.states
         [] OTHER ->
              /\ docs[d].lane \in q.states
              /\ CASE x = "metadataType" -> ~OfType(q, d)
                   [] x = "scope" -> OfType(q, d) /\ ~InScope(q, d)
                   [] OTHER -> /\ OfType(q, d) /\ InScope(q, d)
                               /\ q.facet # Absent /\ ~docs[d].facet}

Result(d) == [node |-> d, edge |-> Absent]

\* The edges a relation query looks at: all edges of the entries that point
\* at the anchor as it is spelled, or of the anchor itself.
LookedAt(q) ==
  UNION {{[node |-> d, edge |-> e] : e \in {f \in docs[d].edges : q.kind \in {Absent, f.kind}}} :
          d \in {c \in CandidateIds(q) :
                   IF q.direction = "incoming"
                     THEN \E f \in docs[c].edges : q.anchor \in {f.target, Fold[f.target]}
                   ELSE q.anchor \in {c, FullName[c]}}}
Related(q) ==
  {r \in LookedAt(q) : /\ r.edge.exact \/ q.heuristic
                       /\ q.direction = "incoming" => r.edge.target = q.anchor}

IdentityHits(q) ==
  {d \in CandidateIds(q) : d = q.identity \/ Fold[FullName[d]] = Fold[q.identity]}
Scoring(q) == {d \in Scanned(q) : docs[d].terms \cap q.terms # {}}
Telling(q) ==
  {t \in q.terms : ~Saturated(t) /\ \E d \in Scoring(q) : t \in docs[d].terms}

Mode(q) ==
  IF q.anchor # Absent THEN "relation"
  ELSE IF q.identity # Absent THEN "identity"
  ELSE IF q.terms # {} THEN "text"
  ELSE "structured"

Found(q) ==
  CASE Mode(q) = "relation" -> Related(q)
    [] Mode(q) = "identity" -> {Result(d) : d \in IdentityHits(q)}
    [] Mode(q) = "text" -> IF Telling(q) = {} THEN {} ELSE {Result(d) : d \in Scoring(q)}
    [] OTHER -> {Result(d) : d \in Scanned(q)}

\* The gaps each mode adds for what it found.
ModeGaps(q) ==
  CASE Mode(q) = "relation" ->
         (IF Related(q) = {} THEN {"no-edge"} ELSE {})
           \cup IF \E r \in LookedAt(q) : ~r.edge.exact /\ ~q.heuristic
                  THEN {"heuristic"} ELSE {}
    [] Mode(q) = "identity" ->
         IF IdentityHits(q) # {} THEN {}
         ELSE IF q.identity \in DOMAIN docs THEN {"other-lane"} ELSE {"no-entry"}
    [] Mode(q) = "text" ->
         (IF Scoring(q) # {} /\ Telling(q) = {} THEN {"nothing-telling"} ELSE {})
           \cup (IF Telling(q) # {} /\ \E t \in q.terms : Frequency(t) = 0
                   THEN {"unmatched-term"} ELSE {})
           \cup (IF CapReported(q) THEN {"capped"} ELSE {})
           \cup (IF Found(q) # {} THEN {}
                 ELSE IF Seeding(q) /\ Seeded(q.terms) # {} THEN {"filtered"}
                 ELSE {"no-match"})
    [] OTHER -> {}

\* The drafts offered beside the results, never among them.
Drafts(q) ==
  LET lane == LaneIds({"draft"})
      seeded == IF Seeding(q) /\ Seeded(q.terms) # {} THEN lane \cap Seeded(q.terms) ELSE lane
  IN IF "draft" \in q.states THEN {}
     ELSE {d \in Range(First(InOrder(seeded), Cap)) :
             q.terms = {} \/ docs[d].terms \cap q.terms # {}}

Search(q) ==
  LET found == SetInOrder(Found(q))
      top == First(found, q.top)
      read == {r.node : r \in Range(top)}
      served == Kept(top, {r \in Range(top) : r.node \in Hydrated(read)})
  IN IF Mode(q) = "identity" /\ q.namespace = Absent /\ Cardinality(IdentityHits(q)) > 1
       THEN [surface |-> "ambiguous", query |-> q, candidates |-> IdentityHits(q)]
     ELSE [surface |-> "search", query |-> q, found |-> Found(q),
           approved |-> Kept(served, {r \in Range(served) : Effective(r.node)}),
           other |-> Kept(served, {r \in Range(served) : ~Effective(r.node)}),
           drafts |-> Drafts(q), excluded |-> ExcludedCounts(q),
           truncated |-> IF Mode(q) # "relation" THEN {}
                         ELSE IF q.kind # Absent THEN Truncated({q.kind})
                         ELSE Truncated({r.edge.kind : r \in Related(q)}),
           gaps |-> ModeGaps(q) \cup EntryGaps(read)
                      \cup (IF \E r \in Range(served) : ~Effective(r.node)
                              THEN {"opted-in"} ELSE {})]

-----------------------------------------------------------------------------
(* The behaviour. *)

QueryInit ==
  /\ docs \in Corpora
  /\ file = [e \in Entries |-> "asProjected"]
  /\ source = [e \in Entries |->
                 IF LaneOf(e) = "approved-drifted" THEN "changed" ELSE "asApproved"]
  /\ reply = Absent

Answered(a) == reply = Absent /\ reply' = a /\ UNCHANGED <<docs, file, source>>
Return == reply # Absent /\ reply' = Absent /\ UNCHANGED <<docs, file, source>>

AskSearch == \E q \in Searches : Answered(Search(q))
AskExplain == \E q \in Explains : q.anchor \in DOMAIN docs /\ Answered(Explain(q))
AskContext == \E q \in Contexts : Answered(Context(q))
AskImpact == \E q \in Impacts : Answered(Impact(q))

\* feature membership walks with a stop list of its own.
AskMembership ==
  \E q \in Impacts : \E stop \in Hubs \ {q.anchor} :
    /\ q.anchor \in DOMAIN docs
    /\ LET w == [WalkOf(q, q.depth) EXCEPT !.stops = {stop}] IN
         Answered([surface |-> "membership", query |-> w, walk |-> Traverse(w)])

ChangeFile(e) ==
  /\ reply = Absent
  /\ file[e] = "asProjected"
  /\ file' = [file EXCEPT ![e] = "changed"]
  /\ UNCHANGED <<docs, source, reply>>

ChangeSource(e) ==
  /\ reply = Absent
  /\ \E v \in {"asApproved", "changed", "missing"} \ {source[e]} :
       source' = [source EXCEPT ![e] = v]
  /\ UNCHANGED <<docs, file, reply>>

QueryNext ==
  \/ AskSearch \/ AskExplain \/ AskContext \/ AskImpact \/ AskMembership \/ Return
  \/ \E e \in Watched : ChangeFile(e) \/ ChangeSource(e)

QuerySpec == QueryInit /\ [][QueryNext]_queryVars

-----------------------------------------------------------------------------
(* Properties. *)

\* Type invariant.
QueryTypeOK ==
  /\ docs \in Corpora
  /\ file \in [Entries -> {"asProjected", "changed"}]
  /\ source \in [Entries -> {"asApproved", "changed", "missing"}]
  /\ reply # Absent => reply.surface \in
       {"search", "explain", "context", "impact", "membership",
        "ambiguous", "no-entry"}

\* The hops a walk may take from a node, from the documents themselves.
Permitted(q, n) ==
  {h \in Hops(n, q.direction) :
     (h.exact \/ q.heuristic) /\ h.node \notin DOMAIN docs \ q.allowed}

\* The nodes within a number of hops that no stop and no excluded node is on
\* the way to.
Within(q) ==
  LET open(S) == {n \in S : n = q.anchor \/ NamesOf(n) \cap q.stops = {}}
      more(S) == S \cup UNION {{h.node : h \in Permitted(q, n)} : n \in open(S)}
      within[k \in 0 .. q.depth] == IF k = 0 THEN {q.anchor} ELSE more(within[k - 1])
  IN within

\* What a walk says of what it was asked.
Reaches(q, walk) ==
  LET rows == Range(walk.nodes)
      from(c, i) == IF i = 1 THEN q.anchor ELSE c.path[i - 1].node
  IN /\ walk.limits = {} =>
          \A k \in 1 .. q.depth :
            {c.node : c \in {r \in rows : r.hop = k}} = Within(q)[k] \ Within(q)[k - 1]
     /\ \A c \in rows :
          /\ Len(c.path) = c.hop /\ c.path[c.hop].node = c.node
          /\ \A i \in 1 .. c.hop : c.path[i] \in Permitted(q, from(c, i))
          /\ c.exact <=> \A i \in 1 .. c.hop : c.path[i].exact

\* The walk an answer with one was asked for.
WalkAsked(a) ==
  CASE a.surface = "membership" -> a.query
    [] a.surface = "context" -> WalkOf(a.query, 1)
    [] OTHER -> WalkOf(a.query, IF a.query.depth > 2 THEN 2 ELSE a.query.depth)

\* A walk that reports no limit reached every node within its depth, each at
\* its distance, and nothing else; every chain, also of a walk cut short, is
\* a path of permitted hops from the anchor, and it claims to be exact only
\* if every hop of it is.
WalkIsReach ==
  reply # Absent /\ "walk" \in DOMAIN reply => Reaches(WalkAsked(reply), reply.walk)

\* The rows that answer who points at an entry, from the documents themselves:
\* by its identity or its full name, in any spelling.
References(q) ==
  UNION {{[node |-> d, kind |-> e.kind, target |-> e.target, exact |-> e.exact] :
            e \in {f \in docs[d].edges :
                     /\ Fold[f.target] \in {Fold[q.anchor], Fold[FullName[q.anchor]]}
                     /\ f.exact \/ q.heuristic}} :
         d \in {c \in DOMAIN docs : docs[c].lane \in q.states}}

\* A reference is a row of its section, or as many rows of entries that are
\* effective, or are not, as it is, were given instead and a gap says so.
Given(a, r) ==
  LET s == IF a.surface = "explain" THEN "incoming" ELSE Section(r)
      rows == IF Effective(r.node) THEN a.sections[s].current ELSE a.sections[s].other
  IN r \in Range(rows) \/ (Len(rows) = a.query.top /\ "cap" \in a.gaps)

\* explain and context answer the same question alike: every reference from a
\* lane asked for is given, or a gap says that the list was cut.
EveryReferenceAnswered ==
  reply # Absent /\ "sections" \in DOMAIN reply =>
    \A r \in References(reply.query) : Given(reply, r)

\* Whether an answer is silent about its anchor exactly if it may be.
AnchorTold(a) ==
  LET d == Anchor(a.query.anchor)
      told == a.gaps \cap {"anchor-lane", "anchor-entry", "anchor-drift",
                           "anchor-integrity", "anchor-ambiguous", "anchor-no-entry"}
  IN told = {} <=>
       /\ d # Absent
       /\ docs[d].lane \in a.query.states
       /\ file[d] = "asProjected"
       /\ Effective(d) => source[d] = "asApproved"

\* An answer about an entry says nothing of it only if it is in a lane asked
\* for, its file is the one that was projected and, if it is effective, its
\* sources are the approved ones.
AnchorNeverSilent ==
  reply # Absent /\ reply.surface \in {"explain", "context", "impact"} => AnchorTold(reply)

\* An entry that has a word of the text is among what was found, or a filter
\* that is reported excluded it, or a gap says that the words tell nothing.
\* The number of candidates is below the cap; at the cap, entries that only
\* a more frequent word matches are left out, and no gap says so.
NothingUnsaid ==
  reply # Absent /\ reply.surface = "search" /\ Mode(reply.query) = "text" =>
    LET q == reply.query
        matching == {d \in DOMAIN docs : docs[d].terms \cap q.terms # {}}
    IN Cardinality(matching) < Cap =>
         \A d \in matching :
           \/ Result(d) \in reply.found
           \/ "nothing-telling" \in reply.gaps
           \/ docs[d].lane \notin q.states /\ "lifecycle" \in reply.excluded
           \/ ~OfType(q, d) /\ "metadataType" \in reply.excluded
           \/ ~InScope(q, d) /\ "scope" \in reply.excluded
           \/ q.facet # Absent /\ ~docs[d].facet /\ "facet" \in reply.excluded

\* Lanes, types, namespaces and facets are hard filters: no row of an answer
\* is of an entry that fails one the query named.
FiltersHold ==
  reply # Absent /\ reply.surface = "search" =>
    \A r \in Range(reply.approved) \cup Range(reply.other) :
      LET q == reply.query IN
      /\ docs[r.node].lane \in q.states
      /\ q.type \in {Absent, TypeOf[r.node]}
      /\ q.namespace \in {Absent, NamespaceOf[r.node]}
      /\ q.facet # Absent => docs[r.node].facet

\* What the code does of FiltersHold: a facet with an operator other than
\* equality is a filter for searches by text and by structure only.
ExactFiltersHold ==
  \/ reply # Absent /\ reply.surface = "search"
       /\ reply.query.facet = "in" /\ Mode(reply.query) \in {"relation", "identity"}
  \/ FiltersHold

\* A search leaves out nothing in silence and lets nothing in that a filter
\* keeps out.
SearchSound == QueryTypeOK /\ NothingUnsaid /\ ExactFiltersHold
=============================================================================
