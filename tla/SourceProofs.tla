---------------------------- MODULE SourceProofs ----------------------------
(***************************************************************************)
(* Proofs about EntryReports and SourceTree for any components, contents,  *)
(* collectors and processes, and any number of edits and days.             *)
(***************************************************************************)
EXTENDS SourceTree, TLAPS

-----------------------------------------------------------------------------
(* Lanes. *)

\* The lane of an entry is a matter of the entry, its source and its record.
LEMMA JudgedBy ==
  ASSUME NEW w, NEW v, NEW n,
         w.entry[n] = v.entry[n], w.tree = v.tree, w.ledger = v.ledger
  PROVE  Judged(w, n) = Judged(v, n)
BY Zenon DEF Judged, Freshness

\* The lanes, with what is known in each.
LEMMA Outcomes ==
  ASSUME NEW w, NEW n
  PROVE  LET e == w.entry[n]
             j == Judged(w, n) IN
         \/ /\ e.subject # n /\ j.lane = "not-effective"
            /\ j.problems = Problems(e) \cup {"round-trip"}
         \/ e.subject = n /\ j.lane = "draft" /\ j.problems = Problems(e)
         \/ e.subject = n /\ j.lane = "not-effective"
         \/ e.subject = n /\ j.lane = "revoked"
         \/ e.subject = n /\ j.lane \in Effective /\ Problems(e) = {} /\ j.problems = {}
<1> DEFINE e == w.entry[n]
           V(l, p) == [lane |-> l, problems |-> Problems(e) \cup p]
<1>1. \/ e.subject # n /\ Judged(w, n) = V("not-effective", {"round-trip"})
      \/ e.subject = n /\ Judged(w, n) = V("draft", {})
      \/ e.subject = n /\ \E p : Judged(w, n) = V("not-effective", p)
      \/ e.subject = n /\ Judged(w, n) = V("revoked", {})
      \/ /\ e.subject = n /\ Problems(e) = {}
         /\ Judged(w, n) \in {V("approved-drifted", {}), V("approved-current", {})}
  BY Zenon DEF Judged
<1>2. \A l, p : V(l, p).lane = l /\ V(l, p).problems = Problems(e) \cup p
  OBVIOUS
<1>3. Problems(e) \cup {} = Problems(e)
  OBVIOUS
<1> DEFINE j == Judged(w, n)
<1> HIDE DEF V
<1>4. CASE e.subject # n /\ j = V("not-effective", {"round-trip"})
  BY <1>4, <1>2
<1>5. CASE e.subject = n /\ j = V("draft", {})
  <2>1. j.lane = "draft" /\ j.problems = Problems(e)
    BY <1>5, <1>2, <1>3, Zenon
  <2> QED
    BY <1>5, <2>1
<1>6. CASE e.subject = n /\ \E p : j = V("not-effective", p)
  BY <1>6, <1>2
<1>7. CASE e.subject = n /\ j = V("revoked", {})
  BY <1>7, <1>2
<1>8. CASE /\ e.subject = n /\ Problems(e) = {}
           /\ j \in {V("approved-drifted", {}), V("approved-current", {})}
  BY <1>8, <1>2, <1>3 DEF Effective
<1> QED
  BY <1>1, <1>4, <1>5, <1>6, <1>7, <1>8

\* An effective entry is about the component of its path and has no problem.
LEMMA EffectiveEntry ==
  ASSUME NEW w, NEW n, Lane(w, n) \in Effective
  PROVE  /\ w.entry[n].subject = n
         /\ Problems(w.entry[n]) = {} /\ Judged(w, n).problems = {}
BY Outcomes DEF Lane, Effective

\* A current entry pins its source as it is.
LEMMA CurrentIsPinned ==
  ASSUME NEW w, NEW n, Lane(w, n) = "approved-current"
  PROVE  Freshness(w, w.entry[n]) = "current"
<1>1. Judged(w, n).lane = "approved-current"
  BY DEF Lane
<1>2. Freshness(w, w.entry[n]) \in {"missing", "drifted", "current"}
  BY Zenon DEF Freshness
<1> QED
  BY <1>1, <1>2 DEF Judged

\* An entry whose subject is another one has a problem and is no draft.
LEMMA RoundTrip ==
  ASSUME NEW w, NEW n, w.entry[n].subject # n
  PROVE  Lane(w, n) = "not-effective" /\ "round-trip" \in Judged(w, n).problems
BY Outcomes DEF Lane

\* An entry in any other lane than these has no problem.
LEMMA ProblemLanes ==
  ASSUME NEW w, NEW n, Judged(w, n).problems # {}, Lane(w, n) \notin {"draft", "revoked"}
  PROVE  Lane(w, n) = "not-effective"
BY Outcomes DEF Lane, Effective

-----------------------------------------------------------------------------
(* The narrow check. *)

LEMMA CheckPasses ==
  ASSUME NEW w, NEW opened
  PROVE  CheckProblems(w, opened) = {} <=>
           /\ \A n \in opened : OwnProblems(w, n) = {}
           /\ \A m, n \in Files(w) :
                Identity(w, opened, m) = Identity(w, opened, n) => m = n
<1>1. \A x : x \in CheckProblems(w, opened) <=>
        \/ \E n \in opened : x \in OwnProblems(w, n)
        \/ x = "two files" /\ TwoFiles(w, opened)
  BY DEF CheckProblems
<1>2. CheckProblems(w, opened) = {} <=> \A x : x \notin CheckProblems(w, opened)
  OBVIOUS
<1> QED
  BY <1>1, <1>2 DEF TwoFiles

\* What a corpus that passes in full says of each entry.
LEMMA PassedEntries ==
  ASSUME NEW w, FullCheck(w) = {}, NEW n \in Files(w)
  PROVE  OwnProblems(w, n) = {} /\ w.entry[n].subject = n
<1>1. OwnProblems(w, n) = {}
  BY CheckPasses DEF FullCheck
<1>2. w.entry[n].subject = n
  BY <1>1, RoundTrip DEF OwnProblems
<1> QED
  BY <1>1, <1>2

\* Where sources and records are those of a corpus that passed in full, the
\* entries it had may be left closed.
LEMMA NarrowIsFull ==
  ASSUME NEW w, NEW b, FullCheck(b) = {}, w.tree = b.tree, w.ledger = b.ledger
  PROVE  NarrowCheck(w, b) = {} <=> FullCheck(w) = {}
<1> DEFINE opened == {n \in Files(w) : n \in Changed(w, b) \/ n \notin PathTells}
<1>1. ASSUME NEW n \in Files(w), n \notin opened
      PROVE  OwnProblems(w, n) = {} /\ w.entry[n].subject = n
  <2>1. w.entry[n] = b.entry[n] /\ n \in Files(b)
    BY <1>1 DEF Changed, Files
  <2>2. Judged(w, n) = Judged(b, n)
    BY <2>1, JudgedBy
  <2> QED
    BY <2>1, <2>2, PassedEntries DEF OwnProblems, Lane
<1>2. \A n \in Files(w) : Identity(w, opened, n) = Identity(w, Files(w), n)
  BY <1>1 DEF Identity
<1>3. \A n \in Files(w) : n \notin opened => OwnProblems(w, n) = {}
  BY <1>1
<1>4. opened \subseteq Files(w)
  OBVIOUS
<1> HIDE DEF opened
<1>5. CheckProblems(w, opened) = {} <=> CheckProblems(w, Files(w)) = {}
  BY <1>2, <1>3, <1>4, CheckPasses
<1> QED
  BY <1>5 DEF NarrowCheck, FullCheck, opened

-----------------------------------------------------------------------------
(* Reports. *)

\* An effective entry is equivalent if its facts are the ones found now.
LEMMA EquivalentFacts ==
  ASSUME NEW w, NEW live, live # None, NEW n \in InLane(w, Effective)
  PROVE  n \in FactAnalysis(w, "all", live).equivalent
           <=> live[n] # None /\ SameDigest(w.entry[n].facts, live[n])
<1>1. w.entry[n].subject = n /\ Problems(w.entry[n]) = {}
  BY EffectiveEntry DEF InLane
<1>2. AnalysisCode(w, n, live) = "FACTS_EQUIVALENT"
        <=> live[n] # None /\ SameDigest(w.entry[n].facts, live[n])
  BY <1>1, Zenon DEF AnalysisCode
<1>3. SelectedLanes("all") = Effective
  BY DEF SelectedLanes
<1> DEFINE Code(m) == IF live = None THEN "REEXTRACTION_UNAVAILABLE" ELSE AnalysisCode(w, m, live)
<1>4. FactAnalysis(w, "all", live).equivalent
        = {m \in InLane(w, Effective) : Code(m) = "FACTS_EQUIVALENT"}
  BY <1>3 DEF FactAnalysis
<1> QED
  BY <1>2, <1>4

\* Facts have their own digest.
LEMMA DigestReflexive ==
  ASSUME NEW f
  PROVE  SameDigest(f, f)
BY DEF SameDigest

-----------------------------------------------------------------------------
(* The inductive invariant. *)

Fields == {"at", "goal", "collector", "map", "seen", "by", "facts", "torn"}
Collectors == DOMAIN FactsOf
Sources == UNION {Contents[n] : n \in Names}
Maps == [Names -> Facts \cup {None}]
Entries ==
  [subject : Names, state : {"draft", "approved"}, facts : Facts, described : BOOLEAN,
   pin : Sources, mirror : Digests \cup {None}, by : Collectors, torn : BOOLEAN]
Records == [action : {"approve", "revoke"}, digest : {d \in Digests : d.described}, at : Nat]

\* What a collector finds in one content of a file.
Found(code, n, v) == IF v \in {None, Broken} THEN None ELSE FactsOf[code][n][v]

Typed ==
  /\ DOMAIN tree = Names /\ \A n \in Names : tree[n] \in Contents[n] \cup {None}
  /\ entry \in [Names -> Entries \cup {None}]
  /\ ledger \in [Names -> Records \cup {None}]
  /\ day \in Nat /\ collector \in Collectors

Stamped ==
  /\ \A n \in Names : entry[n] # None /\ entry[n].state = "approved" => entry[n].mirror # None
  /\ \A n \in Names : ledger[n] # None => ledger[n].at <= day

\* The cached inventory says of the tree with its digest what its collector
\* finds there.
GoodInventory ==
  Readable =>
    /\ inventory.map \in Maps /\ inventory.by \in Collectors /\ inventory.torn \in BOOLEAN
    /\ ~inventory.torn => inventory.map = Parsed(inventory.by, inventory.digest)

\* What a process has in its hands is what the tree says, if nobody edited it
\* meanwhile.
HoldsIn(q, t) ==
  /\ q = [x \in Fields |-> q[x]] /\ q.torn \in BOOLEAN
  /\ q.at \in {"parse", "lookup"} => q.collector \in Collectors
  /\ q.at \in {"lookup", "project", "pin"} => q.goal \in Draftable
  /\ q.goal \in Draftable \cup {None}
  /\ q.at \in {"digest", "write", "finish", "project"} =>
       q.map \in Maps /\ q.by \in Collectors /\ (~q.torn => q.map = Parsed(q.by, t))
  /\ q.at \in {"write", "finish"} => (~q.torn => q.seen = t)
  /\ q.at = "pin" =>
       q.facts \in Facts /\ q.by \in Collectors
         /\ (~q.torn => q.facts = Found(q.by, q.goal, t[q.goal]))
Holds(q) == HoldsIn(q, tree)

GoodProcesses == proc = [p \in Procs |-> proc[p]] /\ \A p \in Procs : Holds(proc[p])

GoodDrafts ==
  \A n \in Names : entry[n] # None =>
    entry[n].torn \/ entry[n].facts = Found(entry[n].by, entry[n].subject, entry[n].pin)

\* A commit passed the full check.
GoodBase == base # None => FullCheck(base) = {}

IInv == Typed /\ Stamped /\ GoodInventory /\ GoodProcesses /\ GoodDrafts /\ GoodBase

-----------------------------------------------------------------------------
(* Operators. *)

\* A collector lists what it finds in the content of each file.
LEMMA ParsedMap ==
  ASSUME NEW code \in Collectors, NEW sources,
         \A n \in Names : sources[n] \in Contents[n] \cup {None}
  PROVE  /\ Parsed(code, sources) \in Maps
         /\ \A n \in Names : Parsed(code, sources)[n] = Found(code, n, sources[n])
<1>1. ASSUME NEW n \in Names, sources[n] \notin {None, Broken}
      PROVE  FactsOf[code][n][sources[n]] \in Facts
  <2>1. sources[n] \in Contents[n] \ {Broken}
    BY <1>1
  <2>2. FactsOf[code][n][sources[n]] \in FoundBy(code, n)
    BY <2>1 DEF FoundBy
  <2> QED
    BY <1>1, <2>2 DEF Facts, Collectors
<1>2. \A n \in Names : Found(code, n, sources[n]) \in Facts \cup {None}
  BY <1>1 DEF Found
<1>3. Parsed(code, sources) = [n \in Names |-> Found(code, n, sources[n])]
  BY DEF Parsed, Found
<1> QED
  BY <1>2, <1>3 DEF Maps

\* What happens to one process while nobody edits a source.
LEMMA ProcessStep ==
  ASSUME GoodProcesses, UNCHANGED tree, NEW p \in Procs, NEW q, Holds(q),
         proc' = [proc EXCEPT ![p] = q]
  PROVE  GoodProcesses'
<1>1. \A r \in Procs : proc'[r] = IF r = p THEN q ELSE proc[r]
  BY DEF GoodProcesses
<1>2. \A r \in Procs : Holds(proc'[r])
  BY <1>1 DEF GoodProcesses
<1>3. \A r \in Procs : Holds(proc[r])'
  BY <1>2 DEF Holds, HoldsIn
<1>4. proc' = [r \in Procs |-> proc'[r]]
  BY DEF GoodProcesses
<1> QED
  BY <1>3, <1>4 DEF GoodProcesses

LEMMA IdleHolds == Holds(NoProc)
<1>1. NoProc = [x \in Fields |-> NoProc[x]]
  BY DEF NoProc, Fields
<1>2. NoProc.at = "idle" /\ NoProc.goal = None /\ NoProc.torn = FALSE
  BY DEF NoProc
<1> QED
  BY <1>1, <1>2 DEF Holds, HoldsIn

\* What a step that touches no process and no source leaves.
LEMMA ProcessesStay ==
  ASSUME GoodProcesses, UNCHANGED <<tree, proc>>
  PROVE  GoodProcesses'
BY DEF GoodProcesses, Holds, HoldsIn

LEMMA InventoryStays ==
  ASSUME GoodInventory, UNCHANGED inventory
  PROVE  GoodInventory'
BY DEF GoodInventory, Readable, Parsed, Maps

LEMMA SafeInit == Init => IInv
<1> SUFFICES ASSUME Init PROVE IInv
  OBVIOUS
<1>1. \A n \in Names : tree[n] \in Contents[n] \ {Broken}
  BY SourceAssumption DEF Init
<1>2. Typed
  BY <1>1, SourceAssumption DEF Init, Typed, Collectors
<1>3. GoodProcesses
  BY IdleHolds DEF Init, GoodProcesses
<1>4. Stamped /\ GoodInventory /\ GoodDrafts /\ GoodBase
  BY DEF Init, Stamped, GoodInventory, Readable, GoodDrafts, GoodBase
<1> QED
  BY <1>2, <1>3, <1>4 DEF IInv

-----------------------------------------------------------------------------
(* The collector. *)

\* A step of a scan or a draft that leaves the entries alone.
LEMMA ScanStep ==
  ASSUME IInv, NEW p \in Procs, NEW q, Holds(q), proc' = [proc EXCEPT ![p] = q],
         UNCHANGED <<People, entry>>, GoodInventory'
  PROVE  IInv'
<1>1. UNCHANGED <<tree, entry, ledger, day, collector, base>>
  BY DEF People
<1>2. Typed'
  BY <1>1 DEF IInv, Typed
<1>3. Stamped' /\ GoodDrafts' /\ GoodBase'
  BY <1>1 DEF IInv, Stamped, GoodDrafts, GoodBase
<1>4. GoodProcesses'
  BY <1>1, ProcessStep DEF IInv
<1> QED
  BY <1>2, <1>3, <1>4 DEF IInv

LEMMA StartKeeps ==
  ASSUME IInv, NEW p \in Procs, StartScan(p) \/ \E n \in Names : StartDraft(p, n)
  PROVE  IInv'
<1>1. CASE StartScan(p)
  <2> DEFINE q == [NoProc EXCEPT !.at = "parse", !.collector = collector]
  <2>1. /\ q = [x \in Fields |-> q[x]] /\ q.torn = FALSE /\ q.at = "parse" /\ q.goal = None
        /\ q.collector = collector
    BY DEF NoProc, Fields
  <2> HIDE DEF q
  <2>2. Holds(q)
    BY <2>1 DEF Holds, HoldsIn, IInv, Typed
  <2>3. proc' = [proc EXCEPT ![p] = q] /\ UNCHANGED <<People, entry, inventory>>
    BY <1>1 DEF StartScan, q
  <2> QED
    BY <2>2, <2>3, ScanStep, InventoryStays DEF IInv
<1>2. ASSUME NEW n \in Names, StartDraft(p, n) PROVE IInv'
  <2> DEFINE q == [NoProc EXCEPT !.at = "lookup", !.goal = n, !.collector = collector]
  <2>1. /\ q = [x \in Fields |-> q[x]] /\ q.torn = FALSE /\ q.at = "lookup" /\ q.goal = n
        /\ q.collector = collector
    BY DEF NoProc, Fields
  <2> HIDE DEF q
  <2>2. Holds(q)
    BY <1>2, <2>1 DEF Holds, HoldsIn, IInv, Typed, StartDraft
  <2>3. proc' = [proc EXCEPT ![p] = q] /\ UNCHANGED <<People, entry, inventory>>
    BY <1>2 DEF StartDraft, q
  <2> QED
    BY <2>2, <2>3, ScanStep, InventoryStays DEF IInv
<1> QED
  BY <1>1, <1>2

\* What is known of the fields a step of a scan leaves and sets.
LEMMA LookupKeeps == ASSUME IInv, NEW p \in Procs, Lookup(p) PROVE IInv'
<1> DEFINE o == proc[p]
           q == IF Accepted THEN [o EXCEPT !.at = "project", !.map = inventory.map,
                                           !.by = inventory.by, !.torn = inventory.torn]
                ELSE [o EXCEPT !.at = "parse"]
<1>1. Holds(o) /\ o.at = "lookup"
  BY DEF IInv, GoodProcesses, Lookup
<1>2. o = [x \in Fields |-> o[x]] /\ o.goal \in Draftable /\ o.torn \in BOOLEAN
      /\ o.collector \in Collectors
  BY <1>1 DEF Holds, HoldsIn
<1>3. proc' = [proc EXCEPT ![p] = q] /\ UNCHANGED <<People, entry, inventory>>
  BY DEF Lookup
<1>4. CASE Accepted
  <2>1. /\ q = [x \in Fields |-> q[x]] /\ q.at = "project" /\ q.map = inventory.map
        /\ q.by = inventory.by /\ q.torn = inventory.torn /\ q.goal = o.goal
    BY <1>2, <1>4 DEF Fields
  <2>2. /\ inventory.map \in Maps /\ inventory.by \in Collectors /\ inventory.torn \in BOOLEAN
        /\ ~inventory.torn => inventory.map = Parsed(inventory.by, tree)
    BY <1>4 DEF Accepted, Digest, IInv, GoodInventory
  <2> HIDE DEF q, o
  <2>3. Holds(q)
    BY <2>1, <2>2, <1>2 DEF Holds, HoldsIn
  <2> QED
    BY <2>3, <1>3, ScanStep, InventoryStays DEF IInv
<1>5. CASE ~Accepted
  <2>1. /\ q = [x \in Fields |-> q[x]] /\ q.at = "parse" /\ q.collector = o.collector
        /\ q.torn = o.torn /\ q.goal = o.goal
    BY <1>2, <1>5 DEF Fields
  <2> HIDE DEF q, o
  <2>2. Holds(q)
    BY <2>1, <1>2 DEF Holds, HoldsIn
  <2> QED
    BY <2>2, <1>3, ScanStep, InventoryStays DEF IInv
<1> QED
  BY <1>4, <1>5

LEMMA ParseKeeps == ASSUME IInv, NEW p \in Procs, Parse(p) PROVE IInv'
<1> DEFINE o == proc[p]
           q == [o EXCEPT !.at = "digest", !.by = o.collector, !.map = Parsed(o.collector, tree)]
<1>1. Holds(o) /\ o.at = "parse"
  BY DEF IInv, GoodProcesses, Parse
<1>2. /\ o = [x \in Fields |-> o[x]] /\ o.goal \in Draftable \cup {None} /\ o.torn \in BOOLEAN
      /\ o.collector \in Collectors
  BY <1>1 DEF Holds, HoldsIn
<1>3. proc' = [proc EXCEPT ![p] = q] /\ UNCHANGED <<People, entry, inventory>>
  BY DEF Parse
<1>4. /\ q = [x \in Fields |-> q[x]] /\ q.at = "digest" /\ q.map = Parsed(o.collector, tree)
      /\ q.by = o.collector /\ q.torn = o.torn /\ q.goal = o.goal
  BY <1>2 DEF Fields
<1>5. Parsed(o.collector, tree) \in Maps
  BY <1>2, ParsedMap DEF IInv, Typed
<1> HIDE DEF q, o
<1>6. Holds(q)
  BY <1>2, <1>4, <1>5 DEF Holds, HoldsIn
<1> QED
  BY <1>6, <1>3, ScanStep, InventoryStays DEF IInv

LEMMA DigestKeeps == ASSUME IInv, NEW p \in Procs, TakeDigest(p) PROVE IInv'
<1> DEFINE o == proc[p]
           q == [o EXCEPT !.at = "write", !.seen = Digest(tree)]
<1>1. Holds(o) /\ o.at = "digest"
  BY DEF IInv, GoodProcesses, TakeDigest
<1>2. proc' = [proc EXCEPT ![p] = q] /\ UNCHANGED <<People, entry, inventory>>
  BY DEF TakeDigest
<1>3. o = [x \in Fields |-> o[x]]
  BY <1>1 DEF Holds, HoldsIn
<1>4. /\ q = [x \in Fields |-> q[x]] /\ q.at = "write" /\ q.map = o.map /\ q.seen = tree
      /\ q.by = o.by /\ q.torn = o.torn /\ q.goal = o.goal
  BY <1>3 DEF Fields, Digest
<1> HIDE DEF q, o
<1>5. Holds(q)
  BY <1>1, <1>4 DEF Holds, HoldsIn
<1> QED
  BY <1>5, <1>2, ScanStep, InventoryStays DEF IInv

LEMMA TruncateKeeps == ASSUME IInv, NEW p \in Procs, Truncate(p) PROVE IInv'
<1> DEFINE o == proc[p]
           q == [o EXCEPT !.at = "finish"]
<1>1. Holds(o) /\ o.at = "write"
  BY DEF IInv, GoodProcesses, Truncate
<1>2. proc' = [proc EXCEPT ![p] = q] /\ UNCHANGED <<People, entry>> /\ inventory' = Partial
  BY DEF Truncate, At
<1>3. o = [x \in Fields |-> o[x]]
  BY <1>1 DEF Holds, HoldsIn
<1>4. /\ q = [x \in Fields |-> q[x]] /\ q.at = "finish" /\ q.map = o.map /\ q.seen = o.seen
      /\ q.by = o.by /\ q.torn = o.torn /\ q.goal = o.goal
  BY <1>3 DEF Fields
<1> HIDE DEF q, o
<1>5. Holds(q)
  BY <1>1, <1>4 DEF Holds, HoldsIn
<1>6. GoodInventory'
  BY <1>2 DEF GoodInventory, Readable
<1> QED
  BY <1>5, <1>6, <1>2, ScanStep

LEMMA FinishKeeps == ASSUME IInv, NEW p \in Procs, Finish(p) PROVE IInv'
<1> DEFINE o == proc[p]
           r == [o EXCEPT !.at = "project", !.seen = None]
           q == IF o.goal = None THEN NoProc ELSE r
<1>1. Holds(o) /\ o.at = "finish"
  BY DEF IInv, GoodProcesses, Finish
<1>2. /\ proc' = [proc EXCEPT ![p] = q] /\ UNCHANGED <<People, entry>>
      /\ inventory' = [map |-> o.map, digest |-> o.seen, by |-> o.by, torn |-> o.torn]
  BY DEF Finish
<1>3. o = [x \in Fields |-> o[x]]
  BY <1>1 DEF Holds, HoldsIn
<1>4. /\ r = [x \in Fields |-> r[x]] /\ r.at = "project" /\ r.map = o.map
      /\ r.by = o.by /\ r.torn = o.torn /\ r.goal = o.goal
  BY <1>3 DEF Fields
<1> HIDE DEF r, o
<1>5. o.goal # None => Holds(r)
  BY <1>1, <1>4 DEF Holds, HoldsIn
<1>6. Holds(q)
  BY <1>5, IdleHolds
<1>7. GoodInventory'
  <2>1. /\ o.map \in Maps /\ o.by \in Collectors /\ o.torn \in BOOLEAN
        /\ ~o.torn => o.map = Parsed(o.by, o.seen)
    BY <1>1 DEF Holds, HoldsIn
  <2>2. /\ inventory'.map = o.map /\ inventory'.digest = o.seen /\ inventory'.by = o.by
        /\ inventory'.torn = o.torn
    BY <1>2
  <2> QED
    BY <2>1, <2>2 DEF GoodInventory, Parsed, Maps
<1> HIDE DEF q
<1> QED
  BY <1>6, <1>7, <1>2, ScanStep

LEMMA ProjectKeeps == ASSUME IInv, NEW p \in Procs, Project(p) PROVE IInv'
<1> DEFINE o == proc[p]
           r == [o EXCEPT !.at = "pin", !.map = None, !.facts = o.map[o.goal]]
           q == IF o.map[o.goal] = None THEN NoProc ELSE r
<1>1. Holds(o) /\ o.at = "project"
  BY DEF IInv, GoodProcesses, Project
<1>2. proc' = [proc EXCEPT ![p] = q] /\ UNCHANGED <<People, entry, inventory>>
  BY DEF Project
<1>3. o = [x \in Fields |-> o[x]]
  BY <1>1 DEF Holds, HoldsIn
<1>4. /\ r = [x \in Fields |-> r[x]] /\ r.at = "pin" /\ r.facts = o.map[o.goal]
      /\ r.by = o.by /\ r.torn = o.torn /\ r.goal = o.goal
  BY <1>3 DEF Fields
<1> HIDE DEF r, o
<1>5. ASSUME o.map[o.goal] # None PROVE Holds(r)
  <2>1. o.goal \in Names /\ o.map \in Maps /\ o.by \in Collectors
    BY <1>1, SourceAssumption DEF Holds, HoldsIn
  <2>2. o.map[o.goal] \in Facts
    BY <1>5, <2>1 DEF Maps
  <2>3. ~o.torn => o.map[o.goal] = Found(o.by, o.goal, tree[o.goal])
    <3>1. Parsed(o.by, tree)[o.goal] = Found(o.by, o.goal, tree[o.goal])
      BY <2>1, ParsedMap DEF IInv, Typed
    <3> QED
      BY <3>1, <1>1 DEF Holds, HoldsIn
  <2> QED
    BY <2>1, <2>2, <2>3, <1>1, <1>4 DEF Holds, HoldsIn
<1>6. Holds(q)
  BY <1>5, IdleHolds
<1> HIDE DEF q
<1> QED
  BY <1>6, <1>2, ScanStep, InventoryStays DEF IInv

LEMMA CrashKeeps == ASSUME IInv, NEW p \in Procs, Crash(p) PROVE IInv'
<1>1. proc' = [proc EXCEPT ![p] = NoProc] /\ UNCHANGED <<People, entry, inventory>>
  BY DEF Crash
<1> QED
  BY <1>1, IdleHolds, ScanStep, InventoryStays DEF IInv

-----------------------------------------------------------------------------
(* Entries and people. *)

\* A new content of one entry file.
LEMMA EntryStep ==
  ASSUME IInv, NEW n \in Names, NEW e \in Entries \cup {None}, entry' = [entry EXCEPT ![n] = e],
         e # None => /\ e.state = "approved" => e.mirror # None
                     /\ e.torn \/ e.facts = Found(e.by, e.subject, e.pin)
  PROVE  /\ entry' \in [Names -> Entries \cup {None}]
         /\ \A m \in Names : entry'[m] # None /\ entry'[m].state = "approved"
                               => entry'[m].mirror # None
         /\ GoodDrafts'
<1>1. \A m \in Names : entry'[m] = IF m = n THEN e ELSE entry[m]
  BY DEF IInv, Typed
<1>2. entry' \in [Names -> Entries \cup {None}]
  BY DEF IInv, Typed
<1>3. GoodDrafts'
  BY <1>1 DEF IInv, GoodDrafts, Found
<1> QED
  BY <1>1, <1>2, <1>3 DEF IInv, Stamped

LEMMA PinKeeps == ASSUME IInv, NEW p \in Procs, Pin(p) PROVE IInv'
<1> DEFINE o == proc[p]
           n == o.goal
           e == [subject |-> n, state |-> "draft", facts |-> o.facts, described |-> FALSE,
                 pin |-> tree[n], mirror |-> None, by |-> o.by, torn |-> o.torn]
<1>1. Holds(o) /\ o.at = "pin"
  BY DEF IInv, GoodProcesses, Pin
<1>2. /\ n \in Names /\ o.facts \in Facts /\ o.by \in Collectors /\ o.torn \in BOOLEAN
      /\ ~o.torn => o.facts = Found(o.by, n, tree[n])
  BY <1>1, SourceAssumption DEF Holds, HoldsIn
<1>3. /\ entry' = IF tree[n] = None THEN entry ELSE [entry EXCEPT ![n] = e]
      /\ proc' = [proc EXCEPT ![p] = NoProc]
      /\ UNCHANGED <<tree, ledger, day, collector, base, inventory>>
  BY DEF Pin, People
<1>4. GoodProcesses' /\ GoodInventory'
  BY <1>3, IdleHolds, ProcessStep, InventoryStays DEF IInv
<1>5. CASE tree[n] = None
  <2>1. UNCHANGED entry
    BY <1>3, <1>5
  <2>2. Typed' /\ Stamped' /\ GoodDrafts' /\ GoodBase'
    BY <2>1, <1>3 DEF IInv, Typed, Stamped, GoodDrafts, GoodBase
  <2> QED
    BY <2>2, <1>4 DEF IInv
<1>6. CASE tree[n] # None
  <2>1. tree[n] \in Contents[n]
    BY <1>2, <1>6 DEF IInv, Typed
  <2>2. tree[n] \in Sources
    BY <1>2, <2>1 DEF Sources
  <2>3. /\ e.state = "draft" /\ e.torn = o.torn /\ e.facts = o.facts /\ e.by = o.by
        /\ e.subject = n /\ e.pin = tree[n]
    OBVIOUS
  <2>4. e \in Entries
    BY <1>2, <2>2 DEF Entries
  <2>5. entry' = [entry EXCEPT ![n] = e]
    BY <1>3, <1>6
  <2> HIDE DEF e, n, o
  <2>6. /\ entry' \in [Names -> Entries \cup {None}]
        /\ \A m \in Names : entry'[m] # None /\ entry'[m].state = "approved"
                              => entry'[m].mirror # None
        /\ GoodDrafts'
    BY <1>2, <2>3, <2>4, <2>5, EntryStep
  <2>7. Typed' /\ Stamped' /\ GoodBase'
    BY <2>6, <1>3 DEF IInv, Typed, Stamped, GoodBase
  <2> QED
    BY <2>6, <2>7, <1>4 DEF IInv
<1> QED
  BY <1>5, <1>6

\* A description and an approval keep what a draft says of the tree.
LEMMA AuthorsKeep ==
  ASSUME IInv, NEW n \in Names, Describe(n) \/ Approve(n)
  PROVE  IInv'
<1> DEFINE o == entry[n]
           d == [o EXCEPT !.described = TRUE, !.state = "draft"]
           a == [o EXCEPT !.state = "approved", !.mirror = Reviewed(o)]
<1>1. o \in Entries /\ UNCHANGED <<tree, day, collector, inventory, proc, base>>
  BY DEF IInv, Typed, Describe, Approve, Commands
<1>2. GoodProcesses' /\ GoodInventory' /\ GoodBase'
  BY <1>1, ProcessesStay, InventoryStays DEF IInv, GoodBase
<1>3. o # None => o.torn \/ o.facts = Found(o.by, o.subject, o.pin)
  BY DEF IInv, GoodDrafts
<1>4. CASE Describe(n)
  <2>1. entry' = [entry EXCEPT ![n] = d] /\ UNCHANGED ledger
    BY <1>4 DEF Describe
  <2>2. d \in Entries /\ d.state = "draft"
    BY <1>1 DEF Entries
  <2>3. d.torn = o.torn /\ d.facts = o.facts /\ d.by = o.by /\ d.subject = o.subject
        /\ d.pin = o.pin
    BY <1>1 DEF Entries
  <2>4. o # None
    BY <1>4 DEF Describe
  <2> HIDE DEF d, o
  <2>5. /\ entry' \in [Names -> Entries \cup {None}]
        /\ \A m \in Names : entry'[m] # None /\ entry'[m].state = "approved"
                              => entry'[m].mirror # None
        /\ GoodDrafts'
    BY <1>3, <2>1, <2>2, <2>3, <2>4, EntryStep
  <2>6. Typed' /\ Stamped'
    BY <2>1, <2>5, <1>1 DEF IInv, Typed, Stamped
  <2> QED
    BY <1>2, <2>5, <2>6 DEF IInv
<1>5. CASE Approve(n)
  <2> DEFINE r == [action |-> "approve", digest |-> Reviewed(o), at |-> day]
  <2>1. entry' = [entry EXCEPT ![n] = a] /\ ledger' = [ledger EXCEPT ![n] = r] /\ o.described
    BY <1>5 DEF Approve
  <2>2. Reviewed(o) \in Digests /\ Reviewed(o).described
    BY <1>1, <2>1 DEF Reviewed, Digests, Entries
  <2>3. Reviewed(o) # None
    BY <2>2, SourceAssumption
  <2>4. a \in Entries /\ a.mirror # None
    BY <1>1, <2>2, <2>3 DEF Entries
  <2>5. a.torn = o.torn /\ a.facts = o.facts /\ a.by = o.by /\ a.subject = o.subject
        /\ a.pin = o.pin
    BY <1>1 DEF Entries
  <2>6. r \in Records /\ r.at = day /\ day \in Nat
    BY <2>2 DEF Records, IInv, Typed
  <2>7. o # None
    BY <1>5 DEF Approve
  <2> HIDE DEF a, o, r
  <2>8. /\ entry' \in [Names -> Entries \cup {None}]
        /\ \A m \in Names : entry'[m] # None /\ entry'[m].state = "approved"
                              => entry'[m].mirror # None
        /\ GoodDrafts'
    BY <1>3, <2>1, <2>4, <2>5, <2>7, EntryStep
  <2>9. Typed' /\ Stamped'
    BY <2>1, <2>6, <2>8, <1>1 DEF IInv, Typed, Stamped
  <2> QED
    BY <1>2, <2>8, <2>9 DEF IInv
<1> QED
  BY <1>4, <1>5

LEMMA RevokeKeeps == ASSUME IInv, NEW n \in Names, Revoke(n) PROVE IInv'
<1> DEFINE o == ledger[n]
           r == [o EXCEPT !.action = "revoke", !.at = day]
<1>1. /\ ledger' = [ledger EXCEPT ![n] = r]
      /\ UNCHANGED <<tree, day, collector, inventory, proc, entry, base>>
  BY DEF Revoke, Commands
<1>2. o \in Records /\ day \in Nat
  BY DEF IInv, Typed, Revoke
<1>3. r \in Records /\ r.at = day
  BY <1>2 DEF Records
<1> HIDE DEF r, o
<1>4. Typed' /\ Stamped'
  BY <1>1, <1>2, <1>3 DEF IInv, Typed, Stamped
<1>5. GoodProcesses' /\ GoodInventory' /\ GoodBase' /\ GoodDrafts'
  BY <1>1, ProcessesStay, InventoryStays DEF IInv, GoodBase, GoodDrafts
<1> QED
  BY <1>4, <1>5 DEF IInv

LEMMA EditEntryKeeps ==
  ASSUME IInv, NEW n \in Names, NEW e \in {entry[m] : m \in Names} \cup {None}, EditEntry(n, e)
  PROVE  IInv'
<1>1. /\ entry' = [entry EXCEPT ![n] = e]
      /\ UNCHANGED <<tree, ledger, day, collector, inventory, base, proc>>
  BY DEF EditEntry
<1>2. /\ e \in Entries \cup {None}
      /\ e # None => /\ e.state = "approved" => e.mirror # None
                     /\ e.torn \/ e.facts = Found(e.by, e.subject, e.pin)
  BY DEF IInv, Typed, Stamped, GoodDrafts
<1>3. /\ entry' \in [Names -> Entries \cup {None}]
      /\ \A m \in Names : entry'[m] # None /\ entry'[m].state = "approved"
                            => entry'[m].mirror # None
      /\ GoodDrafts'
  BY <1>1, <1>2, EntryStep
<1>4. Typed' /\ Stamped'
  BY <1>1, <1>3 DEF IInv, Typed, Stamped
<1>5. GoodProcesses' /\ GoodInventory' /\ GoodBase'
  BY <1>1, ProcessesStay, InventoryStays DEF IInv, GoodBase
<1> QED
  BY <1>3, <1>4, <1>5 DEF IInv

\* Whoever is between two readings of the tree is torn by an edit.
LEMMA EditSourceKeeps ==
  ASSUME IInv, NEW n \in Names, NEW v \in Contents[n] \cup {None}, EditSource(n, v)
  PROVE  IInv'
<1>1. /\ tree' = [tree EXCEPT ![n] = v]
      /\ UNCHANGED <<entry, ledger, day, collector, inventory, base>>
  BY DEF EditSource
<1>2. Typed' /\ Stamped' /\ GoodDrafts' /\ GoodBase' /\ GoodInventory'
  BY <1>1, InventoryStays DEF IInv, Typed, Stamped, GoodDrafts, GoodBase
<1>3. ASSUME NEW p \in Procs PROVE Holds(proc[p])'
  <2> DEFINE o == proc[p]
             q == [o EXCEPT !.torn = @ \/ o.at \in {"digest", "pin", "project", "write", "finish"}]
  <2>1. proc'[p] = q
    BY DEF EditSource, Tear
  <2>2. Holds(o) /\ o = [x \in Fields |-> o[x]] /\ o.torn \in BOOLEAN
    BY DEF IInv, GoodProcesses, Holds, HoldsIn
  <2>3. /\ q = [x \in Fields |-> q[x]] /\ q.torn \in BOOLEAN
        /\ q.at = o.at /\ q.goal = o.goal /\ q.collector = o.collector /\ q.map = o.map
        /\ q.seen = o.seen /\ q.by = o.by /\ q.facts = o.facts
    BY <2>2 DEF Fields
  <2>4. o.at \in {"digest", "pin", "project", "write", "finish"} => q.torn
    BY <2>2 DEF Fields
  <2> HIDE DEF q, o
  <2>5. HoldsIn(q, tree')
    BY <2>2, <2>3, <2>4 DEF Holds, HoldsIn
  <2> QED
    BY <2>1, <2>5 DEF Holds
<1>4. proc' = [p \in Procs |-> proc'[p]]
  BY DEF EditSource, Tear
<1> QED
  BY <1>2, <1>3, <1>4 DEF IInv, GoodProcesses

\* The check in full is a matter of entries, sources and records.
LEMMA FullCheckOf ==
  ASSUME NEW w, NEW v, w.entry = v.entry, w.tree = v.tree, w.ledger = v.ledger, FullCheck(w) = {}
  PROVE  FullCheck(v) = {}
<1>1. Files(v) = Files(w)
  BY DEF Files
<1>2. \A n \in Files(w) : OwnProblems(v, n) = OwnProblems(w, n)
  BY JudgedBy DEF OwnProblems, Lane
<1>3. \A n \in Files(w) : Identity(v, Files(v), n) = Identity(w, Files(w), n)
  BY <1>1 DEF Identity
<1> QED
  BY <1>1, <1>2, <1>3, CheckPasses DEF FullCheck

LEMMA CommitKeeps == ASSUME IInv, Commit PROVE IInv'
<1>1. /\ base' = Committed /\ FullCheck(Now) = {}
      /\ UNCHANGED <<tree, entry, ledger, day, collector, inventory, proc>>
  BY DEF Commit
<1>2. /\ Now.entry = Committed.entry /\ Now.tree = Committed.tree
      /\ Now.ledger = Committed.ledger
  BY DEF Now, Committed
<1>3. FullCheck(Committed) = {}
  BY <1>1, <1>2, FullCheckOf
<1>4. GoodBase'
  BY <1>1, <1>3 DEF GoodBase
<1>5. Typed' /\ Stamped' /\ GoodDrafts' /\ GoodInventory' /\ GoodProcesses'
  BY <1>1, ProcessesStay, InventoryStays DEF IInv, Typed, Stamped, GoodDrafts
<1> QED
  BY <1>4, <1>5 DEF IInv

LEMMA OthersKeep == ASSUME IInv, EditCollector \/ NextDay \/ UNCHANGED vars PROVE IInv'
<1>1. /\ UNCHANGED <<tree, entry, ledger, inventory, base, proc>>
      /\ collector' \in Collectors /\ day' \in Nat /\ day <= day'
  BY DEF EditCollector, NextDay, vars, IInv, Typed, Collectors
<1>2. Typed' /\ GoodDrafts' /\ GoodInventory' /\ GoodProcesses' /\ GoodBase'
  BY <1>1, ProcessesStay, InventoryStays DEF IInv, Typed, GoodDrafts, GoodBase
<1>3. Stamped'
  <2>1. \A n \in Names : ledger[n] # None => ledger[n].at \in Nat
    BY DEF IInv, Typed, Records
  <2>2. day \in Nat
    BY DEF IInv, Typed
  <2> QED
    BY <1>1, <2>1, <2>2 DEF IInv, Stamped
<1> QED
  BY <1>2, <1>3 DEF IInv

LEMMA Invariance == Spec => []IInv
<1>1. IInv /\ [Next]_vars => IInv'
  <2> SUFFICES ASSUME IInv, [Next]_vars PROVE IInv'
    OBVIOUS
  <2> QED
    BY StartKeeps, LookupKeeps, ParseKeeps, DigestKeeps, TruncateKeeps, FinishKeeps, ProjectKeeps,
       PinKeeps, CrashKeeps, AuthorsKeep, RevokeKeeps, EditEntryKeeps, EditSourceKeeps,
       CommitKeeps, OthersKeep DEF Next, Scan
<1> QED
  BY <1>1, SafeInit, PTL DEF Spec

-----------------------------------------------------------------------------
(* The theorems. *)

\* What the collector takes from a tree that moves, and what a draft says of
\* the file it pins, is what one state of the tree said, unless a file was
\* edited between the two readings (collect, collector_component,
\* command_entry_draft).
THEOREM CollectionsAreFound == Spec => []CollectedAsFound
<1>1. IInv => CollectedAsFound
  <2> SUFFICES ASSUME IInv PROVE CollectedAsFound
    OBVIOUS
  <2>1. AcceptedIsFresh
    BY DEF AcceptedIsFresh, Accepted, Digest, IInv, GoodInventory
  <2>2. ASSUME NEW n \in Names, entry[n] # None, ~entry[n].torn
        PROVE  entry[n].facts = Parsed(entry[n].by, [Now.tree EXCEPT ![entry[n].subject] = entry[n].pin])
                                  [entry[n].subject]
    <3>1. entry[n].subject \in Names /\ DOMAIN tree = Names
      BY <2>2 DEF IInv, Typed, Entries
    <3>2. [Now.tree EXCEPT ![entry[n].subject] = entry[n].pin][entry[n].subject] = entry[n].pin
      BY <3>1 DEF Now
    <3>3. entry[n].facts = Found(entry[n].by, entry[n].subject, entry[n].pin)
      BY <2>2 DEF IInv, GoodDrafts
    <3> QED
      BY <3>1, <3>2, <3>3 DEF Parsed, Found
  <2> QED
    BY <2>1, <2>2 DEF CollectedAsFound, DraftFitsItsPin
<1> QED
  BY <1>1, Invariance, PTL

\* The analysis of the approved entries says of each whether its source, as
\* today's collector reads it, still says what it said when it was drafted
\* (analyze_entry_facts, fact_analysis_report), whatever happened in between.
THEOREM AnalysesTell == Spec => []AnalysisTells
<1>1. IInv => AnalysisTells
  <2> SUFFICES ASSUME IInv, NEW n \in InLane(Now, Effective), ~entry[n].torn
               PROVE  LET found == Fresh[n]
                          drafted == Parsed(entry[n].by, [tree EXCEPT ![n] = entry[n].pin])[n]
                          e == FactAnalysis(Now, "all", Fresh).equivalent IN
                      /\ n \in e <=> IF found = None THEN FALSE ELSE SameDigest(drafted, found)
                      /\ Lane(Now, n) = "approved-current" /\ entry[n].by = collector => n \in e
    BY Zenon DEF AnalysisTells
  <2> DEFINE drafted == Parsed(entry[n].by, [tree EXCEPT ![n] = entry[n].pin])[n]
             e == FactAnalysis(Now, "all", Fresh).equivalent
  <2>1. /\ n \in Names /\ entry[n] # None /\ entry[n].subject = n
        /\ Now.entry = entry /\ Now.tree = tree
    BY EffectiveEntry DEF InLane, Files, Now
  <2>2. Fresh # None /\ Fresh[n] = Found(collector, n, tree[n])
    BY <2>1, ParsedMap, SourceAssumption DEF Fresh, Maps, IInv, Typed
  <2>3. entry[n].facts = Found(entry[n].by, n, entry[n].pin) /\ entry[n].facts # None
    BY <2>1, SourceAssumption DEF IInv, GoodDrafts, Typed, Entries
  <2>4. drafted = entry[n].facts
    <3>1. [tree EXCEPT ![n] = entry[n].pin][n] = entry[n].pin
      BY <2>1 DEF IInv, Typed
    <3> QED
      BY <2>1, <2>3, <3>1 DEF Parsed, Found
  <2>5. n \in e <=> Fresh[n] # None /\ SameDigest(drafted, Fresh[n])
    BY <2>1, <2>2, <2>4, EquivalentFacts
  <2>6. ASSUME Lane(Now, n) = "approved-current", entry[n].by = collector PROVE n \in e
    <3>1. tree[n] = entry[n].pin
      BY <2>1, <2>6, CurrentIsPinned DEF Freshness
    <3>2. Fresh[n] = drafted /\ Fresh[n] # None
      BY <2>2, <2>3, <2>4, <2>6, <3>1
    <3> QED
      BY <2>5, <3>2, DigestReflexive
  <2> QED
    BY <2>5, <2>6
<1> QED
  BY <1>1, Invariance, PTL

\* The narrow check passes exactly where the full one does, as long as neither
\* sources nor ledger moved since a commit that passed (command_entry_check,
\* changed_entry_paths).
THEOREM NarrowChecksSuffice == Spec => []NarrowCheckSound
<1>1. IInv => NarrowCheckSound
  <2> SUFFICES ASSUME IInv, base # None, base.tree = tree, base.ledger = ledger
               PROVE  NarrowCheck(Now, base) = {} <=> FullCheck(Now) = {}
    BY DEF NarrowCheckSound
  <2>1. FullCheck(base) = {} /\ Now.tree = base.tree /\ Now.ledger = base.ledger
    BY DEF IInv, GoodBase, Now
  <2> QED
    BY <2>1, NarrowIsFull
<1> QED
  BY <1>1, Invariance, PTL

LEMMA TypesHold == ASSUME IInv PROVE TypeOK
<1>1. ASSUME NEW n \in Names, entry[n] # None
      PROVE  /\ entry[n].facts \in Facts /\ entry[n].pin # None
             /\ entry[n].state = "approved" => entry[n].mirror # None
  <2>1. entry[n].facts \in Facts /\ entry[n].pin \in Sources
    BY <1>1 DEF IInv, Typed, Entries
  <2>2. entry[n].pin # None
    BY <2>1, SourceAssumption DEF Sources
  <2> QED
    BY <1>1, <2>1, <2>2 DEF IInv, Stamped
<1>2. ASSUME NEW n \in Names, ledger[n] # None
      PROVE  ledger[n].at \in 0 .. day /\ ledger[n].digest.described
  <2>1. ledger[n].at \in Nat /\ ledger[n].digest.described /\ day \in Nat
    BY <1>2 DEF IInv, Typed, Records
  <2>2. ledger[n].at <= day
    BY <1>2 DEF IInv, Stamped
  <2> QED
    BY <2>1, <2>2
<1>3. Readable => \A n \in Names : inventory.map[n] \in Facts \cup {None}
  BY DEF IInv, GoodInventory, Maps
<1>4. \A n \in Names : tree[n] \in Contents[n] \cup {None}
  BY DEF IInv, Typed
<1> QED
  BY <1>1, <1>2, <1>3, <1>4 DEF TypeOK

\* What may be cited is an effective entry with that subject.
LEMMA CitedIsEffective ==
  ASSUME NEW w, NEW n, Citation(w, n, None).severity = "ok"
  PROVE  \E f \in Files(w) : w.entry[f].subject = n /\ Lane(w, f) \in Effective
<1> DEFINE files == {f \in Files(w) : w.entry[f].subject = n}
           file == CHOOSE f \in files : TRUE
           Outcome(v, s, b) == [verdict |-> v, severity |-> s, advisory |-> b]
<1>1. \A v, b : Outcome(v, "invalid", b).severity = "invalid"
  OBVIOUS
<1>2. files = {} => Citation(w, n, None) = Outcome("missing", "invalid", FALSE)
  BY DEF Citation
<1>3. files # {} /\ Lane(w, file) \notin Effective
        => Citation(w, n, None) = Outcome(Lane(w, file), "invalid", FALSE)
  BY DEF Citation
<1>4. files # {} /\ Lane(w, file) \in Effective
  BY <1>1, <1>2, <1>3
<1>5. file \in files
  BY <1>4
<1> QED
  BY <1>4, <1>5

LEMMA AgreementHolds == ReportsAgree
<1> DEFINE m == Maintenance(Now)
<1>1. /\ m.currentNoAction = InLane(Now, {"approved-current"})
      /\ m.driftedDisclosureOnly = {n \in InLane(Now, {"approved-drifted"}) : ~Old(Now, n)}
      /\ m.optionalRefresh = {n \in InLane(Now, {"approved-drifted"}) : Old(Now, n)}
      /\ m.requiresDecision = InLane(Now, {"not-effective"})
  BY DEF Maintenance
<1> HIDE DEF m
<1>2. ASSUME NEW n \in Draftable, Citation(Now, n, None).severity = "ok",
             \A f \in Files(Now) : entry[f].subject = n => f = n
      PROVE  n \in (m.currentNoAction \cup m.driftedDisclosureOnly \cup m.optionalRefresh)
                     \ m.requiresDecision
  <2>1. n \in Files(Now) /\ Lane(Now, n) \in Effective
    <3>1. Now.entry = entry
      BY DEF Now
    <3> QED
      BY <1>2, <3>1, CitedIsEffective
  <2> QED
    BY <2>1, <1>1 DEF InLane, Effective
<1>3. m.requiresDecision \cap InLane(Now, Effective) = {}
  BY <1>1 DEF InLane, Effective
<1>4. MissingEntries(Now, Fresh) = Readiness(Now, Fresh).noEntry
  BY DEF MissingEntries, Readiness
<1>5. EdgeHealth(Now, Fresh).problems \subseteq m.requiresDecision
  <2>1. EdgeHealth(Now, Fresh).problems =
          {n \in Files(Now) : Lane(Now, n) \notin {"draft", "revoked"} /\ Judged(Now, n).problems # {}}
    BY DEF EdgeHealth
  <2> QED
    BY <1>1, <2>1, ProblemLanes DEF InLane
<1> QED
  BY <1>2, <1>3, <1>4, <1>5 DEF ReportsAgree, m

\* What is said of one edge.
LEMMA VerdictRight ==
  ASSUME NEW live, NEW edge, edge.target \in Names, edge.form \in {"dotted", "declared", "bare"}
  PROVE  LET there == live[edge.target] # None
             whole == there /\ (Owner[edge.target] # None => live[Owner[edge.target]] # None) IN
         /\ Verdict(edge, live).gone # {} => ~whole
         /\ ~there /\ Decidable(edge) => Verdict(edge, live).gone # {}
         /\ Verdict(edge, live).open => ~there
<1> DEFINE t == edge.target
           local == {x \in {t, Owner[t]} \ {None} : x \in Local}
<1>1. Owner[t] \in Names \cup {None} /\ None \notin Names /\ Local \subseteq Names
  BY SourceAssumption
<1>2. CASE edge.form = "dotted"
  <2>1. /\ Verdict(edge, live).gone = IF Owner[t] \in Local THEN local \ Live(live) ELSE {}
        /\ Verdict(edge, live).open = FALSE
    BY <1>2 DEF Verdict
  <2> QED
    BY <1>1, <1>2, <2>1 DEF Decidable, Live
<1>3. CASE edge.form = "declared"
  <2>1. /\ Verdict(edge, live).gone = ({t} \cap Local) \ Live(live)
        /\ Verdict(edge, live).open = FALSE
    BY <1>3 DEF Verdict
  <2> QED
    BY <1>1, <1>3, <2>1 DEF Decidable, Live
<1>4. CASE edge.form = "bare"
  <2>1. /\ Verdict(edge, live).gone = {}
        /\ Verdict(edge, live).open =
             (t \in Local /\ \A n \in Live(live) : Token[n] # Token[t])
    BY <1>4 DEF Verdict
  <2> QED
    BY <1>1, <1>4, <2>1 DEF Decidable, Live
<1> QED
  BY <1>2, <1>3, <1>4

LEMMA EdgesHold == ASSUME IInv PROVE EdgeHealthRight
<1> DEFINE health == EdgeHealth(Now, Fresh)
           edges == UNION {{[from |-> n, edge |-> edge] : edge \in Now.entry[n].facts.edges} :
                             n \in {m \in InLane(Now, Effective) : Fresh[m] # None}}
<1>1. /\ health.gone = {x \in edges : Verdict(x.edge, Fresh).gone # {}}
      /\ health.undecidable = {x \in edges : Verdict(x.edge, Fresh).open}
  BY DEF EdgeHealth
<1>2. ASSUME NEW n \in InLane(Now, Effective), Fresh[n] # None,
             NEW edge \in entry[n].facts.edges
      PROVE  LET x == [from |-> n, edge |-> edge]
                 there == Fresh[edge.target] # None
                 whole == /\ there
                          /\ Owner[edge.target] # None => Fresh[Owner[edge.target]] # None IN
             /\ x \in health.gone => ~whole
             /\ ~there /\ Decidable(edge) => x \in health.gone
             /\ x \in health.undecidable => ~there
  <2> DEFINE x == [from |-> n, edge |-> edge]
  <2>1. x \in edges /\ x.edge = edge
    BY <1>2 DEF Now
  <2>2. edge.target \in Names /\ edge.form \in {"dotted", "declared", "bare"}
    <3>1. n \in Names /\ entry[n] # None
      BY DEF InLane, Files, Now
    <3>2. entry[n].facts \in Facts
      BY <3>1 DEF IInv, Typed, Entries
    <3> QED
      BY <3>2, SourceAssumption
  <2> HIDE DEF edges, health, x
  <2>3. /\ x \in health.gone <=> Verdict(edge, Fresh).gone # {}
        /\ x \in health.undecidable <=> Verdict(edge, Fresh).open
    BY <1>1, <2>1
  <2> QED
    BY <2>2, <2>3, VerdictRight DEF x
<1> QED
  BY <1>2 DEF EdgeHealthRight

\* Citations, maintenance summary, readiness, coverage and edge health speak
\* of one corpus, agree with each other and with the tree
\* (verify_entry_citations, maintenance_summary, entry_edge_health).
THEOREM ReportsAreRight == Spec => []ReportsRight
<1>1. IInv => ReportsRight
  BY TypesHold, AgreementHolds, EdgesHold DEF ReportsRight
<1> QED
  BY <1>1, Invariance, PTL
=============================================================================
