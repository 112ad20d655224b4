------------------------------ MODULE SourceTree ------------------------------
(***************************************************************************)
(* The working tree that people and commands share: the force-app source,  *)
(* the inventory scripts/force_app_knowledge.py caches of it, the entries  *)
(* drafted from that inventory, the ledger and the last commit.  Approval  *)
(* and revocation are single steps here; KnowledgeStore has their detail.  *)
(*                                                                         *)
(* People edit sources, the collector and entry files at any time.  A      *)
(* process runs the collector it was started with.  COLLECTOR_VERSION is   *)
(* left out: it is recorded in an entry and compared with nothing.         *)
(***************************************************************************)
EXTENDS EntryReports

CONSTANTS
  Procs,         \* processes that scan or draft
  Contents,      \* [Names -> contents a source file may have]
  Broken,        \* a content that no parser accepts
  FactsOf,       \* [collectors -> [Names -> [contents -> facts]]]
  MaxEdits,      \* bound: edits of sources, collector and entry files, commits
  MaxDay,        \* bound: days
  Partial        \* an inventory file that is half written

\* What collectors find in the contents of the source files.
FoundBy(c, n) == {FactsOf[c][n][v] : v \in Contents[n] \ {Broken}}
Facts == UNION {FoundBy(c, n) : c \in DOMAIN FactsOf, n \in Names}

\* A reviewed digest.
Digests == [subject : Names, facts : Facts, described : BOOLEAN]

ASSUME SourceAssumption ==
  /\ {MaxEdits, MaxDay} \subseteq Nat /\ 0 \in DOMAIN FactsOf
  /\ Draftable \subseteq Names /\ Local \subseteq Names
  /\ Owner \in [Names -> Names \cup {None}]
  /\ \A n \in Names : None \notin Contents[n] /\ Contents[n] \ {Broken} # {}
  /\ None \notin Names \cup Facts \cup Digests \cup [Names -> Facts \cup {None}]
  /\ \A f \in Facts : \A edge \in f.edges :
       edge.target \in Names /\ edge.form \in {"dotted", "declared", "bare"}

VARIABLES
  tree, entry, ledger, day,
  collector,  \* the number of the collector in the tree
  inventory,  \* .cache/knowledge-proposals/force-app-inventory.json
  base,       \* what the last commit that was checked in full holds
  proc,
  edits       \* history: the numbers of edits of either kind

vars == <<tree, entry, ledger, day, collector, inventory, base, proc, edits>>

\* What a commit holds, and what the commands read.
Committed == [tree |-> tree, entry |-> entry, ledger |-> ledger]
Now == [tree |-> tree, entry |-> entry, ledger |-> ledger, day |-> day]

\* What the parsers make of the tree; a file they fail on is a diagnostic.
Parsed(code, sources) ==
  [n \in Names |-> IF sources[n] \in {None, Broken} THEN None ELSE FactsOf[code][n][sources[n]]]

NoProc == [at |-> "idle", goal |-> None, collector |-> None, map |-> None, seen |-> None,
           by |-> None, facts |-> None, torn |-> FALSE]

Init ==
  /\ tree = [n \in Names |-> CHOOSE v \in Contents[n] \ {Broken} : TRUE]
  /\ entry = [n \in Names |-> None] /\ ledger = [n \in Names |-> None] /\ day = 0
  /\ collector = 0
  /\ inventory = None
  /\ base = None
  /\ proc = [p \in Procs |-> NoProc]
  /\ edits = 0

-----------------------------------------------------------------------------
(* The collector. *)

People == <<tree, ledger, day, collector, base, edits>>

At(p, at) == proc' = [proc EXCEPT ![p] = [@ EXCEPT !.at = at]]

\* inventory, entry-readiness, entry-edge-health and entry-coverage always scan.
StartScan(p) ==
  /\ proc[p] = NoProc
  /\ proc' = [proc EXCEPT ![p] = [NoProc EXCEPT !.at = "parse", !.collector = collector]]
  /\ UNCHANGED <<People, entry, inventory>>

StartDraft(p, n) ==
  /\ proc[p] = NoProc /\ n \in Draftable
  /\ proc' = [proc EXCEPT ![p] = [NoProc EXCEPT !.at = "lookup", !.goal = n,
                                                !.collector = collector]]
  /\ UNCHANGED <<People, entry, inventory>>

\* Faulty variant: a digest of the paths.
DigestOfPaths(sources) == {n \in Names : sources[n] # None}

\* current_tree_digest.
Digest(sources) == sources

Readable == inventory \notin {None, Partial}

\* The test resolve and collector_component make of the cached inventory.
Accepted == Readable /\ inventory.digest = Digest(tree)

\* collector_component: the cached inventory, or else a scan.
Lookup(p) ==
  /\ proc[p].at = "lookup"
  /\ proc' = [proc EXCEPT ![p] =
                IF Accepted THEN [@ EXCEPT !.at = "project", !.map = inventory.map,
                                           !.by = inventory.by, !.torn = inventory.torn]
                ELSE [@ EXCEPT !.at = "parse"]]
  /\ UNCHANGED <<People, entry, inventory>>

\* The files are parsed one after the other and digested later, all anew.
Parse(p) ==
  /\ proc[p].at = "parse"
  /\ proc' = [proc EXCEPT ![p] = [@ EXCEPT !.at = "digest", !.by = proc[p].collector,
                                           !.map = Parsed(proc[p].collector, tree)]]
  /\ UNCHANGED <<People, entry, inventory>>

TakeDigest(p) ==
  /\ proc[p].at = "digest"
  /\ proc' = [proc EXCEPT ![p] = [@ EXCEPT !.at = "write", !.seen = Digest(tree)]]
  /\ UNCHANGED <<People, entry, inventory>>

\* write_text truncates the file first.
Truncate(p) ==
  /\ proc[p].at = "write"
  /\ inventory' = Partial
  /\ At(p, "finish")
  /\ UNCHANGED <<People, entry>>

Finish(p) ==
  /\ proc[p].at = "finish"
  /\ inventory' = [map |-> proc[p].map, digest |-> proc[p].seen, by |-> proc[p].by,
                   torn |-> proc[p].torn]
  /\ proc' = [proc EXCEPT ![p] = IF @.goal = None THEN NoProc
                                  ELSE [@ EXCEPT !.at = "project", !.seen = None]]
  /\ UNCHANGED <<People, entry>>

\* entry-draft: the facts of the component, if there is one.
Project(p) ==
  /\ proc[p].at = "project"
  /\ proc' = [proc EXCEPT ![p] =
                IF @.map[@.goal] = None THEN NoProc
                ELSE [@ EXCEPT !.at = "pin", !.map = None, !.facts = proc[p].map[proc[p].goal]]]
  /\ UNCHANGED <<People, entry, inventory>>

\* The digest of the file there is now is the pin; the entry is replaced.
Pin(p) ==
  /\ proc[p].at = "pin"
  /\ LET n == proc[p].goal IN
     entry' = IF tree[n] = None THEN entry
              ELSE [entry EXCEPT ![n] =
                      [subject |-> n, state |-> "draft", facts |-> proc[p].facts,
                       described |-> FALSE, pin |-> tree[n], mirror |-> None,
                       by |-> proc[p].by, torn |-> proc[p].torn]]
  /\ proc' = [proc EXCEPT ![p] = NoProc]
  /\ UNCHANGED <<People, inventory>>

\* A process may be killed.
Crash(p) ==
  /\ proc[p].at = "finish"
  /\ proc' = [proc EXCEPT ![p] = NoProc]
  /\ UNCHANGED <<People, entry, inventory>>

-----------------------------------------------------------------------------
(* Entries. *)

Commands == <<tree, day, collector, inventory, proc, edits>>

\* entry-describe.
Describe(n) ==
  /\ entry[n] # None /\ entry[n].subject = n /\ ~entry[n].described
  /\ entry' = [entry EXCEPT ![n] = [@ EXCEPT !.described = TRUE, !.state = "draft"]]
  /\ UNCHANGED <<Commands, ledger, base>>

\* entry-approve of what was reviewed.
Approve(n) ==
  /\ entry[n] # None /\ entry[n].subject = n /\ entry[n].described
  /\ Lane(Now, n) # "approved-current"
  /\ entry' = [entry EXCEPT ![n] = [@ EXCEPT !.state = "approved", !.mirror = Reviewed(entry[n])]]
  /\ ledger' = [ledger EXCEPT ![n] = [action |-> "approve", digest |-> Reviewed(entry[n]),
                                      at |-> day]]
  /\ UNCHANGED <<Commands, base>>

Revoke(n) ==
  /\ ledger[n] # None /\ ledger[n].action # "revoke"
  /\ ledger' = [ledger EXCEPT ![n] = [@ EXCEPT !.action = "revoke", !.at = day]]
  /\ UNCHANGED <<Commands, entry, base>>

-----------------------------------------------------------------------------
(* People. *)

\* An edit while a scan is between its two readings, or a draft between the
\* facts and the pin, tears what comes of it.
Tear ==
  proc' = [p \in Procs |->
             [proc[p] EXCEPT !.torn = @ \/ proc[p].at \in {"digest", "pin", "project", "write", "finish"}]]

EditSource(n, v) ==
  /\ edits < MaxEdits /\ v # tree[n]
  /\ tree' = [tree EXCEPT ![n] = v]
  /\ edits' = edits + 1
  /\ Tear
  /\ UNCHANGED <<entry, ledger, day, collector, inventory, base>>

EditCollector ==
  /\ edits < MaxEdits /\ collector + 1 \in DOMAIN FactsOf
  /\ collector' = collector + 1
  /\ edits' = edits + 1
  /\ UNCHANGED <<tree, entry, ledger, day, inventory, base, proc>>

\* An entry file is removed, or a copy of another one is put in its place.
EditEntry(n, content) ==
  /\ edits < MaxEdits
  /\ content # entry[n]
  /\ entry' = [entry EXCEPT ![n] = content]
  /\ edits' = edits + 1
  /\ UNCHANGED <<tree, ledger, day, collector, inventory, base, proc>>

\* A commit that the full check has passed.
Commit ==
  /\ edits < MaxEdits /\ base # Committed /\ FullCheck(Now) = {}
  /\ base' = Committed
  /\ edits' = edits + 1
  /\ UNCHANGED <<tree, entry, ledger, day, collector, inventory, proc>>

NextDay ==
  /\ day < MaxDay
  /\ day' = day + 1
  /\ UNCHANGED <<tree, entry, ledger, collector, inventory, base, proc, edits>>

Scan(p) == Lookup(p) \/ Parse(p) \/ TakeDigest(p) \/ Truncate(p) \/ Finish(p)

Next ==
  \/ \E p \in Procs :
       \/ StartScan(p) \/ \E n \in Names : StartDraft(p, n)
       \/ Scan(p) \/ Project(p) \/ Pin(p) \/ Crash(p)
  \/ \E n \in Names : Describe(n) \/ Approve(n) \/ Revoke(n)
  \/ \E n \in Names : EditEntry(n, None) \/ \E m \in Names : EditEntry(n, entry[m])
  \/ \E n \in Names : \E v \in Contents[n] \cup {None} : EditSource(n, v)
  \/ EditCollector \/ Commit \/ NextDay

Spec == Init /\ [][Next]_vars

-----------------------------------------------------------------------------
(* Properties. *)

TypeOK ==
  /\ \A n \in Names :
       /\ tree[n] \in Contents[n] \cup {None}
       /\ entry[n] # None =>
            /\ entry[n].facts \in Facts /\ entry[n].pin # None
            /\ entry[n].state = "approved" => entry[n].mirror # None
       /\ ledger[n] # None => ledger[n].at \in 0 .. day /\ ledger[n].digest.described
  /\ Readable => \A n \in Names : inventory.map[n] \in Facts \cup {None}

\* An inventory that is accepted as fresh lists the components that its
\* collector finds in the tree, unless a file was edited while it was taken.
AcceptedIsFresh ==
  Accepted /\ ~inventory.torn => inventory.map = Parsed(inventory.by, tree)

\* What a draft says of a component is what the file it pins says, unless the
\* file was edited between the two readings.
DraftFitsItsPin ==
  \A n \in Names :
    LET e == entry[n] IN
    e # None => e.torn \/ e.facts = Parsed(e.by, [Now.tree EXCEPT ![e.subject] = e.pin])[e.subject]

\* What is taken from a tree that moves is what one state of it said.
CollectedAsFound == AcceptedIsFresh /\ DraftFitsItsPin

Fresh == Parsed(collector, tree)

\* The analysis compares stored facts with found ones, and so it tells how
\* the source moved since it was drafted, through whatever cache, collector,
\* copy and approval the entry went: an effective entry is equivalent exactly
\* if the collector makes of the source what that of the draft made of the
\* pinned one.  So nothing is called changed where nothing has changed.
AnalysisTells ==
  LET fresh == Fresh
      equivalent == FactAnalysis(Now, "all", fresh).equivalent
      Drafted(n) == Parsed(entry[n].by, [tree EXCEPT ![n] = entry[n].pin])[n] IN
  \A n \in InLane(Now, Effective) : ~entry[n].torn =>
    /\ n \in equivalent <=> IF fresh[n] = None THEN FALSE ELSE SameDigest(Drafted(n), fresh[n])
    /\ Lane(Now, n) = "approved-current" /\ entry[n].by = collector => n \in equivalent

\* The narrow check finds what the full one finds, provided that neither
\* the sources nor the ledger moved since the commit.
NarrowCheckSound ==
  (IF base = None THEN FALSE ELSE base.tree = tree /\ base.ledger = ledger)
    => (NarrowCheck(Now, base) = {} <=> FullCheck(Now) = {})

\* The reports agree: what may be cited needs no decision; an approved entry
\* that may not be cited, needs one; age alone moves nothing; a component has
\* an entry in one report if and only if it has one in the others.
ReportsAgree ==
  LET m == Maintenance(Now)
      fresh == Fresh IN
  /\ \A n \in Draftable :
       Citation(Now, n, None).severity = "ok" /\ (\A f \in Files(Now) : entry[f].subject = n => f = n)
         => n \in (m.currentNoAction \cup m.driftedDisclosureOnly \cup m.optionalRefresh) \ m.requiresDecision
  /\ m.requiresDecision \cap InLane(Now, Effective) = {}
  /\ MissingEntries(Now, fresh) = Readiness(Now, fresh).noEntry
  /\ EdgeHealth(Now, fresh).problems \subseteq m.requiresDecision

\* An edge that names its target in full, in names only this tree can create.
Decidable(edge) ==
  /\ edge.form # "bare" /\ edge.target \in Local
  /\ edge.form = "dotted" => Owner[edge.target] \in Local

\* No edge is called gone whose target is in the tree, and a decidable edge is
\* not passed over when its target is gone.
EdgeHealthRight ==
  LET fresh == Fresh
      health == EdgeHealth(Now, fresh) IN
  \A n \in InLane(Now, Effective) :
    fresh[n] # None =>
      \A edge \in entry[n].facts.edges :
        LET x == [from |-> n, edge |-> edge]
            there == fresh[edge.target] # None
            whole == there /\ (Owner[edge.target] # None => fresh[Owner[edge.target]] # None) IN
        /\ x \in health.gone => ~whole
        /\ ~there /\ Decidable(edge) => x \in health.gone
        /\ x \in health.undecidable => ~there

\* The reports of one moment describe one corpus: they agree with each other
\* and with the tree.
ReportsRight == TypeOK /\ ReportsAgree /\ EdgeHealthRight
=============================================================================
