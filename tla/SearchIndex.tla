---------------------------- MODULE SearchIndex ----------------------------
(***************************************************************************)
(* The generated search index of scripts/knowledge_search.py and the calls *)
(* of scripts/knowledge_mcp_server.mjs that query and heal it.             *)
(*                                                                         *)
(* A build projects every entry together with its lane, writes the files   *)
(* of one generation into a directory named after it, swings the pointer   *)
(* and removes the other directories.  A query follows the pointer, checks *)
(* a cheap fingerprint of the corpus, reads the postings and documents,    *)
(* and compares the entries it is about to serve with the projections.     *)
(*                                                                         *)
(* Builds and queries are processes without locks, and entries and ledger  *)
(* change under them.  A file's modification time is a number taken from a *)
(* clock that only grows; its size is left out of the fingerprint, so that *)
(* nothing rests on it.                                                    *)
(***************************************************************************)
EXTENDS Naturals, FiniteSets

CONSTANTS
  Ids,        \* identities of entries
  Contents,   \* what an entry file can hold
  Reviewed,   \* the reviewedContentDigest of each content
  Procs,      \* processes that build or query
  None,       \* absent: no entry, no approval, no file, no directory
  Partial,    \* a file that is truncated or half written
  MaxClock,   \* bound on the number of changes to entries and ledger
  MaxDuring,  \* the same bound once one of them fell into a build
  MaxStarts   \* bound on the number of commands and calls

DigestsOf == {Reviewed[c] : c \in Contents}

-----------------------------------------------------------------------------
(* What a generation holds. *)

Lanes == {"approved", "other"}

\* The stamps that decide whether a projection may be reused.
Deps == [entry : Nat, ledger : Nat]

\* `digest` is the reviewedContentDigest that compute_lane returned.
Projections == [content : Contents, lane : Lanes, digest : DigestsOf, deps : Deps]

Documents == [Ids -> Projections \cup {None}]

NoDocuments == [i \in Ids |-> None]

\* entry_set_digest: identities with their lanes and reviewed digests.
Labels == [lane : Lanes, digest : DigestsOf]

Names == [Ids -> Labels \cup {None}]

NameOf(docs) ==
  [i \in Ids |-> IF docs[i] = None THEN None
                 ELSE [lane |-> docs[i].lane, digest |-> docs[i].digest]]

\* An entry whose lane was computed and whose projection is under way.
Sights == [id : Ids, content : Contents \cup {None}, lane : Lanes, digest : DigestsOf]

Unreadable == {None, Partial}

\* What corpus_fingerprint returns.
Fingerprints == [count : 0 .. Cardinality(Ids), newest : 0 .. MaxClock, ledger : 0 .. MaxClock]

ASSUME IndexAssumption ==
  /\ {MaxClock, MaxStarts} \subseteq Nat /\ MaxDuring \in 0 .. MaxClock
  /\ IsFiniteSet(Ids)
  /\ Reviewed = [c \in Contents |-> Reviewed[c]]
  /\ None \notin DigestsOf
  /\ Unreadable \cap Fingerprints = {}
  /\ None \notin Projections \cup Labels \cup Sights

VARIABLES
  entry,     \* the entry files: content and modification time, or None
  ledger,    \* the latest approval of each identity, and the file's modification time
  clock,     \* the last modification time used
  pointer,   \* current.json: the name of the current generation
  disk,      \* the files of each generation directory, or None
  starts,    \* the number of commands and calls so far
  proc,      \* the build or query each process is executing
  answer,    \* history: the answer of the last query of each process
  approvals, \* history: every approval the ledger ever held
  disturbed  \* history: something changed during a build

vars == <<entry, ledger, clock, pointer, disk, starts, proc, answer, approvals, disturbed>>

corpus == <<entry, ledger, clock, approvals, starts, disturbed>>

Present == {i \in Ids : entry[i] # None}

\* compute_lane, as far as it is indexed: approved by the ledger or not.
LaneUnder(approved, i) ==
  IF approved[i] = Reviewed[entry[i].content] THEN "approved" ELSE "other"

Approved == {i \in Present : LaneUnder(ledger.approved, i) = "approved"}

-----------------------------------------------------------------------------
(* The corpus and what a generation says of it. *)

Newest == CHOOSE s \in 0 .. clock :
  /\ s = 0 \/ \E i \in Present : entry[i].stamp = s
  /\ \A i \in Present : entry[i].stamp <= s

\* Faulty variant: the ledger is left out.
EntriesOnly == [count |-> Cardinality(Present), newest |-> Newest, ledger |-> 0]

\* corpus_fingerprint: number of entries, newest modification time, ledger.
Fingerprint == [count |-> Cardinality(Present), newest |-> Newest, ledger |-> ledger.stamp]

\* The postings are represented by the lanes, the byte offsets by their keys.
Directories ==
  [documents : Documents \cup Unreadable, offsets : (SUBSET Ids) \cup Unreadable,
   lanes : (SUBSET Ids) \cup Unreadable, manifest : Fingerprints \cup Unreadable]

EmptyDirectory == [documents |-> None, offsets |-> None, lanes |-> None, manifest |-> None]

-----------------------------------------------------------------------------
(* Processes. *)

\* The files of a generation, in the order they are written.
Steps == [documents |-> "offsets", offsets |-> "lanes", lanes |-> "manifest", manifest |-> "swap"]

BuildPoints ==
  {"build", "ledger", "collect", "project", "stamp", "open", "fill", "swap", "clean"}

Points == BuildPoints \cup {"idle", "pointer", "load", "lanes", "serve"}

ProcRecords ==
  [at : Points, heal : {"cli", "call", "healed"}, name : Names \cup {None},
   reuse : Documents, docs : Documents,
   approved : [Ids -> DigestsOf \cup {None}],    \* the ledger as read by collect_projections
   todo : SUBSET Ids,
   seen : Sights \cup {None},
   file : DOMAIN Steps, print : Fingerprints \cup {None},
   old : SUBSET Names, found : SUBSET Ids, due : SUBSET Ids]

Idle ==
  [at |-> "idle", heal |-> "cli", name |-> None, reuse |-> NoDocuments, docs |-> NoDocuments,
   approved |-> [i \in Ids |-> None], todo |-> {}, seen |-> None,
   file |-> "documents", print |-> None, old |-> {}, found |-> {}, due |-> {}]

Building(p) == proc[p].at \in BuildPoints

\* `right` was approved when the query loaded the index (`due`) or when it
\* answered.
Answers == [served : SUBSET Ids, gaps : SUBSET Ids, right : SUBSET Ids]

TypeOK ==
  /\ entry \in [Ids -> [content : Contents, stamp : 0 .. MaxClock] \cup {None}]
  /\ ledger \in [approved : [Ids -> DigestsOf \cup {None}], stamp : 0 .. MaxClock]
  /\ clock \in 0 .. MaxClock /\ starts \in 0 .. MaxStarts /\ disturbed \in BOOLEAN
  /\ pointer \in Names \cup {None}
  /\ \A n \in DOMAIN disk : n \in Names /\ disk[n] \in Directories
  /\ proc \in [Procs -> ProcRecords]
  /\ answer \in [Procs -> Answers \cup {None}]
  /\ approvals \subseteq Ids \X DigestsOf

\* The documents of a build that nothing disturbs, and the directory it leaves.
CleanDocuments ==
  [i \in Ids |-> IF entry[i] = None THEN None
     ELSE [content |-> entry[i].content, lane |-> LaneUnder(ledger.approved, i),
           digest |-> Reviewed[entry[i].content],
           deps |-> [entry |-> entry[i].stamp, ledger |-> ledger.stamp]]]

CleanDirectory ==
  [documents |-> CleanDocuments, offsets |-> Present, lanes |-> Approved, manifest |-> Fingerprint]

\* Approved entries, and no index yet or one that is up to date.
Init ==
  /\ clock = 0 /\ starts = 0 /\ disturbed = FALSE
  /\ \E c \in [Ids -> Contents] :
       /\ entry = [i \in Ids |-> [content |-> c[i], stamp |-> 0]]
       /\ ledger = [approved |-> [i \in Ids |-> Reviewed[c[i]]], stamp |-> 0]
       /\ approvals = {<<i, Reviewed[c[i]]>> : i \in Ids}
  /\ \/ pointer = None /\ disk = [n \in {} |-> EmptyDirectory]
     \/ pointer = NameOf(CleanDocuments) /\ disk = [n \in {pointer} |-> CleanDirectory]
  /\ proc = [p \in Procs |-> Idle]
  /\ answer = [p \in Procs |-> None]

-----------------------------------------------------------------------------
(* Building. *)

Set(p, q) == proc' = [proc EXCEPT ![p] = q]

Start == starts < MaxStarts /\ starts' = starts + 1

\* From the command line, all of it or incrementally, or to heal a call.
BuildStart(p) ==
  /\ proc[p] = Idle
  /\ Start
  /\ Set(p, [Idle EXCEPT !.at = "build"])
  /\ answer' = [answer EXCEPT ![p] = None]
  /\ UNCHANGED <<entry, ledger, clock, approvals, disturbed, pointer, disk>>

\* load_previous_projections.
Reusable ==
  IF /\ pointer # None /\ pointer \in DOMAIN disk
     /\ disk[pointer].manifest \notin Unreadable /\ disk[pointer].documents \notin Unreadable
  THEN disk[pointer].documents ELSE NoDocuments

\* `build --full` ignores the previous generation; a healing call never asks for it.
BuildPrevious(p) ==
  /\ proc[p].at = "build"
  /\ \E reuse \in {Reusable} \cup (IF proc[p].heal = "cli" THEN {NoDocuments} ELSE {}) :
       Set(p, [proc[p] EXCEPT !.at = "ledger", !.reuse = reuse])
  /\ UNCHANGED <<corpus, pointer, disk, answer>>

\* read_ledger, then the list of entry files.
BuildLedger(p) ==
  /\ proc[p].at = "ledger"
  /\ Set(p, [proc[p] EXCEPT !.at = "collect", !.approved = ledger.approved, !.todo = Present])
  /\ UNCHANGED <<corpus, pointer, disk, answer>>

\* projection_dependencies.
Stamps(i) == [entry |-> entry[i].stamp, ledger |-> ledger.stamp]

\* A projection whose stamps have not moved is reused; otherwise the lane is
\* computed under the ledger read before.
Collect(p, i) ==
  /\ proc[p].at = "collect" /\ i \in proc[p].todo /\ entry[i] # None
  /\ LET cached == proc[p].reuse[i]
         reuse == IF cached = None THEN FALSE ELSE cached.deps = Stamps(i)
     IN Set(p, IF reuse
               THEN [proc[p] EXCEPT !.docs = [@ EXCEPT ![i] = cached], !.todo = @ \ {i}]
               ELSE [proc[p] EXCEPT !.at = "project",
                       !.seen = [id |-> i, content |-> None, lane |-> LaneUnder(proc[p].approved, i),
                                 digest |-> Reviewed[entry[i].content]]])
  /\ UNCHANGED <<corpus, pointer, disk, answer>>

\* project_entry reads the file again.
Project(p) ==
  LET i == proc[p].seen.id IN
  /\ proc[p].at = "project" /\ entry[i] # None
  /\ Set(p, [proc[p] EXCEPT !.at = "stamp", !.seen = [@ EXCEPT !.content = entry[i].content]])
  /\ UNCHANGED <<corpus, pointer, disk, answer>>

\* The stamps are taken last.
StampProjection(p) ==
  LET seen == proc[p].seen IN
  /\ proc[p].at = "stamp" /\ entry[seen.id] # None
  /\ Set(p, [proc[p] EXCEPT !.at = "collect", !.todo = @ \ {seen.id}, !.seen = None,
            !.docs = [@ EXCEPT ![seen.id] = [content |-> seen.content, lane |-> seen.lane,
                                             digest |-> seen.digest, deps |-> Stamps(seen.id)]]])
  /\ UNCHANGED <<corpus, pointer, disk, answer>>

\* The directory of the generation is created, or written over.
Collected(p) ==
  LET name == NameOf(proc[p].docs) IN
  /\ proc[p].at = "collect" /\ proc[p].todo = {}
  /\ disk' = [n \in DOMAIN disk \cup {name} |->
                IF n \in DOMAIN disk THEN disk[n] ELSE EmptyDirectory]
  /\ Set(p, [proc[p] EXCEPT !.at = "open", !.name = name, !.reuse = NoDocuments,
                            !.approved = Idle.approved])
  /\ UNCHANGED <<corpus, pointer, answer>>

\* A file is truncated as it is opened.  The fingerprint of the manifest is
\* taken, and the documents are read back, just before.
OpenFile(p) ==
  LET q == proc[p] IN
  /\ q.at = "open" /\ q.name \in DOMAIN disk
  /\ q.file = "manifest" => disk[q.name].documents # None
  /\ disk' = [disk EXCEPT ![q.name] = [@ EXCEPT ![q.file] = Partial]]
  /\ Set(p, [q EXCEPT !.at = "fill", !.print = IF q.file = "manifest" THEN Fingerprint ELSE None])
  /\ UNCHANGED <<corpus, pointer, answer>>

Payload(q) ==
  CASE q.file = "documents" -> q.docs
    [] q.file = "offsets" -> {i \in Ids : q.docs[i] # None}
    [] q.file = "lanes" -> {i \in Ids : IF q.docs[i] = None THEN FALSE
                                         ELSE q.docs[i].lane = "approved"}
    [] q.file = "manifest" -> q.print

\* What is written to a file that was removed meanwhile is lost.
FillFile(p) ==
  LET q == proc[p]
      there == IF q.name \in DOMAIN disk THEN disk[q.name][q.file] # None ELSE FALSE
      next == Steps[q.file]
  IN
  /\ q.at = "fill"
  /\ disk' = IF there THEN [disk EXCEPT ![q.name] = [@ EXCEPT ![q.file] = Payload(q)]] ELSE disk
  /\ Set(p, IF next = "swap" THEN [q EXCEPT !.at = "swap", !.docs = NoDocuments, !.print = None]
            ELSE [q EXCEPT !.at = "open", !.file = next])
  /\ UNCHANGED <<corpus, pointer, answer>>

\* The pointer is replaced; then the other directories are listed.
Swap(p) ==
  /\ proc[p].at = "swap"
  /\ pointer' = proc[p].name
  /\ Set(p, [proc[p] EXCEPT !.at = "clean", !.old = DOMAIN disk \ {proc[p].name}])
  /\ UNCHANGED <<corpus, disk, answer>>

\* rmtree removes file by file, in any order.
RemoveFile(p) ==
  /\ proc[p].at = "clean"
  /\ \E n \in proc[p].old \cap DOMAIN disk, f \in DOMAIN Steps :
       /\ disk[n][f] # None
       /\ disk' = [disk EXCEPT ![n] = [@ EXCEPT ![f] = None]]
  /\ UNCHANGED <<corpus, pointer, proc, answer>>

RemoveDirectory(p) ==
  /\ proc[p].at = "clean"
  /\ \E n \in proc[p].old \cap DOMAIN disk :
       /\ disk[n] = EmptyDirectory
       /\ disk' = [m \in DOMAIN disk \ {n} |-> disk[m]]
  /\ UNCHANGED <<corpus, pointer, proc, answer>>

\* Errors of rmtree are ignored.  A healed call queries again.
Built(p) ==
  /\ proc[p].at = "clean"
  /\ Set(p, IF proc[p].heal = "healed" THEN [Idle EXCEPT !.at = "pointer", !.heal = "healed"]
            ELSE Idle)
  /\ UNCHANGED <<corpus, pointer, disk, answer>>

-----------------------------------------------------------------------------
(* Querying. *)

QueryStart(p) ==
  /\ proc[p] = Idle
  /\ \E heal \in {"cli", "call"} : Set(p, [Idle EXCEPT !.at = "pointer", !.heal = heal])
  /\ Start
  /\ answer' = [answer EXCEPT ![p] = None]
  /\ UNCHANGED <<entry, ledger, clock, approvals, disturbed, pointer, disk>>

\* INDEX STALE: a call builds once and queries once more, a command ends.
Stale(p) ==
  Set(p, IF proc[p].heal = "call" THEN [Idle EXCEPT !.at = "build", !.heal = "healed"] ELSE Idle)

QueryPointer(p) ==
  /\ proc[p].at = "pointer"
  /\ \/ pointer = None /\ Stale(p)
     \/ pointer # None /\ Set(p, [proc[p] EXCEPT !.at = "load", !.name = pointer])
  /\ UNCHANGED <<corpus, pointer, disk, answer>>

\* load_index.
Loadable(g) ==
  /\ g.documents # None /\ g.offsets # None
  /\ g.manifest = Fingerprint

QueryLoad(p) ==
  LET name == proc[p].name
      g == IF name \in DOMAIN disk THEN disk[name] ELSE EmptyDirectory
  IN
  /\ proc[p].at = "load"
  /\ \/ /\ g.manifest = Partial /\ g.documents # None
        /\ Set(p, Idle)
     \/ /\ g.manifest # Partial \/ g.documents = None
        /\ ~Loadable(g)
        /\ Stale(p)
     \/ /\ g.manifest # Partial
        /\ Loadable(g)
        /\ Set(p, [proc[p] EXCEPT !.at = "lanes", !.due = Approved])
  /\ UNCHANGED <<corpus, pointer, disk, answer>>

\* A posting file that is not there reads as an empty one.
Postings(name, f) ==
  IF name \notin DOMAIN disk THEN {} ELSE IF disk[name][f] = None THEN {} ELSE disk[name][f]

QueryLanes(p) ==
  LET found == Postings(proc[p].name, "lanes") IN
  /\ proc[p].at = "lanes"
  /\ Set(p, IF found = Partial THEN Idle ELSE [proc[p] EXCEPT !.at = "serve", !.found = found])
  /\ UNCHANGED <<corpus, pointer, disk, answer>>

\* Faulty variant: the reviewed digest is not computed again.
SameFile(i, d) == IF entry[i] = None THEN FALSE ELSE entry[i].content = d.content

\* hydrate: the same bytes, and the reviewed digest the projection was given.
Hydrates(i, d) ==
  IF entry[i] = None THEN FALSE
  ELSE entry[i].content = d.content /\ Reviewed[entry[i].content] = d.digest

\* The candidates are looked up and hydrated; an unreadable file is an error.
QueryServe(p) ==
  LET q == proc[p]
      known == Postings(q.name, "offsets")
      docs == IF q.name \in DOMAIN disk THEN disk[q.name].documents ELSE None
  IN
  /\ q.at = "serve"
  /\ Set(p, Idle)
  /\ IF known = Partial THEN UNCHANGED answer
     ELSE LET hits == q.found \cap known IN
          IF /\ hits # {}
             /\ docs \in Unreadable \/ \E i \in hits : docs[i] = None
          THEN UNCHANGED answer
          ELSE LET served == {i \in hits : Hydrates(i, docs[i])} IN
               answer' = [answer EXCEPT ![p] =
                 [served |-> served, gaps |-> hits \ served,
                  right |-> q.due \cup Approved]]
  /\ UNCHANGED <<corpus, pointer, disk>>

-----------------------------------------------------------------------------
(* What happens to a process and to the corpus from outside.                *)

\* A process is killed, by its caller's timer for one, or raises.
Stop(p) ==
  /\ proc[p] # Idle
  /\ Set(p, Idle)
  /\ UNCHANGED <<corpus, pointer, disk, answer>>

Change ==
  /\ clock' = clock + 1
  /\ disturbed' = (disturbed \/ \E p \in Procs : Building(p))
  /\ clock' <= IF disturbed' THEN MaxDuring ELSE MaxClock

\* An entry file is written, perhaps with what it held, or removed.
EntryChanges(i) ==
  /\ Change
  /\ \/ \E c \in Contents : entry' = [entry EXCEPT ![i] = [content |-> c, stamp |-> clock + 1]]
     \/ entry[i] # None /\ entry' = [entry EXCEPT ![i] = None]
  /\ UNCHANGED <<ledger, pointer, disk, starts, proc, answer, approvals>>

\* An approval or a revocation is appended.
LedgerChanges(i) ==
  /\ Change
  /\ \E d \in DigestsOf \cup {None} :
       /\ ledger' = [approved |-> [ledger.approved EXCEPT ![i] = d], stamp |-> clock + 1]
       /\ approvals' = approvals \cup {<<i, e>> : e \in {d} \ {None}}
  /\ UNCHANGED <<entry, pointer, disk, starts, proc, answer>>

BuildStep(p) ==
  \/ BuildPrevious(p) \/ BuildLedger(p) \/ \E i \in Ids : Collect(p, i)
  \/ Project(p) \/ StampProjection(p) \/ Collected(p) \/ OpenFile(p) \/ FillFile(p)
  \/ Swap(p) \/ RemoveFile(p) \/ RemoveDirectory(p) \/ Built(p)

QueryStep(p) == QueryPointer(p) \/ QueryLoad(p) \/ QueryLanes(p) \/ QueryServe(p)

Next ==
  \/ \E p \in Procs : BuildStart(p) \/ QueryStart(p) \/ BuildStep(p) \/ QueryStep(p) \/ Stop(p)
  \/ \E i \in Ids : EntryChanges(i) \/ LedgerChanges(i)

Spec == Init /\ [][Next]_vars

-----------------------------------------------------------------------------
(* Properties.                                                              *)

\* Whatever builds, edits, revocations and crashes overlap with a query, the
\* content it serves was approved for that identity at some time: a lane
\* computed from one content is never served with another (hydrate).
ServedWasApproved ==
  [][\A p \in Procs : answer'[p] # answer[p] /\ answer'[p] # None =>
       \A i \in answer'[p].served : <<i, Reviewed[entry[i].content]>> \in approvals]_vars

\* If the corpus has held still during builds, a generation that load_index
\* accepts holds the lanes of the corpus as it is, whichever builds crashed,
\* overlapped or reused what others had projected (corpus_fingerprint,
\* entry_set_digest, projection_dependencies).
AcceptedIsCurrent ==
  ~disturbed /\ pointer # None /\ pointer \in DOMAIN disk =>
    LET g == disk[pointer] IN
    Loadable(g) =>
      /\ g.lanes \notin Unreadable => g.lanes = Approved
      /\ g.documents # Partial =>
           \A i \in Ids : IF g.documents[i] = None THEN entry[i] = None
                          ELSE (g.documents[i].lane = "approved") = (i \in Approved)

\* A served entry was approved when the query loaded the index or when it
\* answered: "queries refuse rather than answering from a stale index".
AnswersNeverStale == \A p \in Procs : answer[p] # None => answer[p].served \subseteq answer[p].right

\* That much holds as long as the corpus holds still during builds, whatever
\* happens between builds and during queries (load_index).
AnswersRight == ~disturbed => AnswersNeverStale

\* The index as its readers rely on it: what load_index would accept is the
\* lane as it stands, and what a query served was approved when it read.
IndexRight == TypeOK /\ AcceptedIsCurrent /\ AnswersRight
=============================================================================
