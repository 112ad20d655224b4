-------------------------- MODULE FeatureKnowledge --------------------------
(***************************************************************************)
(* The Feature Knowledge commands of scripts/knowledge_store.py: one       *)
(* document per Feature, a ledger of their own, and processes that take no *)
(* lock.  feature-record is guarded by the draft version its author last   *)
(* saw; feature-approve stamps every pinned document and appends all its   *)
(* ledger lines at the end; feature-verify-citations reads the ledger, the *)
(* document and the entries its bindings name, one after the other.        *)
(***************************************************************************)
EXTENDS FeatureModel

CONSTANTS
  Features,    \* slugs
  Procs,       \* command-line processes, each used by one author
  Batches,     \* the operation batches authors propose
  MaxVersion,  \* bound: no record starts on a document of this version
  MaxLedger,   \* bound: no approval or revocation starts at this length
  MaxStarts    \* bound on the commands that start (reads of one step aside)

\* What append_ledger makes of the lines of a command.
LedgerLines == [action : {"approve", "revoke"}, f : Features, digest : {None} \cup Digests]
LedgerRecords ==
  [seq : Nat, action : {"approve", "revoke"}, f : Features, digest : {None} \cup Digests]

ASSUME FeatureAssumption ==
  /\ Sentinel \notin Texts /\ None \notin Features \cup EntryDigests
  /\ None \notin DocumentRecords /\ None \notin LedgerRecords
  /\ \A batch \in Batches :
       Len(batch) \in Nat /\ \A i \in 1 .. Len(batch) : IsOperation(batch[i])
  /\ {MaxVersion, MaxLedger, MaxStarts} \subseteq Nat

VARIABLES
  file,       \* feature.md of each feature, or None
  ledger,     \* features-ledger.jsonl
  entry,      \* the reviewed digest of each entry whose lane is effective
  proc,       \* the command each process is executing
  seen,       \* the feature and document each author read or wrote last
  shown,      \* history: the pins feature-review rendered
  committed,  \* history: the stamped documents, which git may bring back
  calm,       \* history: no two commands overlapped, nothing was checked out
  whole,      \* history: no command died, no approval was refused half-way
  starts      \* history: the number of commands that started

vars == <<file, ledger, entry, proc, seen, shown, committed, calm, whole,
          starts>>

Idle == [at |-> "idle"]
At(p, step) == proc[p].at = step

\* read_ledger and ledger_latest.
Readable == \A i \in DOMAIN ledger : ledger[i].seq = i
RecordsOf(f) == {i \in DOMAIN ledger : ledger[i].f = f}
Latest(f) ==
  IF RecordsOf(f) = {} THEN None
  ELSE ledger[CHOOSE i \in RecordsOf(f) : \A j \in RecordsOf(f) : j <= i]

LaneOf(f) == Lane(file[f], Latest(f))

TypeOK ==
  /\ \A f \in Features : file[f] = None \/ IsDocument(file[f])
  /\ ledger \in Seq(LedgerRecords)
  /\ entry \in [Entries -> EntryDigests \cup {None}]
  /\ \A p \in Procs : At(p, "write") \/ At(p, "stamp") => IsDocument(proc[p].doc)
  /\ \A s \in committed : s[1] \in Features /\ IsDocument(s[2])
  /\ {calm, whole} \subseteq BOOLEAN /\ starts \in 0 .. MaxStarts

Init ==
  /\ file = [f \in Features |-> None]
  /\ ledger = <<>>
  /\ entry \in [Entries -> EntryDigests \cup {None}]
  /\ proc = [p \in Procs |-> Idle]
  /\ seen = [p \in Procs |-> None]
  /\ shown = {} /\ committed = {}
  /\ calm = TRUE /\ whole = TRUE /\ starts = 0

-----------------------------------------------------------------------------
(* Processes. *)

Begin(p, command) ==
  /\ proc[p] = Idle /\ starts < MaxStarts
  /\ proc' = [proc EXCEPT ![p] = command] /\ starts' = starts + 1
  /\ calm' = (calm /\ \A q \in Procs : proc[q] = Idle)

Continue(p, command) ==
  proc' = [proc EXCEPT ![p] = command] /\ UNCHANGED <<calm, starts>>

Finish(p) == Continue(p, Idle)

Saw(p, f, d) == seen' = [seen EXCEPT ![p] = [f |-> f, doc |-> d]]

-----------------------------------------------------------------------------
(* feature-open. *)

OpenMissing(p, f) ==
  /\ file[f] = None
  /\ Begin(p, [at |-> "open", f |-> f])
  /\ UNCHANGED <<file, ledger, entry, seen, shown, committed, whole>>

OpenWrite(p) ==
  /\ At(p, "open")
  /\ file' = [file EXCEPT ![proc[p].f] = NewDocument]
  /\ Saw(p, proc[p].f, NewDocument)
  /\ Finish(p)
  /\ UNCHANGED <<ledger, entry, shown, committed, whole>>

\* The document exists: the author resumes from what it holds.
Resume(p, f) ==
  /\ proc[p] = Idle /\ file[f] # None /\ Readable
  /\ Saw(p, f, file[f])
  /\ UNCHANGED <<file, ledger, entry, proc, shown, committed, calm, whole, starts>>

-----------------------------------------------------------------------------
(* feature-record. *)

\* The document exists and has the version the author expects.
AsExpected(p, f) == file[f] # None /\ file[f].version = seen[p].doc.version

RecordStart(p, f, batch) ==
  /\ seen[p] # None /\ seen[p].f = f
  /\ AsExpected(p, f)
  /\ file[f].version < MaxVersion
  /\ Begin(p, [at |-> "apply", f |-> f, doc |-> file[f], batch |-> batch])
  /\ UNCHANGED <<file, ledger, entry, seen, shown, committed, whole>>

RecordApply(p) ==
  /\ At(p, "apply")
  /\ LET d == Recorded(proc[p].doc, proc[p].batch, entry) IN
     IF d = None THEN Finish(p)
     ELSE Continue(p, [at |-> "write", f |-> proc[p].f, doc |-> d])
  /\ UNCHANGED <<file, ledger, entry, seen, shown, committed, whole>>

RecordWrite(p) ==
  /\ At(p, "write")
  /\ file' = [file EXCEPT ![proc[p].f] = proc[p].doc]
  /\ Saw(p, proc[p].f, proc[p].doc)
  /\ Finish(p)
  /\ UNCHANGED <<ledger, entry, shown, committed, whole>>

-----------------------------------------------------------------------------
(* feature-review, feature-approve, feature-revoke. *)

\* A document with problems is rendered without a pin.
Review(f) ==
  /\ file[f] # None /\ Readable /\ Valid(file[f])
  /\ shown' = shown \cup {<<f, Digest(file[f])>>}
  /\ UNCHANGED <<file, ledger, entry, proc, seen, committed, calm, whole, starts>>

\* A human confirms pins that a review rendered.
ApproveStart(p, pins) ==
  /\ DOMAIN pins # {} /\ \A f \in DOMAIN pins : <<f, pins[f]>> \in shown
  /\ Len(ledger) < MaxLedger
  /\ Begin(p, [at |-> "read", todo |-> DOMAIN pins, pins |-> pins, lines |-> <<>>])
  /\ UNCHANGED <<file, ledger, entry, seen, shown, committed, whole>>

\* Faulty variant: a valid document is stamped whatever was pinned.
Approvable(d, pin) == d # None /\ Valid(d)

AsPinned(d, pin) == d # None /\ Valid(d) /\ Digest(d) = pin

\* A refusal leaves the documents stamped before it as they are.
ApproveRead(p, f) ==
  /\ At(p, "read") /\ f \in proc[p].todo
  /\ IF AsPinned(file[f], proc[p].pins[f])
       THEN /\ Continue(p, [at |-> "stamp", todo |-> proc[p].todo, f |-> f,
                            pins |-> proc[p].pins, lines |-> proc[p].lines,
                            doc |-> Stamped(file[f])])
            /\ UNCHANGED whole
       ELSE Finish(p) /\ whole' = (whole /\ proc[p].lines = <<>>)
  /\ UNCHANGED <<file, ledger, entry, seen, shown, committed>>

\* Faulty variant: the line of the document stamped last is missing.
NextForgettingLast(c) ==
  LET left == c.todo \ {c.f}
      lines == Append(c.lines, [action |-> "approve", f |-> c.f, digest |-> Digest(c.doc)])
  IN IF left = {} THEN [at |-> "count", lines |-> c.lines]
     ELSE [at |-> "read", todo |-> left, pins |-> c.pins, lines |-> lines]

\* The next document of the chunk, or the ledger once none is left.
NextOfChunk(c) ==
  LET left == c.todo \ {c.f}
      lines == Append(c.lines, [action |-> "approve", f |-> c.f, digest |-> Digest(c.doc)])
  IN IF left = {} THEN [at |-> "count", lines |-> lines]
     ELSE [at |-> "read", todo |-> left, pins |-> c.pins, lines |-> lines]

ApproveStamp(p) ==
  /\ At(p, "stamp")
  /\ file' = [file EXCEPT ![proc[p].f] = proc[p].doc]
  /\ committed' = committed \cup {<<proc[p].f, proc[p].doc>>}
  /\ Continue(p, NextOfChunk(proc[p]))
  /\ UNCHANGED <<ledger, entry, seen, shown, whole>>

RevokeStart(p, f) ==
  /\ file[f] # None
  /\ Len(ledger) < MaxLedger
  /\ Begin(p, [at |-> "count", lines |-> <<[action |-> "revoke", f |-> f, digest |-> None]>>])
  /\ UNCHANGED <<file, ledger, entry, seen, shown, committed, whole>>

\* append_ledger: count the lines, then write behind the last one.
LedgerCount(p) ==
  /\ At(p, "count")
  /\ IF Readable
       THEN /\ Continue(p, [at |-> "append", lines |-> proc[p].lines, count |-> Len(ledger)])
            /\ UNCHANGED whole
       ELSE Finish(p) /\ whole' = FALSE
  /\ UNCHANGED <<file, ledger, entry, seen, shown, committed>>

Lines(lines, count) ==
  [i \in DOMAIN lines |-> [seq |-> count + i, action |-> lines[i].action,
                           f |-> lines[i].f, digest |-> lines[i].digest]]

LedgerAppend(p) ==
  /\ At(p, "append")
  /\ ledger' = ledger \o Lines(proc[p].lines, proc[p].count)
  /\ Finish(p)
  /\ UNCHANGED <<file, entry, seen, shown, committed, whole>>

-----------------------------------------------------------------------------
(* feature-verify-citations. *)

CiteStart(p, f) ==
  /\ Readable
  /\ Begin(p, [at |-> "cite", f |-> f, record |-> Latest(f)])
  /\ UNCHANGED <<file, ledger, entry, seen, shown, committed, whole>>

CiteRead(p) ==
  /\ At(p, "cite")
  /\ IF file[proc[p].f] = None THEN Finish(p)
     ELSE Continue(p, [at |-> "resolve", f |-> proc[p].f, record |-> proc[p].record,
                       doc |-> file[proc[p].f]])
  /\ UNCHANGED <<file, ledger, entry, seen, shown, committed, whole>>

\* One statement, and the digest a stored reference pins or none.
CiteResolve(p, id, pinned) ==
  /\ At(p, "resolve")
  /\ LET c == proc[p]
         verdict == Verdict(c.doc, c.record, {id}, pinned, entry)
     IN IF verdict \in {"current", "degraded"}
          THEN Continue(p, [at |-> "issue", f |-> c.f, digest |-> Digest(c.doc), id |-> id])
          ELSE Finish(p)
  /\ UNCHANGED <<file, ledger, entry, seen, shown, committed, whole>>

CiteIssue(p) ==
  /\ At(p, "issue")
  /\ Finish(p)
  /\ UNCHANGED <<file, ledger, entry, seen, shown, committed, whole>>

-----------------------------------------------------------------------------
(* The environment. *)

\* A process dies, or its command raises.
Stop(p) ==
  /\ proc[p] # Idle
  /\ Finish(p)
  /\ whole' = FALSE
  /\ UNCHANGED <<file, ledger, entry, seen, shown, committed>>

\* Drafts, approvals, revocations and drift in the entry store.
EntryChanges(e) ==
  /\ \E d \in (EntryDigests \cup {None}) \ {entry[e]} : entry' = [entry EXCEPT ![e] = d]
  /\ UNCHANGED <<file, ledger, proc, seen, shown, committed, calm, whole, starts>>

\* git restores a document as an approval once left it.
CheckOut(f) ==
  /\ \E s \in committed : s[1] = f /\ file' = [file EXCEPT ![f] = s[2]]
  /\ file' # file
  /\ calm' = FALSE
  /\ UNCHANGED <<ledger, entry, proc, seen, shown, committed, whole, starts>>

Pins == UNION {[F -> {s[2] : s \in shown}] : F \in SUBSET Features}
Next ==
  \/ \E p \in Procs, f \in Features :
       \/ OpenMissing(p, f) \/ Resume(p, f)
       \/ \E batch \in Batches : RecordStart(p, f, batch)
       \/ ApproveRead(p, f) \/ RevokeStart(p, f) \/ CiteStart(p, f)
  \/ \E p \in Procs :
       \/ OpenWrite(p) \/ RecordApply(p) \/ RecordWrite(p)
       \/ \E pins \in Pins : ApproveStart(p, pins)
       \/ ApproveStamp(p) \/ LedgerCount(p) \/ LedgerAppend(p)
       \/ CiteRead(p) \/ CiteIssue(p) \/ Stop(p)
       \/ \E id \in {"FC", "FR"} \X (1 .. 3), pinned \in {None} \cup {s[2] : s \in shown} :
            CiteResolve(p, id, pinned)
  \/ \E f \in Features : Review(f) \/ CheckOut(f)
  \/ \E e \in Entries : EntryChanges(e)

Spec == Init /\ [][Next]_vars

-----------------------------------------------------------------------------
(* Properties. *)

\* Whatever commands interleave, die or are refused half-way, a document
\* that says it is approved holds content that feature-review rendered and
\* that validates: feature-approve stamps nothing else, and checkouts bring
\* back nothing else.  Repeating the approval of a chunk that died works.
StampedWasReviewed ==
  \A f \in Features :
    file[f] # None /\ file[f].state = "approved" =>
      /\ Valid(file[f])
      /\ <<f, Digest(file[f])>> \in shown

\* One command at a time: a batch that passed the version check is applied
\* to the content its author saw, however many records, approvals and
\* revocations by others came in between.
RecordsOnSeen ==
  \A p \in Procs :
    calm /\ At(p, "apply") => Digest(proc[p].doc) = Digest(seen[p].doc)

\* If commands ran one at a time and none died or was refused half-way, a
\* document that says it is approved is effective unless it was revoked:
\* no chunk leaves a stamp that the ledger does not know.
StampsTakeEffect ==
  \A f \in Features :
    /\ calm /\ whole /\ \A p \in Procs : proc[p] = Idle
    /\ file[f] # None /\ file[f].state = "approved"
    => LaneOf(f) \in {"approved-current", "revoked"}

\* The promises of the stamping commands as long as they do not overlap:
\* records are written over the version they were made on, and a stamp and
\* its ledger line come together.
OneAtATime == TypeOK /\ RecordsOnSeen /\ StampsTakeEffect

\* What a statement rests on: the least set that holds it and, with a claim,
\* what the claim depends on.
RestsOn(d, id) ==
  {s \in AllLive(d) :
     \A S \in SUBSET AllLive(d) :
       /\ id \in S
       /\ \A c \in S \cap LiveIds(d, "FC") : Row(d, c).deps \subseteq S
       => s \in S}

StatementEvidence(d, id) ==
  UNION {Row(d, s).refs : s \in RestsOn(d, id)
                                 \cap (LiveIds(d, "FC") \cup LiveIds(d, "FR"))}

Issues(p) == At(p, "resolve") /\ proc'[p].at = "issue"

\* A receipt is only issued for content a human was shown and approved, for
\* a statement whose authority permits citation, and if every binding of
\* every statement it transitively rests on is current when the resolver
\* reads the entry store.
ReceiptsHold ==
  [][\A p \in Procs : Issues(p) =>
       LET d == proc[p].doc  id == proc'[p].id IN
       /\ <<proc[p].f, Digest(d)>> \in shown
       /\ \E i \in DOMAIN ledger :
            ledger[i].f = proc[p].f /\ ledger[i].digest = Digest(d)
       /\ Row(d, id).authority \notin {"source-derived-heuristic", "unresolved"}
       /\ \A b \in StatementEvidence(d, id) :
            entry[Row(d, b).entry] = Row(d, b).digest]_vars
=============================================================================
