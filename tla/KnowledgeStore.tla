--------------------------- MODULE KnowledgeStore ---------------------------
(***************************************************************************)
(* The Knowledge entry store of scripts/knowledge_store.py: one markdown   *)
(* file per artifact, an append-only approval ledger, an append-only org   *)
(* ledger, and the CLI commands that read and write them.                  *)
(*                                                                         *)
(* Every command is a process of its own that takes no lock, so a command  *)
(* is modelled as the sequence of its file-system reads and writes, and    *)
(* the steps of several processes interleave.  A process may die between   *)
(* any two of them.  Files change under the store as well: a source edit,  *)
(* a git checkout or a merge.                                              *)
(*                                                                         *)
(* A reviewedContentDigest is represented by what it covers: the extracted *)
(* facts, the authored limitations and the authored body (the text).       *)
(***************************************************************************)
EXTENDS Naturals, Sequences, FiniteSets

CONSTANTS
  Ids,            \* identities of artifacts, each with its own path
  Procs,          \* command-line processes that may run at the same time
  Texts,          \* authored bodies that validate_entry accepts
  Sentinel,       \* an unfilled <AGENT_...> text, which it refuses
  Versions,       \* byte contents of a source fragment
  NoSource,       \* a fragment that is missing or that cannot be read
  Limits,         \* sets of limitations an author can state
  NoLimits,       \* the empty one
  Facts,          \* what the collector can extract
  FactsOf,        \* the facts extracted from each source version
  Stamps,         \* reviewer-and-second pairs of an approval
  Orgs,           \* configured org aliases
  Obs,            \* org observations an attach can persist
  None,           \* no file, no approval block, no pin, no observation
  ExternalFiles,  \* the file versions a checkout or merge may install
  ProseLimit,     \* PROSE_CHUNK_LIMIT
  ManifestLimit,  \* MANIFEST_CHUNK_LIMIT
  MaxLedger,      \* bound: no approve or revoke starts beyond this length
  MaxOrgLedger,   \* bound: no attach or detach starts beyond this length
  MaxEdits        \* bound on the number of external writes

Digests == [facts : Facts, limits : Limits, text : Texts \cup {Sentinel}]
Mirrors == [digest : Digests, stamp : Stamps]
OrgSections == [Orgs -> Obs \cup {None}]
NoOrgs == [o \in Orgs |-> None]

\* An entry file: lifecycle.state, the digest-covered content, the pinned
\* source fragment, the in-file approval mirror and the orgUsage section.
Files == [state : {"draft", "approved"}, digest : Digests, pin : Versions,
          mirror : Mirrors \cup {None}, org : OrgSections]

ASSUME StoreAssumption ==
  /\ IsFiniteSet(Ids)
  /\ FactsOf \in [Versions -> Facts]
  /\ Sentinel \notin Texts /\ NoLimits \in Limits
  /\ None \notin Ids \cup Texts \cup Stamps \cup Obs
  /\ None \notin Digests /\ None \notin Mirrors /\ None \notin Files
  /\ ExternalFiles \subseteq Files \cup {None}
  /\ NoSource \cap Versions = {}
  /\ {ProseLimit, ManifestLimit, MaxLedger, MaxOrgLedger, MaxEdits} \subseteq Nat

VARIABLES
  src,        \* the source fragment of each identity in the working tree
  file,       \* the entry file of each identity, or None
  ledger,     \* artifacts-ledger.jsonl
  orgLedger,  \* artifacts-org-ledger.jsonl
  proc,       \* the command each process is executing
  shown,      \* history: the pins entry-review rendered for a human
  edits       \* history: the number of external writes

vars == <<src, file, ledger, orgLedger, proc, shown, edits>>

-----------------------------------------------------------------------------
(* Ledgers. *)

\* `base`, not written by the code, remembers how long the ledger was when
\* the command read it; `chunk` is what chunkId is a digest of.
LedgerRecords ==
  [seq : Nat, action : {"approve", "revoke"}, id : Ids, digest : Digests,
   stamp : Stamps, chunk : SUBSET Ids, base : Nat]

OrgRecords ==
  [seq : Nat, action : {"attach", "detach"}, id : Ids, org : OrgSections]

\* read_ledger raises on a line whose sequence is not its line number.
Readable(l) == \A i \in 1 .. Len(l) : l[i].seq = i

\* ledger_latest: the index of the last record of an identity, if any.
LatestAt(l, id) ==
  {i \in 1 .. Len(l) : l[i].id = id /\ \A j \in (i + 1) .. Len(l) : l[j].id # id}

Latest(l, id) == l[CHOOSE i \in LatestAt(l, id) : TRUE]

-----------------------------------------------------------------------------
(* Lanes. *)

Invalid(f) == f.digest.text = Sentinel

\* compute_lane for one identity.  "unreadable-ledger" stands for the error
\* every command ends with before it computes a lane.
Lane(id) ==
  LET f == file[id]
      r == Latest(ledger, id)
  IN IF ~Readable(ledger) THEN "unreadable-ledger"
     ELSE IF f = None THEN "missing"
     ELSE IF f.state = "draft" THEN "draft"
     ELSE IF Invalid(f) \/ LatestAt(ledger, id) = {} THEN "not-effective"
     ELSE IF r.action = "revoke" THEN "revoked"
     ELSE IF \/ r.digest # f.digest
             \/ f.mirror = None
             \/ f.mirror # [digest |-> f.digest, stamp |-> r.stamp]
             \/ src[id] \notin Versions
          THEN "not-effective"
     ELSE IF src[id] = f.pin THEN "approved-current" ELSE "approved-drifted"

EffectiveLanes == {"approved-current", "approved-drifted"}

Effective(id) == Lane(id) \in EffectiveLanes

\* Faulty variant: a file without a section is never compared with the ledger.
OrgSectionOfFile(id) ==
  IF ~Readable(orgLedger) THEN "unreadable-ledger"
  ELSE IF file[id] = None THEN "missing"
  ELSE IF file[id].org = NoOrgs THEN "org-absent"
  ELSE IF LatestAt(orgLedger, id) # {} /\ Latest(orgLedger, id).org = file[id].org
       THEN "org-effective" ELSE "org-not-effective"

\* The section verdict of compute_org_lane.
OrgSection(id) ==
  LET f == file[id]
      r == Latest(orgLedger, id)
      recorded == LatestAt(orgLedger, id) # {}
  IN IF ~Readable(orgLedger) THEN "unreadable-ledger"
     ELSE IF f = None THEN "missing"
     ELSE IF f.org = NoOrgs
          THEN IF recorded /\ r.action = "attach" THEN "org-not-effective" ELSE "org-absent"
     ELSE IF recorded /\ r.org = f.org THEN "org-effective" ELSE "org-not-effective"

-----------------------------------------------------------------------------
(* Processes. *)

Commands == {"idle", "approve", "revoke", "draft", "describe", "attach", "detach"}

Points == {"start", "read", "stamp", "pin", "write", "count", "append"}

ProcRecords ==
  [op : Commands, at : Points, id : Ids \cup {None},
   pins : [Ids -> Digests \cup {None}],   \* approve: the digest set; revoke: the digest withdrawn
   todo : SUBSET Ids,                     \* approve: entries not read, then not stamped
   snap : [Ids -> Files \cup {None}],     \* the entry as this process read or built it
   base : Nat, seq : Nat,                 \* ledger length read; high-water mark
   stamp : Stamps \cup {None}]

Nothing == [i \in Ids |-> None]

\* A function of identities that holds x at id and nothing elsewhere.
Only(id, x) == [i \in Ids |-> IF i = id THEN x ELSE None]

\* A command on one entry, with the file it read or built.
Command(op, at, id, f) ==
  [op |-> op, at |-> at, id |-> id, pins |-> Nothing, todo |-> {},
   snap |-> Only(id, f), base |-> 0, seq |-> 0, stamp |-> None]

Idle ==
  [op |-> "idle", at |-> "start", id |-> None, pins |-> Nothing, todo |-> {},
   snap |-> Nothing, base |-> 0, seq |-> 0, stamp |-> None]

Running(p, op, at) == proc[p].op = op /\ proc[p].at = at

Pinned(p) == {id \in Ids : proc[p].pins[id] # None}

TypeOK ==
  /\ src \in [Ids -> Versions \cup NoSource]
  /\ file \in [Ids -> Files \cup {None}]
  /\ ledger \in Seq(LedgerRecords)
  /\ orgLedger \in Seq(OrgRecords)
  /\ proc \in [Procs -> ProcRecords]
  /\ shown \subseteq Ids \X Digests
  /\ edits \in 0 .. MaxEdits

\* A workspace with source and no knowledge yet.
Init ==
  /\ src \in [Ids -> Versions]
  /\ file = [id \in Ids |-> None]
  /\ ledger = <<>>
  /\ orgLedger = <<>>
  /\ proc = [p \in Procs |-> Idle]
  /\ shown = {}
  /\ edits = 0

-----------------------------------------------------------------------------
(* entry-draft and entry-describe: read, build the new file, write it. *)

\* A draft: no approval block, whatever the file held before.
Draft(content, v, org) ==
  [state |-> "draft", digest |-> content, pin |-> v, mirror |-> None, org |-> org]

\* collector_component extracts the facts; the body is the caller's purpose
\* file or the sentinel.
DraftRead(p, id) ==
  /\ proc[p] = Idle
  /\ src[id] \in Versions
  /\ \E t \in Texts \cup {Sentinel} :
       LET content == [facts |-> FactsOf[src[id]], limits |-> NoLimits, text |-> t] IN
       proc' = [proc EXCEPT ![p] =
         Command("draft", "pin", id, Draft(content, src[id], NoOrgs))]
  /\ UNCHANGED <<src, file, ledger, orgLedger, shown, edits>>

\* Faulty variant: a new entry gets no section at all.
CarriedOrNone(id) == IF file[id] = None THEN None ELSE file[id].org

\* carry_forward_org_usage: a redraft keeps the section already in the file.
CarriedOrg(id) == IF file[id] = None THEN NoOrgs ELSE file[id].org

\* file_digest of the fragment, then the section of the previous file.
DraftPin(p) ==
  LET id == proc[p].id IN
  /\ Running(p, "draft", "pin")
  /\ src[id] \in Versions
  /\ proc' = [proc EXCEPT ![p] =
       Command("draft", "write", id, Draft(proc[p].snap[id].digest, src[id], CarriedOrg(id)))]
  /\ UNCHANGED <<src, file, ledger, orgLedger, shown, edits>>

\* A new body; the limitations are kept, replaced or cleared.
DescribeRead(p, id) ==
  /\ proc[p] = Idle
  /\ file[id] # None
  /\ \E t \in Texts, l \in Limits :
       LET content == [facts |-> file[id].digest.facts, limits |-> l, text |-> t] IN
       proc' = [proc EXCEPT ![p] =
         Command("describe", "write", id, Draft(content, file[id].pin, file[id].org))]
  /\ UNCHANGED <<src, file, ledger, orgLedger, shown, edits>>

AuthorWrite(p) ==
  /\ Running(p, "draft", "write") \/ Running(p, "describe", "write")
  /\ file' = [file EXCEPT ![proc[p].id] = proc[p].snap[proc[p].id]]
  /\ proc' = [proc EXCEPT ![p] = Idle]
  /\ UNCHANGED <<src, ledger, orgLedger, shown, edits>>

-----------------------------------------------------------------------------
(* entry-review and entry-approve. *)

\* The review artifact shows a human the body and prints the pin.
Review(id) ==
  /\ Readable(ledger)
  /\ file[id] # None
  /\ ~Invalid(file[id])
  /\ shown' = shown \cup {<<id, file[id].digest>>}
  /\ UNCHANGED <<src, file, ledger, orgLedger, proc, edits>>

\* A human confirms a command that carries pins; the command reads the ledger
\* once.  That the pins come from a review artifact is an assumption about the
\* human, and not compared with anything.
ApproveStart(p) ==
  /\ proc[p] = Idle
  /\ Readable(ledger)
  /\ \E pins \in [Ids -> Digests \cup {None}] :
       LET chunk == {id \in Ids : pins[id] # None} IN
       /\ chunk # {}
       /\ \A id \in chunk : <<id, pins[id]>> \in shown
       /\ Len(ledger) + Cardinality(chunk) <= MaxLedger
       /\ proc' = [proc EXCEPT ![p] =
            [op |-> "approve", at |-> "read", id |-> None, pins |-> pins, todo |-> chunk,
             snap |-> Nothing, base |-> Len(ledger), seq |-> Len(ledger), stamp |-> None]]
  /\ UNCHANGED <<src, file, ledger, orgLedger, shown, edits>>

\* Faulty variant: only the facts are compared with the pin.
FactsArePinned(f, pin) == f.digest.facts = pin.facts

IsPinned(f, pin) == f.digest = pin

\* Faulty variant: only a first approval counts as prose.
FirstApproval(read, id, f) == LatestAt(read, id) = {}

\* An entry is prose when its body is not that of its latest approval in the
\* ledger as it was read; a revocation carries no semanticsDigest.
ProseChanged(read, id, f) ==
  \/ LatestAt(read, id) = {}
  \/ Latest(read, id).action = "revoke"
  \/ Latest(read, id).digest.text # f.digest.text

WithinCaps(read, snap, chunk) ==
  /\ (\E id \in chunk : ProseChanged(read, id, snap[id])) => Cardinality(chunk) <= ProseLimit
  /\ Cardinality(chunk) <= ManifestLimit

\* Every pinned entry is read, validated and compared with its pin before the
\* first write; any mismatch ends the command (see Stop).
ApproveRead(p, id) ==
  LET f == file[id]
      snap == [proc[p].snap EXCEPT ![id] = f]
      left == proc[p].todo \ {id}
  IN
  /\ Running(p, "approve", "read")
  /\ id \in proc[p].todo
  /\ f # None
  /\ ~Invalid(f)
  /\ IsPinned(f, proc[p].pins[id])
  /\ \/ /\ left # {}
        /\ proc' = [proc EXCEPT ![p] = [proc[p] EXCEPT !.snap = snap, !.todo = left]]
     \/ /\ left = {}
        /\ WithinCaps(SubSeq(ledger, 1, proc[p].base), snap, Pinned(p))
        /\ \E s \in Stamps :
             proc' = [proc EXCEPT ![p] =
               [proc[p] EXCEPT !.snap = snap, !.todo = Pinned(p), !.at = "stamp", !.stamp = s]]
  /\ UNCHANGED <<src, file, ledger, orgLedger, shown, edits>>

\* Faulty variant: the approval block is left as it was read.
ApprovedState(f, s) == [f EXCEPT !.state = "approved"]

\* The file as approved: state and mirror change, the rest is what was read.
Approved(f, s) ==
  [f EXCEPT !.state = "approved", !.mirror = [digest |-> f.digest, stamp |-> s]]

ApproveStamp(p, id) ==
  /\ Running(p, "approve", "stamp")
  /\ id \in proc[p].todo
  /\ file' = [file EXCEPT ![id] = Approved(proc[p].snap[id], proc[p].stamp)]
  /\ proc' = [proc EXCEPT ![p] = [proc[p] EXCEPT !.at = "append", !.id = id]]
  /\ UNCHANGED <<src, ledger, orgLedger, shown, edits>>

\* Faulty variant: the ledger is counted again at the append.
CountedAgain(p) == Len(ledger) + 1

NextSequence(p) == proc[p].seq + 1

\* append_ledger with the sequence hoisted from the one read at the start.
ApproveAppend(p) ==
  LET id == proc[p].id
      left == proc[p].todo \ {id}
      next == NextSequence(p)
  IN
  /\ Running(p, "approve", "append")
  /\ ledger' = Append(ledger,
       [seq |-> next, action |-> "approve", id |-> id,
        digest |-> proc[p].snap[id].digest, stamp |-> proc[p].stamp,
        chunk |-> Pinned(p), base |-> proc[p].base])
  /\ proc' = [proc EXCEPT ![p] =
       IF left = {} THEN Idle
       ELSE [proc[p] EXCEPT !.at = "stamp", !.id = None, !.todo = left, !.seq = next]]
  /\ UNCHANGED <<src, file, orgLedger, shown, edits>>

-----------------------------------------------------------------------------
(* entry-revoke: check the latest record, re-read for the sequence, append. *)

RevokeStart(p, id) ==
  /\ proc[p] = Idle
  /\ Readable(ledger)
  /\ LatestAt(ledger, id) # {}
  /\ Latest(ledger, id).action # "revoke"
  /\ Len(ledger) < MaxLedger
  /\ proc' = [proc EXCEPT ![p] =
       [op |-> "revoke", at |-> "count", id |-> id, todo |-> {}, snap |-> Nothing,
        pins |-> Only(id, Latest(ledger, id).digest), base |-> 0, seq |-> 0, stamp |-> None]]
  /\ UNCHANGED <<src, file, ledger, orgLedger, shown, edits>>

RevokeCount(p) ==
  /\ Running(p, "revoke", "count")
  /\ Readable(ledger)
  /\ proc' = [proc EXCEPT ![p] =
                [proc[p] EXCEPT !.at = "append", !.base = Len(ledger), !.seq = Len(ledger)]]
  /\ UNCHANGED <<src, file, ledger, orgLedger, shown, edits>>

RevokeAppend(p) ==
  LET id == proc[p].id IN
  /\ Running(p, "revoke", "append")
  /\ \E s \in Stamps :
       ledger' = Append(ledger,
         [seq |-> proc[p].seq + 1, action |-> "revoke", id |-> id,
          digest |-> proc[p].pins[id], stamp |-> s, chunk |-> {}, base |-> proc[p].base])
  /\ proc' = [proc EXCEPT ![p] = Idle]
  /\ UNCHANGED <<src, file, orgLedger, shown, edits>>

-----------------------------------------------------------------------------
(* entry-org-attach and entry-org-detach: read the entry, (probe the org,)  *)
(* write the entry back, count the org ledger, append to it.                *)

\* Faulty variant: the approval is cleared, as entry-describe does.
WithOrgAsDraft(f, o, b) == [f EXCEPT !.org = [f.org EXCEPT ![o] = b], !.state = "draft"]

WithOrg(f, o, b) == [f EXCEPT !.org = [f.org EXCEPT ![o] = b]]

OrgRead(p, id) ==
  /\ proc[p] = Idle
  /\ file[id] # None
  /\ Len(orgLedger) < MaxOrgLedger
  /\ \E o \in Orgs :
       \/ \E b \in Obs :
            proc' = [proc EXCEPT ![p] =
              Command("attach", "write", id, WithOrg(file[id], o, b))]
       \/ /\ file[id].org[o] # None
          /\ proc' = [proc EXCEPT ![p] =
               Command("detach", "write", id, WithOrg(file[id], o, None))]
  /\ UNCHANGED <<src, file, ledger, orgLedger, shown, edits>>

OrgWrite(p) ==
  /\ Running(p, "attach", "write") \/ Running(p, "detach", "write")
  /\ file' = [file EXCEPT ![proc[p].id] = proc[p].snap[proc[p].id]]
  /\ proc' = [proc EXCEPT ![p] = [proc[p] EXCEPT !.at = "count"]]
  /\ UNCHANGED <<src, ledger, orgLedger, shown, edits>>

OrgCount(p) ==
  /\ Running(p, "attach", "count") \/ Running(p, "detach", "count")
  /\ Readable(orgLedger)
  /\ proc' = [proc EXCEPT ![p] = [proc[p] EXCEPT !.at = "append", !.seq = Len(orgLedger)]]
  /\ UNCHANGED <<src, file, ledger, orgLedger, shown, edits>>

OrgAppend(p) ==
  LET id == proc[p].id IN
  /\ Running(p, "attach", "append") \/ Running(p, "detach", "append")
  /\ orgLedger' = Append(orgLedger,
       [seq |-> proc[p].seq + 1, action |-> proc[p].op, id |-> id,
        org |-> proc[p].snap[id].org])
  /\ proc' = [proc EXCEPT ![p] = Idle]
  /\ UNCHANGED <<src, file, ledger, shown, edits>>

-----------------------------------------------------------------------------
(* What happens to a process and to the files from outside.                 *)

\* A process is killed, or its command raises: nothing it wrote is undone.
Stop(p) ==
  /\ proc[p] # Idle
  /\ proc' = [proc EXCEPT ![p] = Idle]
  /\ UNCHANGED <<src, file, ledger, orgLedger, shown, edits>>

SourceChange(id) ==
  /\ \E v \in Versions \cup NoSource : src' = [src EXCEPT ![id] = v]
  /\ UNCHANGED <<file, ledger, orgLedger, proc, shown, edits>>

\* A checkout, a merge or a hand edit replaces or removes an entry file.
ExternalWrite(id) ==
  /\ edits < MaxEdits
  /\ \E f \in ExternalFiles : file' = [file EXCEPT ![id] = f]
  /\ edits' = edits + 1
  /\ UNCHANGED <<src, ledger, orgLedger, proc, shown>>

Next ==
  \/ \E p \in Procs, id \in Ids :
       \/ DraftRead(p, id) \/ DescribeRead(p, id)
       \/ ApproveRead(p, id) \/ ApproveStamp(p, id)
       \/ RevokeStart(p, id) \/ OrgRead(p, id)
  \/ \E p \in Procs :
       \/ DraftPin(p) \/ AuthorWrite(p)
       \/ ApproveStart(p) \/ ApproveAppend(p)
       \/ RevokeCount(p) \/ RevokeAppend(p)
       \/ OrgWrite(p) \/ OrgCount(p) \/ OrgAppend(p)
       \/ Stop(p)
  \/ \E id \in Ids : Review(id) \/ SourceChange(id) \/ ExternalWrite(id)

Spec == Init /\ [][Next]_vars

-----------------------------------------------------------------------------
(* Properties.  Those that speak of one process at a time hold of a single  *)
(* writer; README.md names the runs in which each one is checked.           *)

\* An effective entry carries exactly a content that entry-review rendered for
\* a human under that identity: no crash, checkout, overwritten file or
\* interleaving of commands makes unreviewed content effective (compute_lane,
\* command_entry_approve).
EffectiveIsReviewed ==
  \A id \in Ids : Effective(id) => <<id, file[id].digest>> \in shown

\* In a ledger that can be read, an approval after a revocation of the same
\* entry was started after that revocation: an approve command in flight while
\* a revoke lands cannot undo it (the hoisted sequence of append_ledger).
RevocationNotOverridden ==
  Readable(ledger) =>
    \A i, j \in 1 .. Len(ledger) :
      /\ i < j
      /\ ledger[i].id = ledger[j].id
      /\ ledger[i].action = "revoke"
      /\ ledger[j].action = "approve"
      => ledger[j].base >= i

\* In a ledger that can be read, a chunk larger than the prose limit contains
\* only entries whose text is that of their previous approval (chunk caps of
\* command_entry_approve).
LargeChunksAreFactsOnly ==
  Readable(ledger) =>
    \A j \in 1 .. Len(ledger) :
      ledger[j].action = "approve" /\ Cardinality(ledger[j].chunk) > ProseLimit =>
        \E i \in LatestAt(SubSeq(ledger, 1, j - 1), ledger[j].id) :
          /\ ledger[i].action = "approve"
          /\ ledger[i].digest.text = ledger[j].digest.text

\* Both ledgers pass the sequence check every reader makes: whatever crashes,
\* the commands only ever append the next number (read_ledger).
LedgersReadable == Readable(ledger) /\ Readable(orgLedger)

\* A chunk that dies in the middle leaves ledgers that can be read on, and a
\* later chunk is judged by what they say.
ChunksRight == LedgersReadable /\ LargeChunksAreFactsOnly

\* An entry whose stamp and ledger line are both written is effective at that
\* moment, if its source can be read (command_entry_approve, compute_lane).
ApprovalTakesEffect ==
  [][\A id \in Ids :
       /\ Len(ledger') > Len(ledger)
       /\ ledger'[Len(ledger')].action = "approve"
       /\ ledger'[Len(ledger')].id = id
       /\ src[id] \in Versions
       => Effective(id)']_vars

\* Writing an org section back leaves the approval lane of the entry what it
\* was (command_entry_org_attach, command_entry_org_detach).
OrgWriteKeepsLane ==
  [][\A p \in Procs, id \in Ids :
       /\ proc[p].op \in {"attach", "detach"}
       /\ proc[p].at = "write" /\ proc'[p].at = "count"
       /\ proc[p].id = id
       => Lane(id)' = Lane(id)]_vars

\* An orgUsage section other than the one the latest org-ledger record names is
\* reported as not effective (compute_org_lane).
OrgMismatchDetected ==
  \A id \in Ids :
    LET recorded == IF LatestAt(orgLedger, id) = {} THEN NoOrgs
                    ELSE Latest(orgLedger, id).org
    IN Readable(orgLedger) /\ file[id] # None /\ file[id].org # recorded
         => OrgSection(id) = "org-not-effective"

-----------------------------------------------------------------------------
(* The store implements the approval register.  A confirmation is live while *)
(* the ledger has not moved under the approve command that carries it.       *)

\* The pins of an approve command that its ledger appends can still carry out.
Live(p) ==
  [id \in Ids |->
     IF /\ proc[p].op = "approve"
        /\ Readable(ledger) /\ proc[p].seq = Len(ledger)
        /\ proc[p].at = "read" \/ id \in proc[p].todo
     THEN proc[p].pins[id] ELSE None]

\* The content the ledger currently approves.
InForce(id) ==
  IF Readable(ledger) /\ \E i \in LatestAt(ledger, id) : ledger[i].action = "approve"
  THEN Latest(ledger, id).digest ELSE None

Register == INSTANCE ApprovalRegister
  WITH reviewed <- shown,
       pending <- [p \in Procs |-> Live(p)],
       granted <- [id \in Ids |-> InForce(id)]

\* Every approval the ledger carries was confirmed, and a revocation voids the
\* confirmations in flight: the store implements ApprovalRegister.
ImplementsRegister == Register!Spec
=============================================================================
