------------------------ MODULE KnowledgeStoreProofs ------------------------
(***************************************************************************)
(* Proofs about KnowledgeStore for any number of identities, processes,    *)
(* texts, versions and orgs, any external file versions and any bounds:    *)
(* types, that nothing unreviewed is ever effective, that an approve       *)
(* command in flight never overrides a revocation, that the store          *)
(* implements ApprovalRegister, and what holds of its ledgers and lanes    *)
(* when one command runs at a time.                                        *)
(***************************************************************************)
EXTENDS KnowledgeStore, FiniteSetTheorems, TLAPS

-----------------------------------------------------------------------------
(* Type correctness. *)

\* What the fields of a process record hold at each point of its command.
Shape(q) ==
  /\ q.op = "draft" => q.at \in {"pin", "write"}
  /\ q.op = "describe" => q.at = "write"
  /\ q.op \in {"attach", "detach"} => q.at \in {"write", "count", "append"}
  /\ q.op \in {"draft", "describe", "attach", "detach"} => q.id \in Ids /\ q.snap[q.id] \in Files
  /\ q.op = "revoke" => q.at \in {"count", "append"} /\ q.id \in Ids /\ q.pins[q.id] \in Digests
  /\ q.op = "approve" =>
       /\ q.at \in {"read", "stamp", "append"}
       /\ q.at # "read" => q.stamp \in Stamps
       /\ q.at = "append" => q.id \in q.todo
       /\ \A id \in q.todo : q.pins[id] \in Digests
       /\ \A id \in Ids : q.pins[id] # None /\ (q.at = "read" => id \notin q.todo) =>
            q.snap[id] \in Files /\ q.snap[id].digest = q.pins[id]

Shaped == \A p \in Procs : Shape(proc[p])

TypeInv == TypeOK /\ Shaped

LEMMA IdleShape == Idle \in ProcRecords /\ Shape(Idle)
BY DEF Idle, Nothing, ProcRecords, Commands, Points, Shape

LEMMA CommandShape ==
  ASSUME NEW op \in {"draft", "describe", "attach", "detach"}, NEW at \in {"pin", "write"},
         op # "draft" => at = "write",
         NEW id \in Ids, NEW f \in Files
  PROVE  Command(op, at, id, f) \in ProcRecords /\ Shape(Command(op, at, id, f))
BY DEF Command, Nothing, Only, ProcRecords, Commands, Points, Shape

\* Replacing the record of one process by a well-shaped one.
LEMMA ProcUpdate ==
  ASSUME TypeInv, NEW p \in Procs, NEW q \in ProcRecords, Shape(q),
         proc' = [proc EXCEPT ![p] = q]
  PROVE  proc' \in [Procs -> ProcRecords] /\ Shaped'
BY DEF TypeInv, TypeOK, Shaped

LEMMA FileParts ==
  ASSUME NEW f \in Files
  PROVE  /\ f.digest \in Digests /\ f.digest.facts \in Facts
         /\ f.pin \in Versions /\ f.org \in OrgSections
BY DEF Files, Digests

LEMMA DraftIsFile ==
  ASSUME NEW content \in Digests, NEW v \in Versions, NEW org \in OrgSections
  PROVE  Draft(content, v, org) \in Files
BY DEF Draft, Files

LEMMA NoOrgsIsSection == NoOrgs \in OrgSections
BY DEF NoOrgs, OrgSections

LEMMA LatestIsRecord ==
  ASSUME NEW R, NEW l \in Seq(R), NEW id, LatestAt(l, id) # {}
  PROVE  Latest(l, id) \in R /\ \E i \in LatestAt(l, id) : Latest(l, id) = l[i]
<1> DEFINE i == CHOOSE k \in LatestAt(l, id) : TRUE
<1>1. i \in LatestAt(l, id)
  OBVIOUS
<1>2. i \in 1 .. Len(l)
  BY <1>1 DEF LatestAt
<1>3. Latest(l, id) = l[i]
  BY DEF Latest
<1> HIDE DEF i
<1>4. l[i] \in R
  BY <1>2
<1> QED
  BY <1>1, <1>3, <1>4

LEMMA TypeInit == Init => TypeInv
<1> SUFFICES ASSUME Init PROVE TypeInv
  OBVIOUS
<1> USE StoreAssumption
<1>1. proc \in [Procs -> ProcRecords] /\ Shaped
  BY IdleShape DEF Init, Shaped
<1>2. src \in [Ids -> Versions \cup NoSource] /\ file \in [Ids -> Files \cup {None}]
  BY DEF Init
<1>3. ledger \in Seq(LedgerRecords) /\ orgLedger \in Seq(OrgRecords)
  BY DEF Init
<1>4. shown \subseteq Ids \X Digests /\ edits \in 0 .. MaxEdits
  BY DEF Init
<1> QED
  BY <1>1, <1>2, <1>3, <1>4 DEF TypeInv, TypeOK

LEMMA AuthorTypes ==
  ASSUME TypeInv, NEW p \in Procs,
         (\E id \in Ids : DraftRead(p, id) \/ DescribeRead(p, id)) \/ DraftPin(p) \/ AuthorWrite(p)
  PROVE  TypeInv'
<1> USE StoreAssumption
<1>1. ASSUME NEW id \in Ids, DraftRead(p, id) PROVE TypeInv'
  <2>1. PICK t \in Texts \cup {Sentinel} :
          proc' = [proc EXCEPT ![p] = Command("draft", "pin", id,
            Draft([facts |-> FactsOf[src[id]], limits |-> NoLimits, text |-> t], src[id], NoOrgs))]
    BY <1>1 DEF DraftRead
  <2> DEFINE content == [facts |-> FactsOf[src[id]], limits |-> NoLimits, text |-> t]
  <2>2. content \in Digests
    BY <1>1 DEF DraftRead, Digests
  <2>3. Draft(content, src[id], NoOrgs) \in Files
    BY <1>1, <2>2, DraftIsFile, NoOrgsIsSection DEF DraftRead
  <2> QED
    BY <1>1, <2>1, <2>3, CommandShape, ProcUpdate DEF DraftRead, TypeInv, TypeOK
<1>2. CASE DraftPin(p)
  <2> DEFINE id == proc[p].id
             new == Draft(proc[p].snap[id].digest, src[id], CarriedOrg(id))
  <2>1. id \in Ids /\ proc[p].snap[id] \in Files
    BY <1>2 DEF TypeInv, Shaped, Shape, DraftPin, Running
  <2>2. CarriedOrg(id) \in OrgSections
    BY <2>1, NoOrgsIsSection, FileParts DEF CarriedOrg, TypeInv, TypeOK
  <2>3. new \in Files
    BY <1>2, <2>1, <2>2, DraftIsFile, FileParts DEF DraftPin
  <2>4. proc' = [proc EXCEPT ![p] = Command("draft", "write", id, new)]
    BY <1>2 DEF DraftPin
  <2> QED
    BY <1>2, <2>1, <2>3, <2>4, CommandShape, ProcUpdate DEF DraftPin, TypeInv, TypeOK
<1>3. ASSUME NEW id \in Ids, DescribeRead(p, id) PROVE TypeInv'
  <2>1. PICK t \in Texts, l \in Limits :
          proc' = [proc EXCEPT ![p] = Command("describe", "write", id,
            Draft([facts |-> file[id].digest.facts, limits |-> l, text |-> t],
                  file[id].pin, file[id].org))]
    BY <1>3 DEF DescribeRead
  <2> DEFINE content == [facts |-> file[id].digest.facts, limits |-> l, text |-> t]
  <2>2. file[id] \in Files
    BY <1>3 DEF DescribeRead, TypeInv, TypeOK
  <2>3. content \in Digests
    BY <2>2, FileParts DEF Digests
  <2>4. Draft(content, file[id].pin, file[id].org) \in Files
    BY <2>2, <2>3, DraftIsFile, FileParts
  <2> QED
    BY <1>3, <2>1, <2>4, CommandShape, ProcUpdate DEF DescribeRead, TypeInv, TypeOK
<1>4. CASE AuthorWrite(p)
  <2>1. proc[p].id \in Ids /\ proc[p].snap[proc[p].id] \in Files
    BY <1>4 DEF TypeInv, Shaped, Shape, AuthorWrite, Running
  <2> QED
    BY <1>4, <2>1, IdleShape, ProcUpdate DEF AuthorWrite, TypeInv, TypeOK
<1> QED
  BY <1>1, <1>2, <1>3, <1>4

LEMMA ApproveTypes ==
  ASSUME TypeInv, NEW p \in Procs,
         ApproveStart(p) \/ ApproveAppend(p)
           \/ \E id \in Ids : ApproveRead(p, id) \/ ApproveStamp(p, id)
  PROVE  TypeInv'
<1> USE StoreAssumption
<1>1. CASE ApproveStart(p)
  <2>1. PICK pins \in [Ids -> Digests \cup {None}] :
          proc' = [proc EXCEPT ![p] =
            [op |-> "approve", at |-> "read", id |-> None, pins |-> pins,
             todo |-> {id \in Ids : pins[id] # None}, snap |-> Nothing,
             base |-> Len(ledger), seq |-> Len(ledger), stamp |-> None]]
    BY <1>1 DEF ApproveStart
  <2> DEFINE q == [op |-> "approve", at |-> "read", id |-> None, pins |-> pins,
                   todo |-> {id \in Ids : pins[id] # None}, snap |-> Nothing,
                   base |-> Len(ledger), seq |-> Len(ledger), stamp |-> None]
  <2>2. q \in ProcRecords
    BY DEF TypeInv, TypeOK, ProcRecords, Commands, Points, Nothing
  <2>3. Shape(q)
    BY DEF Shape
  <2> HIDE DEF q
  <2>4. proc' = [proc EXCEPT ![p] = q]
    BY <2>1 DEF q
  <2> QED
    BY <1>1, <2>2, <2>3, <2>4, ProcUpdate DEF ApproveStart, TypeInv, TypeOK
<1>2. ASSUME NEW id \in Ids, ApproveRead(p, id) PROVE TypeInv'
  <2> DEFINE snap == [proc[p].snap EXCEPT ![id] = file[id]]
             left == proc[p].todo \ {id}
  <2>0. proc[p] \in ProcRecords /\ Shape(proc[p]) /\ proc[p].op = "approve"
           /\ proc[p].at = "read" /\ id \in proc[p].todo
    BY <1>2 DEF TypeInv, TypeOK, Shaped, ApproveRead, Running
  <2>1. file[id] \in Files /\ file[id].digest = proc[p].pins[id]
    BY <1>2 DEF TypeInv, TypeOK, ApproveRead, IsPinned
  <2>2. snap \in [Ids -> Files \cup {None}]
    BY <2>0, <2>1 DEF ProcRecords
  <2>3. \A i \in Ids : proc[p].pins[i] # None /\ i \notin left =>
          snap[i] \in Files /\ snap[i].digest = proc[p].pins[i]
    BY <2>0, <2>1 DEF ProcRecords, Shape
  <2> HIDE DEF snap
  <2>4. ASSUME proc' = [proc EXCEPT ![p] = [proc[p] EXCEPT !.snap = snap, !.todo = left]]
        PROVE  TypeInv'
    <3> DEFINE q == [proc[p] EXCEPT !.snap = snap, !.todo = left]
    <3>1. q \in ProcRecords
      BY <2>0, <2>2 DEF ProcRecords
    <3>2. Shape(q)
      BY <2>0, <2>3 DEF ProcRecords, Shape
    <3> HIDE DEF q
    <3>3. proc' = [proc EXCEPT ![p] = q]
      BY <2>4 DEF q
    <3> QED
      BY <1>2, <3>1, <3>2, <3>3, ProcUpdate DEF ApproveRead, TypeInv, TypeOK
  <2>5. ASSUME left = {}, NEW s \in Stamps,
               proc' = [proc EXCEPT ![p] =
                 [proc[p] EXCEPT !.snap = snap, !.todo = Pinned(p), !.at = "stamp", !.stamp = s]]
        PROVE  TypeInv'
    <3> DEFINE q == [proc[p] EXCEPT !.snap = snap, !.todo = Pinned(p), !.at = "stamp", !.stamp = s]
    <3>1. q \in ProcRecords
      BY <2>0, <2>2 DEF ProcRecords, Points, Pinned
    <3>2. Shape(q)
      BY <2>0, <2>3, <2>5 DEF ProcRecords, Shape, Pinned
    <3> HIDE DEF q
    <3>3. proc' = [proc EXCEPT ![p] = q]
      BY <2>5 DEF q
    <3> QED
      BY <1>2, <3>1, <3>2, <3>3, ProcUpdate DEF ApproveRead, TypeInv, TypeOK
  <2> QED
    BY <1>2, <2>4, <2>5 DEF ApproveRead, snap
<1>3. ASSUME NEW id \in Ids, ApproveStamp(p, id) PROVE TypeInv'
  <2> DEFINE q == [proc[p] EXCEPT !.at = "append", !.id = id]
  <2>0. proc[p] \in ProcRecords /\ Shape(proc[p]) /\ proc[p].op = "approve"
           /\ proc[p].at = "stamp" /\ id \in proc[p].todo
    BY <1>3 DEF TypeInv, TypeOK, Shaped, ApproveStamp, Running
  <2>1. proc[p].snap[id] \in Files /\ proc[p].stamp \in Stamps
    BY <2>0 DEF Shape
  <2>2. Approved(proc[p].snap[id], proc[p].stamp) \in Files
    BY <2>1 DEF Approved, Files, Mirrors
  <2>3. q \in ProcRecords /\ Shape(q)
    BY <2>0 DEF ProcRecords, Points, Shape
  <2> HIDE DEF q
  <2>4. proc' = [proc EXCEPT ![p] = q]
    BY <1>3 DEF ApproveStamp, q
  <2> QED
    BY <1>3, <2>2, <2>3, <2>4, ProcUpdate DEF ApproveStamp, TypeInv, TypeOK
<1>4. CASE ApproveAppend(p)
  <2> DEFINE id == proc[p].id
             left == proc[p].todo \ {id}
             q == [proc[p] EXCEPT !.at = "stamp", !.id = None, !.todo = left,
                                  !.seq = NextSequence(p)]
             r == [seq |-> NextSequence(p), action |-> "approve", id |-> id,
                   digest |-> proc[p].snap[id].digest, stamp |-> proc[p].stamp,
                   chunk |-> Pinned(p), base |-> proc[p].base]
  <2>0. proc[p] \in ProcRecords /\ Shape(proc[p]) /\ proc[p].op = "approve"
           /\ proc[p].at = "append"
    BY <1>4 DEF TypeInv, TypeOK, Shaped, ApproveAppend, Running
  <2>1. id \in Ids /\ proc[p].snap[id].digest \in Digests /\ proc[p].stamp \in Stamps
    BY <2>0 DEF Shape, ProcRecords
  <2>2. NextSequence(p) \in Nat
    BY <2>0 DEF NextSequence, ProcRecords
  <2>3. r \in LedgerRecords
    BY <2>0, <2>1, <2>2 DEF LedgerRecords, Pinned, ProcRecords
  <2>4. q \in ProcRecords /\ Shape(q)
    BY <2>0, <2>2 DEF ProcRecords, Points, Shape
  <2>5. ledger' = Append(ledger, r) /\ proc' = [proc EXCEPT ![p] = IF left = {} THEN Idle ELSE q]
    BY <1>4 DEF ApproveAppend
  <2> HIDE DEF q, r
  <2>6. proc' \in [Procs -> ProcRecords] /\ Shaped'
    <3> DEFINE new == IF left = {} THEN Idle ELSE q
    <3>1. new \in ProcRecords /\ Shape(new)
      BY <2>4, IdleShape
    <3> HIDE DEF new
    <3>2. proc' = [proc EXCEPT ![p] = new]
      BY <2>5 DEF new
    <3> QED
      BY <3>1, <3>2, ProcUpdate
  <2>7. UNCHANGED <<src, file, orgLedger, shown, edits>>
    BY <1>4 DEF ApproveAppend
  <2> QED
    BY <2>3, <2>5, <2>6, <2>7 DEF TypeInv, TypeOK
<1> QED
  BY <1>1, <1>2, <1>3, <1>4

LEMMA RevokeTypes ==
  ASSUME TypeInv, NEW p \in Procs,
         RevokeCount(p) \/ RevokeAppend(p) \/ \E id \in Ids : RevokeStart(p, id)
  PROVE  TypeInv'
<1> USE StoreAssumption
<1>1. ASSUME NEW id \in Ids, RevokeStart(p, id) PROVE TypeInv'
  <2> DEFINE d == Latest(ledger, id).digest
             q == [op |-> "revoke", at |-> "count", id |-> id, todo |-> {}, snap |-> Nothing,
                   pins |-> Only(id, d), base |-> 0, seq |-> 0, stamp |-> None]
  <2>0. ledger \in Seq(LedgerRecords) /\ LatestAt(ledger, id) # {}
    BY <1>1 DEF RevokeStart, TypeInv, TypeOK
  <2>1. Latest(ledger, id) \in LedgerRecords
    BY <2>0, LatestIsRecord
  <2>2. d \in Digests
    BY <2>1 DEF LedgerRecords
  <2> HIDE DEF d
  <2>3. q \in ProcRecords /\ Shape(q)
    BY <2>2 DEF ProcRecords, Shape, Commands, Points, Nothing, Only
  <2>4. /\ proc' = [proc EXCEPT ![p] = q]
        /\ UNCHANGED <<src, file, ledger, orgLedger, shown, edits>>
    BY <1>1 DEF RevokeStart, d
  <2> HIDE DEF q
  <2>5. proc' \in [Procs -> ProcRecords] /\ Shaped'
    BY <2>3, <2>4, ProcUpdate
  <2> QED
    BY <2>4, <2>5 DEF TypeInv, TypeOK
<1>2. CASE RevokeCount(p)
  <2> DEFINE q == [proc[p] EXCEPT !.at = "append", !.base = Len(ledger), !.seq = Len(ledger)]
  <2>0. /\ proc[p].op = "revoke" /\ proc[p] \in ProcRecords /\ Shape(proc[p])
        /\ Len(ledger) \in Nat
    BY <1>2 DEF RevokeCount, Running, TypeInv, TypeOK, Shaped
  <2>1. q \in ProcRecords /\ Shape(q)
    BY <2>0 DEF Shape, ProcRecords, Points
  <2>2. proc' = [proc EXCEPT ![p] = q]
    BY <1>2 DEF RevokeCount
  <2> HIDE DEF q
  <2> QED
    BY <1>2, <2>1, <2>2, ProcUpdate DEF RevokeCount, TypeInv, TypeOK
<1>3. CASE RevokeAppend(p)
  <2>1. PICK s \in Stamps :
          ledger' = Append(ledger,
            [seq |-> proc[p].seq + 1, action |-> "revoke", id |-> proc[p].id,
             digest |-> proc[p].pins[proc[p].id], stamp |-> s, chunk |-> {},
             base |-> proc[p].base])
    BY <1>3 DEF RevokeAppend
  <2> DEFINE r == [seq |-> proc[p].seq + 1, action |-> "revoke", id |-> proc[p].id,
                   digest |-> proc[p].pins[proc[p].id], stamp |-> s, chunk |-> {},
                   base |-> proc[p].base]
  <2>2. proc[p] \in ProcRecords /\ Shape(proc[p]) /\ proc[p].op = "revoke"
    BY <1>3 DEF RevokeAppend, Running, TypeInv, TypeOK, Shaped
  <2>3. r \in LedgerRecords
    BY <2>2 DEF Shape, ProcRecords, LedgerRecords
  <2> HIDE DEF r
  <2>4. ledger' = Append(ledger, r)
    BY <2>1 DEF r
  <2>5. ledger' \in Seq(LedgerRecords)
    BY <2>3, <2>4 DEF TypeInv, TypeOK
  <2> QED
    BY <1>3, <2>5, IdleShape, ProcUpdate DEF RevokeAppend, TypeInv, TypeOK
<1> QED
  BY <1>1, <1>2, <1>3

LEMMA OrgTypes ==
  ASSUME TypeInv, NEW p \in Procs,
         OrgWrite(p) \/ OrgCount(p) \/ OrgAppend(p) \/ \E id \in Ids : OrgRead(p, id)
  PROVE  TypeInv'
<1> USE StoreAssumption
<1>1. ASSUME NEW id \in Ids, OrgRead(p, id) PROVE TypeInv'
  <2>1. PICK o \in Orgs, b \in Obs \cup {None}, op \in {"attach", "detach"} :
          proc' = [proc EXCEPT ![p] = Command(op, "write", id, WithOrg(file[id], o, b))]
    BY <1>1 DEF OrgRead
  <2>2. file[id] \in Files
    BY <1>1 DEF OrgRead, TypeInv, TypeOK
  <2>3. WithOrg(file[id], o, b) \in Files
    BY <2>2 DEF WithOrg, Files, OrgSections
  <2> QED
    BY <1>1, <2>1, <2>3, CommandShape, ProcUpdate DEF OrgRead, TypeInv, TypeOK
<1>2. CASE OrgWrite(p)
  <2> DEFINE q == [proc[p] EXCEPT !.at = "count"]
  <2>1. /\ proc[p].id \in Ids /\ proc[p].snap[proc[p].id] \in Files
        /\ proc[p].op \in {"attach", "detach"} /\ proc[p] \in ProcRecords /\ Shape(proc[p])
    BY <1>2 DEF OrgWrite, Running, TypeInv, TypeOK, Shaped, Shape
  <2>2. q \in ProcRecords /\ Shape(q)
    BY <2>1 DEF Shape, ProcRecords, Points
  <2>3. proc' = [proc EXCEPT ![p] = q]
    BY <1>2 DEF OrgWrite
  <2> HIDE DEF q
  <2> QED
    BY <1>2, <2>1, <2>2, <2>3, ProcUpdate DEF OrgWrite, TypeInv, TypeOK
<1>3. CASE OrgCount(p)
  <2> DEFINE q == [proc[p] EXCEPT !.at = "append", !.seq = Len(orgLedger)]
  <2>1. /\ proc[p].op \in {"attach", "detach"} /\ proc[p] \in ProcRecords /\ Shape(proc[p])
        /\ Len(orgLedger) \in Nat
    BY <1>3 DEF OrgCount, Running, TypeInv, TypeOK, Shaped
  <2>2. q \in ProcRecords /\ Shape(q)
    BY <2>1 DEF Shape, ProcRecords, Points
  <2>3. proc' = [proc EXCEPT ![p] = q]
    BY <1>3 DEF OrgCount
  <2> HIDE DEF q
  <2> QED
    BY <1>3, <2>2, <2>3, ProcUpdate DEF OrgCount, TypeInv, TypeOK
<1>4. CASE OrgAppend(p)
  <2>1. /\ proc[p].op \in {"attach", "detach"} /\ proc[p] \in ProcRecords
        /\ proc[p].id \in Ids /\ proc[p].snap[proc[p].id] \in Files
    BY <1>4 DEF OrgAppend, Running, TypeInv, TypeOK, Shaped, Shape
  <2>2. [seq |-> proc[p].seq + 1, action |-> proc[p].op, id |-> proc[p].id,
         org |-> proc[p].snap[proc[p].id].org] \in OrgRecords
    BY <2>1, FileParts DEF OrgRecords, ProcRecords
  <2>3. orgLedger' \in Seq(OrgRecords)
    BY <1>4, <2>2 DEF OrgAppend, TypeInv, TypeOK
  <2> QED
    BY <1>4, <2>3, IdleShape, ProcUpdate DEF OrgAppend, TypeInv, TypeOK
<1> QED
  BY <1>1, <1>2, <1>3, <1>4

LEMMA TypeNext == TypeInv /\ [Next]_vars => TypeInv'
<1> SUFFICES ASSUME TypeInv, [Next]_vars PROVE TypeInv'
  OBVIOUS
<1> USE StoreAssumption
<1>1. ASSUME NEW p \in Procs, Stop(p) PROVE TypeInv'
  BY <1>1, IdleShape, ProcUpdate DEF TypeInv, TypeOK, Stop
<1>2. ASSUME NEW id \in Ids, Review(id) PROVE TypeInv'
  BY <1>2, FileParts DEF TypeInv, TypeOK, Shaped, Review
<1>3. ASSUME NEW id \in Ids, SourceChange(id) PROVE TypeInv'
  BY <1>3 DEF TypeInv, TypeOK, Shaped, SourceChange
<1>4. ASSUME NEW id \in Ids, ExternalWrite(id) PROVE TypeInv'
  BY <1>4 DEF TypeInv, TypeOK, Shaped, ExternalWrite
<1>5. CASE UNCHANGED vars
  BY <1>5 DEF TypeInv, TypeOK, Shaped, vars
<1> QED
  BY <1>1, <1>2, <1>3, <1>4, <1>5, AuthorTypes, ApproveTypes, RevokeTypes, OrgTypes DEF Next

\* Every reachable state of the store is well formed: files, ledgers, running
\* commands and pins have the types the code gives them.
THEOREM TypeCorrect == Spec => []TypeOK
<1>1. TypeInv => TypeOK
  BY DEF TypeInv
<1> QED
  BY TypeInit, TypeNext, <1>1, PTL DEF Spec

-----------------------------------------------------------------------------
(* No unreviewed content is effective, and no revocation is overridden. *)

\* Whatever the ledger approves, and whatever a running approve command may
\* still write there, was rendered for a human.
PinsReviewed ==
  /\ \A i \in 1 .. Len(ledger) :
       ledger[i].action = "approve" => <<ledger[i].id, ledger[i].digest>> \in shown
  /\ \A p \in Procs, id \in Ids :
       proc[p].op = "approve" /\ proc[p].pins[id] # None => <<id, proc[p].pins[id]>> \in shown

\* While the ledger is still as long as an approve command's own count says,
\* only approvals (its own) came after the length it read.
CountsHold ==
  \A p \in Procs : proc[p].op = "approve" =>
    /\ proc[p].base <= proc[p].seq
    /\ proc[p].seq <= Len(ledger)
    /\ proc[p].seq = Len(ledger) =>
         \A j \in 1 .. Len(ledger) : proc[p].base < j => ledger[j].action = "approve"

ApprovalInv == PinsReviewed /\ CountsHold /\ RevocationNotOverridden

\* Steps that touch neither the ledger nor the history, and leave an approve
\* command its pins and its counts.
LEMMA QuietStep ==
  ASSUME TypeInv, ApprovalInv, NEW p \in Procs, NEW q \in ProcRecords,
         proc' = [proc EXCEPT ![p] = q], UNCHANGED <<ledger, shown>>,
         q.op = "approve" => /\ proc[p].op = "approve" /\ q.pins = proc[p].pins
                             /\ q.base = proc[p].base /\ q.seq = proc[p].seq
  PROVE  ApprovalInv'
<1>1. \A r \in Procs : proc'[r] = IF r = p THEN q ELSE proc[r]
  BY DEF TypeInv, TypeOK
<1>2. PinsReviewed'
  BY <1>1 DEF ApprovalInv, PinsReviewed
<1>3. CountsHold'
  BY <1>1 DEF ApprovalInv, CountsHold
<1>4. RevocationNotOverridden'
  BY DEF ApprovalInv, RevocationNotOverridden, Readable
<1> QED
  BY <1>2, <1>3, <1>4 DEF ApprovalInv

LEMMA ApprovalInit == Init => ApprovalInv
BY DEF Init, ApprovalInv, PinsReviewed, CountsHold, RevocationNotOverridden, Idle

LEMMA ReviewKeeps ==
  ASSUME ApprovalInv, NEW id \in Ids, Review(id)
  PROVE  ApprovalInv'
BY DEF Review, ApprovalInv, PinsReviewed, CountsHold, RevocationNotOverridden, Readable

LEMMA ApproveStartKeeps ==
  ASSUME TypeInv, ApprovalInv, NEW p \in Procs, ApproveStart(p)
  PROVE  ApprovalInv'
<1>1. PICK pins \in [Ids -> Digests \cup {None}] :
        /\ \A id \in Ids : pins[id] # None => <<id, pins[id]>> \in shown
        /\ proc' = [proc EXCEPT ![p] =
             [op |-> "approve", at |-> "read", id |-> None, pins |-> pins,
              todo |-> {id \in Ids : pins[id] # None}, snap |-> Nothing,
              base |-> Len(ledger), seq |-> Len(ledger), stamp |-> None]]
  BY DEF ApproveStart
<1>2. \A r \in Procs : r # p => proc'[r] = proc[r]
  BY <1>1 DEF TypeInv, TypeOK
<1>3. /\ proc'[p].pins = pins /\ proc'[p].base = Len(ledger) /\ proc'[p].seq = Len(ledger)
      /\ Len(ledger) \in Nat
  BY <1>1 DEF TypeInv, TypeOK
<1>4. ledger' = ledger /\ shown' = shown
  BY DEF ApproveStart
<1>5. PinsReviewed'
  BY <1>1, <1>2, <1>3, <1>4 DEF ApprovalInv, PinsReviewed
<1>6. CountsHold'
  <2> SUFFICES ASSUME NEW r \in Procs, proc'[r].op = "approve"
               PROVE  /\ proc'[r].base <= proc'[r].seq
                      /\ proc'[r].seq <= Len(ledger)
                      /\ proc'[r].seq = Len(ledger) =>
                           \A j \in 1 .. Len(ledger) :
                             proc'[r].base < j => ledger[j].action = "approve"
    BY <1>4 DEF CountsHold
  <2>1. CASE r = p
    BY <1>3, <2>1
  <2>2. CASE r # p
    BY <1>2, <2>2 DEF ApprovalInv, CountsHold
  <2> QED
    BY <2>1, <2>2
<1>7. RevocationNotOverridden'
  BY <1>4 DEF ApprovalInv, RevocationNotOverridden, Readable
<1> QED
  BY <1>5, <1>6, <1>7 DEF ApprovalInv

\* What one more ledger line does to the length and to the lines before it.
LEMMA AppendedLine ==
  ASSUME NEW l \in Seq(LedgerRecords), NEW r \in LedgerRecords
  PROVE  LET m == Append(l, r) IN
         /\ Len(m) = Len(l) + 1 /\ Len(l) \in Nat /\ m[Len(m)] = r
         /\ \A i \in 1 .. Len(l) : m[i] = l[i]
OBVIOUS

\* Appending a line that keeps the three parts on its own account.
LEMMA ApproveAppendKeeps ==
  ASSUME TypeInv, ApprovalInv, NEW p \in Procs, ApproveAppend(p)
  PROVE  ApprovalInv'
<1> DEFINE id == proc[p].id
           left == proc[p].todo \ {id}
           rec == [seq |-> proc[p].seq + 1, action |-> "approve", id |-> id,
                   digest |-> proc[p].snap[id].digest, stamp |-> proc[p].stamp,
                   chunk |-> Pinned(p), base |-> proc[p].base]
<1>1. /\ proc[p] \in ProcRecords /\ Shape(proc[p])
      /\ proc[p].op = "approve" /\ proc[p].at = "append"
  BY DEF TypeInv, TypeOK, Shaped, ApproveAppend, Running
<1>2. /\ id \in Ids /\ proc[p].pins[id] \in Digests /\ proc[p].stamp \in Stamps
      /\ proc[p].snap[id].digest = proc[p].pins[id] /\ proc[p].pins[id] # None
  BY <1>1, StoreAssumption DEF Shape, ProcRecords
<1>3. rec \in LedgerRecords /\ proc[p].seq \in Nat /\ proc[p].base \in Nat
  BY <1>1, <1>2 DEF LedgerRecords, Pinned, ProcRecords
<1>4. ledger' = Append(ledger, rec) /\ shown' = shown /\ ledger \in Seq(LedgerRecords)
  BY DEF ApproveAppend, NextSequence, TypeInv, TypeOK
<1>5. /\ rec.action = "approve" /\ rec.id = id /\ rec.digest = proc[p].pins[id]
      /\ rec.base = proc[p].base /\ rec.seq = proc[p].seq + 1
  BY <1>2
<1>6. \A r \in Procs : r # p => proc'[r] = proc[r]
  BY DEF ApproveAppend, TypeInv, TypeOK
<1>7. proc'[p].op = "approve" => /\ proc'[p].pins = proc[p].pins
                                 /\ proc'[p].base = proc[p].base
                                 /\ proc'[p].seq = proc[p].seq + 1
  <2>1. CASE left = {}
    BY <2>1 DEF ApproveAppend, Idle, TypeInv, TypeOK
  <2>2. CASE left # {}
    <3>1. proc'[p] = [proc[p] EXCEPT !.at = "stamp", !.id = None, !.todo = left,
                                     !.seq = proc[p].seq + 1]
      BY <2>2 DEF ApproveAppend, NextSequence, TypeInv, TypeOK
    <3> QED
      BY <1>1, <3>1 DEF ProcRecords
  <2> QED
    BY <2>1, <2>2
<1> HIDE DEF rec, id
<1>8. /\ Len(ledger') = Len(ledger) + 1 /\ Len(ledger) \in Nat /\ ledger'[Len(ledger')] = rec
      /\ \A i \in 1 .. Len(ledger) : ledger'[i] = ledger[i]
  BY <1>3, <1>4, AppendedLine
<1>r. Readable(ledger') => Readable(ledger) /\ rec.seq = Len(ledger) + 1
  BY <1>8 DEF Readable
<1>9. PinsReviewed'
  <2>1. ASSUME NEW i \in 1 .. Len(ledger'), ledger'[i].action = "approve"
        PROVE  <<ledger'[i].id, ledger'[i].digest>> \in shown
    <3>1. CASE i \in 1 .. Len(ledger)
      BY <1>8, <2>1, <3>1 DEF ApprovalInv, PinsReviewed
    <3>2. CASE i = Len(ledger')
      BY <1>1, <1>2, <1>5, <1>8, <3>2 DEF ApprovalInv, PinsReviewed
    <3> QED
      BY <1>8, <3>1, <3>2
  <2>2. ASSUME NEW r \in Procs, NEW k \in Ids,
               proc'[r].op = "approve", proc'[r].pins[k] # None
        PROVE  <<k, proc'[r].pins[k]>> \in shown
    BY <1>1, <1>6, <1>7, <2>2 DEF ApprovalInv, PinsReviewed
  <2> QED
    BY <1>4, <2>1, <2>2 DEF PinsReviewed
<1>10. CountsHold'
  <2> SUFFICES ASSUME NEW r \in Procs, proc'[r].op = "approve"
               PROVE  /\ proc'[r].base <= proc'[r].seq
                      /\ proc'[r].seq <= Len(ledger')
                      /\ proc'[r].seq = Len(ledger') =>
                           \A j \in 1 .. Len(ledger') :
                             proc'[r].base < j => ledger'[j].action = "approve"
    BY DEF CountsHold
  <2>1. CASE r = p
    <3>1. /\ proc[p].base <= proc[p].seq /\ proc[p].seq <= Len(ledger)
          /\ proc[p].seq = Len(ledger) =>
               \A j \in 1 .. Len(ledger) : proc[p].base < j => ledger[j].action = "approve"
      BY <1>1 DEF ApprovalInv, CountsHold
    <3> QED
      BY <1>3, <1>5, <1>7, <1>8, <2>1, <3>1
  <2>2. CASE r # p
    <3>1. /\ proc[r].op = "approve" /\ proc[r].base <= proc[r].seq /\ proc[r].seq <= Len(ledger)
          /\ proc'[r] = proc[r] /\ proc[r].seq \in Nat
      BY <1>6, <2>2 DEF ApprovalInv, CountsHold, TypeInv, TypeOK, ProcRecords
    <3>2. proc'[r].seq # Len(ledger') /\ proc'[r].seq <= Len(ledger')
      BY <1>8, <3>1
    <3> QED
      BY <3>1, <3>2
  <2> QED
    BY <2>1, <2>2
<1>11. RevocationNotOverridden'
  <2> SUFFICES ASSUME Readable(ledger'), NEW i \in 1 .. Len(ledger'), NEW j \in 1 .. Len(ledger'),
                      i < j, ledger'[i].id = ledger'[j].id,
                      ledger'[i].action = "revoke", ledger'[j].action = "approve"
               PROVE  ledger'[j].base >= i
    BY DEF RevocationNotOverridden
  <2>0. i \in 1 .. Len(ledger) /\ ledger'[i] = ledger[i]
    BY <1>8
  <2>1. CASE j \in 1 .. Len(ledger)
    BY <1>8, <1>r, <2>0, <2>1 DEF ApprovalInv, RevocationNotOverridden
  <2>2. CASE j = Len(ledger')
    <3>1. proc[p].seq = Len(ledger)
      BY <1>3, <1>5, <1>8, <1>r
    <3>2. proc[p].base < i => ledger[i].action = "approve"
      BY <1>1, <2>0, <3>1 DEF ApprovalInv, CountsHold
    <3> QED
      BY <1>3, <1>5, <1>8, <2>0, <2>2, <3>2
  <2> QED
    BY <1>8, <2>1, <2>2
<1> QED
  BY <1>9, <1>10, <1>11 DEF ApprovalInv

LEMMA RevokeAppendKeeps ==
  ASSUME TypeInv, ApprovalInv, NEW p \in Procs, RevokeAppend(p)
  PROVE  ApprovalInv'
<1>1. PICK s \in Stamps :
        ledger' = Append(ledger,
          [seq |-> proc[p].seq + 1, action |-> "revoke", id |-> proc[p].id,
           digest |-> proc[p].pins[proc[p].id], stamp |-> s, chunk |-> {},
           base |-> proc[p].base])
  BY DEF RevokeAppend
<1> DEFINE rec == [seq |-> proc[p].seq + 1, action |-> "revoke", id |-> proc[p].id,
                   digest |-> proc[p].pins[proc[p].id], stamp |-> s, chunk |-> {},
                   base |-> proc[p].base]
<1>2. rec \in LedgerRecords
  BY DEF RevokeAppend, Running, TypeInv, TypeOK, Shaped, Shape, ProcRecords, LedgerRecords
<1>3. rec.action = "revoke"
  OBVIOUS
<1>4. ledger' = Append(ledger, rec) /\ shown' = shown /\ ledger \in Seq(LedgerRecords)
  BY <1>1 DEF RevokeAppend, TypeInv, TypeOK
<1>5. \A r \in Procs : proc'[r].op = "approve" => proc'[r] = proc[r]
  BY DEF RevokeAppend, Idle, TypeInv, TypeOK
<1> HIDE DEF rec
<1>6. /\ Len(ledger') = Len(ledger) + 1 /\ Len(ledger) \in Nat /\ ledger'[Len(ledger')] = rec
      /\ \A i \in 1 .. Len(ledger) : ledger'[i] = ledger[i]
  BY <1>2, <1>4, AppendedLine
<1>r. Readable(ledger') => Readable(ledger)
  BY <1>6 DEF Readable
<1>7. PinsReviewed'
  <2>1. ASSUME NEW i \in 1 .. Len(ledger'), ledger'[i].action = "approve"
        PROVE  <<ledger'[i].id, ledger'[i].digest>> \in shown
    <3>1. i \in 1 .. Len(ledger) \/ i = Len(ledger')
      BY <1>6
    <3> QED
      BY <1>3, <1>6, <2>1, <3>1 DEF ApprovalInv, PinsReviewed
  <2>2. ASSUME NEW r \in Procs, NEW k \in Ids,
               proc'[r].op = "approve", proc'[r].pins[k] # None
        PROVE  <<k, proc'[r].pins[k]>> \in shown
    BY <1>5, <2>2 DEF ApprovalInv, PinsReviewed
  <2> QED
    BY <1>4, <2>1, <2>2 DEF PinsReviewed
<1>8. CountsHold'
  <2> SUFFICES ASSUME NEW r \in Procs, proc'[r].op = "approve"
               PROVE  proc'[r].base <= proc'[r].seq /\ proc'[r].seq <= Len(ledger')
                      /\ proc'[r].seq # Len(ledger')
    BY <1>6 DEF CountsHold
  <2>1. proc[r].base <= proc[r].seq /\ proc[r].seq <= Len(ledger) /\ proc[r].seq \in Nat
    BY <1>5 DEF ApprovalInv, CountsHold, TypeInv, TypeOK, ProcRecords
  <2> QED
    BY <1>5, <1>6, <2>1
<1>9. RevocationNotOverridden'
  BY <1>3, <1>6, <1>r DEF ApprovalInv, RevocationNotOverridden
<1> QED
  BY <1>7, <1>8, <1>9 DEF ApprovalInv

\* A step that ends a command or starts one that is not an approval.
LEMMA OtherCommand ==
  ASSUME TypeInv, ApprovalInv, NEW p \in Procs, NEW q,
         proc' = [proc EXCEPT ![p] = q], proc' \in [Procs -> ProcRecords],
         q.op # "approve", UNCHANGED <<ledger, shown>>
  PROVE  ApprovalInv'
<1>1. q \in ProcRecords
  BY DEF TypeInv, TypeOK
<1> QED
  BY <1>1, QuietStep

LEMMA AuthorKeeps ==
  ASSUME TypeInv, TypeInv', ApprovalInv, NEW p \in Procs,
         (\E id \in Ids : DraftRead(p, id) \/ DescribeRead(p, id)) \/ DraftPin(p) \/ AuthorWrite(p)
  PROVE  ApprovalInv'
<1>1. \E op \in {"draft", "describe"}, at \in {"pin", "write"} : \E id, f :
        \/ proc' = [proc EXCEPT ![p] = Command(op, at, id, f)]
        \/ proc' = [proc EXCEPT ![p] = Idle]
  <2>1. ASSUME NEW id \in Ids, DraftRead(p, id)
        PROVE  \E f : proc' = [proc EXCEPT ![p] = Command("draft", "pin", id, f)]
    BY <2>1 DEF DraftRead
  <2>2. ASSUME NEW id \in Ids, DescribeRead(p, id)
        PROVE  \E f : proc' = [proc EXCEPT ![p] = Command("describe", "write", id, f)]
    BY <2>2 DEF DescribeRead
  <2>3. ASSUME DraftPin(p)
        PROVE  \E f, id : proc' = [proc EXCEPT ![p] = Command("draft", "write", id, f)]
    BY <2>3 DEF DraftPin
  <2>4. ASSUME AuthorWrite(p) PROVE proc' = [proc EXCEPT ![p] = Idle]
    BY <2>4 DEF AuthorWrite
  <2> QED
    BY <2>1, <2>2, <2>3, <2>4
<1>2. UNCHANGED <<ledger, shown>>
  BY DEF DraftRead, DescribeRead, DraftPin, AuthorWrite
<1>3. \A op \in {"draft", "describe"}, at \in {"pin", "write"} : \A id, f :
        Command(op, at, id, f).op # "approve"
  BY DEF Command
<1>4. Idle.op # "approve"
  BY DEF Idle
<1> QED
  BY <1>1, <1>2, <1>3, <1>4, OtherCommand DEF TypeInv, TypeOK

LEMMA RevokeOrgKeeps ==
  ASSUME TypeInv, TypeInv', ApprovalInv, NEW p \in Procs,
         RevokeCount(p) \/ OrgWrite(p) \/ OrgCount(p) \/ OrgAppend(p) \/ Stop(p)
           \/ \E id \in Ids : RevokeStart(p, id) \/ OrgRead(p, id)
  PROVE  ApprovalInv'
<1>1. UNCHANGED <<ledger, shown>>
  BY DEF RevokeCount, OrgWrite, OrgCount, OrgAppend, Stop, RevokeStart, OrgRead
<1>2. proc' = [proc EXCEPT ![p] = proc'[p]]
  BY DEF RevokeCount, OrgWrite, OrgCount, OrgAppend, Stop, RevokeStart, OrgRead, TypeInv, TypeOK
<1>3. proc'[p].op # "approve"
  <2>1. ASSUME NEW id \in Ids, RevokeStart(p, id) PROVE proc'[p].op = "revoke"
    BY <2>1 DEF RevokeStart, TypeInv, TypeOK
  <2>2. ASSUME NEW id \in Ids, OrgRead(p, id) PROVE proc'[p].op \in {"attach", "detach"}
    BY <2>2 DEF OrgRead, Command, TypeInv, TypeOK
  <2>3. ASSUME OrgAppend(p) \/ Stop(p) PROVE proc'[p].op = "idle"
    BY <2>3 DEF OrgAppend, Stop, Idle, TypeInv, TypeOK
  <2>4. ASSUME RevokeCount(p) PROVE proc'[p].op = "revoke"
    BY <2>4 DEF RevokeCount, Running, TypeInv, TypeOK, ProcRecords
  <2>5. ASSUME OrgWrite(p) \/ OrgCount(p) PROVE proc'[p].op \in {"attach", "detach"}
    <3>1. proc[p] \in ProcRecords /\ proc[p].op \in {"attach", "detach"}
      BY <2>5 DEF OrgWrite, OrgCount, Running, TypeInv, TypeOK
    <3>2. \/ proc'[p] = [proc[p] EXCEPT !.at = "count"]
          \/ proc'[p] = [proc[p] EXCEPT !.at = "append", !.seq = Len(orgLedger)]
      BY <2>5 DEF OrgWrite, OrgCount, TypeInv, TypeOK
    <3> QED
      BY <3>1, <3>2 DEF ProcRecords
  <2> QED
    BY <2>1, <2>2, <2>3, <2>4, <2>5
<1> QED
  BY <1>1, <1>2, <1>3, OtherCommand DEF TypeInv, TypeOK

\* Reading and stamping move an approve command on without touching its pins
\* or its counts.
LEMMA ReadStampKeeps ==
  ASSUME TypeInv, TypeInv', ApprovalInv, NEW p \in Procs, NEW id \in Ids,
         ApproveRead(p, id) \/ ApproveStamp(p, id)
  PROVE  ApprovalInv'
<1>1. /\ UNCHANGED <<ledger, shown>> /\ proc[p].op = "approve" /\ proc[p] \in ProcRecords
      /\ proc'[p] \in ProcRecords
  BY DEF ApproveRead, ApproveStamp, Running, TypeInv, TypeOK
<1>2. proc' = [proc EXCEPT ![p] = proc'[p]]
  BY DEF ApproveRead, ApproveStamp, TypeInv, TypeOK
<1> DEFINE snap == [proc[p].snap EXCEPT ![id] = file[id]]
           left == proc[p].todo \ {id}
<1>3. CASE ApproveStamp(p, id)
  <2>1. proc'[p] = [proc[p] EXCEPT !.at = "append", !.id = id]
    BY <1>3 DEF ApproveStamp, TypeInv, TypeOK
  <2> QED
    BY <1>1, <1>2, <2>1, QuietStep DEF ProcRecords
<1>4. CASE ApproveRead(p, id)
  <2>1. \/ proc' = [proc EXCEPT ![p] = [proc[p] EXCEPT !.snap = snap, !.todo = left]]
        \/ \E s \in Stamps :
             proc' = [proc EXCEPT ![p] = [proc[p] EXCEPT !.snap = snap,
                        !.todo = Pinned(p), !.at = "stamp", !.stamp = s]]
    BY <1>4 DEF ApproveRead
  <2> HIDE DEF snap, left
  <2>2. CASE proc' = [proc EXCEPT ![p] = [proc[p] EXCEPT !.snap = snap, !.todo = left]]
    <3>1. proc'[p] = [proc[p] EXCEPT !.snap = snap, !.todo = left]
      BY <2>2 DEF TypeInv, TypeOK
    <3> QED
      BY <1>1, <1>2, <3>1, QuietStep DEF ProcRecords
  <2>3. ASSUME NEW s \in Stamps,
               proc' = [proc EXCEPT ![p] = [proc[p] EXCEPT !.snap = snap,
                          !.todo = Pinned(p), !.at = "stamp", !.stamp = s]]
        PROVE  ApprovalInv'
    <3>1. proc'[p] = [proc[p] EXCEPT !.snap = snap, !.todo = Pinned(p),
                                     !.at = "stamp", !.stamp = s]
      BY <2>3 DEF TypeInv, TypeOK
    <3> QED
      BY <1>1, <1>2, <3>1, QuietStep DEF ProcRecords
  <2> QED
    BY <2>1, <2>2, <2>3
<1> QED
  BY <1>3, <1>4

LEMMA ApprovalNext == TypeInv /\ ApprovalInv /\ [Next]_vars => ApprovalInv'
<1> SUFFICES ASSUME TypeInv, ApprovalInv, [Next]_vars PROVE ApprovalInv'
  OBVIOUS
<1>1. TypeInv'
  BY TypeNext
<1>2. ASSUME NEW id \in Ids, SourceChange(id) \/ ExternalWrite(id) PROVE ApprovalInv'
  BY <1>2 DEF SourceChange, ExternalWrite, ApprovalInv, PinsReviewed, CountsHold,
     RevocationNotOverridden, Readable
<1>3. CASE UNCHANGED vars
  BY <1>3 DEF vars, ApprovalInv, PinsReviewed, CountsHold, RevocationNotOverridden, Readable
<1> QED
  BY <1>1, <1>2, <1>3, AuthorKeeps, RevokeOrgKeeps, ReadStampKeeps, ReviewKeeps,
     ApproveStartKeeps, ApproveAppendKeeps, RevokeAppendKeeps DEF Next

LEMMA ApprovalInvariant == Spec => [](TypeInv /\ ApprovalInv)
BY TypeInit, TypeNext, ApprovalInit, ApprovalNext, PTL DEF Spec

\* Unreviewed content is never effective, whatever crashes, overwrites a file
\* or interleaves (compute_lane, command_entry_approve).
THEOREM EffectiveReviewed == Spec => []EffectiveIsReviewed
<1>1. TypeInv /\ ApprovalInv => EffectiveIsReviewed
  <2> SUFFICES ASSUME TypeInv, ApprovalInv, NEW id \in Ids, Effective(id)
               PROVE  <<id, file[id].digest>> \in shown
    BY DEF EffectiveIsReviewed
  <2> DEFINE r == Latest(ledger, id)
  <2>1. /\ LatestAt(ledger, id) # {} /\ r.action # "revoke"
        /\ r.digest = file[id].digest
    BY DEF Effective, EffectiveLanes, Lane
  <2>2. PICK i \in LatestAt(ledger, id) : r = ledger[i]
    BY <2>1, LatestIsRecord DEF TypeInv, TypeOK
  <2>3. i \in 1 .. Len(ledger) /\ ledger[i].id = id /\ ledger[i] \in LedgerRecords
    BY DEF LatestAt, TypeInv, TypeOK
  <2>4. ledger[i].action = "approve"
    BY <2>1, <2>2, <2>3 DEF LedgerRecords
  <2> QED
    BY <2>1, <2>2, <2>3, <2>4 DEF ApprovalInv, PinsReviewed
<1> QED
  BY <1>1, ApprovalInvariant, PTL

\* No approve command in flight undoes a revocation that landed after it
\* started (append_ledger's hoisted sequence, read_ledger's check).
THEOREM RevocationHolds == Spec => []RevocationNotOverridden
<1>1. ApprovalInv => RevocationNotOverridden
  BY DEF ApprovalInv
<1> QED
  BY <1>1, ApprovalInvariant, PTL

-----------------------------------------------------------------------------
(* What a line more changes in the latest records. *)

LEMMA LatestAfter ==
  ASSUME NEW l \in Seq(LedgerRecords), NEW r \in LedgerRecords
  PROVE  LET m == Append(l, r) IN
         /\ LatestAt(m, r.id) = {Len(m)} /\ Latest(m, r.id) = r
         /\ \A k : k # r.id => /\ LatestAt(m, k) = LatestAt(l, k)
                               /\ \A i \in LatestAt(l, k) : m[i] = l[i]
                               /\ LatestAt(l, k) # {} => Latest(m, k) = Latest(l, k)
<1> DEFINE m == Append(l, r)
<1>1. /\ Len(m) = Len(l) + 1 /\ Len(l) \in Nat /\ m[Len(m)] = r
      /\ \A i \in 1 .. Len(l) : m[i] = l[i]
  BY AppendedLine
<1> HIDE DEF m
<1>2. LatestAt(m, r.id) = {Len(m)}
  BY <1>1 DEF LatestAt
<1>3. Latest(m, r.id) = r
  BY <1>1, <1>2 DEF Latest
<1>4. ASSUME NEW k, k # r.id
      PROVE  /\ LatestAt(m, k) = LatestAt(l, k)
             /\ \A i \in LatestAt(l, k) : m[i] = l[i]
             /\ LatestAt(l, k) # {} => Latest(m, k) = Latest(l, k)
  <2>1. \A i : i \in LatestAt(m, k) <=> i \in LatestAt(l, k)
    BY <1>1, <1>4 DEF LatestAt
  <2>2. LatestAt(m, k) = LatestAt(l, k)
    BY <2>1
  <2>3. \A i \in LatestAt(l, k) : m[i] = l[i]
    BY <1>1 DEF LatestAt
  <2>4. LatestAt(l, k) # {} => (CHOOSE i \in LatestAt(l, k) : TRUE) \in LatestAt(l, k)
    OBVIOUS
  <2> QED
    BY <2>2, <2>3, <2>4 DEF Latest
<1> QED
  BY <1>2, <1>3, <1>4 DEF m

-----------------------------------------------------------------------------
(* The refinement of ApprovalRegister. *)

Pending == [p \in Procs |-> Live(p)]

Granted == [id \in Ids |-> InForce(id)]

\* A step that leaves the ledger and what was shown, and can only lose
\* confirmations.
LEMMA LapseRefines ==
  ASSUME TypeInv', UNCHANGED <<ledger, shown>>,
         \A r \in Procs, id \in Ids : Live(r)'[id] \in {Live(r)[id], None}
  PROVE  Register!Next
<1>1. Granted' = Granted
  BY DEF Granted, InForce, Readable, LatestAt, Latest
<1>2. \A r \in Procs : Live(r)' \in Register!Pins
  BY StoreAssumption DEF Live, Register!Pins, TypeInv, TypeOK, ProcRecords
<1>3. Pending' \in [Procs -> Register!Pins]
  BY <1>2 DEF Pending
<1>4. Register!SomeLapse
  BY <1>3 DEF Register!SomeLapse, Pending
<1>5. Register!Withdraw({})
  BY <1>1, <1>4 DEF Register!Withdraw, Granted
<1> QED
  BY <1>5 DEF Register!Next

\* What Live says of a process in the next state, from its next record.
LEMMA QuietRefines ==
  ASSUME TypeInv, TypeInv', UNCHANGED <<ledger, shown>>, NEW p \in Procs,
         \A r \in Procs : r # p => proc'[r] = proc[r],
         proc'[p].op = "approve" =>
           /\ proc[p].op = "approve" /\ proc'[p].seq = proc[p].seq
           /\ \A id \in Ids :
                (proc'[p].at = "read" \/ id \in proc'[p].todo) /\ proc'[p].pins[id] # None
                => /\ proc[p].at = "read" \/ id \in proc[p].todo
                   /\ proc'[p].pins[id] = proc[p].pins[id]
  PROVE  Register!Next
<1>1. ASSUME NEW r \in Procs, NEW id \in Ids PROVE Live(r)'[id] \in {Live(r)[id], None}
  <2>1. CASE r # p
    BY <2>1 DEF Live, Readable
  <2>2. CASE r = p
    BY <2>2 DEF Live, Readable
  <2> QED
    BY <2>1, <2>2
<1> QED
  BY <1>1, LapseRefines

LEMMA ReviewRefines ==
  ASSUME TypeInv, NEW id \in Ids, Review(id)
  PROVE  Register!Next
<1>1. file[id].digest \in Digests
  BY FileParts DEF Review, TypeInv, TypeOK
<1>2. Granted' = Granted
  BY DEF Review, Granted, InForce, Readable, LatestAt, Latest
<1>3. Pending' = Pending
  BY DEF Review, Pending, Live, Readable
<1>4. Register!Show(id, file[id].digest)
  BY <1>2, <1>3 DEF Register!Show, Review, Granted, Pending
<1> QED
  BY <1>1, <1>4 DEF Register!Next

LEMMA StartRefines ==
  ASSUME TypeInv, NEW p \in Procs, ApproveStart(p)
  PROVE  Register!Next
<1>1. PICK pins \in [Ids -> Digests \cup {None}] :
        /\ \A id \in Ids : pins[id] # None => <<id, pins[id]>> \in shown
        /\ proc' = [proc EXCEPT ![p] =
             [op |-> "approve", at |-> "read", id |-> None, pins |-> pins,
              todo |-> {id \in Ids : pins[id] # None}, snap |-> Nothing,
              base |-> Len(ledger), seq |-> Len(ledger), stamp |-> None]]
  BY DEF ApproveStart
<1>2. UNCHANGED <<ledger, shown>> /\ Readable(ledger)
  BY DEF ApproveStart
<1>3. Granted' = Granted
  BY <1>2 DEF Granted, InForce, Readable, LatestAt, Latest
<1>4. Live(p)' = pins
  BY <1>1, <1>2 DEF Live, Readable, TypeInv, TypeOK
<1>5. \A r \in Procs : r # p => Live(r)' = Live(r)
  BY <1>1, <1>2 DEF Live, Readable, TypeInv, TypeOK
<1>6. Pending' = [Pending EXCEPT ![p] = pins]
  BY <1>4, <1>5 DEF Pending
<1>7. Register!Confirm(p)
  BY <1>1, <1>2, <1>3, <1>6 DEF Register!Confirm, Register!Pins, Granted, Pending
<1> QED
  BY <1>7 DEF Register!Next

\* A line that leaves the ledger unreadable ends every confirmation.
LEMMA UnreadableRefines ==
  ASSUME TypeInv', ~Readable(ledger)', shown' = shown
  PROVE  Register!Next
<1>1. \A id \in Ids : InForce(id)' = None
  BY DEF InForce, Readable
<1>2. \A r \in Procs : Live(r)' = [id \in Ids |-> None]
  BY DEF Live, Readable
<1>3. Register!SomeLapse
  BY <1>2 DEF Register!SomeLapse, Register!Pins, Pending
<1>4. Register!Withdraw(Ids)
  BY <1>1, <1>2, <1>3 DEF Register!Withdraw, Granted, Pending
<1> QED
  BY <1>4 DEF Register!Next

\* What the ledger grants after a line that leaves it readable.
LEMMA GrantedAfter ==
  ASSUME TypeInv, NEW r \in LedgerRecords, ledger' = Append(ledger, r),
         Readable(ledger)'
  PROVE  /\ InForce(r.id)' = IF r.action = "approve" THEN r.digest ELSE None
         /\ \A k \in Ids : k # r.id => InForce(k)' = InForce(k)
         /\ Readable(ledger) /\ r.seq = Len(ledger) + 1
<1> DEFINE m == Append(ledger, r)
<1>1. ledger \in Seq(LedgerRecords)
  BY DEF TypeInv, TypeOK
<1>2. /\ Len(m) = Len(ledger) + 1 /\ Len(ledger) \in Nat /\ m[Len(m)] = r
      /\ \A i \in 1 .. Len(ledger) : m[i] = ledger[i]
  BY <1>1, AppendedLine
<1>3. /\ LatestAt(m, r.id) = {Len(m)} /\ Latest(m, r.id) = r
      /\ \A k : k # r.id => /\ LatestAt(m, k) = LatestAt(ledger, k)
                            /\ \A i \in LatestAt(ledger, k) : m[i] = ledger[i]
                            /\ LatestAt(ledger, k) # {} => Latest(m, k) = Latest(ledger, k)
  BY <1>1, LatestAfter
<1> HIDE DEF m
<1>4. ledger' = m
  BY DEF m
<1>5. Readable(m)
  BY <1>4 DEF Readable
<1>6. Readable(ledger) /\ r.seq = Len(ledger) + 1
  BY <1>2, <1>5 DEF Readable
<1>7. InForce(r.id)' = IF r.action = "approve" THEN r.digest ELSE None
  <2>1. InForce(r.id)' = IF Readable(m) /\ \E i \in LatestAt(m, r.id) : m[i].action = "approve"
                         THEN Latest(m, r.id).digest ELSE None
    BY <1>4 DEF InForce, Readable, LatestAt, Latest
  <2> QED
    BY <1>2, <1>3, <1>5, <2>1
<1>8. ASSUME NEW k \in Ids, k # r.id PROVE InForce(k)' = InForce(k)
  <2>1. InForce(k)' = IF Readable(m) /\ \E i \in LatestAt(m, k) : m[i].action = "approve"
                      THEN Latest(m, k).digest ELSE None
    BY <1>4 DEF InForce, Readable, LatestAt, Latest
  <2>2. (\E i \in LatestAt(m, k) : m[i].action = "approve")
          <=> (\E i \in LatestAt(ledger, k) : ledger[i].action = "approve")
    BY <1>3, <1>8
  <2> QED
    BY <1>3, <1>5, <1>6, <1>8, <2>1, <2>2 DEF InForce
<1> QED
  BY <1>6, <1>7, <1>8

LEMMA RevokeRefines ==
  ASSUME TypeInv, TypeInv', ApprovalInv, NEW p \in Procs, RevokeAppend(p)
  PROVE  Register!Next
<1>1. PICK s \in Stamps :
        ledger' = Append(ledger,
          [seq |-> proc[p].seq + 1, action |-> "revoke", id |-> proc[p].id,
           digest |-> proc[p].pins[proc[p].id], stamp |-> s, chunk |-> {},
           base |-> proc[p].base])
  BY DEF RevokeAppend
<1> DEFINE rec == [seq |-> proc[p].seq + 1, action |-> "revoke", id |-> proc[p].id,
                   digest |-> proc[p].pins[proc[p].id], stamp |-> s, chunk |-> {},
                   base |-> proc[p].base]
<1>0. PICK id \in Ids : id = proc[p].id
  BY DEF RevokeAppend, Running, TypeInv, TypeOK, Shaped, Shape
<1> DEFINE S == {id}
<1>2. rec \in LedgerRecords /\ rec.id = id /\ rec.action = "revoke"
  BY <1>0 DEF RevokeAppend, Running, TypeInv, TypeOK, Shaped, Shape, ProcRecords, LedgerRecords
<1>3. ledger' = Append(ledger, rec) /\ shown' = shown
  BY <1>1 DEF RevokeAppend
<1> HIDE DEF rec
<1>4. CASE ~Readable(ledger)'
  BY <1>3, <1>4, UnreadableRefines
<1>5. CASE Readable(ledger)'
  <2>1. /\ InForce(id)' = None
        /\ \A k \in Ids : k # id => InForce(k)' = InForce(k)
    BY <1>2, <1>3, <1>5, GrantedAfter
  <2>2. Len(ledger') = Len(ledger) + 1 /\ Len(ledger) \in Nat
    BY <1>2, <1>3, AppendedLine DEF TypeInv, TypeOK
  <2>3. \A r \in Procs : proc'[r].op = "approve" => proc'[r].seq <= Len(ledger) /\ proc'[r].seq \in Nat
    <3>1. \A r \in Procs : proc'[r].op = "approve" => proc'[r] = proc[r]
      BY DEF RevokeAppend, Idle, TypeInv, TypeOK
    <3> QED
      BY <3>1 DEF ApprovalInv, CountsHold, TypeInv, TypeOK, ProcRecords
  <2>4. \A r \in Procs : Live(r)' = [k \in Ids |-> None]
    BY <2>2, <2>3 DEF Live
  <2>5. Register!SomeLapse
    BY <2>4 DEF Register!SomeLapse, Register!Pins, Pending
  <2>6. Granted' = [k \in Ids |-> IF k \in S THEN None ELSE Granted[k]]
    BY <2>1 DEF Granted
  <2>7. Register!Withdraw(S)
    BY <1>2, <1>3, <2>4, <2>5, <2>6 DEF Register!Withdraw, Granted, Pending
  <2> QED
    BY <1>2, <2>7 DEF Register!Next
<1> QED
  BY <1>4, <1>5

LEMMA GrantRefines ==
  ASSUME TypeInv, TypeInv', ApprovalInv, NEW p \in Procs, ApproveAppend(p)
  PROVE  Register!Next
<1>0. PICK id \in Ids : id = proc[p].id
  <2>1. proc[p] \in ProcRecords /\ Shape(proc[p]) /\ proc[p].op = "approve"
           /\ proc[p].at = "append"
    BY DEF ApproveAppend, Running, TypeInv, TypeOK, Shaped
  <2> QED
    BY <2>1 DEF Shape, ProcRecords
<1> DEFINE left == proc[p].todo \ {id}
           rec == [seq |-> proc[p].seq + 1, action |-> "approve", id |-> id,
                   digest |-> proc[p].snap[id].digest, stamp |-> proc[p].stamp,
                   chunk |-> Pinned(p), base |-> proc[p].base]
<1>1. /\ proc[p] \in ProcRecords /\ Shape(proc[p])
      /\ proc[p].op = "approve" /\ proc[p].at = "append"
  BY DEF TypeInv, TypeOK, Shaped, ApproveAppend, Running
<1>2. /\ proc[p].pins[id] \in Digests /\ proc[p].stamp \in Stamps /\ id \in proc[p].todo
      /\ proc[p].snap[id].digest = proc[p].pins[id] /\ proc[p].pins[id] # None
  BY <1>0, <1>1, StoreAssumption DEF Shape, ProcRecords
<1>3. rec \in LedgerRecords /\ proc[p].seq \in Nat /\ proc[p].base \in Nat
  BY <1>1, <1>2 DEF LedgerRecords, Pinned, ProcRecords
<1>4. ledger' = Append(ledger, rec) /\ shown' = shown
  BY <1>0 DEF ApproveAppend, NextSequence
<1>5. /\ rec.action = "approve" /\ rec.id = id /\ rec.digest = proc[p].pins[id]
      /\ rec.seq = proc[p].seq + 1
  BY <1>2
<1>6. \A r \in Procs : r # p => proc'[r] = proc[r]
  BY DEF ApproveAppend, TypeInv, TypeOK
<1>7. proc'[p].op = "approve" => /\ proc'[p].at = "stamp" /\ proc'[p].todo = left
                                 /\ proc'[p].pins = proc[p].pins
  <2>1. CASE left = {}
    BY <1>0, <2>1 DEF ApproveAppend, Idle, TypeInv, TypeOK
  <2>2. CASE left # {}
    <3>1. proc'[p] = [proc[p] EXCEPT !.at = "stamp", !.id = None, !.todo = left,
                                     !.seq = proc[p].seq + 1]
      BY <1>0, <2>2 DEF ApproveAppend, NextSequence, TypeInv, TypeOK
    <3> QED
      BY <1>1, <3>1 DEF ProcRecords
  <2> QED
    BY <2>1, <2>2
<1> HIDE DEF rec
<1>8. CASE ~Readable(ledger)'
  BY <1>4, <1>8, UnreadableRefines
<1>9. CASE Readable(ledger)'
  <2>1. /\ InForce(id)' = proc[p].pins[id]
        /\ \A k \in Ids : k # id => InForce(k)' = InForce(k)
        /\ Readable(ledger) /\ proc[p].seq + 1 = Len(ledger) + 1
    BY <1>3, <1>4, <1>5, <1>9, GrantedAfter
  <2>2. Len(ledger') = Len(ledger) + 1 /\ Len(ledger) \in Nat
    BY <1>3, <1>4, AppendedLine DEF TypeInv, TypeOK
  <2>3. proc[p].seq = Len(ledger)
    BY <1>3, <2>1, <2>2
  <2>4. \A k \in proc[p].todo : Live(p)[k] = proc[p].pins[k]
    BY <1>1, <2>1, <2>3 DEF Live, ProcRecords
  <2>5. \A k \in Ids : Live(p)'[k] \in {Live(p)[k], None}
    <3> SUFFICES ASSUME NEW k \in Ids PROVE Live(p)'[k] \in {Live(p)[k], None}
      OBVIOUS
    <3>1. Live(p)'[k] = None \/ (k \in left /\ Live(p)'[k] = proc[p].pins[k])
      BY <1>7 DEF Live
    <3> QED
      BY <2>4, <3>1
  <2>6. Live(p)'[id] = None
    BY <1>7 DEF Live
  <2>7. \A r \in Procs : r # p => Live(r)' = [k \in Ids |-> None]
    <3> SUFFICES ASSUME NEW r \in Procs, r # p, proc[r].op = "approve"
                 PROVE  proc[r].seq # Len(ledger')
      BY <1>6 DEF Live
    <3>1. proc[r].seq <= Len(ledger) /\ proc[r].seq \in Nat
      BY DEF ApprovalInv, CountsHold, TypeInv, TypeOK, ProcRecords
    <3> QED
      BY <2>2, <3>1
  <2>8. \A r \in Procs : Live(r)' \in Register!Pins
    BY StoreAssumption DEF Live, Register!Pins, TypeInv, TypeOK, ProcRecords
  <2>9. Register!SomeLapse
    <3>1. Pending' \in [Procs -> Register!Pins]
      BY <2>8 DEF Pending
    <3>2. \A r \in Procs, k \in Ids : Live(r)'[k] \in {Live(r)[k], None}
      BY <2>5, <2>7
    <3> QED
      BY <3>1, <3>2 DEF Register!SomeLapse, Pending
  <2>10. Granted' = [Granted EXCEPT ![id] = Live(p)[id]]
    BY <1>2, <2>1, <2>4 DEF Granted
  <2>11. Live(p)[id] # None
    BY <1>2, <2>4
  <2>12. Register!Grant(p, id)
    BY <1>4, <2>6, <2>9, <2>10, <2>11 DEF Register!Grant, Granted, Pending
  <2> QED
    BY <2>12 DEF Register!Next
<1> QED
  BY <1>8, <1>9

\* The commands that are not approvals leave the approval ledger alone, but
\* for the append of entry-revoke.
LEMMA OtherSteps ==
  ASSUME TypeInv, NEW p \in Procs,
         \/ \E id \in Ids : \/ DraftRead(p, id) \/ DescribeRead(p, id) \/ RevokeStart(p, id)
                            \/ OrgRead(p, id)
         \/ DraftPin(p) \/ AuthorWrite(p) \/ RevokeCount(p) \/ Stop(p)
         \/ OrgWrite(p) \/ OrgCount(p) \/ OrgAppend(p)
  PROVE  /\ UNCHANGED <<ledger, shown>> /\ proc'[p].op # "approve"
         /\ \A r \in Procs : r # p => proc'[r] = proc[r]
<1>1. UNCHANGED <<ledger, shown>>
  BY DEF DraftRead, DescribeRead, RevokeStart, OrgRead, DraftPin, AuthorWrite, RevokeCount,
         Stop, OrgWrite, OrgCount, OrgAppend
<1>2. \A r \in Procs : r # p => proc'[r] = proc[r]
  BY DEF DraftRead, DescribeRead, RevokeStart, OrgRead, DraftPin, AuthorWrite, RevokeCount,
         Stop, OrgWrite, OrgCount, OrgAppend, TypeInv, TypeOK
<1>3. proc[p] \in ProcRecords
  BY DEF TypeInv, TypeOK
<1>4. proc'[p].op # "approve"
  <2>1. ASSUME NEW id \in Ids, RevokeStart(p, id) PROVE proc'[p].op = "revoke"
    BY <2>1 DEF RevokeStart, TypeInv, TypeOK
  <2>2. ASSUME NEW id \in Ids, OrgRead(p, id) PROVE proc'[p].op \in {"attach", "detach"}
    BY <2>2 DEF OrgRead, Command, TypeInv, TypeOK
  <2>3. ASSUME NEW id \in Ids, DraftRead(p, id) PROVE proc'[p].op = "draft"
    BY <2>3 DEF DraftRead, Command, TypeInv, TypeOK
  <2>4. ASSUME NEW id \in Ids, DescribeRead(p, id) PROVE proc'[p].op = "describe"
    <3>1. \E f : proc' = [proc EXCEPT ![p] = Command("describe", "write", id, f)]
      BY <2>4 DEF DescribeRead
    <3> QED
      BY <3>1 DEF Command, TypeInv, TypeOK
  <2>5. ASSUME DraftPin(p) PROVE proc'[p].op = "draft"
    BY <2>5 DEF DraftPin, Command, TypeInv, TypeOK
  <2>6. ASSUME OrgAppend(p) \/ Stop(p) \/ AuthorWrite(p) PROVE proc'[p].op = "idle"
    BY <2>6 DEF OrgAppend, Stop, AuthorWrite, Idle, TypeInv, TypeOK
  <2>7. ASSUME RevokeCount(p) PROVE proc'[p].op = "revoke"
    BY <1>3, <2>7 DEF RevokeCount, Running, TypeInv, TypeOK, ProcRecords
  <2>8. ASSUME OrgWrite(p) \/ OrgCount(p) PROVE proc'[p].op \in {"attach", "detach"}
    <3>1. \/ proc'[p] = [proc[p] EXCEPT !.at = "count"]
          \/ proc'[p] = [proc[p] EXCEPT !.at = "append", !.seq = Len(orgLedger)]
      BY <2>8 DEF OrgWrite, OrgCount, TypeInv, TypeOK
    <3>2. proc[p].op \in {"attach", "detach"}
      BY <2>8 DEF OrgWrite, OrgCount, Running
    <3> QED
      BY <1>3, <3>1, <3>2 DEF ProcRecords
  <2> QED
    BY <2>1, <2>2, <2>3, <2>4, <2>5, <2>6, <2>7, <2>8
<1> QED
  BY <1>1, <1>2, <1>4

\* Each step of a command other than an append of the approval ledger only
\* keeps or loses confirmations.
LEMMA CommandRefines ==
  ASSUME TypeInv, TypeInv', NEW p \in Procs,
         \/ \E id \in Ids : \/ DraftRead(p, id) \/ DescribeRead(p, id) \/ RevokeStart(p, id)
                            \/ OrgRead(p, id) \/ ApproveRead(p, id) \/ ApproveStamp(p, id)
         \/ DraftPin(p) \/ AuthorWrite(p) \/ RevokeCount(p) \/ Stop(p)
         \/ OrgWrite(p) \/ OrgCount(p) \/ OrgAppend(p)
  PROVE  Register!Next
<1>1. UNCHANGED <<ledger, shown>>
  BY DEF DraftRead, DescribeRead, RevokeStart, OrgRead, ApproveRead, ApproveStamp, DraftPin,
         AuthorWrite, RevokeCount, Stop, OrgWrite, OrgCount, OrgAppend
<1>2. \A r \in Procs : r # p => proc'[r] = proc[r]
  BY DEF DraftRead, DescribeRead, RevokeStart, OrgRead, ApproveRead, ApproveStamp, DraftPin,
         AuthorWrite, RevokeCount, Stop, OrgWrite, OrgCount, OrgAppend, TypeInv, TypeOK
<1>3. proc[p] \in ProcRecords
  BY DEF TypeInv, TypeOK
<1>4. ASSUME NEW id \in Ids, ApproveRead(p, id) PROVE Register!Next
  <2> DEFINE snap == [proc[p].snap EXCEPT ![id] = file[id]]
             left == proc[p].todo \ {id}
  <2>1. \/ proc'[p] = [proc[p] EXCEPT !.snap = snap, !.todo = left]
        \/ \E s \in Stamps :
             proc'[p] = [proc[p] EXCEPT !.snap = snap, !.todo = Pinned(p), !.at = "stamp",
                                        !.stamp = s]
    BY <1>4 DEF ApproveRead, TypeInv, TypeOK
  <2> HIDE DEF snap
  <2>2. proc[p].op = "approve" /\ proc[p].at = "read"
    BY <1>4 DEF ApproveRead, Running
  <2>3. proc'[p].seq = proc[p].seq /\ proc'[p].pins = proc[p].pins
    BY <1>3, <2>1 DEF ProcRecords
  <2> QED
    BY <1>1, <1>2, <2>2, <2>3, QuietRefines
<1>5. ASSUME NEW id \in Ids, ApproveStamp(p, id) PROVE Register!Next
  <2>1. proc'[p] = [proc[p] EXCEPT !.at = "append", !.id = id]
    BY <1>5 DEF ApproveStamp, TypeInv, TypeOK
  <2>2. proc[p].op = "approve"
    BY <1>5 DEF ApproveStamp, Running
  <2>3. /\ proc'[p].at = "append" /\ proc'[p].todo = proc[p].todo
        /\ proc'[p].pins = proc[p].pins /\ proc'[p].seq = proc[p].seq
    BY <1>3, <2>1 DEF ProcRecords
  <2> QED
    BY <1>1, <1>2, <2>2, <2>3, QuietRefines
<1>6. CASE proc'[p].op # "approve"
  BY <1>1, <1>2, <1>6, QuietRefines
<1> QED
  BY <1>4, <1>5, <1>6, OtherSteps

\* The store implements the approval register: for any number of processes,
\* every content the ledger puts in force was confirmed by a human after it
\* was rendered, and a revocation voids the approvals in flight.
THEOREM StoreImplementsRegister == Spec => ImplementsRegister
<1>1. Init => Register!Init
  BY DEF Init, Register!Init, Live, InForce, LatestAt, Idle
<1>2. TypeInv /\ TypeInv' /\ ApprovalInv /\ [Next]_vars
        => Register!Next \/ UNCHANGED <<shown, Pending, Granted>>
  <2> SUFFICES ASSUME TypeInv, TypeInv', ApprovalInv, [Next]_vars
               PROVE  Register!Next \/ UNCHANGED <<shown, Pending, Granted>>
    OBVIOUS
  <2>1. ASSUME UNCHANGED vars \/ \E id \in Ids : SourceChange(id) \/ ExternalWrite(id)
        PROVE  UNCHANGED <<shown, Pending, Granted>>
    <3>1. UNCHANGED <<proc, ledger, shown>>
      BY <2>1 DEF vars, SourceChange, ExternalWrite
    <3> QED
      BY <3>1 DEF Pending, Granted, Live, InForce, Readable, LatestAt, Latest
  <2> QED
    BY <2>1, CommandRefines, ReviewRefines, StartRefines, GrantRefines, RevokeRefines DEF Next
<1>3. TypeInv /\ TypeInv' /\ ApprovalInv /\ [Next]_vars => [Register!Next]_Register!regvars
  BY <1>2 DEF Register!regvars, Pending, Granted
<1> QED
  BY <1>1, <1>3, ApprovalInvariant, PTL DEF Spec, ImplementsRegister, Register!Spec

-----------------------------------------------------------------------------
(* Chunks larger than the prose limit.                                      *)

\* An approve command past its checks was within the caps by the ledger it
\* read; while its count is still the ledger's length, the lines since then
\* are its own, of entries it has done.
Capped ==
  \A p \in Procs : proc[p].op = "approve" =>
    /\ proc[p].at = "read" => proc[p].seq = proc[p].base
    /\ proc[p].at # "read" =>
         /\ WithinCaps(SubSeq(ledger, 1, proc[p].base), proc[p].snap, Pinned(p))
         /\ proc[p].seq = Len(ledger) =>
              \A j \in 1 .. Len(ledger) : proc[p].base < j => ledger[j].id \notin proc[p].todo

ChunkInv == Capped /\ LargeChunksAreFactsOnly

\* The same for one process, of values.
CappedAt(l, q) ==
  q.op = "approve" =>
    /\ q.at = "read" => q.seq = q.base
    /\ q.at # "read" =>
         /\ WithinCaps(SubSeq(l, 1, q.base), q.snap, {id \in Ids : q.pins[id] # None})
         /\ q.seq = Len(l) => \A j \in 1 .. Len(l) : q.base < j => l[j].id \notin q.todo

LEMMA CappedByProcess == Capped <=> \A p \in Procs : CappedAt(ledger, proc[p])
BY DEF Capped, CappedAt, Pinned

\* The latest record in a prefix.
LEMMA LatestInPrefix ==
  ASSUME NEW l \in Seq(LedgerRecords), NEW n \in 0 .. Len(l), NEW id
  PROVE  /\ \A i : i \in LatestAt(SubSeq(l, 1, n), id)
                     <=> /\ i \in 1 .. n /\ l[i].id = id
                         /\ \A j \in (i + 1) .. n : l[j].id # id
         /\ \A i \in 1 .. n : SubSeq(l, 1, n)[i] = l[i]
         /\ Len(SubSeq(l, 1, n)) = n /\ SubSeq(l, 1, n) \in Seq(LedgerRecords)
<1>1. /\ \A i \in 1 .. n : SubSeq(l, 1, n)[i] = l[i]
      /\ Len(SubSeq(l, 1, n)) = n /\ SubSeq(l, 1, n) \in Seq(LedgerRecords)
  OBVIOUS
<1>2. ASSUME NEW i
      PROVE  i \in LatestAt(SubSeq(l, 1, n), id)
               <=> i \in 1 .. n /\ l[i].id = id /\ \A j \in (i + 1) .. n : l[j].id # id
  BY <1>1 DEF LatestAt
<1> QED
  BY <1>1, <1>2

\* A longer ledger has the same prefixes.
LEMMA PrefixKept ==
  ASSUME NEW l \in Seq(LedgerRecords), NEW r \in LedgerRecords, NEW n \in 0 .. Len(l)
  PROVE  SubSeq(Append(l, r), 1, n) = SubSeq(l, 1, n)
OBVIOUS

\* Appending a line that keeps the large chunks right on its own account.
LEMMA LargeChunksKept ==
  ASSUME NEW r \in LedgerRecords, ledger \in Seq(LedgerRecords), ledger' = Append(ledger, r),
         LargeChunksAreFactsOnly,
         Readable(ledger)' /\ r.action = "approve" /\ Cardinality(r.chunk) > ProseLimit =>
           \E i \in LatestAt(ledger, r.id) :
             ledger[i].action = "approve" /\ ledger[i].digest.text = r.digest.text
  PROVE  LargeChunksAreFactsOnly'
<1>1. /\ Len(ledger') = Len(ledger) + 1 /\ Len(ledger) \in Nat /\ ledger'[Len(ledger')] = r
      /\ \A i \in 1 .. Len(ledger) : ledger'[i] = ledger[i]
  BY AppendedLine
<1>2. Readable(ledger') => Readable(ledger)
  BY <1>1 DEF Readable
<1> SUFFICES ASSUME Readable(ledger'), NEW j \in 1 .. Len(ledger'),
                    ledger'[j].action = "approve", Cardinality(ledger'[j].chunk) > ProseLimit
             PROVE  \E i \in LatestAt(SubSeq(ledger', 1, j - 1), ledger'[j].id) :
                      /\ ledger'[i].action = "approve"
                      /\ ledger'[i].digest.text = ledger'[j].digest.text
  BY DEF LargeChunksAreFactsOnly
<1>3. SubSeq(ledger', 1, j - 1) = SubSeq(ledger, 1, j - 1)
  BY <1>1, PrefixKept
<1> SUFFICES \E i \in 1 .. Len(ledger) :
               /\ i \in LatestAt(SubSeq(ledger, 1, j - 1), ledger'[j].id)
               /\ ledger'[i].action = "approve"
               /\ ledger'[i].digest.text = ledger'[j].digest.text
  BY <1>3, Zenon
<1>4. CASE j \in 1 .. Len(ledger)
  <2>1. PICK i \in LatestAt(SubSeq(ledger, 1, j - 1), ledger[j].id) :
          ledger[i].action = "approve" /\ ledger[i].digest.text = ledger[j].digest.text
    BY <1>1, <1>2, <1>4 DEF LargeChunksAreFactsOnly
  <2>2. i \in 1 .. Len(ledger)
    BY <1>1, <1>4, <2>1, LatestInPrefix
  <2>3. ledger'[i] = ledger[i] /\ ledger'[j] = ledger[j]
    BY <1>1, <1>4, <2>2
  <2> QED
    BY <2>1, <2>2, <2>3
<1>5. CASE j = Len(ledger')
  <2>1. PICK i \in LatestAt(ledger, r.id) :
          ledger[i].action = "approve" /\ ledger[i].digest.text = r.digest.text
    BY <1>1, <1>5 DEF Readable
  <2>2. SubSeq(ledger, 1, j - 1) = ledger
    BY <1>1, <1>5
  <2>3. i \in 1 .. Len(ledger)
    BY DEF LatestAt
  <2> QED
    BY <1>1, <1>5, <2>1, <2>2, <2>3
<1>6. j \in 1 .. Len(ledger) \/ j = Len(ledger')
  BY <1>1
<1> QED
  BY <1>4, <1>5, <1>6

\* A step that leaves the ledger and gives one process another record.
LEMMA ChunkQuiet ==
  ASSUME ChunkInv, NEW p \in Procs, UNCHANGED ledger, CappedAt(ledger, proc'[p]),
         \A r \in Procs : r # p => proc'[r] = proc[r]
  PROVE  ChunkInv'
<1>1. \A r \in Procs : CappedAt(ledger, proc'[r])
  BY CappedByProcess DEF ChunkInv
<1>2. Capped'
  BY <1>1 DEF Capped, CappedAt, Pinned
<1>3. LargeChunksAreFactsOnly'
  BY DEF ChunkInv, LargeChunksAreFactsOnly, Readable
<1> QED
  BY <1>2, <1>3 DEF ChunkInv

\* An approve command reads one entry more, or stamps one.
LEMMA ChunkReadStamp ==
  ASSUME TypeInv, ChunkInv, NEW p \in Procs, NEW id \in Ids,
         ApproveRead(p, id) \/ ApproveStamp(p, id)
  PROVE  ChunkInv'
<1> DEFINE snap == [proc[p].snap EXCEPT ![id] = file[id]]
           left == proc[p].todo \ {id}
<1>1. /\ UNCHANGED ledger /\ \A r \in Procs : r # p => proc'[r] = proc[r]
      /\ proc[p] \in ProcRecords /\ proc[p].op = "approve"
  BY DEF ApproveRead, ApproveStamp, Running, TypeInv, TypeOK
<1>2. CappedAt(ledger, proc[p])
  BY CappedByProcess DEF ChunkInv
<1>3. CASE ApproveRead(p, id)
  <2>0. proc[p].at = "read" /\ proc[p].seq = proc[p].base /\ proc[p].seq \in Nat
    BY <1>1, <1>2, <1>3 DEF ApproveRead, Running, CappedAt, ProcRecords
  <2>1. CASE proc' = [proc EXCEPT ![p] = [proc[p] EXCEPT !.snap = snap, !.todo = left]]
    <3> HIDE DEF snap
    <3>1. proc'[p] = [proc[p] EXCEPT !.snap = snap, !.todo = left]
      BY <2>1 DEF TypeInv, TypeOK
    <3>2. /\ proc'[p].at = "read" /\ proc'[p].seq = proc[p].seq /\ proc'[p].base = proc[p].base
      BY <1>1, <2>0, <3>1 DEF ProcRecords
    <3>3. CappedAt(ledger, proc'[p])
      BY <2>0, <3>2 DEF CappedAt
    <3> QED
      BY <1>1, <3>3, ChunkQuiet
  <2>2. ASSUME NEW s \in Stamps, WithinCaps(SubSeq(ledger, 1, proc[p].base), snap, Pinned(p)),
               proc' = [proc EXCEPT ![p] = [proc[p] EXCEPT !.snap = snap, !.todo = Pinned(p),
                          !.at = "stamp", !.stamp = s]]
        PROVE  ChunkInv'
    <3> HIDE DEF snap
    <3>1. proc'[p] = [proc[p] EXCEPT !.snap = snap, !.todo = Pinned(p), !.at = "stamp",
                                     !.stamp = s]
      BY <2>2 DEF TypeInv, TypeOK
    <3>2. /\ proc'[p].at = "stamp" /\ proc'[p].seq = proc[p].seq /\ proc'[p].base = proc[p].base
          /\ proc'[p].pins = proc[p].pins /\ proc'[p].snap = snap
      BY <1>1, <3>1 DEF ProcRecords
    <3>3. WithinCaps(SubSeq(ledger, 1, proc'[p].base), proc'[p].snap,
                     {k \in Ids : proc'[p].pins[k] # None})
      BY <2>2, <3>2 DEF Pinned
    <3>4. proc'[p].seq = Len(ledger) =>
            \A j \in 1 .. Len(ledger) : proc'[p].base < j => ledger[j].id \notin proc'[p].todo
      BY <2>0, <3>2
    <3>5. CappedAt(ledger, proc'[p])
      BY <3>2, <3>3, <3>4 DEF CappedAt
    <3> QED
      BY <1>1, <3>5, ChunkQuiet
  <2> QED
    BY <1>3, <2>1, <2>2 DEF ApproveRead
<1>4. CASE ApproveStamp(p, id)
  <2>1. proc'[p] = [proc[p] EXCEPT !.at = "append", !.id = id] /\ proc[p].at = "stamp"
    BY <1>4 DEF ApproveStamp, Running, TypeInv, TypeOK
  <2>2. /\ proc'[p].at = "append" /\ proc'[p].seq = proc[p].seq /\ proc'[p].base = proc[p].base
        /\ proc'[p].pins = proc[p].pins /\ proc'[p].snap = proc[p].snap
        /\ proc'[p].todo = proc[p].todo
    BY <1>1, <2>1 DEF ProcRecords
  <2>3. CappedAt(ledger, proc'[p])
    BY <1>1, <1>2, <2>1, <2>2 DEF CappedAt
  <2> QED
    BY <1>1, <2>3, ChunkQuiet
<1> QED
  BY <1>3, <1>4

\* Appending keeps what the other commands were judged by, and none of them
\* counts the new line.
LEMMA CappedAfter ==
  ASSUME TypeInv, ApprovalInv, Capped, NEW r \in LedgerRecords, ledger' = Append(ledger, r),
         NEW q \in Procs, proc'[q] = proc[q]
  PROVE  CappedAt(ledger', proc'[q])
<1> SUFFICES ASSUME proc[q].op = "approve" PROVE CappedAt(ledger', proc[q])
  BY DEF CappedAt
<1>1. Len(ledger') = Len(ledger) + 1 /\ Len(ledger) \in Nat /\ ledger \in Seq(LedgerRecords)
  BY AppendedLine DEF TypeInv, TypeOK
<1>2. /\ proc[q].base <= proc[q].seq /\ proc[q].seq <= Len(ledger)
      /\ proc[q].base \in Nat /\ proc[q].seq \in Nat
  BY DEF ApprovalInv, CountsHold, TypeInv, TypeOK, ProcRecords
<1>3. SubSeq(ledger', 1, proc[q].base) = SubSeq(ledger, 1, proc[q].base)
  <2>1. proc[q].base \in 0 .. Len(ledger)
    BY <1>1, <1>2
  <2> QED
    BY <1>1, <2>1, PrefixKept
<1>4. CappedAt(ledger, proc[q])
  BY CappedByProcess
<1>5. proc[q].seq # Len(ledger')
  BY <1>1, <1>2
<1> QED
  BY <1>3, <1>4, <1>5 DEF CappedAt

LEMMA ChunkRevoke ==
  ASSUME TypeInv, ApprovalInv, ChunkInv, NEW p \in Procs, RevokeAppend(p)
  PROVE  ChunkInv'
<1>1. PICK s \in Stamps :
        ledger' = Append(ledger,
          [seq |-> proc[p].seq + 1, action |-> "revoke", id |-> proc[p].id,
           digest |-> proc[p].pins[proc[p].id], stamp |-> s, chunk |-> {},
           base |-> proc[p].base])
  BY DEF RevokeAppend
<1> DEFINE rec == [seq |-> proc[p].seq + 1, action |-> "revoke", id |-> proc[p].id,
                   digest |-> proc[p].pins[proc[p].id], stamp |-> s, chunk |-> {},
                   base |-> proc[p].base]
<1>2. rec \in LedgerRecords /\ rec.action = "revoke"
  BY DEF RevokeAppend, Running, TypeInv, TypeOK, Shaped, Shape, ProcRecords, LedgerRecords
<1>3. ledger' = Append(ledger, rec) /\ ledger \in Seq(LedgerRecords)
  BY <1>1 DEF TypeInv, TypeOK
<1> HIDE DEF rec
<1>4. LargeChunksAreFactsOnly'
  BY <1>2, <1>3, LargeChunksKept DEF ChunkInv
<1>5. ASSUME NEW r \in Procs PROVE CappedAt(ledger', proc'[r])
  <2>1. CASE r = p
    BY <2>1 DEF RevokeAppend, Idle, CappedAt, TypeInv, TypeOK
  <2>2. CASE r # p
    BY <1>2, <1>3, <2>2, CappedAfter DEF RevokeAppend, ChunkInv, TypeInv, TypeOK
  <2> QED
    BY <2>1, <2>2
<1>6. Capped'
  BY <1>5 DEF Capped, CappedAt, Pinned
<1> QED
  BY <1>4, <1>6 DEF ChunkInv

LEMMA ChunkAppend ==
  ASSUME TypeInv, ApprovalInv, ChunkInv, NEW p \in Procs, ApproveAppend(p)
  PROVE  ChunkInv'
<1>0. PICK id \in Ids : id = proc[p].id
  <2>1. proc[p] \in ProcRecords /\ Shape(proc[p]) /\ proc[p].op = "approve"
           /\ proc[p].at = "append"
    BY DEF ApproveAppend, Running, TypeInv, TypeOK, Shaped
  <2> QED
    BY <2>1 DEF Shape, ProcRecords
<1> DEFINE left == proc[p].todo \ {id}
           chunk == Pinned(p)
           rec == [seq |-> proc[p].seq + 1, action |-> "approve", id |-> id,
                   digest |-> proc[p].snap[id].digest, stamp |-> proc[p].stamp,
                   chunk |-> chunk, base |-> proc[p].base]
<1>1. /\ proc[p] \in ProcRecords /\ Shape(proc[p])
      /\ proc[p].op = "approve" /\ proc[p].at = "append"
  BY DEF TypeInv, TypeOK, Shaped, ApproveAppend, Running
<1>2. /\ proc[p].pins[id] \in Digests /\ proc[p].stamp \in Stamps /\ id \in proc[p].todo
      /\ proc[p].snap[id].digest = proc[p].pins[id] /\ proc[p].pins[id] # None
  BY <1>0, <1>1, StoreAssumption DEF Shape, ProcRecords
<1>3. rec \in LedgerRecords /\ proc[p].seq \in Nat /\ proc[p].base \in Nat
  BY <1>1, <1>2 DEF LedgerRecords, Pinned, ProcRecords
<1>4. ledger' = Append(ledger, rec) /\ ledger \in Seq(LedgerRecords)
  BY <1>0 DEF ApproveAppend, NextSequence, TypeInv, TypeOK
<1>5. /\ rec.action = "approve" /\ rec.id = id /\ rec.digest = proc[p].snap[id].digest
      /\ rec.seq = proc[p].seq + 1 /\ rec.chunk = chunk
  OBVIOUS
<1>6. \A r \in Procs : r # p => proc'[r] = proc[r]
  BY DEF ApproveAppend, TypeInv, TypeOK
<1>7. proc'[p].op = "approve" =>
         /\ proc'[p].at = "stamp" /\ proc'[p].todo = left /\ proc'[p].snap = proc[p].snap
         /\ proc'[p].pins = proc[p].pins /\ proc'[p].base = proc[p].base
         /\ proc'[p].seq = proc[p].seq + 1
  <2>1. CASE left = {}
    BY <1>0, <2>1 DEF ApproveAppend, Idle, TypeInv, TypeOK
  <2>2. CASE left # {}
    <3>1. proc'[p] = [proc[p] EXCEPT !.at = "stamp", !.id = None, !.todo = left,
                                     !.seq = proc[p].seq + 1]
      BY <1>0, <2>2 DEF ApproveAppend, NextSequence, TypeInv, TypeOK
    <3> QED
      BY <1>1, <3>1 DEF ProcRecords
  <2> QED
    BY <2>1, <2>2
<1> HIDE DEF rec
<1>8. /\ Len(ledger') = Len(ledger) + 1 /\ Len(ledger) \in Nat /\ ledger'[Len(ledger')] = rec
      /\ \A i \in 1 .. Len(ledger) : ledger'[i] = ledger[i]
  BY <1>3, <1>4, AppendedLine
<1>9. /\ WithinCaps(SubSeq(ledger, 1, proc[p].base), proc[p].snap, chunk)
      /\ proc[p].seq = Len(ledger) =>
           \A j \in 1 .. Len(ledger) : proc[p].base < j => ledger[j].id \notin proc[p].todo
  BY <1>1 DEF ChunkInv, Capped
<1>10. proc[p].base \in 0 .. Len(ledger) /\ proc[p].seq <= Len(ledger)
  BY <1>1, <1>3, <1>8 DEF ApprovalInv, CountsHold
<1>11. ASSUME Readable(ledger)', Cardinality(chunk) > ProseLimit
       PROVE  \E i \in LatestAt(ledger, id) :
                ledger[i].action = "approve" /\ ledger[i].digest.text = rec.digest.text
  <2> DEFINE read == SubSeq(ledger, 1, proc[p].base)
  <2>1. proc[p].seq = Len(ledger)
    BY <1>3, <1>5, <1>8, <1>11 DEF Readable
  <2>2. ~ProseChanged(read, id, proc[p].snap[id])
    <3>1. Cardinality(chunk) \in Nat
      BY StoreAssumption, FS_Subset, FS_CardinalityType DEF Pinned
    <3>2. ~(Cardinality(chunk) <= ProseLimit)
      BY <1>11, <3>1, StoreAssumption
    <3> QED
      BY <1>2, <1>9, <3>2 DEF WithinCaps, Pinned
  <2>3. /\ \A i : i \in LatestAt(read, id)
                    <=> /\ i \in 1 .. proc[p].base /\ ledger[i].id = id
                        /\ \A j \in (i + 1) .. proc[p].base : ledger[j].id # id
        /\ \A i \in 1 .. proc[p].base : read[i] = ledger[i]
        /\ read \in Seq(LedgerRecords)
    BY <1>4, <1>10, LatestInPrefix, SMTT(20)
  <2> HIDE DEF read
  <2>4. PICK i \in LatestAt(read, id) : Latest(read, id) = read[i]
    BY <2>2, <2>3, LatestIsRecord DEF ProseChanged
  <2>5. i \in 1 .. proc[p].base /\ read[i] = ledger[i] /\ ledger[i] \in LedgerRecords
    BY <1>4, <1>10, <2>3, <2>4
  <2>6. ledger[i].action = "approve" /\ ledger[i].digest.text = proc[p].snap[id].digest.text
    BY <2>2, <2>4, <2>5 DEF ProseChanged, LedgerRecords
  <2>7. i \in LatestAt(ledger, id)
    <3>1. \A j \in (i + 1) .. Len(ledger) : ledger[j].id # id
      BY <1>2, <1>8, <1>9, <1>10, <2>1, <2>3, <2>4, <2>5
    <3> QED
      BY <1>8, <1>10, <2>3, <2>4, <2>5, <3>1 DEF LatestAt
  <2> QED
    BY <1>5, <2>6, <2>7
<1>12. LargeChunksAreFactsOnly'
  BY <1>3, <1>4, <1>5, <1>11, LargeChunksKept DEF ChunkInv
<1>13. CappedAt(ledger', proc'[p])
  <2> SUFFICES ASSUME proc'[p].op = "approve" PROVE CappedAt(ledger', proc'[p])
    BY DEF CappedAt
  <2>1. SubSeq(ledger', 1, proc[p].base) = SubSeq(ledger, 1, proc[p].base)
    BY <1>3, <1>4, <1>10, PrefixKept
  <2>2. proc[p].seq + 1 = Len(ledger') =>
          \A j \in 1 .. Len(ledger') : proc[p].base < j => ledger'[j].id \notin left
    <3> SUFFICES ASSUME proc[p].seq + 1 = Len(ledger'), NEW j \in 1 .. Len(ledger'),
                        proc[p].base < j
                 PROVE  ledger'[j].id \notin left
      OBVIOUS
    <3>1. CASE j \in 1 .. Len(ledger)
      BY <1>3, <1>8, <1>9, <3>1
    <3>2. CASE j = Len(ledger')
      BY <1>5, <1>8, <3>2
    <3> QED
      BY <1>8, <3>1, <3>2
  <2> QED
    BY <1>7, <1>9, <2>1, <2>2 DEF CappedAt, Pinned
<1>14. ASSUME NEW r \in Procs PROVE CappedAt(ledger', proc'[r])
  BY <1>3, <1>4, <1>6, <1>13, CappedAfter DEF ChunkInv
<1>15. Capped'
  BY <1>14 DEF Capped, CappedAt, Pinned
<1> QED
  BY <1>12, <1>15 DEF ChunkInv

LEMMA ChunkStart ==
  ASSUME TypeInv, ChunkInv, NEW p \in Procs, ApproveStart(p)
  PROVE  ChunkInv'
<1>1. PICK pins \in [Ids -> Digests \cup {None}] :
        proc' = [proc EXCEPT ![p] =
          [op |-> "approve", at |-> "read", id |-> None, pins |-> pins,
           todo |-> {id \in Ids : pins[id] # None}, snap |-> Nothing,
           base |-> Len(ledger), seq |-> Len(ledger), stamp |-> None]]
  BY DEF ApproveStart
<1>2. /\ UNCHANGED ledger /\ \A r \in Procs : r # p => proc'[r] = proc[r]
      /\ proc'[p].at = "read" /\ proc'[p].seq = proc'[p].base
  BY <1>1 DEF ApproveStart, TypeInv, TypeOK
<1>3. CappedAt(ledger, proc'[p])
  BY <1>2 DEF CappedAt
<1> QED
  BY <1>2, <1>3, ChunkQuiet

LEMMA ChunkNext == TypeInv /\ ApprovalInv /\ ChunkInv /\ [Next]_vars => ChunkInv'
<1> SUFFICES ASSUME TypeInv, ApprovalInv, ChunkInv, [Next]_vars PROVE ChunkInv'
  OBVIOUS
<1>1. ASSUME UNCHANGED <<ledger, proc>> PROVE ChunkInv'
  BY <1>1 DEF ChunkInv, Capped, Pinned, LargeChunksAreFactsOnly, Readable
<1>2. ASSUME UNCHANGED vars
               \/ \E id \in Ids : Review(id) \/ SourceChange(id) \/ ExternalWrite(id)
      PROVE  ChunkInv'
  BY <1>1, <1>2 DEF vars, Review, SourceChange, ExternalWrite
<1>3. ASSUME NEW p \in Procs, UNCHANGED ledger, proc'[p].op # "approve",
             \A r \in Procs : r # p => proc'[r] = proc[r]
      PROVE  ChunkInv'
  BY <1>3, ChunkQuiet DEF CappedAt
<1> QED
  BY <1>2, <1>3, OtherSteps, ChunkStart, ChunkReadStamp, ChunkAppend, ChunkRevoke DEF Next

LEMMA ChunkInvariant == Spec => [](TypeInv /\ ApprovalInv /\ ChunkInv)
<1>1. Init => ChunkInv
  BY DEF Init, ChunkInv, Capped, Idle, LargeChunksAreFactsOnly
<1> QED
  BY <1>1, ApprovalInvariant, ChunkNext, PTL DEF Spec

\* Whatever interleaves or dies, in a ledger that can be read a chunk beyond
\* the prose limit approves only texts that were approved before (chunk caps
\* of command_entry_approve).
THEOREM LargeChunksHold == Spec => []LargeChunksAreFactsOnly
<1>1. ChunkInv => LargeChunksAreFactsOnly
  BY DEF ChunkInv
<1> QED
  BY <1>1, ChunkInvariant, PTL

-----------------------------------------------------------------------------
(* One command at a time.                                                   *)

OneWriter == \A p, q \in Procs : p = q

\* A command that has counted a ledger counts it right.
CountedAt(q) ==
  /\ q.op = "approve" => q.seq = Len(ledger)
  /\ q.op = "revoke" /\ q.at = "append" => q.seq = Len(ledger)
  /\ q.op \in {"attach", "detach"} /\ q.at = "append" => q.seq = Len(orgLedger)

Counted == LedgersReadable /\ \A p \in Procs : CountedAt(proc[p])

LEMMA CountedNext == OneWriter /\ TypeInv /\ TypeInv' /\ Counted /\ [Next]_vars => Counted'
<1> SUFFICES ASSUME OneWriter, TypeInv, TypeInv', Counted, [Next]_vars PROVE Counted'
  OBVIOUS
<1>1. ASSUME UNCHANGED vars
               \/ \E id \in Ids : Review(id) \/ SourceChange(id) \/ ExternalWrite(id)
      PROVE  Counted'
  <2>1. UNCHANGED <<ledger, orgLedger, proc>>
    BY <1>1 DEF vars, Review, SourceChange, ExternalWrite
  <2> QED
    BY <2>1 DEF Counted, CountedAt, LedgersReadable, Readable
<1>2. ASSUME NEW p \in Procs, LedgersReadable', CountedAt(proc[p])' PROVE Counted'
  BY <1>2 DEF OneWriter, Counted
<1>3. ASSUME UNCHANGED <<ledger, orgLedger>> PROVE LedgersReadable'
  BY <1>3 DEF Counted, LedgersReadable, Readable
<1>4. /\ ledger \in Seq(LedgerRecords) /\ orgLedger \in Seq(OrgRecords)
      /\ Len(ledger) \in Nat /\ Len(orgLedger) \in Nat
      /\ ledger' \in Seq(LedgerRecords) /\ orgLedger' \in Seq(OrgRecords)
  BY DEF TypeInv, TypeOK
<1>5. ASSUME NEW p \in Procs,
             \/ \E id \in Ids : \/ DraftRead(p, id) \/ DescribeRead(p, id)
                                \/ RevokeStart(p, id) \/ OrgRead(p, id)
             \/ DraftPin(p) \/ AuthorWrite(p) \/ Stop(p)
      PROVE  Counted'
  <2>1. UNCHANGED <<ledger, orgLedger>>
    BY <1>5 DEF DraftRead, DescribeRead, RevokeStart, OrgRead, DraftPin, AuthorWrite, Stop
  <2>2. proc'[p].op # "approve"
    BY <1>5, OtherSteps
  <2>3. proc'[p].at # "append"
    <3>1. \/ \E op \in {"draft", "describe", "attach", "detach"}, at \in {"pin", "write"} :
               \E id, f : proc'[p] = Command(op, at, id, f)
          \/ proc'[p] = Idle \/ proc'[p].at = "count"
      <4>1. ASSUME NEW id \in Ids, DraftRead(p, id)
            PROVE  \E f : proc'[p] = Command("draft", "pin", id, f)
        BY <4>1 DEF DraftRead, TypeInv, TypeOK
      <4>2. ASSUME NEW id \in Ids, DescribeRead(p, id)
            PROVE  \E f : proc'[p] = Command("describe", "write", id, f)
        BY <4>2 DEF DescribeRead, TypeInv, TypeOK
      <4>3. ASSUME NEW id \in Ids, OrgRead(p, id)
            PROVE  \E op \in {"attach", "detach"} : \E f : proc'[p] = Command(op, "write", id, f)
        BY <4>3 DEF OrgRead, TypeInv, TypeOK
      <4>4. ASSUME DraftPin(p)
            PROVE  \E id, f : proc'[p] = Command("draft", "write", id, f)
        BY <4>4 DEF DraftPin, TypeInv, TypeOK
      <4>5. ASSUME NEW id \in Ids, RevokeStart(p, id) PROVE proc'[p].at = "count"
        BY <4>5 DEF RevokeStart, TypeInv, TypeOK
      <4>6. ASSUME AuthorWrite(p) \/ Stop(p) PROVE proc'[p] = Idle
        BY <4>6 DEF AuthorWrite, Stop, TypeInv, TypeOK
      <4> QED
        BY <1>5, <4>1, <4>2, <4>3, <4>4, <4>5, <4>6
    <3>2. \A op, id, f : /\ Command(op, "pin", id, f).at = "pin"
                         /\ Command(op, "write", id, f).at = "write"
      BY DEF Command
    <3>3. Idle.at = "start"
      BY DEF Idle
    <3> QED
      BY <3>1, <3>2, <3>3
  <2>4. CountedAt(proc[p])'
    BY <2>2, <2>3 DEF CountedAt
  <2> QED
    BY <1>2, <1>3, <2>1, <2>4
<1>6. ASSUME NEW p \in Procs, NEW id \in Ids, ApproveRead(p, id) \/ ApproveStamp(p, id)
      PROVE  Counted'
  <2> DEFINE snap == [proc[p].snap EXCEPT ![id] = file[id]]
             left == proc[p].todo \ {id}
  <2>1. UNCHANGED <<ledger, orgLedger>> /\ proc[p].op = "approve" /\ proc[p] \in ProcRecords
    BY <1>6 DEF ApproveRead, ApproveStamp, Running, TypeInv, TypeOK
  <2>2. \/ proc'[p] = [proc[p] EXCEPT !.snap = snap, !.todo = left]
        \/ \E s \in Stamps :
             proc'[p] = [proc[p] EXCEPT !.snap = snap, !.todo = Pinned(p), !.at = "stamp",
                                        !.stamp = s]
        \/ proc'[p] = [proc[p] EXCEPT !.at = "append", !.id = id]
    BY <1>6 DEF ApproveRead, ApproveStamp, TypeInv, TypeOK
  <2> HIDE DEF snap
  <2>3. proc'[p].op = "approve" /\ proc'[p].seq = proc[p].seq
    BY <2>1, <2>2 DEF ProcRecords
  <2>4. CountedAt(proc[p])'
    BY <2>1, <2>3 DEF Counted, CountedAt
  <2> QED
    BY <1>2, <1>3, <2>1, <2>4
<1>7. ASSUME NEW p \in Procs, ApproveStart(p) PROVE Counted'
  <2>1. /\ UNCHANGED <<ledger, orgLedger>> /\ proc'[p].op = "approve"
        /\ proc'[p].seq = Len(ledger)
    BY <1>7 DEF ApproveStart, TypeInv, TypeOK
  <2>2. CountedAt(proc[p])'
    BY <2>1 DEF CountedAt
  <2> QED
    BY <1>2, <1>3, <2>1, <2>2
<1>8. ASSUME NEW p \in Procs, ApproveAppend(p) PROVE Counted'
  <2>1. PICK r : /\ ledger' = Append(ledger, r) /\ r.seq = proc[p].seq + 1
                 /\ orgLedger' = orgLedger
    BY <1>8 DEF ApproveAppend, NextSequence
  <2>2. proc[p].op = "approve" /\ proc[p].at = "append" /\ proc[p] \in ProcRecords
    BY <1>8 DEF ApproveAppend, Running, TypeInv, TypeOK
  <2>3. proc[p].seq = Len(ledger)
    BY <2>2 DEF Counted, CountedAt
  <2>4. LedgersReadable' /\ Len(ledger') = Len(ledger) + 1
    BY <1>4, <2>1, <2>3 DEF Counted, LedgersReadable, Readable
  <2>5. CountedAt(proc[p])'
    <3> DEFINE left == proc[p].todo \ {proc[p].id}
    <3>1. CASE left = {}
      BY <1>8, <3>1 DEF ApproveAppend, Idle, CountedAt, TypeInv, TypeOK
    <3>2. CASE left # {}
      <4>1. proc'[p] = [proc[p] EXCEPT !.at = "stamp", !.id = None, !.todo = left,
                                       !.seq = proc[p].seq + 1]
        BY <1>8, <3>2 DEF ApproveAppend, NextSequence, TypeInv, TypeOK
      <4>2. proc'[p].op = "approve" /\ proc'[p].seq = proc[p].seq + 1
        BY <2>2, <4>1 DEF ProcRecords
      <4> QED
        BY <2>3, <2>4, <4>2 DEF CountedAt
    <3> QED
      BY <3>1, <3>2
  <2> QED
    BY <1>2, <2>4, <2>5
<1>9. ASSUME NEW p \in Procs, RevokeCount(p) PROVE Counted'
  <2>1. UNCHANGED <<ledger, orgLedger>> /\ proc[p].op = "revoke" /\ proc[p] \in ProcRecords
    BY <1>9 DEF RevokeCount, Running, TypeInv, TypeOK
  <2>2. proc'[p] = [proc[p] EXCEPT !.at = "append", !.base = Len(ledger), !.seq = Len(ledger)]
    BY <1>9 DEF RevokeCount, TypeInv, TypeOK
  <2>3. proc'[p].op = "revoke" /\ proc'[p].seq = Len(ledger)
    BY <2>1, <2>2 DEF ProcRecords
  <2>4. CountedAt(proc[p])'
    BY <2>1, <2>3 DEF CountedAt
  <2> QED
    BY <1>2, <1>3, <2>1, <2>4
<1>10. ASSUME NEW p \in Procs, RevokeAppend(p) PROVE Counted'
  <2>1. PICK r : /\ ledger' = Append(ledger, r) /\ r.seq = proc[p].seq + 1
                 /\ orgLedger' = orgLedger /\ proc'[p] = Idle
    BY <1>10 DEF RevokeAppend, TypeInv, TypeOK
  <2>2. proc[p].seq = Len(ledger)
    BY <1>10 DEF RevokeAppend, Running, Counted, CountedAt
  <2>3. LedgersReadable'
    BY <1>4, <2>1, <2>2 DEF Counted, LedgersReadable, Readable
  <2>4. CountedAt(proc[p])'
    BY <2>1 DEF CountedAt, Idle
  <2> QED
    BY <1>2, <2>3, <2>4
<1>11. ASSUME NEW p \in Procs, OrgWrite(p) \/ OrgCount(p) PROVE Counted'
  <2>1. /\ UNCHANGED <<ledger, orgLedger>> /\ proc[p].op \in {"attach", "detach"}
        /\ proc[p] \in ProcRecords
    BY <1>11 DEF OrgWrite, OrgCount, Running, TypeInv, TypeOK
  <2>2. \/ proc'[p] = [proc[p] EXCEPT !.at = "count"]
        \/ proc'[p] = [proc[p] EXCEPT !.at = "append", !.seq = Len(orgLedger)]
    BY <1>11 DEF OrgWrite, OrgCount, TypeInv, TypeOK
  <2>3. /\ proc'[p].op \in {"attach", "detach"}
        /\ proc'[p].at = "append" => proc'[p].seq = Len(orgLedger)
    BY <2>1, <2>2 DEF ProcRecords
  <2>4. CountedAt(proc[p])'
    BY <2>1, <2>3 DEF CountedAt
  <2> QED
    BY <1>2, <1>3, <2>1, <2>4
<1>12. ASSUME NEW p \in Procs, OrgAppend(p) PROVE Counted'
  <2>1. PICK r : /\ orgLedger' = Append(orgLedger, r) /\ r.seq = proc[p].seq + 1
                 /\ ledger' = ledger /\ proc'[p] = Idle
    BY <1>12 DEF OrgAppend, TypeInv, TypeOK
  <2>2. proc[p].seq = Len(orgLedger)
    BY <1>12 DEF OrgAppend, Running, Counted, CountedAt
  <2>3. LedgersReadable'
    BY <1>4, <2>1, <2>2 DEF Counted, LedgersReadable, Readable
  <2>4. CountedAt(proc[p])'
    BY <2>1 DEF CountedAt, Idle
  <2> QED
    BY <1>2, <2>3, <2>4
<1> QED
  BY <1>1, <1>5, <1>6, <1>7, <1>8, <1>9, <1>10, <1>11, <1>12 DEF Next

\* Commands that run one at a time leave both ledgers readable, whichever of
\* them die half-way, and each chunk keeps to the caps by what they say
\* (append_ledger, read_ledger, chunk caps of command_entry_approve).
THEOREM ChunksHold == OneWriter => (Spec => []ChunksRight)
<1> SUFFICES ASSUME OneWriter PROVE Spec => []ChunksRight
  OBVIOUS
<1>1. Init => Counted
  BY DEF Init, Counted, CountedAt, LedgersReadable, Readable, Idle
<1>2. TypeInv /\ TypeInv' /\ Counted /\ [Next]_vars => Counted'
  BY CountedNext
<1>3. Spec => []Counted
  BY <1>1, <1>2, TypeInit, TypeNext, PTL DEF Spec
<1>4. Counted /\ LargeChunksAreFactsOnly => ChunksRight
  BY DEF Counted, ChunksRight
<1> QED
  BY <1>3, <1>4, LargeChunksHold, PTL

\* What a command holds of an entry is still what the file holds: an org
\* command differs from it in the section only, an approval about to be
\* recorded is the stamped file, and what is approved is filled in.
FileKept(q) ==
  /\ q.op \in {"attach", "detach"} /\ q.at = "write" =>
       /\ file[q.id] # None
       /\ q.snap[q.id].state = file[q.id].state /\ q.snap[q.id].digest = file[q.id].digest
       /\ q.snap[q.id].pin = file[q.id].pin /\ q.snap[q.id].mirror = file[q.id].mirror
  /\ q.op = "approve" =>
       /\ \A id \in Ids : q.pins[id] # None /\ (q.at = "read" => id \notin q.todo) =>
            ~Invalid(q.snap[id])
       /\ q.at = "append" => file[q.id] = Approved(q.snap[q.id], q.stamp)

Kept == \A p \in Procs : FileKept(proc[p])

LEMMA KeptNext ==
  OneWriter /\ MaxEdits = 0 /\ TypeInv /\ Kept /\ [Next]_vars => Kept'
<1> SUFFICES ASSUME OneWriter, MaxEdits = 0, TypeInv, Kept, [Next]_vars PROVE Kept'
  OBVIOUS
<1>1. ASSUME UNCHANGED vars \/ \E id \in Ids : Review(id) \/ SourceChange(id)
      PROVE  Kept'
  <2>1. UNCHANGED <<file, proc>>
    BY <1>1 DEF vars, Review, SourceChange
  <2> QED
    BY <2>1 DEF Kept, FileKept
<1>2. ASSUME NEW id \in Ids PROVE ~ExternalWrite(id)
  BY DEF ExternalWrite, TypeInv, TypeOK
<1>3. ASSUME NEW p \in Procs, FileKept(proc[p])' PROVE Kept'
  BY <1>3 DEF OneWriter, Kept
<1>4. ASSUME NEW p \in Procs,
             \/ \E id \in Ids : DraftRead(p, id) \/ DescribeRead(p, id) \/ RevokeStart(p, id)
             \/ DraftPin(p) \/ AuthorWrite(p) \/ Stop(p)
             \/ RevokeCount(p) \/ RevokeAppend(p) \/ OrgWrite(p) \/ OrgCount(p) \/ OrgAppend(p)
      PROVE  Kept'
  <2>1. proc'[p].op # "approve"
    BY <1>4, OtherSteps DEF RevokeAppend, Idle, TypeInv, TypeOK
  <2>2. proc'[p].op \notin {"attach", "detach"} \/ proc'[p].at # "write"
    <3>1. proc[p] \in ProcRecords
      BY DEF TypeInv, TypeOK
    <3>2. ASSUME OrgWrite(p) \/ OrgCount(p) PROVE proc'[p].at # "write"
      <4>1. \/ proc'[p] = [proc[p] EXCEPT !.at = "count"]
            \/ proc'[p] = [proc[p] EXCEPT !.at = "append", !.seq = Len(orgLedger)]
        BY <3>2 DEF OrgWrite, OrgCount, TypeInv, TypeOK
      <4> QED
        BY <3>1, <4>1 DEF ProcRecords
    <3>3. ASSUME RevokeCount(p) PROVE proc'[p].at = "append"
      BY <3>1, <3>3 DEF RevokeCount, TypeInv, TypeOK, ProcRecords
    <3>4. ASSUME OrgAppend(p) \/ Stop(p) \/ AuthorWrite(p) \/ RevokeAppend(p)
          PROVE  proc'[p].op = "idle"
      BY <3>4 DEF OrgAppend, Stop, AuthorWrite, RevokeAppend, Idle, TypeInv, TypeOK
    <3>5. ASSUME NEW id \in Ids, RevokeStart(p, id) PROVE proc'[p].op = "revoke"
      BY <3>5 DEF RevokeStart, TypeInv, TypeOK
    <3>6. ASSUME DraftPin(p) PROVE proc'[p].op = "draft"
      BY <3>6 DEF DraftPin, Command, TypeInv, TypeOK
    <3>7. ASSUME NEW id \in Ids, DraftRead(p, id) PROVE proc'[p].op = "draft"
      BY <3>7 DEF DraftRead, Command, TypeInv, TypeOK
    <3>8. ASSUME NEW id \in Ids, DescribeRead(p, id) PROVE proc'[p].op = "describe"
      <4>1. \E f : proc'[p] = Command("describe", "write", id, f)
        BY <3>8 DEF DescribeRead, TypeInv, TypeOK
      <4> QED
        BY <4>1 DEF Command
    <3> QED
      BY <1>4, <3>2, <3>3, <3>4, <3>5, <3>6, <3>7, <3>8
  <2>3. FileKept(proc[p])'
    BY <2>1, <2>2 DEF FileKept
  <2> QED
    BY <1>3, <2>3
<1>5. ASSUME NEW p \in Procs, NEW id \in Ids, OrgRead(p, id) PROVE Kept'
  <2>1. PICK o \in Orgs, b \in Obs \cup {None}, op \in {"attach", "detach"} :
          proc'[p] = Command(op, "write", id, WithOrg(file[id], o, b))
    BY <1>5 DEF OrgRead, TypeInv, TypeOK
  <2>2. file[id] \in Files /\ file[id] # None /\ file' = file
    BY <1>5, StoreAssumption DEF OrgRead, TypeInv, TypeOK
  <2> DEFINE g == WithOrg(file[id], o, b)
  <2>3. /\ g.state = file[id].state /\ g.digest = file[id].digest
        /\ g.pin = file[id].pin /\ g.mirror = file[id].mirror
    BY <2>2 DEF WithOrg, Files
  <2> HIDE DEF g
  <2>4. /\ proc'[p].op \in {"attach", "detach"} /\ proc'[p].id = id
        /\ proc'[p].snap[id] = g
    BY <2>1 DEF g, Command, Only
  <2>5. FileKept(proc[p])'
    BY <2>2, <2>3, <2>4 DEF FileKept
  <2> QED
    BY <1>3, <2>5
<1>6. ASSUME NEW p \in Procs, ApproveStart(p) PROVE Kept'
  <2>1. /\ proc'[p].op = "approve" /\ proc'[p].at = "read"
        /\ \A id \in Ids : proc'[p].pins[id] # None => id \in proc'[p].todo
    BY <1>6 DEF ApproveStart, TypeInv, TypeOK
  <2>2. FileKept(proc[p])'
    BY <2>1 DEF FileKept
  <2> QED
    BY <1>3, <2>2
<1>7. ASSUME NEW p \in Procs, NEW id \in Ids, ApproveRead(p, id) PROVE Kept'
  <2> DEFINE snap == [proc[p].snap EXCEPT ![id] = file[id]]
             left == proc[p].todo \ {id}
  <2>1. /\ proc[p].op = "approve" /\ proc[p].at = "read" /\ proc[p] \in ProcRecords
        /\ ~Invalid(file[id]) /\ FileKept(proc[p])
    BY <1>7 DEF ApproveRead, Running, TypeInv, TypeOK, Kept
  <2>2. \A k \in Ids : proc[p].pins[k] # None /\ k \notin left => ~Invalid(snap[k])
    BY <2>1 DEF FileKept, ProcRecords
  <2> HIDE DEF snap
  <2>3. \/ proc'[p] = [proc[p] EXCEPT !.snap = snap, !.todo = left]
        \/ /\ left = {}
           /\ \E s \in Stamps :
                proc'[p] = [proc[p] EXCEPT !.snap = snap, !.todo = Pinned(p), !.at = "stamp",
                                           !.stamp = s]
    BY <1>7 DEF ApproveRead, TypeInv, TypeOK, snap
  <2>4. /\ proc'[p].op = "approve" /\ proc'[p].pins = proc[p].pins /\ proc'[p].snap = snap
        /\ \/ proc'[p].at = "read" /\ proc'[p].todo = left
           \/ proc'[p].at = "stamp" /\ left = {}
    BY <2>1, <2>3 DEF ProcRecords
  <2>5. FileKept(proc[p])'
    BY <2>2, <2>4 DEF FileKept, Invalid
  <2> QED
    BY <1>3, <2>5
<1>8. ASSUME NEW p \in Procs, NEW id \in Ids, ApproveStamp(p, id) PROVE Kept'
  <2>1. /\ proc[p].op = "approve" /\ proc[p].at = "stamp" /\ proc[p] \in ProcRecords
        /\ FileKept(proc[p]) /\ proc'[p] = [proc[p] EXCEPT !.at = "append", !.id = id]
        /\ file' = [file EXCEPT ![id] = Approved(proc[p].snap[id], proc[p].stamp)]
    BY <1>8 DEF ApproveStamp, Running, TypeInv, TypeOK, Kept
  <2>2. /\ proc'[p].op = "approve" /\ proc'[p].pins = proc[p].pins
        /\ proc'[p].snap = proc[p].snap /\ proc'[p].at = "append" /\ proc'[p].id = id
        /\ proc'[p].stamp = proc[p].stamp
    BY <2>1 DEF ProcRecords
  <2>3. file'[id] = Approved(proc[p].snap[id], proc[p].stamp)
    BY <2>1 DEF TypeInv, TypeOK
  <2>4. FileKept(proc[p])'
    BY <2>1, <2>2, <2>3 DEF FileKept, Invalid, Approved
  <2> QED
    BY <1>3, <2>4
<1>9. ASSUME NEW p \in Procs, ApproveAppend(p) PROVE Kept'
  <2> DEFINE left == proc[p].todo \ {proc[p].id}
  <2>1. /\ proc[p].op = "approve" /\ proc[p].at = "append" /\ proc[p] \in ProcRecords
        /\ FileKept(proc[p])
    BY <1>9 DEF ApproveAppend, Running, TypeInv, TypeOK, Kept
  <2>2. FileKept(proc[p])'
    <3>1. CASE left = {}
      BY <1>9, <3>1 DEF ApproveAppend, Idle, FileKept, TypeInv, TypeOK
    <3>2. CASE left # {}
      <4>1. proc'[p] = [proc[p] EXCEPT !.at = "stamp", !.id = None, !.todo = left,
                                       !.seq = proc[p].seq + 1]
        BY <1>9, <3>2 DEF ApproveAppend, NextSequence, TypeInv, TypeOK
      <4>2. /\ proc'[p].op = "approve" /\ proc'[p].pins = proc[p].pins
            /\ proc'[p].snap = proc[p].snap /\ proc'[p].at = "stamp"
        BY <2>1, <4>1 DEF ProcRecords
      <4> QED
        BY <2>1, <4>2 DEF FileKept, Invalid
    <3> QED
      BY <3>1, <3>2
  <2> QED
    BY <1>3, <2>2
<1> QED
  BY <1>1, <1>2, <1>4, <1>5, <1>6, <1>7, <1>8, <1>9 DEF Next

LEMMA OneWriterInvariant ==
  OneWriter /\ MaxEdits = 0 => (Spec => [](TypeInv /\ Counted /\ Kept))
<1> SUFFICES ASSUME OneWriter, MaxEdits = 0 PROVE Spec => [](TypeInv /\ Counted /\ Kept)
  OBVIOUS
<1>1. Init => Counted /\ Kept
  BY DEF Init, Counted, CountedAt, LedgersReadable, Readable, Kept, FileKept, Idle
<1>2. TypeInv /\ TypeInv' /\ Counted /\ Kept /\ [Next]_vars => Counted' /\ Kept'
  BY CountedNext, KeptNext
<1> QED
  BY <1>1, <1>2, TypeInit, TypeNext, PTL DEF Spec

\* An approval that a command stamps and records is effective from the moment
\* its line is written, if no other command and no checkout comes in between
\* and its source can be read (command_entry_approve, compute_lane).
THEOREM ApprovalsTakeEffect == OneWriter /\ MaxEdits = 0 => (Spec => ApprovalTakesEffect)
<1> SUFFICES ASSUME OneWriter, MaxEdits = 0 PROVE Spec => ApprovalTakesEffect
  OBVIOUS
<1>1. ASSUME TypeInv, TypeInv', Counted, Counted', Kept, [Next]_vars, NEW id \in Ids,
             Len(ledger') > Len(ledger), ledger'[Len(ledger')].action = "approve",
             ledger'[Len(ledger')].id = id, src[id] \in Versions
      PROVE  Effective(id)'
  <2>1. ledger' # ledger
    BY <1>1 DEF TypeInv, TypeOK
  <2>2. (\E p \in Procs : ApproveAppend(p)) \/ (\E p \in Procs : RevokeAppend(p))
    <3>1. ASSUME NEW p \in Procs,
                 \E k \in Ids : ApproveRead(p, k) \/ ApproveStamp(p, k)
          PROVE  UNCHANGED ledger
      BY <3>1 DEF ApproveRead, ApproveStamp
    <3>2. ASSUME NEW p \in Procs, ApproveStart(p) PROVE UNCHANGED ledger
      BY <3>2 DEF ApproveStart
    <3>3. \A k \in Ids : Review(k) \/ SourceChange(k) \/ ExternalWrite(k) => UNCHANGED ledger
      BY DEF Review, SourceChange, ExternalWrite
    <3>4. UNCHANGED vars => UNCHANGED ledger
      BY DEF vars
    <3> QED
      BY <1>1, <2>1, <3>1, <3>2, <3>3, <3>4, OtherSteps DEF Next
  <2>3. ASSUME NEW p \in Procs, RevokeAppend(p) PROVE FALSE
    <3>1. PICK r : ledger' = Append(ledger, r) /\ r.action = "revoke"
      BY <2>3 DEF RevokeAppend
    <3>2. ledger'[Len(ledger')] = r
      BY <3>1 DEF TypeInv, TypeOK
    <3> QED
      BY <1>1, <3>1, <3>2
  <2>4. PICK p \in Procs : ApproveAppend(p)
    BY <2>2, <2>3
  <2>5. /\ proc[p] \in ProcRecords /\ Shape(proc[p]) /\ FileKept(proc[p])
        /\ proc[p].op = "approve" /\ proc[p].at = "append"
    BY <1>1, <2>4 DEF TypeInv, TypeOK, Shaped, Kept, ApproveAppend, Running
  <2>6. PICK k \in Ids : k = proc[p].id
    BY <2>5 DEF Shape, ProcRecords
  <2> DEFINE f == proc[p].snap[k]
             r == [seq |-> proc[p].seq + 1, action |-> "approve", id |-> k,
                   digest |-> f.digest, stamp |-> proc[p].stamp, chunk |-> Pinned(p),
                   base |-> proc[p].base]
  <2>7. /\ f \in Files /\ proc[p].stamp \in Stamps /\ ~Invalid(f)
        /\ file[k] = Approved(f, proc[p].stamp)
    BY <2>5, <2>6, StoreAssumption DEF Shape, FileKept
  <2>8. r \in LedgerRecords
    BY <2>5, <2>7, FileParts DEF LedgerRecords, ProcRecords, Pinned
  <2>9. ledger' = Append(ledger, r) /\ UNCHANGED <<src, file>>
    BY <2>4, <2>6 DEF ApproveAppend, NextSequence
  <2>10. r.id = k /\ r.action = "approve" /\ r.digest = f.digest /\ r.stamp = proc[p].stamp
    OBVIOUS
  <2> HIDE DEF r, f
  <2>11. LatestAt(ledger', k) # {} /\ Latest(ledger', k) = r /\ ledger'[Len(ledger')] = r
    <3>1. ledger \in Seq(LedgerRecords)
      BY <1>1 DEF TypeInv, TypeOK
    <3>2. LatestAt(ledger', k) = {Len(ledger')} /\ Latest(ledger', k) = r
      BY <2>8, <2>9, <2>10, <3>1, LatestAfter
    <3>3. ledger'[Len(ledger')] = r
      BY <2>8, <2>9, <3>1, AppendedLine
    <3> QED
      BY <3>2, <3>3
  <2>12. k = id
    BY <1>1, <2>10, <2>11
  <2>13. /\ file'[id] # None /\ file'[id].state = "approved" /\ file'[id].digest = f.digest
         /\ file'[id].mirror = [digest |-> f.digest, stamp |-> proc[p].stamp]
         /\ file'[id].mirror # None /\ file'[id].pin = f.pin
    <3>1. file'[id] \in Files
      <4>1. Approved(f, proc[p].stamp) \in Files
        BY <2>7 DEF Approved, Files, Mirrors
      <4> QED
        BY <2>7, <2>9, <2>12, <4>1
    <3>2. [digest |-> f.digest, stamp |-> proc[p].stamp] \in Mirrors
      BY <2>7, FileParts DEF Mirrors
    <3>3. file'[id] = Approved(f, proc[p].stamp)
      BY <2>7, <2>9, <2>12
    <3>4. /\ file'[id].state = "approved" /\ file'[id].digest = f.digest
          /\ file'[id].mirror = [digest |-> f.digest, stamp |-> proc[p].stamp]
          /\ file'[id].pin = f.pin
      BY <2>7, <3>3 DEF Approved, Files
    <3> QED
      BY <3>1, <3>2, <3>4, StoreAssumption
  <2>14. Readable(ledger')
    BY <1>1 DEF Counted, LedgersReadable, Readable
  <2>15. /\ Readable(ledger)' /\ LatestAt(ledger, id)' # {} /\ Latest(ledger, id)' = r
    BY <2>11, <2>12, <2>14 DEF Readable, LatestAt, Latest
  <2>16. ~Invalid(file[id])' /\ src'[id] \in Versions
    BY <1>1, <2>7, <2>9, <2>13 DEF Invalid
  <2> QED
    BY <2>10, <2>13, <2>15, <2>16 DEF Effective, EffectiveLanes, Lane
<1>2. TypeInv /\ TypeInv' /\ Counted /\ Counted' /\ Kept /\ [Next]_vars =>
        [\A id \in Ids :
           /\ Len(ledger') > Len(ledger)
           /\ ledger'[Len(ledger')].action = "approve"
           /\ ledger'[Len(ledger')].id = id
           /\ src[id] \in Versions
           => Effective(id)']_vars
  BY <1>1
<1>3. Spec => [](TypeInv /\ Counted /\ Kept)
  BY OneWriterInvariant
<1> QED
  BY <1>2, <1>3, PTL DEF ApprovalTakesEffect, Spec

-----------------------------------------------------------------------------
(* One configured org.                                                      *)

OneOrg == \A o, q \in Orgs : o = q

\* A detach leaves no section, in the file it is about to write and in the
\* record of it.
DetachAt(q) == q.op = "detach" => q.snap[q.id].org = NoOrgs

Detached ==
  /\ \A i \in 1 .. Len(orgLedger) : orgLedger[i].action = "detach" => orgLedger[i].org = NoOrgs
  /\ \A p \in Procs : DetachAt(proc[p])

LEMMA DetachedNext == OneOrg /\ TypeInv /\ Detached /\ [Next]_vars => Detached'
<1> SUFFICES ASSUME OneOrg, TypeInv, Detached, [Next]_vars PROVE Detached'
  OBVIOUS
<1>1. ASSUME UNCHANGED orgLedger, NEW p \in Procs, DetachAt(proc'[p]),
             \A r \in Procs : r # p => proc'[r] = proc[r]
      PROVE  Detached'
  BY <1>1 DEF Detached, DetachAt
<1>2. ASSUME UNCHANGED vars
               \/ \E id \in Ids : Review(id) \/ SourceChange(id) \/ ExternalWrite(id)
      PROVE  Detached'
  <2>1. UNCHANGED <<orgLedger, proc>>
    BY <1>2 DEF vars, Review, SourceChange, ExternalWrite
  <2> QED
    BY <2>1 DEF Detached, DetachAt
<1>3. ASSUME NEW p \in Procs,
             \/ \E id \in Ids : \/ DraftRead(p, id) \/ DescribeRead(p, id) \/ RevokeStart(p, id)
                                \/ ApproveRead(p, id) \/ ApproveStamp(p, id)
             \/ DraftPin(p) \/ AuthorWrite(p) \/ Stop(p) \/ RevokeCount(p) \/ RevokeAppend(p)
             \/ ApproveStart(p) \/ ApproveAppend(p)
      PROVE  Detached'
  <2>1. UNCHANGED orgLedger /\ \A r \in Procs : r # p => proc'[r] = proc[r]
    BY <1>3 DEF DraftRead, DescribeRead, RevokeStart, ApproveRead, ApproveStamp, DraftPin,
       AuthorWrite, Stop, RevokeCount, RevokeAppend, ApproveStart, ApproveAppend, TypeInv, TypeOK
  <2>2. proc[p] \in ProcRecords
    BY DEF TypeInv, TypeOK
  <2>3. proc'[p].op # "detach"
    <3>1. ASSUME AuthorWrite(p) \/ Stop(p) \/ RevokeAppend(p) PROVE proc'[p].op = "idle"
      BY <3>1 DEF AuthorWrite, Stop, RevokeAppend, Idle, TypeInv, TypeOK
    <3>2. ASSUME NEW id \in Ids, RevokeStart(p, id) PROVE proc'[p].op = "revoke"
      BY <3>2 DEF RevokeStart, TypeInv, TypeOK
    <3>3. ASSUME RevokeCount(p) PROVE proc'[p].op = "revoke"
      BY <2>2, <3>3 DEF RevokeCount, Running, TypeInv, TypeOK, ProcRecords
    <3>4. ASSUME DraftPin(p) PROVE proc'[p].op = "draft"
      BY <3>4 DEF DraftPin, Command, TypeInv, TypeOK
    <3>5. ASSUME NEW id \in Ids, DraftRead(p, id) PROVE proc'[p].op = "draft"
      BY <3>5 DEF DraftRead, Command, TypeInv, TypeOK
    <3>6. ASSUME NEW id \in Ids, DescribeRead(p, id) PROVE proc'[p].op = "describe"
      <4>1. \E f : proc'[p] = Command("describe", "write", id, f)
        BY <3>6 DEF DescribeRead, TypeInv, TypeOK
      <4> QED
        BY <4>1 DEF Command
    <3>7. ASSUME ApproveStart(p) PROVE proc'[p].op = "approve"
      BY <3>7 DEF ApproveStart, TypeInv, TypeOK
    <3>8. ASSUME NEW id \in Ids, ApproveRead(p, id) PROVE proc'[p].op = "approve"
      <4> DEFINE snap == [proc[p].snap EXCEPT ![id] = file[id]]
                 left == proc[p].todo \ {id}
      <4>1. \/ proc'[p] = [proc[p] EXCEPT !.snap = snap, !.todo = left]
            \/ \E s \in Stamps :
                 proc'[p] = [proc[p] EXCEPT !.snap = snap, !.todo = Pinned(p), !.at = "stamp",
                                            !.stamp = s]
        BY <3>8 DEF ApproveRead, TypeInv, TypeOK
      <4>2. proc[p].op = "approve"
        BY <3>8 DEF ApproveRead, Running
      <4> HIDE DEF snap
      <4> QED
        BY <2>2, <4>1, <4>2 DEF ProcRecords
    <3>9. ASSUME NEW id \in Ids, ApproveStamp(p, id) PROVE proc'[p].op = "approve"
      BY <2>2, <3>9 DEF ApproveStamp, Running, TypeInv, TypeOK, ProcRecords
    <3>10. ASSUME ApproveAppend(p) PROVE proc'[p].op \in {"approve", "idle"}
      <4>1. \/ proc'[p] = Idle
            \/ proc'[p] = [proc[p] EXCEPT !.at = "stamp", !.id = None,
                             !.todo = proc[p].todo \ {proc[p].id}, !.seq = NextSequence(p)]
        BY <3>10 DEF ApproveAppend, TypeInv, TypeOK
      <4>2. proc[p].op = "approve"
        BY <3>10 DEF ApproveAppend, Running
      <4>3. Idle.op = "idle"
        BY DEF Idle
      <4> QED
        BY <2>2, <4>1, <4>2, <4>3 DEF ProcRecords
    <3> QED
      BY <1>3, <3>1, <3>2, <3>3, <3>4, <3>5, <3>6, <3>7, <3>8, <3>9, <3>10
  <2> QED
    BY <1>1, <2>1, <2>3 DEF DetachAt
<1>4. ASSUME NEW p \in Procs, NEW id \in Ids, OrgRead(p, id) PROVE Detached'
  <2>1. UNCHANGED orgLedger /\ \A r \in Procs : r # p => proc'[r] = proc[r]
    BY <1>4 DEF OrgRead, TypeInv, TypeOK
  <2>2. PICK o \in Orgs, b \in Obs \cup {None}, op \in {"attach", "detach"} :
          /\ op = "detach" => b = None
          /\ proc'[p] = Command(op, "write", id, WithOrg(file[id], o, b))
    BY <1>4 DEF OrgRead, TypeInv, TypeOK
  <2>3. op = "detach" => WithOrg(file[id], o, b).org = NoOrgs
    <3>1. file[id] \in Files
      BY <1>4 DEF OrgRead, TypeInv, TypeOK
    <3>2. WithOrg(file[id], o, b).org = [file[id].org EXCEPT ![o] = b]
      BY <3>1 DEF WithOrg, Files
    <3>3. file[id].org \in [Orgs -> Obs \cup {None}]
      BY <3>1 DEF Files, OrgSections
    <3> QED
      BY <2>2, <3>2, <3>3 DEF OneOrg, NoOrgs
  <2> DEFINE g == WithOrg(file[id], o, b)
  <2> HIDE DEF g
  <2>4. proc'[p].op = op /\ proc'[p].id = id /\ proc'[p].snap[id] = g
    BY <2>2 DEF g, Command, Only
  <2>5. DetachAt(proc'[p])
    BY <2>3, <2>4 DEF DetachAt, g
  <2> QED
    BY <1>1, <2>1, <2>5
<1>5. ASSUME NEW p \in Procs, OrgWrite(p) \/ OrgCount(p) PROVE Detached'
  <2>1. /\ UNCHANGED orgLedger /\ \A r \in Procs : r # p => proc'[r] = proc[r]
        /\ proc[p] \in ProcRecords
    BY <1>5 DEF OrgWrite, OrgCount, TypeInv, TypeOK
  <2>2. \/ proc'[p] = [proc[p] EXCEPT !.at = "count"]
        \/ proc'[p] = [proc[p] EXCEPT !.at = "append", !.seq = Len(orgLedger)]
    BY <1>5 DEF OrgWrite, OrgCount, TypeInv, TypeOK
  <2>3. /\ proc'[p].op = proc[p].op /\ proc'[p].snap = proc[p].snap
        /\ proc'[p].id = proc[p].id
    BY <2>1, <2>2 DEF ProcRecords
  <2>4. DetachAt(proc'[p])
    BY <2>3 DEF Detached, DetachAt
  <2> QED
    BY <1>1, <2>1, <2>4
<1>6. ASSUME NEW p \in Procs, OrgAppend(p) PROVE Detached'
  <2> DEFINE r == [seq |-> proc[p].seq + 1, action |-> proc[p].op, id |-> proc[p].id,
                   org |-> proc[p].snap[proc[p].id].org]
  <2>1. /\ orgLedger' = Append(orgLedger, r) /\ proc'[p] = Idle
        /\ \A q \in Procs : q # p => proc'[q] = proc[q]
    BY <1>6 DEF OrgAppend, TypeInv, TypeOK
  <2>2. r.action = "detach" => r.org = NoOrgs
    BY DEF Detached, DetachAt
  <2> HIDE DEF r
  <2>3. \A i \in 1 .. Len(orgLedger') :
          orgLedger'[i].action = "detach" => orgLedger'[i].org = NoOrgs
    BY <2>1, <2>2 DEF Detached, TypeInv, TypeOK
  <2>4. \A q \in Procs : DetachAt(proc'[q])
    BY <2>1 DEF Detached, DetachAt, Idle
  <2> QED
    BY <2>3, <2>4 DEF Detached, DetachAt
<1> QED
  BY <1>2, <1>3, <1>4, <1>5, <1>6 DEF Next

\* With one configured org, a section other than the one last recorded is
\* reported, whichever commands interleave or die (compute_org_lane).
THEOREM OneOrgMismatchSeen == OneOrg => (Spec => []OrgMismatchDetected)
<1> SUFFICES ASSUME OneOrg PROVE Spec => []OrgMismatchDetected
  OBVIOUS
<1>1. Init => Detached
  BY DEF Init, Detached, DetachAt, Idle
<1>2. TypeInv /\ Detached /\ [Next]_vars => Detached'
  BY DetachedNext
<1>3. TypeInv /\ Detached => OrgMismatchDetected
  <2> SUFFICES ASSUME TypeInv, Detached, NEW id \in Ids, Readable(orgLedger), file[id] # None,
                      file[id].org # IF LatestAt(orgLedger, id) = {} THEN NoOrgs
                                     ELSE Latest(orgLedger, id).org
               PROVE  OrgSection(id) = "org-not-effective"
    BY DEF OrgMismatchDetected
  <2>1. CASE LatestAt(orgLedger, id) = {}
    BY <2>1 DEF OrgSection
  <2>2. CASE LatestAt(orgLedger, id) # {}
    <3>1. PICK i \in LatestAt(orgLedger, id) : Latest(orgLedger, id) = orgLedger[i]
      BY <2>2, LatestIsRecord DEF TypeInv, TypeOK
    <3>2. i \in 1 .. Len(orgLedger) /\ orgLedger[i] \in OrgRecords
      BY <3>1 DEF LatestAt, TypeInv, TypeOK
    <3>3. orgLedger[i].action = "attach" \/ orgLedger[i].org = NoOrgs
      BY <3>2 DEF Detached, OrgRecords
    <3> QED
      BY <2>2, <3>1, <3>3 DEF OrgSection
  <2> QED
    BY <2>1, <2>2
<1> QED
  BY <1>1, <1>2, <1>3, TypeInit, TypeNext, PTL DEF Spec
=============================================================================
