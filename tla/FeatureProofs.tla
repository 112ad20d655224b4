---------------------------- MODULE FeatureProofs ----------------------------
(***************************************************************************)
(* Proofs about FeatureKnowledge for any number of features, authors and   *)
(* entries, any batches of operations and documents of any size.           *)
(***************************************************************************)
EXTENDS FeatureKnowledge, FiniteSetTheorems, SequenceTheorems, WellFoundedInduction, TLAPS

-----------------------------------------------------------------------------
(* Documents. *)

Fields == {"rows", "entryPoints", "body", "keywords", "version", "state", "mirror"}

\* A stamp changes nothing of what validation and the reviewed digest read.
LEMMA StampKeepsContent ==
  ASSUME NEW d, d = [x \in Fields |-> d[x]]
  PROVE  /\ Stamped(d) = [x \in Fields |-> Stamped(d)[x]]
         /\ Stamped(d).state = "approved"
         /\ Stamped(d).version = d.version
         /\ Digest(Stamped(d)) = Digest(d)
         /\ Valid(Stamped(d)) <=> Valid(d)
<1> DEFINE s == Stamped(d)
<1>1. /\ s.rows = d.rows /\ s.entryPoints = d.entryPoints /\ s.body = d.body
      /\ s.keywords = d.keywords /\ s.state = "approved" /\ s.version = d.version
      /\ s = [x \in Fields |-> s[x]]
  BY DEF Stamped, Fields
<1>2. Digest(s) = Digest(d)
  BY <1>1 DEF Digest
<1> HIDE DEF s
<1>3. \A id : Row(s, id) = Row(d, id)
  BY <1>1 DEF Row
<1>4. \A k : LiveIds(s, k) = LiveIds(d, k)
  BY <1>1, <1>3 DEF LiveIds
<1>5. AllLive(s) = AllLive(d)
  BY <1>4 DEF AllLive
<1>6. Closed(s) <=> Closed(d)
  BY <1>1, <1>3, <1>4, <1>5 DEF Closed
<1>7. Authorized(s) <=> Authorized(d)
  BY <1>3, <1>4 DEF Authorized
<1>8. Valid(s) <=> Valid(d)
  BY <1>1, <1>6, <1>7 DEF Valid, Admissible
<1> QED
  BY <1>1, <1>2, <1>8 DEF s

-----------------------------------------------------------------------------
(* What is stamped was reviewed. *)

Shaped(d) == d = [x \in Fields |-> d[x]]

Rendered(f, d) == Valid(d) /\ <<f, Digest(d)>> \in shown

Functions ==
  file = [f \in Features |-> file[f]] /\ proc = [p \in Procs |-> proc[p]]

\* An approved document, there or in git, is one that was rendered.
Documents ==
  /\ \A f \in Features : file[f] # None =>
       Shaped(file[f]) /\ (file[f].state = "approved" => Rendered(f, file[f]))
  /\ \A s \in committed : Shaped(s[2]) /\ Rendered(s[1], s[2])

\* What a command is about to write: a record a draft, an approval a document
\* of its chunk as it was rendered.
Right(c) ==
  /\ c.at = "write" => Shaped(c.doc) /\ c.doc.state = "draft"
  /\ c.at \in {"read", "stamp"} =>
       /\ c.todo \subseteq DOMAIN c.pins
       /\ \A f \in DOMAIN c.pins : <<f, c.pins[f]>> \in shown
  /\ c.at = "stamp" => Shaped(c.doc) /\ Rendered(c.f, c.doc)

Commands == \A p \in Procs : Right(proc[p])

Inv == Functions /\ Documents /\ Commands

\* A record leaves a draft of a document's shape.
LEMMA RecordedDraft ==
  ASSUME NEW d, NEW batch, NEW receipt, Recorded(d, batch, receipt) # None
  PROVE  /\ Shaped(Recorded(d, batch, receipt))
         /\ Recorded(d, batch, receipt).state = "draft"
         /\ Recorded(d, batch, receipt).version = d.version + 1
<1> DEFINE r == Recorded(d, batch, receipt)
<1>1. PICK a : r = [rows |-> a.rows, entryPoints |-> a.entryPoints, body |-> a.body,
                    keywords |-> a.keywords, version |-> d.version + 1, state |-> "draft",
                    mirror |-> None]
  BY Zenon DEF Recorded
<1> HIDE DEF r
<1>2. /\ r = [x \in Fields |-> r[x]] /\ r.state = "draft" /\ r.version = d.version + 1
  BY <1>1 DEF Fields
<1> QED
  BY <1>2 DEF r, Shaped

\* Nothing is written, stamped or under way at the start.
LEMMA StampsInit ==
  Init => Inv
<1> SUFFICES ASSUME Init PROVE Inv
  OBVIOUS
<1>1. Functions
  BY DEF Init, Functions
<1>2. Documents
  BY DEF Init, Documents
<1>3. Commands
  BY DEF Init, Commands, Right, Idle
<1> QED
  BY <1>1, <1>2, <1>3 DEF Inv

\* Where only one process changes, and nothing rendered is forgotten, its new
\* command decides.
LEMMA CommandsKept ==
  ASSUME Inv, shown \subseteq shown', NEW p \in Procs, NEW command,
         Begin(p, command) \/ Continue(p, command), Right(command)'
  PROVE  Commands'
<1>1. proc' = [proc EXCEPT ![p] = command]
  BY DEF Begin, Continue
<1>2. proc'[p] = command
  BY <1>1 DEF Inv, Functions
<1>3. ASSUME NEW q \in Procs PROVE Right(proc[q])'
  <2>1. CASE q = p
    BY <1>2, <2>1 DEF Right, Rendered, Shaped
  <2>2. CASE q # p
    BY <1>1, <2>2 DEF Inv, Functions, Commands, Right, Rendered
  <2> QED
    BY <2>1, <2>2
<1> QED
  BY <1>3 DEF Commands

\* Starting a command that writes nothing yet, or ending one, with documents
\* and what was rendered as they were.
LEMMA HarmlessStep ==
  ASSUME Inv, NEW p \in Procs, NEW command,
         Begin(p, command) \/ Continue(p, command), UNCHANGED <<file, committed>>,
         shown = shown', Right(command)
  PROVE  Inv'
<1>1. Commands'
  BY CommandsKept DEF Right, Rendered
<1>2. Documents'
  BY DEF Inv, Documents, Rendered
<1>3. Functions'
  BY DEF Inv, Functions, Begin, Continue
<1> QED
  BY <1>1, <1>2, <1>3 DEF Inv

\* Writing one document, which if approved is one that was rendered.
LEMMA WritingStep ==
  ASSUME Inv, NEW p \in Procs, NEW command, NEW f, NEW d,
         Continue(p, command), file' = [file EXCEPT ![f] = d],
         shown = shown', Right(command), Shaped(d),
         d.state = "approved" => Rendered(f, d),
         \/ committed' = committed
         \/ committed' = committed \cup {<<f, d>>} /\ Rendered(f, d)
  PROVE  Inv'
<1>1. Commands'
  BY CommandsKept DEF Right, Rendered
<1>2. \A g \in Features : file'[g] = IF g = f THEN d ELSE file[g]
  BY DEF Inv, Functions
<1>3. \A g \in Features : file'[g] # None =>
        Shaped(file'[g]) /\ (file'[g].state = "approved" => Rendered(g, file'[g]))
  BY <1>2 DEF Inv, Documents
<1>4. \A s \in committed' : Shaped(s[2]) /\ Rendered(s[1], s[2])
  BY DEF Inv, Documents
<1>5. Documents'
  BY <1>3, <1>4 DEF Documents, Rendered
<1>6. Functions'
  BY DEF Inv, Functions, Continue
<1> QED
  BY <1>1, <1>5, <1>6 DEF Inv

\* Every step keeps approved documents to what was rendered.
LEMMA StampsNext ==
  Inv /\ [Next]_vars => Inv'
<1> SUFFICES ASSUME Inv, [Next]_vars PROVE Inv'
  OBVIOUS
<1> USE DEF Finish
<1> Right(Idle)
  BY DEF Right, Idle
<1>1. ASSUME NEW p \in Procs, NEW f \in Features, OpenMissing(p, f) PROVE Inv'
  <2> PICK c : c = [at |-> "open", f |-> f]
    OBVIOUS
  <2> QED
    BY <1>1, HarmlessStep DEF OpenMissing, Right
<1>2. ASSUME NEW p \in Procs, NEW f \in Features, Resume(p, f) PROVE Inv'
  BY <1>2 DEF Resume, Inv, Functions, Documents, Commands, Right, Rendered
<1>3. ASSUME NEW p \in Procs, NEW f \in Features, NEW batch \in Batches, RecordStart(p, f, batch)
      PROVE  Inv'
  <2> PICK c : c = [at |-> "apply", f |-> f, doc |-> file[f], batch |-> batch]
    OBVIOUS
  <2> QED
    BY <1>3, HarmlessStep DEF RecordStart, Right
<1>4. ASSUME NEW p \in Procs, OpenWrite(p) PROVE Inv'
  <2> PICK f : f = proc[p].f
    OBVIOUS
  <2> PICK d : d = NewDocument
    OBVIOUS
  <2>1. Shaped(d) /\ d.state = "draft"
    BY DEF NewDocument, Shaped, Fields
  <2> QED
    BY <1>4, <2>1, WritingStep DEF OpenWrite
<1>5. ASSUME NEW p \in Procs, RecordApply(p) PROVE Inv'
  <2> PICK d : d = Recorded(proc[p].doc, proc[p].batch, entry)
    OBVIOUS
  <2> PICK c : c = [at |-> "write", f |-> proc[p].f, doc |-> d]
    OBVIOUS
  <2>1. CASE d = None
    BY <1>5, <2>1, HarmlessStep DEF RecordApply
  <2>2. CASE d # None
    <3>1. Right(c)
      BY <2>2, RecordedDraft DEF Right
    <3> QED
      BY <1>5, <2>2, <3>1, HarmlessStep DEF RecordApply
  <2> QED
    BY <2>1, <2>2
<1>6. ASSUME NEW p \in Procs, RecordWrite(p) PROVE Inv'
  <2> PICK f : f = proc[p].f
    OBVIOUS
  <2> PICK d : d = proc[p].doc
    OBVIOUS
  <2>1. Shaped(d) /\ d.state = "draft"
    BY <1>6 DEF RecordWrite, At, Inv, Commands, Right
  <2> QED
    BY <1>6, <2>1, WritingStep DEF RecordWrite
<1>7. ASSUME NEW f \in Features, Review(f) PROVE Inv'
  <2>1. shown \subseteq shown' /\ UNCHANGED <<file, proc, committed>>
    BY <1>7 DEF Review
  <2> QED
    BY <2>1 DEF Inv, Functions, Documents, Commands, Right, Rendered
<1>8. ASSUME NEW p \in Procs, NEW pins \in Pins, ApproveStart(p, pins) PROVE Inv'
  <2> PICK c : c = [at |-> "read", todo |-> DOMAIN pins, pins |-> pins, lines |-> <<>>]
    OBVIOUS
  <2>1. Right(c)
    BY <1>8 DEF ApproveStart, Right
  <2> QED
    BY <1>8, <2>1, HarmlessStep DEF ApproveStart
<1>9. ASSUME NEW p \in Procs, NEW f \in Features, ApproveRead(p, f) PROVE Inv'
  <2> PICK c : c = [at |-> "stamp", todo |-> proc[p].todo, f |-> f, pins |-> proc[p].pins,
                    lines |-> proc[p].lines, doc |-> Stamped(file[f])]
    OBVIOUS
  <2>1. CASE AsPinned(file[f], proc[p].pins[f])
    <3>1. Shaped(Stamped(file[f])) /\ Rendered(f, Stamped(file[f]))
      <4>1. f \in DOMAIN proc[p].pins /\ <<f, proc[p].pins[f]>> \in shown
        BY <1>9 DEF ApproveRead, At, Inv, Commands, Right
      <4>2. /\ file[f] # None /\ Valid(file[f]) /\ Digest(file[f]) = proc[p].pins[f]
            /\ file[f] = [x \in Fields |-> file[f][x]]
        BY <2>1 DEF AsPinned, Inv, Documents, Shaped
      <4> PICK d : d = file[f]
        OBVIOUS
      <4>3. /\ Stamped(d) = [x \in Fields |-> Stamped(d)[x]]
            /\ Digest(Stamped(d)) = Digest(d)
            /\ Valid(Stamped(d)) <=> Valid(d)
        BY <4>2, StampKeepsContent
      <4> QED
        BY <4>1, <4>2, <4>3 DEF Shaped, Rendered
    <3>2. Right(c)
      BY <1>9, <3>1 DEF ApproveRead, At, Inv, Commands, Right
    <3> QED
      BY <1>9, <2>1, <3>2, HarmlessStep DEF ApproveRead
  <2>2. CASE ~AsPinned(file[f], proc[p].pins[f])
    BY <1>9, <2>2, HarmlessStep DEF ApproveRead
  <2> QED
    BY <2>1, <2>2
<1>10. ASSUME NEW p \in Procs, ApproveStamp(p) PROVE Inv'
  <2> PICK f : f = proc[p].f
    OBVIOUS
  <2> PICK d : d = proc[p].doc
    OBVIOUS
  <2> PICK c : c = NextOfChunk(proc[p])
    OBVIOUS
  <2>1. Right(c)
    BY <1>10 DEF ApproveStamp, At, Inv, Commands, Right, NextOfChunk
  <2>2. Shaped(d) /\ Rendered(f, d)
    BY <1>10 DEF ApproveStamp, At, Inv, Commands, Right
  <2> QED
    BY <1>10, <2>1, <2>2, WritingStep DEF ApproveStamp
<1>11. ASSUME NEW p \in Procs, NEW f \in Features, RevokeStart(p, f) PROVE Inv'
  <2> PICK c : c = [at |-> "count",
                    lines |-> <<[action |-> "revoke", f |-> f, digest |-> None]>>]
    OBVIOUS
  <2> QED
    BY <1>11, HarmlessStep DEF RevokeStart, Right
<1>12. ASSUME NEW p \in Procs, LedgerCount(p) PROVE Inv'
  <2> PICK c : c = [at |-> "append", lines |-> proc[p].lines, count |-> Len(ledger)]
    OBVIOUS
  <2> QED
    BY <1>12, HarmlessStep DEF LedgerCount, Right
<1>13. ASSUME NEW p \in Procs, LedgerAppend(p) \/ CiteIssue(p) \/ Stop(p) PROVE Inv'
  BY <1>13, HarmlessStep DEF LedgerAppend, CiteIssue, Stop
<1>14. ASSUME NEW p \in Procs, NEW f \in Features, CiteStart(p, f) PROVE Inv'
  <2> PICK c : c = [at |-> "cite", f |-> f, record |-> Latest(f)]
    OBVIOUS
  <2> QED
    BY <1>14, HarmlessStep DEF CiteStart, Right
<1>15. ASSUME NEW p \in Procs, CiteRead(p) PROVE Inv'
  <2> PICK c : c = [at |-> "resolve", f |-> proc[p].f, record |-> proc[p].record,
                    doc |-> file[proc[p].f]]
    OBVIOUS
  <2> QED
    BY <1>15, HarmlessStep DEF CiteRead, Right
<1>16. ASSUME NEW p \in Procs, NEW id, NEW pinned, CiteResolve(p, id, pinned) PROVE Inv'
  <2> PICK c : c = [at |-> "issue", f |-> proc[p].f, digest |-> Digest(proc[p].doc), id |-> id]
    OBVIOUS
  <2>1. Continue(p, c) \/ Continue(p, Idle)
    BY <1>16, Zenon DEF CiteResolve
  <2>2. UNCHANGED <<file, committed, shown>>
    BY <1>16 DEF CiteResolve
  <2>3. Right(c)
    BY DEF Right
  <2> QED
    BY <2>1, <2>2, <2>3, HarmlessStep
<1>17. ASSUME NEW f \in Features, CheckOut(f) PROVE Inv'
  <2>1. PICK s \in committed : s[1] = f /\ file' = [file EXCEPT ![f] = s[2]]
    BY <1>17 DEF CheckOut
  <2>2. UNCHANGED <<proc, shown, committed>>
    BY <1>17 DEF CheckOut
  <2>3. /\ file' = [g \in Features |-> file'[g]]
        /\ \A g \in Features : file'[g] = IF g = f THEN s[2] ELSE file[g]
    BY <2>1 DEF Inv, Functions
  <2>4. Shaped(s[2]) /\ Rendered(f, s[2])
    BY <2>1 DEF Inv, Documents
  <2>5. \A g \in Features : file'[g] # None =>
          Shaped(file'[g]) /\ (file'[g].state = "approved" => Rendered(g, file'[g]))
    BY <2>3, <2>4 DEF Inv, Documents
  <2>6. Documents'
    BY <2>2, <2>5 DEF Inv, Documents, Rendered
  <2>7. Commands'
    BY <2>2 DEF Inv, Commands, Right, Rendered
  <2> QED
    BY <2>2, <2>3, <2>6, <2>7 DEF Inv, Functions
<1>18. ASSUME NEW e \in Entries, EntryChanges(e) PROVE Inv'
  BY <1>18 DEF EntryChanges, Inv, Functions, Documents, Commands, Right, Rendered
<1>19. CASE UNCHANGED vars
  BY <1>19 DEF vars, Inv, Functions, Documents, Commands, Right, Rendered
<1>20. CASE \E p \in Procs, f \in Features :
              \/ OpenMissing(p, f) \/ Resume(p, f)
              \/ \E batch \in Batches : RecordStart(p, f, batch)
              \/ ApproveRead(p, f) \/ RevokeStart(p, f) \/ CiteStart(p, f)
  BY <1>20, <1>1, <1>2, <1>3, <1>9, <1>11, <1>14
<1>21. CASE \E p \in Procs :
              \/ OpenWrite(p) \/ RecordApply(p) \/ RecordWrite(p)
              \/ \E pins \in Pins : ApproveStart(p, pins)
              \/ ApproveStamp(p) \/ LedgerCount(p) \/ LedgerAppend(p)
              \/ CiteRead(p) \/ CiteIssue(p) \/ Stop(p)
              \/ \E id \in {"FC", "FR"} \X (1 .. 3), pinned \in {None} \cup {s[2] : s \in shown} :
                   CiteResolve(p, id, pinned)
  BY <1>21, <1>4, <1>5, <1>6, <1>8, <1>10, <1>12, <1>13, <1>15, <1>16
<1>22. CASE \/ \E f \in Features : Review(f) \/ CheckOut(f)
            \/ \E e \in Entries : EntryChanges(e)
  BY <1>22, <1>7, <1>17, <1>18
<1> QED
  BY <1>19, <1>20, <1>21, <1>22 DEF Next

\* A document that says it is approved holds content that feature-review
\* rendered and that validates, for any number of features, authors and
\* batches: feature-approve stamps nothing else, however commands interleave,
\* die or are refused half-way.
THEOREM StampsWereReviewed == Spec => []StampedWasReviewed
<1>1. Inv => StampedWasReviewed
  BY DEF Inv, Documents, StampedWasReviewed, Rendered
<1> QED
  BY <1>1, StampsInit, StampsNext, PTL DEF Spec

-----------------------------------------------------------------------------
(* Batches: a record leaves a typed document.                              *)

\* Induction over the natural numbers, for a set.
LEMMA SetInduction ==
  ASSUME NEW S, 0 \in S, \A n \in Nat : n \in S => n + 1 \in S
  PROVE  Nat \subseteq S
<1> DEFINE T == Nat \ S
<1>1. ASSUME T # {} PROVE FALSE
  <2>1. PICK x \in T : \A y \in T : ~(<<y, x>> \in OpToRel(<, Nat))
    BY <1>1, WFMin, NatLessThanWellFounded
  <2>2. \A y \in T : ~(y < x)
    BY <2>1 DEF OpToRel
  <2>3. x - 1 \in Nat /\ x - 1 < x /\ (x - 1) + 1 = x
    OBVIOUS
  <2> QED
    BY <2>2, <2>3
<1> QED
  BY <1>1

\* What stage i of a batch is, given the stages before it.
Stage(g, i, d, batch, receipt) ==
  IF i = 0 THEN d
  ELSE IF g[i - 1] = None THEN None
  ELSE ApplyOperation(g[i - 1], batch[i], receipt)

\* The stages of a batch follow each other as they are defined.
LEMMA AfterDefined ==
  ASSUME NEW d, NEW batch, NEW receipt, Len(batch) \in Nat
  PROVE  /\ After(d, batch, receipt)[0] = d
         /\ \A i \in 1 .. Len(batch) :
              After(d, batch, receipt)[i] =
                Stage(After(d, batch, receipt), i, d, batch, receipt)
<1> PICK n \in Nat : n = Len(batch)
  OBVIOUS
<1> PICK after : after = After(d, batch, receipt)
  OBVIOUS
<1> DEFINE S == {m \in Nat : \E g : g = [i \in 0 .. m |-> Stage(g, i, d, batch, receipt)]}
<1>1. 0 \in S
  <2> DEFINE g == [i \in 0 .. 0 |-> d]
  <2>1. g = [i \in 0 .. 0 |-> Stage(g, i, d, batch, receipt)]
    BY DEF Stage
  <2> HIDE DEF g
  <2> QED
    BY <2>1
<1>2. ASSUME NEW m \in Nat, m \in S PROVE m + 1 \in S
  <2> PICK g : g = [i \in 0 .. m |-> Stage(g, i, d, batch, receipt)]
    BY <1>2
  <2> DEFINE h == [i \in 0 .. m + 1 |-> IF i <= m THEN g[i] ELSE Stage(g, i, d, batch, receipt)]
  <2>1. \A i \in 0 .. m + 1 : i # 0 => h[i - 1] = g[i - 1]
    OBVIOUS
  <2>2. \A i \in 0 .. m + 1 : Stage(h, i, d, batch, receipt) = Stage(g, i, d, batch, receipt)
    BY <2>1 DEF Stage
  <2>3. \A i \in 0 .. m + 1 : h[i] = Stage(g, i, d, batch, receipt)
    <3> SUFFICES ASSUME NEW i \in 0 .. m + 1 PROVE h[i] = Stage(g, i, d, batch, receipt)
      OBVIOUS
    <3>1. CASE i <= m
      <4>1. i \in 0 .. m
        BY <3>1
      <4>2. g[i] = Stage(g, i, d, batch, receipt)
        BY <4>1
      <4> QED
        BY <3>1, <4>2
    <3>2. CASE ~(i <= m)
      BY <3>2
    <3> QED
      BY <3>1, <3>2
  <2>4. h = [i \in 0 .. m + 1 |-> h[i]]
    OBVIOUS
  <2> HIDE DEF h
  <2>5. h = [i \in 0 .. m + 1 |-> Stage(h, i, d, batch, receipt)]
    BY <2>2, <2>3, <2>4
  <2> QED
    BY <2>5
<1>3. n \in S
  <2> HIDE DEF S
  <2> QED
    BY <1>1, <1>2, SetInduction
<1>4. \E g : g = [i \in 0 .. n |-> Stage(g, i, d, batch, receipt)]
  BY <1>3
<1>5. after = CHOOSE g : g = [i \in 0 .. n |-> Stage(g, i, d, batch, receipt)]
  BY DEF After, Stage
<1> HIDE DEF S
<1>6. after = [i \in 0 .. n |-> Stage(after, i, d, batch, receipt)]
  BY <1>4, <1>5
<1>7. /\ after[0] = Stage(after, 0, d, batch, receipt)
      /\ \A i \in 1 .. n : after[i] = Stage(after, i, d, batch, receipt)
  BY <1>6
<1>8. Stage(after, 0, d, batch, receipt) = d
  BY DEF Stage
<1> QED
  BY <1>7, <1>8

\* A table of rows has a sequence of rows for each kind.
LEMMA TablesByKind ==
  ASSUME NEW t
  PROVE  t \in RowTables <=>
           t = [k \in IdKinds |-> t[k]] /\ \A k \in IdKinds : t[k] \in Seq(Rows[k])
<1>1. ASSUME t \in RowTables
      PROVE  t = [k \in IdKinds |-> t[k]] /\ \A k \in IdKinds : t[k] \in Seq(Rows[k])
  <2>1. t = [k \in IdKinds |-> t[k]]
    BY <1>1 DEF RowTables, IdKinds
  <2>2. /\ t["FN"] \in Seq(Rows["FN"]) /\ t["FR"] \in Seq(Rows["FR"])
        /\ t["FC"] \in Seq(Rows["FC"]) /\ t["FQ"] \in Seq(Rows["FQ"])
        /\ t["FB"] \in Seq(Rows["FB"])
    BY <1>1 DEF RowTables
  <2> QED
    BY <2>1, <2>2 DEF IdKinds
<1>2. ASSUME t = [k \in IdKinds |-> t[k]], \A k \in IdKinds : t[k] \in Seq(Rows[k])
      PROVE  t \in RowTables
  BY <1>2 DEF RowTables, IdKinds
<1> QED
  BY <1>1, <1>2

\* What the operations of a batch keep, before the version and the lifecycle
\* are written.
Content(d) ==
  /\ Shaped(d)
  /\ d.rows \in RowTables
  /\ d.entryPoints \subseteq Ids
  /\ d.body \in Texts \cup {Sentinel}

\* Another sequence of rows of a kind leaves typed content.
LEMMA RowsPut ==
  ASSUME NEW d, Content(d), NEW k \in IdKinds, NEW s \in Seq(Rows[k])
  PROVE  Content([d EXCEPT !.rows[k] = s])
<1> DEFINE e == [d EXCEPT !.rows[k] = s]
<1>1. /\ d = [x \in Fields |-> d[x]]
      /\ d.rows = [j \in IdKinds |-> d.rows[j]] /\ \A j \in IdKinds : d.rows[j] \in Seq(Rows[j])
  BY TablesByKind DEF Content, Shaped
<1>2. /\ e = [x \in Fields |-> e[x]]
      /\ e.rows = [d.rows EXCEPT ![k] = s]
      /\ e.entryPoints = d.entryPoints /\ e.body = d.body
  BY <1>1 DEF Fields
<1> HIDE DEF e
<1>3. e.rows = [j \in IdKinds |-> e.rows[j]] /\ \A j \in IdKinds : e.rows[j] \in Seq(Rows[j])
  BY <1>1, <1>2
<1>4. e.rows \in RowTables
  BY <1>3, TablesByKind
<1>5. Content(e)
  BY <1>2, <1>4 DEF Content, Shaped
<1> QED
  BY <1>5 DEF e

\* Another row in place of one leaves typed content.
LEMMA RowPut ==
  ASSUME NEW d, Content(d), NEW k \in IdKinds, NEW n \in DOMAIN d.rows[k], NEW r \in Rows[k]
  PROVE  Content([d EXCEPT !.rows[k][n] = r])
<1>1. /\ d = [x \in Fields |-> d[x]]
      /\ d.rows = [j \in IdKinds |-> d.rows[j]] /\ d.rows[k] \in Seq(Rows[k])
  BY TablesByKind DEF Content, Shaped
<1> PICK s : s = [d.rows[k] EXCEPT ![n] = r]
  OBVIOUS
<1> PICK q \in Seq(Rows[k]) : q = d.rows[k]
  BY <1>1
<1>2. s \in Seq(Rows[k])
  BY ExceptSeq
<1>3. [d EXCEPT !.rows[k][n] = r] = [d EXCEPT !.rows[k] = s]
  OBVIOUS
<1> QED
  BY <1>2, <1>3, RowsPut

\* Fields the schema admits, put over a row, make a row.
LEMMA Merged ==
  ASSUME NEW k \in IdKinds, NEW r \in Rows[k], NEW data,
         DOMAIN data \subseteq DOMAIN FieldValues,
         \A f \in DOMAIN data : data[f] \in FieldValues[f]
  PROVE  [f \in DOMAIN r |-> IF f \in DOMAIN data THEN data[f] ELSE r[f]] \in Rows[k]
<1> DEFINE m == [f \in DOMAIN r |-> IF f \in DOMAIN data THEN data[f] ELSE r[f]]
<1>1. CASE k = "FN"
  <2>1. r \in [live : BOOLEAN, evidence : SUBSET Ids]
    BY <1>1 DEF Rows
  <2>2. m.live \in BOOLEAN /\ m.evidence \in SUBSET Ids /\ m = [f \in {"live", "evidence"} |-> m[f]]
    BY <2>1 DEF FieldValues
  <2> QED
    BY <1>1, <2>2 DEF Rows
<1>2. CASE k = "FR"
  <2>1. r \in [live : BOOLEAN, from : Ids, to : Ids, authority : Authorities, refs : SUBSET Ids]
    BY <1>2 DEF Rows
  <2>2. /\ m.live \in BOOLEAN /\ m.from \in Ids /\ m.to \in Ids
        /\ m.authority \in Authorities /\ m.refs \in SUBSET Ids
        /\ m = [f \in {"live", "from", "to", "authority", "refs"} |-> m[f]]
    BY <2>1 DEF FieldValues
  <2> QED
    BY <1>2, <2>2 DEF Rows
<1>3. CASE k = "FC"
  <2>1. r \in [live : BOOLEAN, technical : BOOLEAN, authority : Authorities,
               citable : BOOLEAN, deps : SUBSET Ids, refs : SUBSET Ids]
    BY <1>3 DEF Rows
  <2>2. /\ m.live \in BOOLEAN /\ m.technical \in BOOLEAN /\ m.authority \in Authorities
        /\ m.citable \in BOOLEAN /\ m.deps \in SUBSET Ids /\ m.refs \in SUBSET Ids
        /\ m = [f \in {"live", "technical", "authority", "citable", "deps", "refs"} |-> m[f]]
    BY <2>1 DEF FieldValues
  <2> QED
    BY <1>3, <2>2 DEF Rows
<1>4. CASE k = "FQ"
  <2>1. r \in [live : BOOLEAN, resolved : BOOLEAN]
    BY <1>4 DEF Rows
  <2>2. m.live \in BOOLEAN /\ m.resolved \in BOOLEAN /\ m = [f \in {"live", "resolved"} |-> m[f]]
    BY <2>1 DEF FieldValues
  <2> QED
    BY <1>4, <2>2 DEF Rows
<1>5. CASE k = "FB"
  <2>1. r \in [live : BOOLEAN, entry : Entries, digest : EntryDigests]
    BY <1>5 DEF Rows
  <2>2. /\ m.live \in BOOLEAN /\ m.entry \in Entries /\ m.digest \in EntryDigests
        /\ m = [f \in {"live", "entry", "digest"} |-> m[f]]
    BY <2>1 DEF FieldValues
  <2> QED
    BY <1>5, <2>2 DEF Rows
<1> QED
  BY <1>1, <1>2, <1>3, <1>4, <1>5 DEF IdKinds

\* A live id names a row of its kind.
LEMMA LiveRow ==
  ASSUME NEW d, Content(d), NEW id \in Ids, Live(d, id)
  PROVE  /\ id[1] \in IdKinds /\ id[2] \in DOMAIN d.rows[id[1]]
         /\ d.rows[id[1]][id[2]] \in Rows[id[1]]
<1>1. id[1] \in IdKinds /\ id[2] \in DOMAIN d.rows[id[1]]
  BY DEF Ids, Live
<1>2. d.rows[id[1]] \in Seq(Rows[id[1]])
  BY <1>1, TablesByKind DEF Content
<1> QED
  BY <1>1, <1>2, ElementOfSeq

\* Adding a row or changing one leaves typed content.
LEMMA SetRowContent ==
  ASSUME NEW d, Content(d), NEW k \in IdKinds, NEW id, NEW data,
         IF id = None THEN data \in Rows[k]
         ELSE /\ id \in {k} \X (Nat \ {0})
              /\ DOMAIN data \subseteq DOMAIN FieldValues
              /\ \A f \in DOMAIN data : data[f] \in FieldValues[f]
  PROVE  SetRow(d, k, id, data) = None \/ Content(SetRow(d, k, id, data))
<1>1. CASE id = None
  <2>1. d.rows[k] \in Seq(Rows[k])
    BY TablesByKind DEF Content
  <2> PICK R : R = Rows[k]
    OBVIOUS
  <2> PICK q \in Seq(R) : q = d.rows[k]
    BY <2>1
  <2> PICK s : s = Append(q, data)
    OBVIOUS
  <2>2. data \in R
    BY <1>1
  <2>3. s \in Seq(Rows[k])
    BY <2>2, AppendProperties
  <2>4. SetRow(d, k, id, data) = [d EXCEPT !.rows[k] = s]
    BY <1>1 DEF SetRow
  <2>5. Content([d EXCEPT !.rows[k] = s])
    BY <2>3, RowsPut
  <2> QED
    BY <2>4, <2>5
<1>2. CASE id # None /\ Live(d, id)
  <2>1. id \in Ids /\ id[1] = k
    BY <1>2 DEF Ids
  <2> PICK r : r = d.rows[k][id[2]]
    OBVIOUS
  <2> PICK n : n = id[2]
    OBVIOUS
  <2>2. n \in DOMAIN d.rows[k] /\ r \in Rows[k]
    BY <1>2, <2>1, LiveRow
  <2> PICK m : m = [f \in DOMAIN r |-> IF f \in DOMAIN data THEN data[f] ELSE r[f]]
    OBVIOUS
  <2>3. m \in Rows[k]
    BY <1>2, <2>2, Merged
  <2>4. SetRow(d, k, id, data) = [d EXCEPT !.rows[k][n] = m]
    BY <1>2 DEF SetRow
  <2>5. Content([d EXCEPT !.rows[k][n] = m])
    BY <2>2, <2>3, RowPut
  <2> QED
    BY ONLY <2>4, <2>5
<1>3. CASE id # None /\ ~Live(d, id)
  BY <1>3 DEF SetRow
<1> QED
  BY <1>1, <1>2, <1>3

\* A row that was ended is a row of its kind.
LEMMA RowEnded ==
  ASSUME NEW k \in IdKinds, NEW r \in Rows[k]
  PROVE  [r EXCEPT !.live = FALSE] \in Rows[k]
<1>1. CASE k = "FN"
  BY <1>1 DEF Rows
<1>2. CASE k = "FR"
  BY <1>2 DEF Rows
<1>3. CASE k = "FC"
  BY <1>3 DEF Rows
<1>4. CASE k = "FQ"
  BY <1>4 DEF Rows
<1>5. CASE k = "FB"
  BY <1>5 DEF Rows
<1> QED
  BY <1>1, <1>2, <1>3, <1>4, <1>5 DEF IdKinds

\* Ending a row leaves typed content.
LEMMA TombstoneContent ==
  ASSUME NEW d, Content(d), NEW id \in Ids
  PROVE  Tombstone(d, id) = None \/ Content(Tombstone(d, id))
<1>1. CASE Live(d, id)
  <2> PICK k : k = id[1]
    OBVIOUS
  <2> PICK n : n = id[2]
    OBVIOUS
  <2> PICK r : r = d.rows[k][n]
    OBVIOUS
  <2>1. k \in IdKinds /\ n \in DOMAIN d.rows[k] /\ r \in Rows[k]
    BY <1>1, LiveRow
  <2> PICK m : m = [r EXCEPT !.live = FALSE]
    OBVIOUS
  <2>2. m \in Rows[k]
    BY <2>1, RowEnded
  <2>3. Tombstone(d, id) = [d EXCEPT !.rows[k][n].live = FALSE]
    BY <1>1 DEF Tombstone
  <2>4. [d EXCEPT !.rows[k][n].live = FALSE] = [d EXCEPT !.rows[k][n] = m]
    BY ONLY r = d.rows[k][n], m = [r EXCEPT !.live = FALSE]
  <2>5. Content([d EXCEPT !.rows[k][n] = m])
    BY <2>1, <2>2, RowPut
  <2> QED
    BY <2>3, <2>4, <2>5
<1>2. CASE ~Live(d, id)
  BY <1>2 DEF Tombstone
<1> QED
  BY <1>1, <1>2

Receipts == [Entries -> EntryDigests \cup {None}]

\* Binding an entry leaves typed content.
LEMMA BindContent ==
  ASSUME NEW d, Content(d), NEW e \in Entries, NEW receipt \in Receipts
  PROVE  Bind(d, e, receipt) = None \/ Content(Bind(d, e, receipt))
<1>1. CASE receipt[e] # None
  <2> PICK r : r = [live |-> TRUE, entry |-> e, digest |-> receipt[e]]
    OBVIOUS
  <2>1. r \in Rows["FB"]
    BY <1>1 DEF Receipts, Rows
  <2>2. Bind(d, e, receipt) = SetRow(d, "FB", None, r)
    BY <1>1 DEF Bind
  <2>3. "FB" \in IdKinds
    BY DEF IdKinds
  <2> QED
    BY <2>1, <2>2, <2>3, SetRowContent
<1>2. CASE receipt[e] = None
  BY <1>2 DEF Bind
<1> QED
  BY <1>1, <1>2

\* An operation fails or leaves content that is typed as before.
LEMMA OperationContent ==
  ASSUME NEW d, Content(d), NEW o, IsOperation(o), NEW receipt \in Receipts
  PROVE  ApplyOperation(d, o, receipt) = None \/ Content(ApplyOperation(d, o, receipt))
<1> PICK a : a = ApplyOperation(d, o, receipt)
  OBVIOUS
<1>1. CASE o.op = "set"
  <2>1. a = SetRow(d, o.kind, o.id, o.data)
    BY <1>1 DEF ApplyOperation
  <2> QED
    BY <1>1, <2>1, SetRowContent DEF IsOperation
<1>2. CASE o.op = "remove"
  BY <1>2, TombstoneContent DEF ApplyOperation, IsOperation
<1>3. CASE o.op = "bind"
  BY <1>3, BindContent DEF ApplyOperation, IsOperation
<1>4. CASE o.op = "section"
  <2>1. a = [d EXCEPT !.body = o.text] /\ o.text \in Texts \cup {Sentinel}
    BY <1>4 DEF ApplyOperation, IsOperation
  <2>2. d = [x \in Fields |-> d[x]] /\ d.rows \in RowTables /\ d.entryPoints \subseteq Ids
    BY DEF Content, Shaped
  <2>3. /\ a = [x \in Fields |-> a[x]] /\ a.rows = d.rows /\ a.entryPoints = d.entryPoints
        /\ a.body = o.text
    BY <2>1, <2>2 DEF Fields
  <2> QED
    BY <2>1, <2>2, <2>3 DEF Content, Shaped
<1>5. CASE o.op = "entryPoints"
  <2>1. a = [d EXCEPT !.entryPoints = o.nodes] /\ o.nodes \subseteq Ids
    BY <1>5 DEF ApplyOperation, IsOperation
  <2>2. d = [x \in Fields |-> d[x]] /\ d.rows \in RowTables /\ d.body \in Texts \cup {Sentinel}
    BY DEF Content, Shaped
  <2>3. /\ a = [x \in Fields |-> a[x]] /\ a.rows = d.rows /\ a.entryPoints = o.nodes
        /\ a.body = d.body
    BY <2>1, <2>2 DEF Fields
  <2> QED
    BY <2>1, <2>2, <2>3 DEF Content, Shaped
<1>6. CASE o.op = "keywords"
  <2>1. a = [d EXCEPT !.keywords = o.terms]
    BY <1>6 DEF ApplyOperation
  <2>2. d = [x \in Fields |-> d[x]] /\ d.rows \in RowTables /\ d.body \in Texts \cup {Sentinel}
        /\ d.entryPoints \subseteq Ids
    BY DEF Content, Shaped
  <2>3. /\ a = [x \in Fields |-> a[x]] /\ a.rows = d.rows /\ a.entryPoints = d.entryPoints
        /\ a.body = d.body
    BY <2>1, <2>2 DEF Fields
  <2> QED
    BY <2>2, <2>3 DEF Content, Shaped
<1>7. CASE o.op \notin {"set", "remove", "bind", "section", "entryPoints", "keywords"}
  BY <1>7 DEF ApplyOperation
<1> QED
  BY <1>1, <1>2, <1>3, <1>4, <1>5, <1>6, <1>7

\* Every stage of a batch is a failure or typed content.
LEMMA BatchContent ==
  ASSUME NEW d, Content(d), NEW batch \in Batches, NEW receipt \in Receipts
  PROVE  \/ After(d, batch, receipt)[Len(batch)] = None
         \/ Content(After(d, batch, receipt)[Len(batch)])
<1> DEFINE n == Len(batch)
           g == After(d, batch, receipt)
           S == {i \in Nat : i \in 0 .. n => g[i] = None \/ Content(g[i])}
<1> n \in Nat
  BY FeatureAssumption
<1>1. g[0] = d /\ \A i \in 1 .. n : g[i] = Stage(g, i, d, batch, receipt)
  BY AfterDefined
<1>2. \A i \in 1 .. n : IsOperation(batch[i])
  BY FeatureAssumption
<1> HIDE DEF g
<1>3. 0 \in S
  BY <1>1
<1>4. ASSUME NEW m \in Nat, m \in S PROVE m + 1 \in S
  <2>1. CASE m + 1 \in 0 .. n
    <3>1. m \in 0 .. n /\ m + 1 \in 1 .. n /\ m + 1 # 0 /\ (m + 1) - 1 = m
      BY <2>1
    <3>2. g[m + 1] = Stage(g, m + 1, d, batch, receipt)
      BY <1>1, <3>1
    <3>3. g[m] = None \/ Content(g[m])
      BY <1>4, <3>1
    <3>4. IsOperation(batch[m + 1])
      BY <1>2, <3>1
    <3>5. g[m + 1] = IF g[m] = None THEN None ELSE ApplyOperation(g[m], batch[m + 1], receipt)
      BY <3>1, <3>2 DEF Stage
    <3>6. g[m + 1] = None \/ Content(g[m + 1])
      BY <3>3, <3>4, <3>5, OperationContent
    <3> QED
      BY <3>6
  <2>2. CASE m + 1 \notin 0 .. n
    BY <2>2
  <2> QED
    BY <2>1, <2>2
<1>5. n \in S
  <2> HIDE DEF S
  <2> QED
    BY <1>3, <1>4, SetInduction
<1> QED
  BY <1>5 DEF g

\* A record that is not refused leaves a document of the next version.
LEMMA RecordedDocument ==
  ASSUME NEW d, IsDocument(d), NEW batch \in Batches, NEW receipt \in Receipts,
         Recorded(d, batch, receipt) # None
  PROVE  IsDocument(Recorded(d, batch, receipt))
<1> PICK a : a = After(d, batch, receipt)[Len(batch)]
  OBVIOUS
<1> PICK r : r = Recorded(d, batch, receipt)
  OBVIOUS
<1>1. d \in DocumentRecords
  BY DEF IsDocument
<1>2. Content(d)
  BY <1>1 DEF DocumentRecords, Content, Shaped, Fields
<1>3. r = IF a = None \/ ~Admissible(a) THEN None
          ELSE [rows |-> a.rows, entryPoints |-> a.entryPoints, body |-> a.body,
                keywords |-> a.keywords, version |-> d.version + 1, state |-> "draft",
                mirror |-> None]
  BY Zenon DEF Recorded
<1>4. a # None /\ Admissible(a)
  BY <1>3
<1>5. Content(a)
  BY <1>2, <1>4, BatchContent
<1>6. a.keywords \subseteq Terms
  BY <1>4 DEF Admissible
<1>7. d.version \in Nat
  BY <1>1 DEF DocumentRecords
<1>8. r = [rows |-> a.rows, entryPoints |-> a.entryPoints, body |-> a.body,
           keywords |-> a.keywords, version |-> d.version + 1, state |-> "draft",
           mirror |-> None]
  BY <1>3, <1>4
<1>9. r \in DocumentRecords /\ r.mirror = None
  BY <1>5, <1>6, <1>7, <1>8 DEF Content, DocumentRecords
<1> QED
  BY <1>9 DEF IsDocument

-----------------------------------------------------------------------------
(* Type correctness.                                                       *)

\* What a command holds is typed.
Typed(c) ==
  /\ c.at \in {"apply", "write", "stamp", "resolve"} => IsDocument(c.doc)
  /\ c.at = "apply" => c.batch \in Batches
  /\ c.at \in {"open", "apply", "write", "stamp", "cite", "resolve"} => c.f \in Features
  /\ c.at \in {"read", "stamp"} => c.todo \subseteq Features
  /\ c.at \in {"read", "stamp", "count", "append"} => c.lines \in Seq(LedgerLines)
  /\ c.at = "append" => c.count \in Nat

Types == TypeOK /\ \A p \in Procs : Typed(proc[p])

\* A process that runs nothing is typed.
LEMMA TypedIdle == Typed(Idle)
  BY DEF Typed, Idle

\* The first state is typed.
LEMMA TypedInit == Init => Types
<1> SUFFICES ASSUME Init PROVE Types
  OBVIOUS
<1>1. \A p \in Procs : proc[p] = Idle
  BY DEF Init
<1>2. starts \in 0 .. MaxStarts
  BY FeatureAssumption DEF Init
<1>3. TypeOK
  BY <1>1, <1>2 DEF Init, TypeOK, At, Idle
<1> QED
  BY <1>1, <1>3, TypedIdle DEF Types

\* A command moves on, with documents and ledger that stay typed.
LEMMA TypedStep ==
  ASSUME Inv, Types, NEW p \in Procs, NEW command,
         Begin(p, command) \/ Continue(p, command), Typed(command),
         \A f \in Features : file'[f] = None \/ IsDocument(file'[f]),
         ledger' \in Seq(LedgerRecords), entry' = entry, whole' \in BOOLEAN,
         \A s \in committed' : s[1] \in Features /\ IsDocument(s[2])
  PROVE  Types'
<1>1. proc' = [proc EXCEPT ![p] = command] /\ proc = [q \in Procs |-> proc[q]]
  BY DEF Begin, Continue, Inv, Functions
<1>2. \A q \in Procs : Typed(proc'[q])
  BY <1>1 DEF Types
<1>3. \A q \in Procs : proc'[q].at \in {"write", "stamp"} => IsDocument(proc'[q].doc)
  BY <1>2 DEF Typed
<1>4. calm' \in BOOLEAN /\ starts' \in 0 .. MaxStarts
  <2>1. MaxStarts \in Nat /\ starts \in 0 .. MaxStarts /\ calm \in BOOLEAN
    BY FeatureAssumption DEF Types, TypeOK
  <2>2. CASE Begin(p, command)
    <3>1. starts < MaxStarts /\ starts' = starts + 1
      BY <2>2 DEF Begin
    <3>2. calm' = (calm /\ \A q \in Procs : proc[q] = Idle)
      BY <2>2 DEF Begin
    <3>3. calm' \in BOOLEAN
      BY ONLY <3>2
    <3> QED
      BY <2>1, <3>1, <3>3
  <2>3. CASE Continue(p, command)
    BY <2>1, <2>3 DEF Continue
  <2> QED
    BY <2>2, <2>3
<1>5. TypeOK'
  BY <1>3, <1>4 DEF TypeOK, At, Types
<1>6. (\A q \in Procs : Typed(proc[q]))'
  BY <1>2 DEF Typed
<1> QED
  BY <1>5, <1>6 DEF Types

\* The same where it leaves documents and ledger alone.
LEMMA TypedQuiet ==
  ASSUME Inv, Types, NEW p \in Procs, NEW command,
         Begin(p, command) \/ Continue(p, command), Typed(command),
         UNCHANGED <<file, ledger, entry, committed>>, whole' \in BOOLEAN
  PROVE  Types'
<1>1. /\ \A f \in Features : file'[f] = None \/ IsDocument(file'[f])
      /\ ledger' \in Seq(LedgerRecords)
      /\ \A s \in committed' : s[1] \in Features /\ IsDocument(s[2])
  BY DEF Types, TypeOK
<1> QED
  BY <1>1, TypedStep

\* The same where it writes one document.
LEMMA TypedWrite ==
  ASSUME Inv, Types, NEW p \in Procs, NEW command, NEW f \in Features, NEW d,
         Continue(p, command), Typed(command), IsDocument(d),
         file' = [file EXCEPT ![f] = d], UNCHANGED <<ledger, entry, whole>>,
         committed' = committed \/ committed' = committed \cup {<<f, d>>}
  PROVE  Types'
<1>1. \A g \in Features : file'[g] = IF g = f THEN d ELSE file[g]
  BY DEF Inv, Functions
<1>2. \A g \in Features : file'[g] = None \/ IsDocument(file'[g])
  BY <1>1 DEF Types, TypeOK
<1>3. /\ ledger' \in Seq(LedgerRecords) /\ whole' \in BOOLEAN
      /\ \A s \in committed' : s[1] \in Features /\ IsDocument(s[2])
  BY DEF Types, TypeOK
<1> QED
  BY <1>2, <1>3, TypedStep

\* A new document has the shape of one, and whatever has it is no None.
LEMMA DocumentsExist ==
  /\ IsDocument(NewDocument)
  /\ \A d : IsDocument(d) => /\ d # None /\ Shaped(d) /\ d.version \in Nat
                             /\ d.state \in {"draft", "approved"}
<1>1. IsDocument(NewDocument)
  <2>1. NewDocument.rows \in RowTables
    BY EmptySeq DEF NewDocument, RowTables, IdKinds
  <2>2. NewDocument \in DocumentRecords
    BY <2>1 DEF NewDocument, DocumentRecords
  <2> QED
    BY <2>2 DEF IsDocument, NewDocument
<1>2. ASSUME NEW d, IsDocument(d)
      PROVE  /\ d # None /\ Shaped(d) /\ d.version \in Nat
             /\ d.state \in {"draft", "approved"}
  BY <1>2, FeatureAssumption DEF IsDocument, DocumentRecords, Shaped, Fields
<1> QED
  BY <1>1, <1>2

\* A stamped document has the shape of one, and a digest is a digest.
LEMMA StampedDocument ==
  ASSUME NEW d, IsDocument(d)
  PROVE  IsDocument(Stamped(d)) /\ Digest(d) \in Digests
<1>1. d \in DocumentRecords
  BY DEF IsDocument
<1>2. Digest(d) \in Digests
  BY <1>1 DEF Digest, Digests, DocumentRecords
<1> PICK s : s = Stamped(d)
  OBVIOUS
<1> PICK g : g = Digest(d)
  OBVIOUS
<1>3. s = [d EXCEPT !.state = "approved", !.mirror = g]
  BY DEF Stamped
<1>4. s \in DocumentRecords /\ s.mirror = g
  BY <1>1, <1>2, <1>3 DEF DocumentRecords
<1>5. Digest(s) = g
  BY <1>1, <1>3 DEF Digest, DocumentRecords
<1> QED
  BY <1>2, <1>4, <1>5 DEF IsDocument

\* What append_ledger adds is numbered records, one per line.
LEMMA LinesTyped ==
  ASSUME NEW lines \in Seq(LedgerLines), NEW count \in Nat
  PROVE  /\ Lines(lines, count) \in Seq(LedgerRecords)
         /\ Len(Lines(lines, count)) = Len(lines)
         /\ \A i \in 1 .. Len(lines) :
              Lines(lines, count)[i] = [seq |-> count + i, action |-> lines[i].action,
                                        f |-> lines[i].f, digest |-> lines[i].digest]
<1>1. \A i \in 1 .. Len(lines) : lines[i] \in LedgerLines
  BY ElementOfSeq
<1>2. DOMAIN lines = 1 .. Len(lines) /\ Len(lines) \in Nat
  BY LenProperties
<1> DEFINE n == Len(lines)
          r(i) == [seq |-> count + i, action |-> lines[i].action,
                   f |-> lines[i].f, digest |-> lines[i].digest]
<1>3. Lines(lines, count) = [i \in 1 .. n |-> r(i)]
  BY <1>2 DEF Lines
<1>4. ASSUME NEW i \in 1 .. n PROVE r(i) \in LedgerRecords
  <2>1. lines[i] \in LedgerLines /\ count + i \in Nat
    BY <1>1, <1>2
  <2> QED
    BY <2>1 DEF LedgerLines, LedgerRecords
<1> HIDE DEF r, n
<1>5. n \in Nat
  BY <1>2 DEF n
<1>6. [i \in 1 .. n |-> r(i)] \in Seq(LedgerRecords)
  BY <1>4, <1>5, IsASeq
<1>7. Len([i \in 1 .. n |-> r(i)]) = n
  BY <1>5
<1>8. \A i \in 1 .. n : [i_1 \in 1 .. n |-> r(i_1)][i] = r(i)
  OBVIOUS
<1> QED
  BY <1>3, <1>6, <1>7, <1>8 DEF r, n

\* A chunk that goes on after a stamp stays typed.
LEMMA ChunkTyped ==
  ASSUME NEW c, Typed(c), c.at = "stamp"
  PROVE  Typed(NextOfChunk(c))
<1> PICK line : line = [action |-> "approve", f |-> c.f, digest |-> Digest(c.doc)]
  OBVIOUS
<1> PICK lines : lines = Append(c.lines, line)
  OBVIOUS
<1>1. line \in LedgerLines
  BY StampedDocument DEF Typed, LedgerLines
<1>2. c.lines \in Seq(LedgerLines) /\ c.todo \subseteq Features
  BY DEF Typed
<1>3. lines \in Seq(LedgerLines)
  BY <1>1, <1>2, AppendProperties
<1>4. CASE c.todo \ {c.f} = {}
  <2>1. NextOfChunk(c) = [at |-> "count", lines |-> lines]
    BY <1>4 DEF NextOfChunk
  <2> QED
    BY <1>3, <2>1 DEF Typed
<1>5. CASE c.todo \ {c.f} # {}
  <2>1. NextOfChunk(c) = [at |-> "read", todo |-> c.todo \ {c.f}, pins |-> c.pins, lines |-> lines]
    BY <1>5 DEF NextOfChunk
  <2> QED
    BY <1>2, <1>3, <2>1 DEF Typed
<1> QED
  BY <1>4, <1>5

\* Every step keeps documents, ledger and commands typed.
LEMMA TypesNext ==
  Inv /\ Types /\ [Next]_vars => Types'
<1> SUFFICES ASSUME Inv, Types, [Next]_vars PROVE Types'
  OBVIOUS
<1> USE DEF Finish
<1>a. whole \in BOOLEAN
  BY DEF Types, TypeOK
<1>1. ASSUME NEW p \in Procs, NEW f \in Features, OpenMissing(p, f) PROVE Types'
  <2> PICK c : c = [at |-> "open", f |-> f]
    OBVIOUS
  <2>1. Typed(c)
    BY DEF Typed
  <2> QED
    BY <1>1, <1>a, <2>1, TypedQuiet DEF OpenMissing
<1>2. ASSUME NEW p \in Procs, NEW f \in Features, Resume(p, f) PROVE Types'
  BY <1>2 DEF Resume, Types, TypeOK, Typed, At
<1>3. ASSUME NEW p \in Procs, NEW f \in Features, NEW batch \in Batches, RecordStart(p, f, batch)
      PROVE  Types'
  <2> PICK c : c = [at |-> "apply", f |-> f, doc |-> file[f], batch |-> batch]
    OBVIOUS
  <2>1. Typed(c)
    BY <1>3 DEF RecordStart, AsExpected, Typed, Types, TypeOK
  <2> QED
    BY <1>3, <1>a, <2>1, TypedQuiet DEF RecordStart
<1>4. ASSUME NEW p \in Procs, OpenWrite(p) PROVE Types'
  <2> PICK f : f = proc[p].f
    OBVIOUS
  <2> PICK d : d = NewDocument
    OBVIOUS
  <2>1. f \in Features /\ IsDocument(d)
    BY <1>4, DocumentsExist DEF OpenWrite, At, Types, Typed
  <2> QED
    BY <1>4, <2>1, TypedIdle, TypedWrite DEF OpenWrite
<1>5. ASSUME NEW p \in Procs, RecordApply(p) PROVE Types'
  <2> PICK d : d = Recorded(proc[p].doc, proc[p].batch, entry)
    OBVIOUS
  <2> PICK c : c = [at |-> "write", f |-> proc[p].f, doc |-> d]
    OBVIOUS
  <2>1. IsDocument(proc[p].doc) /\ proc[p].batch \in Batches /\ proc[p].f \in Features
    BY <1>5 DEF RecordApply, At, Types, Typed
  <2>2. entry \in Receipts
    BY DEF Types, TypeOK, Receipts
  <2>3. CASE d = None
    BY <1>5, <1>a, <2>3, TypedIdle, TypedQuiet DEF RecordApply
  <2>4. CASE d # None
    <3>1. IsDocument(d)
      BY <2>1, <2>2, <2>4, RecordedDocument
    <3>2. Typed(c)
      BY <2>1, <3>1 DEF Typed
    <3> QED
      BY <1>5, <1>a, <2>4, <3>2, TypedQuiet DEF RecordApply
  <2> QED
    BY <2>3, <2>4
<1>6. ASSUME NEW p \in Procs, RecordWrite(p) PROVE Types'
  <2> PICK f : f = proc[p].f
    OBVIOUS
  <2> PICK d : d = proc[p].doc
    OBVIOUS
  <2>1. f \in Features /\ IsDocument(d)
    BY <1>6 DEF RecordWrite, At, Types, Typed
  <2> QED
    BY <1>6, <2>1, TypedIdle, TypedWrite DEF RecordWrite
<1>7. ASSUME NEW f \in Features, Review(f) PROVE Types'
  BY <1>7 DEF Review, Types, TypeOK, At
<1>8. ASSUME NEW p \in Procs, NEW pins \in Pins, ApproveStart(p, pins) PROVE Types'
  <2> PICK c : c = [at |-> "read", todo |-> DOMAIN pins, pins |-> pins, lines |-> <<>>]
    OBVIOUS
  <2>1. DOMAIN pins \subseteq Features
    BY DEF Pins
  <2>2. c.lines \in Seq(LedgerLines)
    BY EmptySeq
  <2>3. Typed(c)
    BY <2>1, <2>2 DEF Typed
  <2> QED
    BY <1>8, <1>a, <2>3, TypedQuiet DEF ApproveStart
<1>9. ASSUME NEW p \in Procs, NEW f \in Features, ApproveRead(p, f) PROVE Types'
  <2> PICK c : c = [at |-> "stamp", todo |-> proc[p].todo, f |-> f, pins |-> proc[p].pins,
                    lines |-> proc[p].lines, doc |-> Stamped(file[f])]
    OBVIOUS
  <2>1. CASE AsPinned(file[f], proc[p].pins[f])
    <3>1. IsDocument(Stamped(file[f]))
      BY <2>1, StampedDocument DEF AsPinned, Types, TypeOK
    <3>2. proc[p].todo \subseteq Features /\ proc[p].lines \in Seq(LedgerLines)
      BY <1>9 DEF ApproveRead, At, Types, Typed
    <3>3. Typed(c)
      BY <3>1, <3>2 DEF Typed
    <3> QED
      BY <1>9, <1>a, <2>1, <3>3, TypedQuiet DEF ApproveRead
  <2>2. CASE ~AsPinned(file[f], proc[p].pins[f])
    <3>1. whole' \in BOOLEAN
      BY <1>9, <1>a, <2>2 DEF ApproveRead
    <3> QED
      BY <1>9, <2>2, <3>1, TypedIdle, TypedQuiet DEF ApproveRead
  <2> QED
    BY <2>1, <2>2
<1>10. ASSUME NEW p \in Procs, ApproveStamp(p) PROVE Types'
  <2> PICK f : f = proc[p].f
    OBVIOUS
  <2> PICK d : d = proc[p].doc
    OBVIOUS
  <2> PICK c : c = NextOfChunk(proc[p])
    OBVIOUS
  <2>1. f \in Features /\ IsDocument(d)
    BY <1>10 DEF ApproveStamp, At, Types, Typed
  <2>2. Typed(c)
    BY <1>10, ChunkTyped DEF ApproveStamp, At, Types
  <2> QED
    BY <1>10, <2>1, <2>2, TypedWrite DEF ApproveStamp
<1>11. ASSUME NEW p \in Procs, NEW f \in Features, RevokeStart(p, f) PROVE Types'
  <2> PICK line : line = [action |-> "revoke", f |-> f, digest |-> None]
    OBVIOUS
  <2> PICK c : c = [at |-> "count", lines |-> <<line>>]
    OBVIOUS
  <2>1. line \in LedgerLines
    BY DEF LedgerLines
  <2>2. Typed(c)
    BY <2>1 DEF Typed
  <2> QED
    BY <1>11, <1>a, <2>2, TypedQuiet DEF RevokeStart
<1>12. ASSUME NEW p \in Procs, LedgerCount(p) PROVE Types'
  <2> PICK c : c = [at |-> "append", lines |-> proc[p].lines, count |-> Len(ledger)]
    OBVIOUS
  <2>1. Typed(c)
    BY <1>12, LenProperties DEF LedgerCount, At, Types, TypeOK, Typed
  <2>2. whole' \in BOOLEAN
    BY <1>12, <1>a DEF LedgerCount
  <2> QED
    BY <1>12, <2>1, <2>2, TypedIdle, TypedQuiet DEF LedgerCount
<1>13. ASSUME NEW p \in Procs, LedgerAppend(p) PROVE Types'
  <2> PICK new : new = Lines(proc[p].lines, proc[p].count)
    OBVIOUS
  <2>1. new \in Seq(LedgerRecords)
    BY <1>13, LinesTyped DEF LedgerAppend, At, Types, Typed
  <2>2. ledger' = ledger \o new
    BY <1>13 DEF LedgerAppend
  <2>3. ledger' \in Seq(LedgerRecords)
    BY <2>1, <2>2, ConcatProperties DEF Types, TypeOK
  <2>4. /\ \A f \in Features : file'[f] = None \/ IsDocument(file'[f])
        /\ \A s \in committed' : s[1] \in Features /\ IsDocument(s[2])
    BY <1>13 DEF LedgerAppend, Types, TypeOK
  <2> QED
    BY <1>13, <1>a, <2>3, <2>4, TypedIdle, TypedStep DEF LedgerAppend
<1>14. ASSUME NEW p \in Procs, CiteIssue(p) \/ Stop(p) PROVE Types'
  <2>1. whole' \in BOOLEAN
    BY <1>14, <1>a DEF CiteIssue, Stop
  <2> QED
    BY <1>14, <2>1, TypedIdle, TypedQuiet DEF CiteIssue, Stop
<1>15. ASSUME NEW p \in Procs, NEW f \in Features, CiteStart(p, f) PROVE Types'
  <2> PICK c : c = [at |-> "cite", f |-> f, record |-> Latest(f)]
    OBVIOUS
  <2>1. Typed(c)
    BY DEF Typed
  <2> QED
    BY <1>15, <1>a, <2>1, TypedQuiet DEF CiteStart
<1>16. ASSUME NEW p \in Procs, CiteRead(p) PROVE Types'
  <2> PICK f : f = proc[p].f
    OBVIOUS
  <2> PICK c : c = [at |-> "resolve", f |-> f, record |-> proc[p].record, doc |-> file[f]]
    OBVIOUS
  <2>1. f \in Features
    BY <1>16 DEF CiteRead, At, Types, Typed
  <2>2. CASE file[f] = None
    BY <1>16, <1>a, <2>2, TypedIdle, TypedQuiet DEF CiteRead
  <2>3. CASE file[f] # None
    <3>1. Typed(c)
      BY <2>1, <2>3 DEF Typed, Types, TypeOK
    <3> QED
      BY <1>16, <1>a, <2>3, <3>1, TypedQuiet DEF CiteRead
  <2> QED
    BY <2>2, <2>3
<1>17. ASSUME NEW p \in Procs, NEW id, NEW pinned, CiteResolve(p, id, pinned) PROVE Types'
  <2> PICK c : c = [at |-> "issue", f |-> proc[p].f, digest |-> Digest(proc[p].doc), id |-> id]
    OBVIOUS
  <2>1. Continue(p, c) \/ Continue(p, Idle)
    BY <1>17, Zenon DEF CiteResolve
  <2>2. UNCHANGED <<file, ledger, entry, committed, whole>>
    BY <1>17 DEF CiteResolve
  <2>3. Typed(c)
    BY DEF Typed
  <2> QED
    BY <1>a, <2>1, <2>2, <2>3, TypedIdle, TypedQuiet
<1>18. ASSUME NEW f \in Features, CheckOut(f) PROVE Types'
  <2>1. PICK s \in committed : s[1] = f /\ file' = [file EXCEPT ![f] = s[2]]
    BY <1>18 DEF CheckOut
  <2>2. UNCHANGED <<ledger, entry, proc, committed, whole, starts>> /\ calm' = FALSE
    BY <1>18 DEF CheckOut
  <2>3. \A g \in Features : file'[g] = IF g = f THEN s[2] ELSE file[g]
    BY <2>1 DEF Inv, Functions
  <2>4. \A g \in Features : file'[g] = None \/ IsDocument(file'[g])
    BY <2>1, <2>3 DEF Types, TypeOK
  <2> QED
    BY <2>2, <2>4 DEF Types, TypeOK, At
<1>19. ASSUME NEW e \in Entries, EntryChanges(e) PROVE Types'
  <2>1. PICK d \in EntryDigests \cup {None} : entry' = [entry EXCEPT ![e] = d]
    BY <1>19 DEF EntryChanges
  <2>2. entry' \in [Entries -> EntryDigests \cup {None}]
    BY <2>1 DEF Types, TypeOK
  <2> QED
    BY <1>19, <2>2 DEF EntryChanges, Types, TypeOK, At
<1>20. CASE UNCHANGED vars
  BY <1>20 DEF vars, Types, TypeOK, At
<1>21. CASE \E p \in Procs, f \in Features :
              \/ OpenMissing(p, f) \/ Resume(p, f)
              \/ \E batch \in Batches : RecordStart(p, f, batch)
              \/ ApproveRead(p, f) \/ RevokeStart(p, f) \/ CiteStart(p, f)
  BY <1>21, <1>1, <1>2, <1>3, <1>9, <1>11, <1>15
<1>22. CASE \E p \in Procs :
              \/ OpenWrite(p) \/ RecordApply(p) \/ RecordWrite(p)
              \/ \E pins \in Pins : ApproveStart(p, pins)
              \/ ApproveStamp(p) \/ LedgerCount(p) \/ LedgerAppend(p)
              \/ CiteRead(p) \/ CiteIssue(p) \/ Stop(p)
              \/ \E id \in {"FC", "FR"} \X (1 .. 3), pinned \in {None} \cup {s[2] : s \in shown} :
                   CiteResolve(p, id, pinned)
  BY <1>22, <1>4, <1>5, <1>6, <1>8, <1>10, <1>12, <1>13, <1>14, <1>16, <1>17
<1>23. CASE \/ \E f \in Features : Review(f) \/ CheckOut(f)
            \/ \E e \in Entries : EntryChanges(e)
  BY <1>23, <1>7, <1>18, <1>19
<1> QED
  BY <1>20, <1>21, <1>22, <1>23 DEF Next

-----------------------------------------------------------------------------
(* As long as commands run one at a time.                                  *)

\* As long as commands ran one at a time, one is running.
Alone == calm => \A p, q \in Procs : proc[p] # Idle /\ proc[q] # Idle => p = q

\* What an author saw last is still there, unless its version went up.
Sighted(s, docs) ==
  s # None =>
    /\ s.f \in Features /\ docs[s.f] # None /\ s.doc.version \in Nat
    /\ s.doc.version <= docs[s.f].version
    /\ s.doc.version = docs[s.f].version => Digest(s.doc) = Digest(docs[s.f])

\* What a command is about to write is based on the document as it is.
Prepared(c, s, docs) ==
  /\ c.at = "open" => docs[c.f] = None
  /\ c.at = "apply" => /\ docs[c.f] # None /\ c.doc = docs[c.f]
                       /\ Digest(c.doc) = Digest(s.doc)
  /\ c.at = "write" => /\ docs[c.f] # None /\ c.doc.version = docs[c.f].version + 1
                       /\ c.doc.state = "draft"
  /\ c.at = "stamp" => docs[c.f] # None /\ c.doc = Stamped(docs[c.f])

Undisturbed ==
  /\ seen = [p \in Procs |-> seen[p]]
  /\ Alone
  /\ calm => \A p \in Procs : Sighted(seen[p], file) /\ Prepared(proc[p], seen[p], file)

\* No command runs at the start.
LEMMA UndisturbedInit == Init => Undisturbed
  BY DEF Init, Undisturbed, Alone, Sighted, Prepared, Idle

\* A command starts or moves on and writes nothing.
LEMMA UndisturbedQuiet ==
  ASSUME Inv, Undisturbed, NEW p \in Procs, NEW command,
         Begin(p, command) \/ (proc[p] # Idle /\ Continue(p, command)),
         UNCHANGED <<file, seen>>, calm => Prepared(command, seen[p], file)
  PROVE  Undisturbed'
<1>1. proc' = [proc EXCEPT ![p] = command] /\ proc = [q \in Procs |-> proc[q]]
  BY DEF Begin, Continue, Inv, Functions
<1>2. \A q \in Procs : proc'[q] = IF q = p THEN command ELSE proc[q]
  BY <1>1
<1>3. CASE ~calm'
  BY <1>3 DEF Undisturbed, Alone
<1>4. CASE calm'
  <2>1. calm /\ \A q \in Procs : q # p => proc[q] = Idle
    BY <1>4 DEF Begin, Continue, Undisturbed, Alone
  <2>2. Alone'
    BY <1>2, <2>1 DEF Alone
  <2>3. \A q \in Procs : Sighted(seen[q], file) /\ Prepared(proc'[q], seen[q], file)
    BY <1>2, <2>1 DEF Undisturbed
  <2>4. \A q \in Procs : Sighted(seen'[q], file') /\ Prepared(proc'[q], seen'[q], file')
    BY <2>3 DEF Sighted, Prepared
  <2> QED
    BY <2>2, <2>4 DEF Undisturbed
<1> QED
  BY <1>3, <1>4

\* A command that ends leaves the others as they were.
LEMMA UndisturbedEnd ==
  ASSUME Inv, Undisturbed, NEW p \in Procs, proc[p] # Idle, Finish(p), UNCHANGED <<file, seen>>
  PROVE  Undisturbed'
<1>1. Prepared(Idle, seen[p], file)
  BY DEF Prepared, Idle
<1> QED
  BY <1>1, UndisturbedQuiet DEF Finish

\* A command writes a document: a new one, a new version or the same content.
LEMMA UndisturbedWrite ==
  ASSUME Inv, Types, Undisturbed, NEW p \in Procs, NEW command, NEW f \in Features, NEW d,
         proc[p] # Idle, Continue(p, command), file' = [file EXCEPT ![f] = d], IsDocument(d),
         calm => \/ file[f] = None \/ file[f].version < d.version
                 \/ file[f].version = d.version /\ Digest(file[f]) = Digest(d),
         command.at \notin {"open", "apply", "write", "stamp"},
         UNCHANGED seen \/ Saw(p, f, d)
  PROVE  Undisturbed'
<1>1. proc' = [proc EXCEPT ![p] = command] /\ proc = [q \in Procs |-> proc[q]]
  BY DEF Continue, Inv, Functions
<1>2. \A q \in Procs : proc'[q] = IF q = p THEN command ELSE proc[q]
  BY <1>1
<1>3. \A g \in Features : file'[g] = IF g = f THEN d ELSE file[g]
  BY DEF Inv, Functions
<1>4. seen' = [q \in Procs |-> seen'[q]]
  BY DEF Undisturbed, Saw
<1>5. \A q \in Procs : seen'[q] = seen[q] \/ seen'[q] = [f |-> f, doc |-> d]
  BY DEF Undisturbed, Saw
<1>6. CASE ~calm
  BY <1>4, <1>6 DEF Undisturbed, Alone, Continue
<1>7. CASE calm
  <2>1. \A q \in Procs : q # p => proc[q] = Idle
    BY <1>7 DEF Undisturbed, Alone
  <2>2. Alone'
    BY <1>2, <2>1 DEF Alone
  <2>3. \A q \in Procs : Prepared(proc'[q], seen'[q], file')
    BY <1>2, <2>1 DEF Prepared, Idle
  <2>4. d # None /\ d.version \in Nat /\ (file[f] # None => file[f].version \in Nat)
    BY DocumentsExist DEF Types, TypeOK
  <2>5. ASSUME NEW q \in Procs, seen'[q] # None PROVE Sighted(seen'[q], file')
    <3>1. CASE seen'[q] = [f |-> f, doc |-> d]
      BY <1>3, <2>4, <3>1 DEF Sighted
    <3>2. CASE seen'[q] = seen[q]
      <4>1. Sighted(seen[q], file)
        BY <1>7 DEF Undisturbed
      <4> QED
        BY <1>3, <1>7, <2>4, <2>5, <3>2, <4>1 DEF Sighted
    <3> QED
      BY <1>5, <3>1, <3>2
  <2>6. \A q \in Procs : Sighted(seen'[q], file')
    BY <2>5 DEF Sighted
  <2> QED
    BY <1>4, <2>2, <2>3, <2>6 DEF Undisturbed
<1> QED
  BY <1>6, <1>7

\* Every step keeps a lone command's document the one it loaded.
LEMMA UndisturbedNext ==
  Inv /\ Types /\ Undisturbed /\ [Next]_vars => Undisturbed'
<1> SUFFICES ASSUME Inv, Types, Undisturbed, [Next]_vars PROVE Undisturbed'
  OBVIOUS
<1>a. \A p \in Procs : proc[p].at # "idle" => proc[p] # Idle
  BY DEF Idle
<1>1. ASSUME NEW p \in Procs, NEW f \in Features, OpenMissing(p, f) PROVE Undisturbed'
  <2> PICK c : c = [at |-> "open", f |-> f]
    OBVIOUS
  <2>1. Prepared(c, seen[p], file)
    BY <1>1 DEF OpenMissing, Prepared
  <2> QED
    BY <1>1, <2>1, UndisturbedQuiet DEF OpenMissing
<1>2. ASSUME NEW p \in Procs, NEW f \in Features, Resume(p, f) PROVE Undisturbed'
  <2>1. /\ proc[p] = Idle /\ file[f] # None /\ UNCHANGED <<file, proc, calm>>
        /\ seen' = [seen EXCEPT ![p] = [f |-> f, doc |-> file[f]]]
    BY <1>2 DEF Resume, Saw
  <2>2. /\ seen' = [q \in Procs |-> seen'[q]]
        /\ \A q \in Procs : seen'[q] = IF q = p THEN [f |-> f, doc |-> file[f]] ELSE seen[q]
    BY <2>1 DEF Undisturbed
  <2>3. file[f].version \in Nat
    BY <2>1, DocumentsExist DEF Types, TypeOK
  <2>4. ASSUME calm, NEW q \in Procs
        PROVE  Sighted(seen'[q], file') /\ Prepared(proc'[q], seen'[q], file')
    <3>1. Sighted(seen[q], file) /\ Prepared(proc[q], seen[q], file)
      BY <2>4 DEF Undisturbed
    <3>2. CASE q = p
      BY <2>1, <2>2, <2>3, <3>2 DEF Sighted, Prepared, Idle
    <3>3. CASE q # p
      BY <2>1, <2>2, <3>1, <3>3 DEF Sighted, Prepared
    <3> QED
      BY <3>2, <3>3
  <2>5. Alone'
    BY <2>1 DEF Undisturbed, Alone
  <2> QED
    BY <2>1, <2>2, <2>4, <2>5 DEF Undisturbed
<1>3. ASSUME NEW p \in Procs, NEW f \in Features, NEW batch \in Batches, RecordStart(p, f, batch)
      PROVE  Undisturbed'
  <2> PICK c : c = [at |-> "apply", f |-> f, doc |-> file[f], batch |-> batch]
    OBVIOUS
  <2>1. ASSUME calm PROVE Prepared(c, seen[p], file)
    <3>1. Sighted(seen[p], file)
      BY <2>1 DEF Undisturbed
    <3> QED
      BY <1>3, <3>1 DEF RecordStart, AsExpected, Sighted, Prepared
  <2> QED
    BY <1>3, <2>1, UndisturbedQuiet DEF RecordStart
<1>4. ASSUME NEW p \in Procs, OpenWrite(p) PROVE Undisturbed'
  <2> PICK f : f = proc[p].f
    OBVIOUS
  <2> PICK d : d = NewDocument
    OBVIOUS
  <2>1. f \in Features /\ IsDocument(d) /\ proc[p] # Idle
    BY <1>4, <1>a, DocumentsExist DEF OpenWrite, At, Types, Typed
  <2>2. calm => file[f] = None
    BY <1>4 DEF OpenWrite, At, Undisturbed, Prepared
  <2> PICK c : c = Idle
    OBVIOUS
  <2>3. c.at = "idle" /\ Continue(p, c) /\ file' = [file EXCEPT ![f] = d] /\ Saw(p, f, d)
    BY <1>4 DEF OpenWrite, Finish, Idle
  <2> QED
    BY <2>1, <2>2, <2>3, UndisturbedWrite
<1>5. ASSUME NEW p \in Procs, RecordApply(p) PROVE Undisturbed'
  <2> PICK d : d = Recorded(proc[p].doc, proc[p].batch, entry)
    OBVIOUS
  <2> PICK c : c = [at |-> "write", f |-> proc[p].f, doc |-> d]
    OBVIOUS
  <2>1. proc[p] # Idle /\ UNCHANGED <<file, seen>>
    BY <1>5, <1>a DEF RecordApply, At
  <2>2. CASE d = None
    BY <1>5, <2>1, <2>2, UndisturbedEnd DEF RecordApply
  <2>3. CASE d # None
    <3>1. d.version = proc[p].doc.version + 1 /\ d.state = "draft"
      BY <2>3, RecordedDraft
    <3>2. calm => file[proc[p].f] # None /\ proc[p].doc = file[proc[p].f]
      BY <1>5 DEF RecordApply, At, Undisturbed, Prepared
    <3>3. calm => Prepared(c, seen[p], file)
      BY <3>1, <3>2 DEF Prepared
    <3> QED
      BY <1>5, <2>1, <2>3, <3>3, UndisturbedQuiet DEF RecordApply
  <2> QED
    BY <2>2, <2>3
<1>6. ASSUME NEW p \in Procs, RecordWrite(p) PROVE Undisturbed'
  <2> PICK f : f = proc[p].f
    OBVIOUS
  <2> PICK d : d = proc[p].doc
    OBVIOUS
  <2>1. f \in Features /\ IsDocument(d) /\ proc[p] # Idle
    BY <1>6, <1>a DEF RecordWrite, At, Types, Typed
  <2>2. calm => file[f] # None /\ d.version = file[f].version + 1
    BY <1>6 DEF RecordWrite, At, Undisturbed, Prepared
  <2>3. file[f] # None => file[f].version \in Nat
    BY <2>1, DocumentsExist DEF Types, TypeOK
  <2>4. calm => file[f].version < d.version
    BY <2>2, <2>3
  <2> PICK c : c = Idle
    OBVIOUS
  <2>5. c.at = "idle" /\ Continue(p, c) /\ file' = [file EXCEPT ![f] = d] /\ Saw(p, f, d)
    BY <1>6 DEF RecordWrite, Finish, Idle
  <2> QED
    BY <2>1, <2>4, <2>5, UndisturbedWrite
<1>7. ASSUME NEW f \in Features, Review(f) PROVE Undisturbed'
  BY <1>7 DEF Review, Undisturbed, Alone, Sighted, Prepared
<1>8. ASSUME NEW p \in Procs, NEW pins \in Pins, ApproveStart(p, pins) PROVE Undisturbed'
  <2> PICK c : c = [at |-> "read", todo |-> DOMAIN pins, pins |-> pins, lines |-> <<>>]
    OBVIOUS
  <2> QED
    BY <1>8, UndisturbedQuiet DEF ApproveStart, Prepared
<1>9. ASSUME NEW p \in Procs, NEW f \in Features, ApproveRead(p, f) PROVE Undisturbed'
  <2> PICK c : c = [at |-> "stamp", todo |-> proc[p].todo, f |-> f, pins |-> proc[p].pins,
                    lines |-> proc[p].lines, doc |-> Stamped(file[f])]
    OBVIOUS
  <2>1. proc[p] # Idle /\ UNCHANGED <<file, seen>>
    BY <1>9, <1>a DEF ApproveRead, At
  <2>2. CASE AsPinned(file[f], proc[p].pins[f])
    <3>1. Prepared(c, seen[p], file)
      BY <2>2 DEF Prepared, AsPinned
    <3> QED
      BY <1>9, <2>1, <2>2, <3>1, UndisturbedQuiet DEF ApproveRead
  <2>3. CASE ~AsPinned(file[f], proc[p].pins[f])
    BY <1>9, <2>1, <2>3, UndisturbedEnd DEF ApproveRead
  <2> QED
    BY <2>2, <2>3
<1>10. ASSUME NEW p \in Procs, ApproveStamp(p) PROVE Undisturbed'
  <2> PICK f : f = proc[p].f
    OBVIOUS
  <2> PICK d : d = proc[p].doc
    OBVIOUS
  <2> PICK c : c = NextOfChunk(proc[p])
    OBVIOUS
  <2>1. f \in Features /\ IsDocument(d) /\ proc[p] # Idle
    BY <1>10, <1>a DEF ApproveStamp, At, Types, Typed
  <2>2. calm => file[f] # None /\ d = Stamped(file[f])
    BY <1>10 DEF ApproveStamp, At, Undisturbed, Prepared
  <2>3. file[f] # None => Shaped(file[f])
    BY <2>1, DocumentsExist DEF Types, TypeOK
  <2>4. calm => file[f].version = d.version /\ Digest(file[f]) = Digest(d)
    BY <2>2, <2>3, StampKeepsContent DEF Shaped
  <2>5. c.at \in {"count", "read"}
    BY DEF NextOfChunk
  <2>6. Continue(p, c) /\ file' = [file EXCEPT ![f] = d] /\ UNCHANGED seen
    BY <1>10 DEF ApproveStamp
  <2> QED
    BY <2>1, <2>4, <2>5, <2>6, UndisturbedWrite
<1>11. ASSUME NEW p \in Procs, NEW f \in Features, RevokeStart(p, f) PROVE Undisturbed'
  <2> PICK c : c = [at |-> "count",
                    lines |-> <<[action |-> "revoke", f |-> f, digest |-> None]>>]
    OBVIOUS
  <2> QED
    BY <1>11, UndisturbedQuiet DEF RevokeStart, Prepared
<1>12. ASSUME NEW p \in Procs, LedgerCount(p) PROVE Undisturbed'
  <2> PICK c : c = [at |-> "append", lines |-> proc[p].lines, count |-> Len(ledger)]
    OBVIOUS
  <2>1. proc[p] # Idle /\ UNCHANGED <<file, seen>>
    BY <1>12, <1>a DEF LedgerCount, At
  <2>2. Prepared(c, seen[p], file)
    BY DEF Prepared
  <2> QED
    BY <1>12, <2>1, <2>2, UndisturbedQuiet, UndisturbedEnd DEF LedgerCount
<1>13. ASSUME NEW p \in Procs, LedgerAppend(p) \/ CiteIssue(p) \/ Stop(p) PROVE Undisturbed'
  BY <1>13, <1>a, UndisturbedEnd DEF LedgerAppend, CiteIssue, Stop, At
<1>14. ASSUME NEW p \in Procs, NEW f \in Features, CiteStart(p, f) PROVE Undisturbed'
  <2> PICK c : c = [at |-> "cite", f |-> f, record |-> Latest(f)]
    OBVIOUS
  <2> QED
    BY <1>14, UndisturbedQuiet DEF CiteStart, Prepared
<1>15. ASSUME NEW p \in Procs, CiteRead(p) PROVE Undisturbed'
  <2> PICK c : c = [at |-> "resolve", f |-> proc[p].f, record |-> proc[p].record,
                    doc |-> file[proc[p].f]]
    OBVIOUS
  <2>1. proc[p] # Idle /\ UNCHANGED <<file, seen>>
    BY <1>15, <1>a DEF CiteRead, At
  <2>2. Prepared(c, seen[p], file)
    BY DEF Prepared
  <2> QED
    BY <1>15, <2>1, <2>2, UndisturbedQuiet, UndisturbedEnd DEF CiteRead
<1>16. ASSUME NEW p \in Procs, NEW id, NEW pinned, CiteResolve(p, id, pinned) PROVE Undisturbed'
  <2> PICK c : c = [at |-> "issue", f |-> proc[p].f, digest |-> Digest(proc[p].doc), id |-> id]
    OBVIOUS
  <2>1. Continue(p, c) \/ Finish(p)
    BY <1>16, Zenon DEF CiteResolve
  <2>2. proc[p] # Idle /\ UNCHANGED <<file, seen>>
    BY <1>16, <1>a DEF CiteResolve, At
  <2>3. Prepared(c, seen[p], file)
    BY DEF Prepared
  <2> QED
    BY <2>1, <2>2, <2>3, UndisturbedQuiet, UndisturbedEnd
<1>17. ASSUME NEW f \in Features, CheckOut(f) PROVE Undisturbed'
  BY <1>17 DEF CheckOut, Undisturbed, Alone
<1>18. ASSUME NEW e \in Entries, EntryChanges(e) PROVE Undisturbed'
  BY <1>18 DEF EntryChanges, Undisturbed, Alone, Sighted, Prepared
<1>19. CASE UNCHANGED vars
  BY <1>19 DEF vars, Undisturbed, Alone, Sighted, Prepared
<1>20. CASE \E p \in Procs, f \in Features :
              \/ OpenMissing(p, f) \/ Resume(p, f)
              \/ \E batch \in Batches : RecordStart(p, f, batch)
              \/ ApproveRead(p, f) \/ RevokeStart(p, f) \/ CiteStart(p, f)
  BY <1>20, <1>1, <1>2, <1>3, <1>9, <1>11, <1>14
<1>21. CASE \E p \in Procs :
              \/ OpenWrite(p) \/ RecordApply(p) \/ RecordWrite(p)
              \/ \E pins \in Pins : ApproveStart(p, pins)
              \/ ApproveStamp(p) \/ LedgerCount(p) \/ LedgerAppend(p)
              \/ CiteRead(p) \/ CiteIssue(p) \/ Stop(p)
              \/ \E id \in {"FC", "FR"} \X (1 .. 3), pinned \in {None} \cup {s[2] : s \in shown} :
                   CiteResolve(p, id, pinned)
  BY <1>21, <1>4, <1>5, <1>6, <1>8, <1>10, <1>12, <1>13, <1>15, <1>16
<1>22. CASE \/ \E f \in Features : Review(f) \/ CheckOut(f)
            \/ \E e \in Entries : EntryChanges(e)
  BY <1>22, <1>7, <1>17, <1>18
<1> QED
  BY <1>19, <1>20, <1>21, <1>22 DEF Next

-----------------------------------------------------------------------------
(* The latest record of a ledger.                                          *)

\* A set of indices that is not empty has a last one.
LEMMA LastOf ==
  ASSUME NEW n \in Nat, NEW T \in SUBSET (1 .. n), T # {}
  PROVE  \E i \in T : \A j \in T : j <= i
<1> DEFINE S == {m \in Nat : \A U \in SUBSET (1 .. m) : U # {} => \E i \in U : \A j \in U : j <= i}
<1>1. 0 \in S
  <2>1. 1 .. 0 = {}
    OBVIOUS
  <2> QED
    BY <2>1
<1>2. ASSUME NEW m \in Nat, m \in S PROVE m + 1 \in S
  <2>1. ASSUME NEW U \in SUBSET (1 .. m + 1), U # {}
        PROVE  \E i \in U : \A j \in U : j <= i
    <3>1. CASE m + 1 \in U
      BY <2>1, <3>1
    <3>2. CASE m + 1 \notin U
      <4>1. U \in SUBSET (1 .. m)
        BY <3>2
      <4> QED
        BY <1>2, <2>1, <4>1
    <3> QED
      BY <3>1, <3>2
  <2> QED
    BY <2>1
<1> HIDE DEF S
<1>3. n \in S
  BY <1>1, <1>2, SetInduction
<1> QED
  BY <1>3 DEF S

\* The latest record of a feature is its last one.
LatestIn(log, f) ==
  LET records == {i \in DOMAIN log : log[i].f = f} IN
  IF records = {} THEN None
  ELSE log[CHOOSE i \in records : \A j \in records : j <= i]

\* The record that counts is the last of its feature, or there is none.
LEMMA LatestIs ==
  ASSUME NEW R, NEW log \in Seq(R), NEW f
  PROVE  \/ LatestIn(log, f) = None /\ \A i \in DOMAIN log : log[i].f # f
         \/ \E i \in DOMAIN log :
              /\ LatestIn(log, f) = log[i] /\ log[i].f = f
              /\ \A j \in DOMAIN log : log[j].f = f => j <= i
<1> DEFINE records == {i \in DOMAIN log : log[i].f = f}
<1>1. DOMAIN log = 1 .. Len(log) /\ Len(log) \in Nat
  BY LenProperties
<1>2. LatestIn(log, f) =
        IF records = {} THEN None ELSE log[CHOOSE i \in records : \A j \in records : j <= i]
  BY DEF LatestIn
<1>3. CASE records = {}
  BY <1>2, <1>3
<1>4. CASE records # {}
  <2>1. records \in SUBSET (1 .. Len(log))
    BY <1>1
  <2>2. \E i \in records : \A j \in records : j <= i
    BY <1>1, <1>4, <2>1, LastOf
  <2> PICK i : i = CHOOSE k \in records : \A j \in records : j <= k
    OBVIOUS
  <2>3. i \in records /\ \A j \in records : j <= i
    BY <2>2
  <2>4. LatestIn(log, f) = log[i]
    BY <1>2, <1>4
  <2> QED
    BY <2>3, <2>4
<1> QED
  BY <1>3, <1>4

\* Behind a ledger with lines of the feature the last of these counts,
\* otherwise the record that counted before.
LEMMA LatestAfter ==
  ASSUME NEW R, NEW log \in Seq(R), NEW new \in Seq(R), NEW f
  PROVE  \/ \E i \in DOMAIN new : LatestIn(log \o new, f) = new[i] /\ new[i].f = f
         \/ /\ \A i \in DOMAIN new : new[i].f # f
            /\ LatestIn(log \o new, f) = LatestIn(log, f)
<1> PICK all : all = log \o new
  OBVIOUS
<1> PICK n : n = Len(log)
  OBVIOUS
<1> PICK m : m = Len(new)
  OBVIOUS
<1>1. /\ n \in Nat /\ m \in Nat /\ DOMAIN log = 1 .. n /\ DOMAIN new = 1 .. m
  BY LenProperties
<1>2. /\ all \in Seq(R) /\ DOMAIN all = 1 .. n + m
      /\ \A i \in 1 .. n + m : all[i] = IF i <= n THEN log[i] ELSE new[i - n]
  BY <1>1, ConcatProperties, LenProperties
<1>3. CASE \E k \in DOMAIN new : new[k].f = f
  <2> PICK k \in DOMAIN new : new[k].f = f
    BY <1>3
  <2>1. n + k \in 1 .. n + m /\ all[n + k] = new[k]
    BY <1>1, <1>2
  <2>a. \/ LatestIn(all, f) = None /\ \A i \in DOMAIN all : all[i].f # f
        \/ \E i \in DOMAIN all : /\ LatestIn(all, f) = all[i] /\ all[i].f = f
                                 /\ \A j \in DOMAIN all : all[j].f = f => j <= i
    <3>1. all \in Seq(R)
      BY <1>2
    <3> QED
      BY ONLY <3>1, LatestIs
  <2>b. n + k \in DOMAIN all /\ all[n + k].f = f
    BY <1>2, <2>1
  <2>2. PICK i \in DOMAIN all : /\ LatestIn(all, f) = all[i] /\ all[i].f = f
                                /\ \A j \in DOMAIN all : all[j].f = f => j <= i
    BY <2>a, <2>b
  <2>3. n + k <= i
    BY <1>2, <2>1, <2>2
  <2>4. i - n \in DOMAIN new /\ all[i] = new[i - n]
    BY <1>1, <1>2, <2>2, <2>3
  <2> QED
    BY <2>2, <2>4
<1>4. CASE \A k \in DOMAIN new : new[k].f # f
  <2> PICK before : before = {i \in DOMAIN log : log[i].f = f}
    OBVIOUS
  <2> PICK after : after = {i \in DOMAIN all : all[i].f = f}
    OBVIOUS
  <2>1. before = after
    BY <1>1, <1>2, <1>4
  <2>a. LatestIn(all, f) =
          IF after = {} THEN None ELSE all[CHOOSE i \in after : \A j \in after : j <= i]
    BY DEF LatestIn
  <2>b. LatestIn(log, f) =
          IF before = {} THEN None ELSE log[CHOOSE i \in before : \A j \in before : j <= i]
    BY DEF LatestIn
  <2>2. CASE after = {}
    BY <1>4, <2>1, <2>2, <2>a, <2>b
  <2>3. CASE after # {}
    <3> PICK i : i = CHOOSE k \in after : \A j \in after : j <= k
      OBVIOUS
    <3>1. after \in SUBSET (1 .. n + m) /\ n + m \in Nat
      BY <1>1, <1>2
    <3>2. \E x \in after : \A j \in after : j <= x
      BY <2>3, <3>1, LastOf
    <3>3. i \in after
      BY <3>2
    <3>4. i \in DOMAIN log /\ i \in DOMAIN all
      BY <2>1, <3>3
    <3>5. all[i] = log[i]
      BY ONLY <1>1, <1>2, <3>4
    <3>6. LatestIn(all, f) = all[i] /\ LatestIn(log, f) = log[i]
      BY <2>1, <2>3, <2>a, <2>b
    <3> QED
      BY <1>4, <3>5, <3>6
  <2> QED
    BY <2>2, <2>3
<1> QED
  BY <1>3, <1>4

\* The latest record, with the ledger as a parameter.
LEMMA LatestIsIn == \A f : Latest(f) = LatestIn(ledger, f)
  BY DEF Latest, LatestIn, RecordsOf

-----------------------------------------------------------------------------
(* Stamps and their ledger lines.                                          *)

\* The commands that hold lines for the ledger.
Bearing(c) == c.at \in {"read", "stamp", "count", "append"}

Names(c, f) == Bearing(c) /\ \E i \in DOMAIN c.lines : c.lines[i].f = f

\* The lines of a chunk approve the documents as they are.
Chunk(c, docs) ==
  Bearing(c) => \A i \in DOMAIN c.lines :
    c.lines[i].action = "approve" =>
      docs[c.lines[i].f] # None /\ c.lines[i].digest = Digest(docs[c.lines[i].f])

\* A record that decides on a document that says it is approved.
Settles(r, d) == r # None /\ (r.action = "revoke" \/ r.digest = Digest(d))

Stamp(d) == d # None /\ d.state = "approved"

Backed ==
  /\ calm => \A p \in Procs : Chunk(proc[p], file)
  /\ calm /\ whole =>
       /\ Readable
       /\ \A p \in Procs : proc[p].at = "append" => proc[p].count = Len(ledger)
       /\ \A f \in Features : Stamp(file[f]) =>
            Settles(LatestIn(ledger, f), file[f]) \/ \E p \in Procs : Names(proc[p], f)

\* There is nothing to back at the start.
LEMMA BackedInit == Init => Backed
  BY DEF Init, Backed, Chunk, Bearing, Stamp, Readable, Idle

\* A step that writes nothing and keeps the lines of a chunk.
LEMMA BackedQuiet ==
  ASSUME Inv, Backed, NEW p \in Procs, NEW command,
         Begin(p, command) \/ (proc[p] # Idle /\ Continue(p, command)),
         UNCHANGED <<file, ledger>>, calm => Chunk(command, file),
         whole' => /\ whole
                   /\ \A f \in Features : Names(proc[p], f) => Names(command, f)
                   /\ command.at = "append" => command.count = Len(ledger)
  PROVE  Backed'
<1>1. proc' = [proc EXCEPT ![p] = command] /\ proc = [q \in Procs |-> proc[q]]
  BY DEF Begin, Continue, Inv, Functions
<1>2. \A q \in Procs : proc'[q] = IF q = p THEN command ELSE proc[q]
  BY <1>1
<1>3. calm' => calm
  BY DEF Begin, Continue
<1>4. calm' => \A q \in Procs : Chunk(proc'[q], file')
  BY <1>2, <1>3 DEF Backed
<1>5. ASSUME calm', whole'
      PROVE  /\ Readable'
             /\ \A q \in Procs : proc'[q].at = "append" => proc'[q].count = Len(ledger')
             /\ \A f \in Features : Stamp(file'[f]) =>
                  Settles(LatestIn(ledger', f), file'[f]) \/ \E q \in Procs : Names(proc'[q], f)
  <2>1. Readable'
    BY <1>3, <1>5 DEF Backed, Readable
  <2>2. \A q \in Procs : proc'[q].at = "append" => proc'[q].count = Len(ledger')
    BY <1>2, <1>3, <1>5 DEF Backed
  <2>3. \A f \in Features : \A q \in Procs : Names(proc[q], f) => Names(proc'[q], f)
    BY <1>2, <1>5
  <2>4. \A f \in Features : Stamp(file[f]) =>
          Settles(LatestIn(ledger, f), file[f]) \/ \E q \in Procs : Names(proc[q], f)
    BY <1>3, <1>5 DEF Backed
  <2> QED
    BY <2>1, <2>2, <2>3, <2>4
<1> QED
  BY <1>4, <1>5 DEF Backed

\* A command that ends with no lines to append.
LEMMA BackedEnd ==
  ASSUME Inv, Backed, NEW p \in Procs, proc[p] # Idle, Finish(p), UNCHANGED <<file, ledger>>,
         whole' => whole /\ \A f \in Features : ~Names(proc[p], f)
  PROVE  Backed'
<1> PICK c : c = Idle
  OBVIOUS
<1>1. Chunk(c, file) /\ c.at # "append" /\ Continue(p, c)
  BY DEF Chunk, Bearing, Idle, Finish
<1> QED
  BY <1>1, BackedQuiet

\* A command writes a document: a draft, or one that a line of its chunk names.
LEMMA BackedWrite ==
  ASSUME Inv, Undisturbed, Backed, NEW p \in Procs, NEW command, NEW f \in Features, NEW d,
         proc[p] # Idle, Continue(p, command), file' = [file EXCEPT ![f] = d],
         UNCHANGED <<ledger, whole>>,
         calm => Chunk(command, file'), command.at # "append",
         calm => d.state = "draft" \/ Names(command, f),
         \A g \in Features : Names(proc[p], g) => Names(command, g)
  PROVE  Backed'
<1>1. proc' = [proc EXCEPT ![p] = command] /\ proc = [q \in Procs |-> proc[q]] /\ calm' = calm
  BY DEF Continue, Inv, Functions
<1>2. \A q \in Procs : proc'[q] = IF q = p THEN command ELSE proc[q]
  BY <1>1
<1>3. calm => \A q \in Procs : q # p => proc[q] = Idle
  BY DEF Undisturbed, Alone
<1>4. \A g : ~Bearing(Idle) /\ ~Names(Idle, g)
  BY DEF Bearing, Names, Idle
<1>5. calm' => \A q \in Procs : Chunk(proc'[q], file')
  BY <1>1, <1>2, <1>3, <1>4 DEF Chunk
<1>6. ASSUME calm', whole'
      PROVE  /\ Readable'
             /\ \A q \in Procs : proc'[q].at = "append" => proc'[q].count = Len(ledger')
             /\ \A g \in Features : Stamp(file'[g]) =>
                  Settles(LatestIn(ledger', g), file'[g]) \/ \E q \in Procs : Names(proc'[q], g)
  <2>1. Readable'
    BY <1>1, <1>6 DEF Backed, Readable
  <2>2. \A q \in Procs : proc'[q].at = "append" => proc'[q].count = Len(ledger')
    BY <1>1, <1>2, <1>6 DEF Backed
  <2>3. \A g \in Features : \A q \in Procs : Names(proc[q], g) => Names(proc'[q], g)
    BY <1>2
  <2>4. \A g \in Features : file'[g] = IF g = f THEN d ELSE file[g]
    BY DEF Inv, Functions
  <2>5. ASSUME NEW g \in Features, Stamp(file'[g])
        PROVE  Settles(LatestIn(ledger', g), file'[g]) \/ \E q \in Procs : Names(proc'[q], g)
    <3>1. CASE g = f
      BY <1>1, <1>2, <1>6, <2>4, <2>5, <3>1 DEF Stamp
    <3>2. CASE g # f
      <4>1. file'[g] = file[g]
        BY <2>4, <3>2
      <4>2. Settles(LatestIn(ledger, g), file[g]) \/ \E q \in Procs : Names(proc[q], g)
        BY <1>1, <1>6, <2>5, <4>1 DEF Backed
      <4> QED
        BY <2>3, <4>1, <4>2
    <3> QED
      BY <3>1, <3>2
  <2> QED
    BY <2>1, <2>2, <2>5
<1> QED
  BY <1>5, <1>6 DEF Backed

\* The lines of a chunk are appended.
LEMMA BackedAppend ==
  ASSUME Inv, Types, Undisturbed, Backed, NEW p \in Procs, LedgerAppend(p)
  PROVE  Backed'
<1> PICK c : c = proc[p]
  OBVIOUS
<1> PICK new : new = Lines(c.lines, c.count)
  OBVIOUS
<1>1. c.at = "append" /\ c.lines \in Seq(LedgerLines) /\ c.count \in Nat /\ c # Idle
  BY DEF LedgerAppend, At, Types, Typed, Idle
<1>2. proc' = [proc EXCEPT ![p] = Idle] /\ proc = [q \in Procs |-> proc[q]]
  BY DEF LedgerAppend, Finish, Continue, Inv, Functions
<1>3. \A q \in Procs : proc'[q] = IF q = p THEN Idle ELSE proc[q]
  BY <1>2
<1>4. ledger' = ledger \o new /\ UNCHANGED <<file, calm, whole>>
  BY DEF LedgerAppend, Finish, Continue
<1>5. calm => \A q \in Procs : q # p => proc[q] = Idle
  BY <1>1 DEF Undisturbed, Alone
<1>6. \A g : ~Bearing(Idle) /\ ~Names(Idle, g) /\ Idle.at # "append"
  BY DEF Bearing, Names, Idle
<1>7. calm' => \A q \in Procs : Chunk(proc'[q], file')
  BY <1>3, <1>4, <1>5, <1>6 DEF Chunk
<1>8. ASSUME calm', whole'
      PROVE  /\ Readable'
             /\ \A q \in Procs : proc'[q].at = "append" => proc'[q].count = Len(ledger')
             /\ \A g \in Features : Stamp(file'[g]) =>
                  Settles(LatestIn(ledger', g), file'[g]) \/ \E q \in Procs : Names(proc'[q], g)
  <2>1. calm /\ whole
    BY <1>4, <1>8
  <2>2. c.count = Len(ledger) /\ Readable
    BY <1>1, <2>1 DEF Backed
  <2>3. /\ new \in Seq(LedgerRecords) /\ Len(new) = Len(c.lines)
        /\ \A i \in 1 .. Len(c.lines) :
             new[i] = [seq |-> c.count + i, action |-> c.lines[i].action,
                       f |-> c.lines[i].f, digest |-> c.lines[i].digest]
    BY <1>1, LinesTyped
  <2>4. ledger \in Seq(LedgerRecords)
    BY DEF Types, TypeOK
  <2>5. DOMAIN new = DOMAIN c.lines /\ DOMAIN c.lines = 1 .. Len(c.lines)
    BY <1>1, <2>3, LenProperties
  <2>a. \A i \in DOMAIN new :
          /\ i \in DOMAIN c.lines /\ new[i].seq = c.count + i
          /\ new[i].f = c.lines[i].f /\ new[i].digest = c.lines[i].digest
          /\ new[i].action = c.lines[i].action
    <3> SUFFICES ASSUME NEW i \in DOMAIN new
                 PROVE  /\ i \in DOMAIN c.lines /\ new[i].seq = c.count + i
                        /\ new[i].f = c.lines[i].f /\ new[i].digest = c.lines[i].digest
                        /\ new[i].action = c.lines[i].action
      OBVIOUS
    <3>1. i \in DOMAIN c.lines /\ i \in 1 .. Len(c.lines)
      BY <2>5
    <3> PICK r : r = new[i]
      OBVIOUS
    <3>2. r = [seq |-> c.count + i, action |-> c.lines[i].action,
               f |-> c.lines[i].f, digest |-> c.lines[i].digest]
      BY <2>3, <3>1
    <3>3. /\ r.seq = c.count + i /\ r.f = c.lines[i].f
          /\ r.digest = c.lines[i].digest /\ r.action = c.lines[i].action
      BY ONLY <3>2
    <3> QED
      BY <3>1, <3>3
  <2>6. Readable'
    <3> PICK n : n = Len(ledger)
      OBVIOUS
    <3> PICK m : m = Len(new)
      OBVIOUS
    <3> PICK all : all = ledger \o new
      OBVIOUS
    <3>1. n \in Nat /\ m \in Nat /\ DOMAIN ledger = 1 .. n
      BY <2>3, <2>4, LenProperties
    <3>2. /\ DOMAIN all = 1 .. n + m
          /\ \A i \in 1 .. n + m : all[i] = IF i <= n THEN ledger[i] ELSE new[i - n]
      BY <2>3, <2>4, ConcatProperties, LenProperties
    <3>3. \A i \in 1 .. n : ledger[i].seq = i
      BY <2>2, <3>1 DEF Readable
    <3>4. \A i \in 1 .. m : new[i].seq = n + i
      <4>1. DOMAIN new = 1 .. m
        BY <2>3, <2>5
      <4>2. c.count = n
        BY <2>2
      <4> QED
        BY ONLY <2>a, <4>1, <4>2
    <3>5. ASSUME NEW i \in 1 .. n + m PROVE all[i].seq = i
      <4>1. CASE i <= n
        <5>1. i \in 1 .. n /\ all[i] = ledger[i]
          BY ONLY <3>1, <3>2, <3>5, <4>1
        <5> QED
          BY <3>3, <5>1
      <4>2. CASE ~(i <= n)
        <5>1. i - n \in 1 .. m /\ all[i] = new[i - n] /\ n + (i - n) = i
          BY ONLY <3>1, <3>2, <3>5, <4>2
        <5> QED
          BY <3>4, <5>1
      <4> QED
        BY <4>1, <4>2
    <3>6. ledger' = all
      BY <1>4
    <3> QED
      BY <3>2, <3>5, <3>6 DEF Readable
  <2>7. \A q \in Procs : proc'[q].at # "append"
    BY <1>3, <1>5, <1>6, <2>1
  <2>8. ASSUME NEW g \in Features, Stamp(file'[g])
        PROVE  Settles(LatestIn(ledger', g), file'[g])
    <3>1. ledger' = ledger \o new /\ file'[g] = file[g]
      BY <1>4
    <3>2. \/ \E i \in DOMAIN new : LatestIn(ledger \o new, g) = new[i] /\ new[i].f = g
          \/ /\ \A i \in DOMAIN new : new[i].f # g
             /\ LatestIn(ledger \o new, g) = LatestIn(ledger, g)
      <4>1. new \in Seq(LedgerRecords)
        BY <2>3
      <4> QED
        BY ONLY <2>4, <4>1, LatestAfter
    <3>3. CASE \E i \in DOMAIN new : LatestIn(ledger \o new, g) = new[i] /\ new[i].f = g
      <4> PICK i \in DOMAIN new : LatestIn(ledger \o new, g) = new[i] /\ new[i].f = g
        BY <3>3
      <4>1. /\ new[i].f = c.lines[i].f /\ new[i].digest = c.lines[i].digest
            /\ new[i].action = c.lines[i].action /\ i \in DOMAIN c.lines
        BY <2>a
      <4>2. new[i] \in LedgerRecords
        BY <2>3, <2>5, ElementOfSeq
      <4>3. new[i] # None /\ new[i].action \in {"approve", "revoke"}
        BY <4>2, FeatureAssumption DEF LedgerRecords
      <4>4. new[i].action = "approve" => new[i].digest = Digest(file[g])
        <5>1. Chunk(c, file) /\ Bearing(c)
          BY <1>1, <2>1 DEF Backed, Bearing
        <5>2. \A j \in DOMAIN c.lines : c.lines[j].action = "approve" =>
                c.lines[j].digest = Digest(file[c.lines[j].f])
          BY ONLY <5>1 DEF Chunk
        <5>3. new[i].f = g
          OBVIOUS
        <5> QED
          BY ONLY <5>2, <5>3, <4>1
      <4>5. Settles(new[i], file[g])
        BY ONLY <4>3, <4>4 DEF Settles
      <4> QED
        BY <3>1, <4>5
    <3>4. CASE /\ \A i \in DOMAIN new : new[i].f # g
               /\ LatestIn(ledger \o new, g) = LatestIn(ledger, g)
      <4>1. ~Names(c, g)
        BY ONLY <2>a, <2>5, <3>4 DEF Names
      <4>2. \A q \in Procs : ~Names(proc[q], g)
        BY <1>5, <1>6, <2>1, <4>1
      <4>3. Settles(LatestIn(ledger, g), file[g])
        BY <2>1, <2>8, <3>1, <4>2 DEF Backed
      <4> QED
        BY <3>1, <3>4, <4>3
    <3> QED
      BY <3>2, <3>3, <3>4
  <2> QED
    BY <2>6, <2>7, <2>8
<1> QED
  BY <1>7, <1>8 DEF Backed

\* What a stamp adds to the lines of its chunk.
LEMMA ChunkGrows ==
  ASSUME NEW c, Typed(c), c.at = "stamp"
  PROVE  /\ Bearing(NextOfChunk(c)) /\ NextOfChunk(c).at # "append"
         /\ \A g : Names(c, g) => Names(NextOfChunk(c), g)
         /\ Names(NextOfChunk(c), c.f)
         /\ \A i \in DOMAIN NextOfChunk(c).lines :
              LET line == NextOfChunk(c).lines[i] IN
              \/ i \in DOMAIN c.lines /\ line = c.lines[i]
              \/ line.f = c.f /\ line.digest = Digest(c.doc)
<1> PICK line : line = [action |-> "approve", f |-> c.f, digest |-> Digest(c.doc)]
  OBVIOUS
<1> PICK lines : lines = Append(c.lines, line)
  OBVIOUS
<1> PICK next : next = NextOfChunk(c)
  OBVIOUS
<1>1. c.lines \in Seq(LedgerLines) /\ line \in LedgerLines
  BY StampedDocument DEF Typed, LedgerLines
<1>2. next.at \in {"count", "read"} /\ next.lines = lines
  BY DEF NextOfChunk
<1>3. /\ Len(lines) = Len(c.lines) + 1 /\ lines \in Seq(LedgerLines)
      /\ \A i \in 1 .. Len(c.lines) : lines[i] = c.lines[i]
      /\ lines[Len(c.lines) + 1] = line
  BY <1>1, AppendProperties
<1>4. /\ DOMAIN c.lines = 1 .. Len(c.lines) /\ Len(c.lines) \in Nat
      /\ DOMAIN lines = 1 .. Len(lines)
  BY <1>1, <1>3, LenProperties
<1>5. Bearing(next) /\ next.at # "append"
  BY <1>2 DEF Bearing
<1>6. \A g : Names(c, g) => Names(next, g)
  BY ONLY <1>2, <1>3, <1>4, <1>5 DEF Names
<1>7. Names(next, c.f)
  <2>1. Len(c.lines) + 1 \in DOMAIN lines /\ lines[Len(c.lines) + 1].f = c.f
    BY <1>3, <1>4
  <2> QED
    BY <1>2, <1>5, <2>1 DEF Names
<1>8. \A i \in DOMAIN next.lines : \/ i \in DOMAIN c.lines /\ next.lines[i] = c.lines[i]
                                   \/ next.lines[i] = line
  BY ONLY <1>2, <1>3, <1>4
<1>9. line.f = c.f /\ line.digest = Digest(c.doc)
  OBVIOUS
<1> QED
  BY <1>5, <1>6, <1>7, <1>8, <1>9

\* Every step keeps stamps backed by a record or by lines to come.
LEMMA BackedNext ==
  Inv /\ Types /\ Undisturbed /\ Backed /\ [Next]_vars => Backed'
<1> SUFFICES ASSUME Inv, Types, Undisturbed, Backed, [Next]_vars PROVE Backed'
  OBVIOUS
<1>a. \A p \in Procs : proc[p].at # "idle" => proc[p] # Idle
  BY DEF Idle
<1>b. \A c : ~Bearing(c) => Chunk(c, file) /\ c.at # "append" /\ \A f : ~Names(c, f)
  BY DEF Bearing, Chunk, Names
<1>c. \A p \in Procs : proc[p] = Idle => \A f : ~Names(proc[p], f)
  BY DEF Names, Bearing, Idle
<1>d. calm => \A p \in Procs : Chunk(proc[p], file)
  BY DEF Backed
<1>1. ASSUME NEW p \in Procs, NEW f \in Features, OpenMissing(p, f) PROVE Backed'
  <2> PICK c : c = [at |-> "open", f |-> f]
    OBVIOUS
  <2>1. ~Bearing(c)
    BY DEF Bearing
  <2>2. Begin(p, c) /\ UNCHANGED <<file, ledger, whole>> /\ proc[p] = Idle
    BY <1>1 DEF OpenMissing, Begin
  <2> QED
    BY <1>b, <1>c, <2>1, <2>2, BackedQuiet
<1>2. ASSUME NEW p \in Procs, NEW f \in Features, Resume(p, f) PROVE Backed'
  <2>1. UNCHANGED <<file, ledger, proc, calm, whole>>
    BY <1>2 DEF Resume
  <2> QED
    BY <2>1 DEF Backed, Readable
<1>3. ASSUME NEW p \in Procs, NEW f \in Features, NEW batch \in Batches, RecordStart(p, f, batch)
      PROVE  Backed'
  <2> PICK c : c = [at |-> "apply", f |-> f, doc |-> file[f], batch |-> batch]
    OBVIOUS
  <2>1. ~Bearing(c)
    BY DEF Bearing
  <2>2. Begin(p, c) /\ UNCHANGED <<file, ledger, whole>> /\ proc[p] = Idle
    BY <1>3 DEF RecordStart, Begin
  <2> QED
    BY <1>b, <1>c, <2>1, <2>2, BackedQuiet
<1>4. ASSUME NEW p \in Procs, OpenWrite(p) PROVE Backed'
  <2> PICK f : f = proc[p].f
    OBVIOUS
  <2> PICK d : d = NewDocument
    OBVIOUS
  <2> PICK c : c = Idle
    OBVIOUS
  <2>1. f \in Features /\ d.state = "draft" /\ proc[p] # Idle /\ ~Bearing(proc[p]) /\ ~Bearing(c)
    BY <1>4, <1>a DEF OpenWrite, At, Types, Typed, NewDocument, Bearing, Idle
  <2>2. Chunk(c, file') /\ c.at # "append"
    BY <2>1 DEF Chunk, Bearing
  <2>3. Continue(p, c) /\ file' = [file EXCEPT ![f] = d] /\ UNCHANGED <<ledger, whole>>
    BY <1>4 DEF OpenWrite, Finish
  <2> QED
    BY <1>b, <2>1, <2>2, <2>3, BackedWrite
<1>5. ASSUME NEW p \in Procs, RecordApply(p) PROVE Backed'
  <2> PICK d : d = Recorded(proc[p].doc, proc[p].batch, entry)
    OBVIOUS
  <2> PICK c : c = [at |-> "write", f |-> proc[p].f, doc |-> d]
    OBVIOUS
  <2>1. proc[p] # Idle /\ ~Bearing(proc[p]) /\ ~Bearing(c)
    BY <1>5, <1>a DEF RecordApply, At, Bearing
  <2>2. UNCHANGED <<file, ledger, whole>> /\ (Finish(p) \/ Continue(p, c))
    BY <1>5 DEF RecordApply
  <2> QED
    BY <1>b, <2>1, <2>2, BackedQuiet, BackedEnd
<1>6. ASSUME NEW p \in Procs, RecordWrite(p) PROVE Backed'
  <2> PICK f : f = proc[p].f
    OBVIOUS
  <2> PICK d : d = proc[p].doc
    OBVIOUS
  <2> PICK c : c = Idle
    OBVIOUS
  <2>1. f \in Features /\ proc[p] # Idle /\ ~Bearing(proc[p]) /\ ~Bearing(c)
    BY <1>6, <1>a DEF RecordWrite, At, Types, Typed, Bearing, Idle
  <2>2. calm => d.state = "draft"
    BY <1>6 DEF RecordWrite, At, Undisturbed, Prepared
  <2>3. Chunk(c, file') /\ c.at # "append"
    BY <2>1 DEF Chunk, Bearing
  <2>4. Continue(p, c) /\ file' = [file EXCEPT ![f] = d] /\ UNCHANGED <<ledger, whole>>
    BY <1>6 DEF RecordWrite, Finish
  <2> QED
    BY <1>b, <2>1, <2>2, <2>3, <2>4, BackedWrite
<1>7. ASSUME NEW f \in Features, Review(f) PROVE Backed'
  <2>1. UNCHANGED <<file, ledger, proc, calm, whole>>
    BY <1>7 DEF Review
  <2> QED
    BY <2>1 DEF Backed, Readable
<1>8. ASSUME NEW p \in Procs, NEW pins \in Pins, ApproveStart(p, pins) PROVE Backed'
  <2> PICK c : c = [at |-> "read", todo |-> DOMAIN pins, pins |-> pins, lines |-> <<>>]
    OBVIOUS
  <2>1. Chunk(c, file) /\ c.at # "append"
    BY DEF Chunk
  <2>2. Begin(p, c) /\ UNCHANGED <<file, ledger, whole>> /\ proc[p] = Idle
    BY <1>8 DEF ApproveStart, Begin
  <2> QED
    BY <1>c, <2>1, <2>2, BackedQuiet
<1>9. ASSUME NEW p \in Procs, NEW f \in Features, ApproveRead(p, f) PROVE Backed'
  <2> PICK c : c = [at |-> "stamp", todo |-> proc[p].todo, f |-> f, pins |-> proc[p].pins,
                    lines |-> proc[p].lines, doc |-> Stamped(file[f])]
    OBVIOUS
  <2>1. proc[p] # Idle /\ UNCHANGED <<file, ledger>> /\ proc[p].at = "read"
    BY <1>9, <1>a DEF ApproveRead, At
  <2>2. CASE AsPinned(file[f], proc[p].pins[f])
    <3>1. c.at = "stamp" /\ c.lines = proc[p].lines
      OBVIOUS
    <3>2. Chunk(proc[p], file) => Chunk(c, file)
      BY <2>1, <3>1 DEF Chunk, Bearing
    <3>3. \A g : Names(proc[p], g) => Names(c, g)
      BY <2>1, <3>1 DEF Names, Bearing
    <3>4. Continue(p, c) /\ UNCHANGED whole
      BY <1>9, <2>2 DEF ApproveRead
    <3> QED
      BY <1>d, <2>1, <3>1, <3>2, <3>3, <3>4, BackedQuiet
  <2>3. CASE ~AsPinned(file[f], proc[p].pins[f])
    <3>1. Finish(p) /\ whole' = (whole /\ proc[p].lines = <<>>)
      BY <1>9, <2>3 DEF ApproveRead
    <3>2. whole' => whole /\ \A g \in Features : ~Names(proc[p], g)
      <4>1. whole' => whole /\ proc[p].lines = <<>>
        BY ONLY <3>1
      <4>2. proc[p].lines = <<>> => \A g : ~Names(proc[p], g)
        BY ONLY DEF Names
      <4> QED
        BY <4>1, <4>2
    <3> QED
      BY <2>1, <3>1, <3>2, BackedEnd
  <2> QED
    BY <2>2, <2>3
<1>10. ASSUME NEW p \in Procs, ApproveStamp(p) PROVE Backed'
  <2> PICK f : f = proc[p].f
    OBVIOUS
  <2> PICK d : d = proc[p].doc
    OBVIOUS
  <2> PICK c : c = NextOfChunk(proc[p])
    OBVIOUS
  <2>1. /\ f \in Features /\ IsDocument(d) /\ proc[p] # Idle
        /\ proc[p].at = "stamp" /\ Typed(proc[p])
    BY <1>10, <1>a DEF ApproveStamp, At, Types, Typed
  <2>2. /\ Bearing(c) /\ c.at # "append" /\ Names(c, f)
        /\ \A g : Names(proc[p], g) => Names(c, g)
        /\ \A i \in DOMAIN c.lines :
             \/ i \in DOMAIN proc[p].lines /\ c.lines[i] = proc[p].lines[i]
             \/ c.lines[i].f = f /\ c.lines[i].digest = Digest(d)
    BY <2>1, ChunkGrows
  <2>3. Continue(p, c) /\ file' = [file EXCEPT ![f] = d] /\ UNCHANGED <<ledger, whole>>
    BY <1>10 DEF ApproveStamp
  <2>4. \A g \in Features : file'[g] = IF g = f THEN d ELSE file[g]
    BY <2>3 DEF Inv, Functions
  <2>5. ASSUME calm PROVE Chunk(c, file')
    <3>1. file[f] # None /\ d = Stamped(file[f])
      BY <2>1, <2>5 DEF Undisturbed, Prepared
    <3>2. Digest(file[f]) = Digest(d) /\ d # None
      BY <2>1, <3>1, DocumentsExist, StampKeepsContent DEF Types, TypeOK, Shaped
    <3>3. Chunk(proc[p], file)
      BY <2>5 DEF Backed
    <3>4. \A i \in DOMAIN proc[p].lines : proc[p].lines[i].f \in Features
      <4> PICK lines \in Seq(LedgerLines) : lines = proc[p].lines
        BY <2>1 DEF Typed
      <4>1. \A i \in DOMAIN lines : lines[i] \in LedgerLines
        BY ElementOfSeq, LenProperties
      <4> QED
        BY <4>1 DEF LedgerLines
    <3>5. ASSUME NEW i \in DOMAIN c.lines, c.lines[i].action = "approve"
          PROVE  file'[c.lines[i].f] # None /\ c.lines[i].digest = Digest(file'[c.lines[i].f])
      <4>1. CASE c.lines[i].f = f /\ c.lines[i].digest = Digest(d)
        BY <2>1, <2>4, <3>2, <4>1
      <4>2. CASE i \in DOMAIN proc[p].lines /\ c.lines[i] = proc[p].lines[i]
        <5>1. /\ file[c.lines[i].f] # None /\ c.lines[i].digest = Digest(file[c.lines[i].f])
              /\ c.lines[i].f \in Features
          BY <2>1, <3>3, <3>4, <3>5, <4>2 DEF Chunk, Bearing
        <5> QED
          BY <2>4, <3>2, <5>1
      <4> QED
        BY <2>2, <4>1, <4>2
    <3> QED
      BY <3>5 DEF Chunk
  <2> QED
    BY <2>1, <2>2, <2>3, <2>5, BackedWrite
<1>11. ASSUME NEW p \in Procs, NEW f \in Features, RevokeStart(p, f) PROVE Backed'
  <2> PICK line : line = [action |-> "revoke", f |-> f, digest |-> None]
    OBVIOUS
  <2> PICK c : c = [at |-> "count", lines |-> <<line>>]
    OBVIOUS
  <2>1. line.action # "approve" /\ c.at # "append"
    OBVIOUS
  <2>2. \A i \in DOMAIN c.lines : c.lines[i] = line
    OBVIOUS
  <2>3. Chunk(c, file)
    BY <2>1, <2>2 DEF Chunk
  <2>4. Begin(p, c) /\ UNCHANGED <<file, ledger, whole>> /\ proc[p] = Idle
    BY <1>11 DEF RevokeStart, Begin
  <2> QED
    BY <1>c, <2>1, <2>3, <2>4, BackedQuiet
<1>12. ASSUME NEW p \in Procs, LedgerCount(p) PROVE Backed'
  <2> PICK c : c = [at |-> "append", lines |-> proc[p].lines, count |-> Len(ledger)]
    OBVIOUS
  <2>1. proc[p] # Idle /\ UNCHANGED <<file, ledger>> /\ proc[p].at = "count"
    BY <1>12, <1>a DEF LedgerCount, At
  <2>2. c.at = "append" /\ c.lines = proc[p].lines /\ c.count = Len(ledger)
    OBVIOUS
  <2>3. Chunk(proc[p], file) => Chunk(c, file)
    BY <2>1, <2>2 DEF Chunk, Bearing
  <2>4. \A g : Names(proc[p], g) => Names(c, g)
    BY <2>1, <2>2 DEF Names, Bearing
  <2>5. (Continue(p, c) /\ UNCHANGED whole) \/ (Finish(p) /\ whole' = FALSE)
    BY <1>12 DEF LedgerCount
  <2> QED
    BY <1>d, <2>1, <2>2, <2>3, <2>4, <2>5, BackedQuiet, BackedEnd
<1>13. ASSUME NEW p \in Procs, LedgerAppend(p) PROVE Backed'
  BY <1>13, BackedAppend
<1>14. ASSUME NEW p \in Procs, CiteIssue(p) PROVE Backed'
  <2>1. proc[p] # Idle /\ ~Bearing(proc[p])
    BY <1>14, <1>a DEF CiteIssue, At, Bearing
  <2> QED
    BY <1>14, <1>b, <2>1, BackedEnd DEF CiteIssue
<1>15. ASSUME NEW p \in Procs, Stop(p) PROVE Backed'
  BY <1>15, BackedEnd DEF Stop
<1>16. ASSUME NEW p \in Procs, NEW f \in Features, CiteStart(p, f) PROVE Backed'
  <2> PICK c : c = [at |-> "cite", f |-> f, record |-> Latest(f)]
    OBVIOUS
  <2>1. ~Bearing(c)
    BY DEF Bearing
  <2>2. Begin(p, c) /\ UNCHANGED <<file, ledger, whole>> /\ proc[p] = Idle
    BY <1>16 DEF CiteStart, Begin
  <2> QED
    BY <1>b, <1>c, <2>1, <2>2, BackedQuiet
<1>17. ASSUME NEW p \in Procs, CiteRead(p) PROVE Backed'
  <2> PICK c : c = [at |-> "resolve", f |-> proc[p].f, record |-> proc[p].record,
                    doc |-> file[proc[p].f]]
    OBVIOUS
  <2>1. proc[p] # Idle /\ ~Bearing(proc[p]) /\ ~Bearing(c)
    BY <1>17, <1>a DEF CiteRead, At, Bearing
  <2>2. UNCHANGED <<file, ledger, whole>> /\ (Finish(p) \/ Continue(p, c))
    BY <1>17 DEF CiteRead
  <2> QED
    BY <1>b, <2>1, <2>2, BackedQuiet, BackedEnd
<1>18. ASSUME NEW p \in Procs, NEW id, NEW pinned, CiteResolve(p, id, pinned) PROVE Backed'
  <2> PICK c : c = [at |-> "issue", f |-> proc[p].f, digest |-> Digest(proc[p].doc), id |-> id]
    OBVIOUS
  <2>1. Continue(p, c) \/ Finish(p)
    BY <1>18, Zenon DEF CiteResolve
  <2>2. /\ proc[p] # Idle /\ ~Bearing(proc[p]) /\ ~Bearing(c)
        /\ UNCHANGED <<file, ledger, whole>>
    BY <1>18, <1>a DEF CiteResolve, At, Bearing
  <2> QED
    BY <1>b, <2>1, <2>2, BackedQuiet, BackedEnd
<1>19. ASSUME NEW f \in Features, CheckOut(f) PROVE Backed'
  BY <1>19 DEF CheckOut, Backed
<1>20. ASSUME NEW e \in Entries, EntryChanges(e) PROVE Backed'
  <2>1. UNCHANGED <<file, ledger, proc, calm, whole>>
    BY <1>20 DEF EntryChanges
  <2> QED
    BY <2>1 DEF Backed, Readable
<1>21. CASE UNCHANGED vars
  BY <1>21 DEF vars, Backed, Readable
<1>22. CASE \E p \in Procs, f \in Features :
              \/ OpenMissing(p, f) \/ Resume(p, f)
              \/ \E batch \in Batches : RecordStart(p, f, batch)
              \/ ApproveRead(p, f) \/ RevokeStart(p, f) \/ CiteStart(p, f)
  BY <1>22, <1>1, <1>2, <1>3, <1>9, <1>11, <1>16
<1>23. CASE \E p \in Procs :
              \/ OpenWrite(p) \/ RecordApply(p) \/ RecordWrite(p)
              \/ \E pins \in Pins : ApproveStart(p, pins)
              \/ ApproveStamp(p) \/ LedgerCount(p) \/ LedgerAppend(p)
              \/ CiteRead(p) \/ CiteIssue(p) \/ Stop(p)
              \/ \E id \in {"FC", "FR"} \X (1 .. 3), pinned \in {None} \cup {s[2] : s \in shown} :
                   CiteResolve(p, id, pinned)
  BY <1>23, <1>4, <1>5, <1>6, <1>8, <1>10, <1>12, <1>13, <1>14, <1>15, <1>17, <1>18
<1>24. CASE \/ \E f \in Features : Review(f) \/ CheckOut(f)
            \/ \E e \in Entries : EntryChanges(e)
  BY <1>24, <1>7, <1>19, <1>20
<1> QED
  BY <1>21, <1>22, <1>23, <1>24 DEF Next

\* As long as commands run one at a time, records are written over the version
\* they were made on and a stamp and its ledger line come together, for any
\* number of features, authors and batches.
THEOREM OneAtATimeHolds == Spec => []OneAtATime
<1>1. Types => TypeOK
  BY DEF Types
<1>2. Undisturbed => RecordsOnSeen
  BY DEF Undisturbed, Prepared, RecordsOnSeen, At
<1>3. ASSUME Inv, Types, Backed PROVE StampsTakeEffect
  <2> SUFFICES ASSUME NEW f \in Features, calm, whole, \A p \in Procs : proc[p] = Idle,
                      file[f] # None, file[f].state = "approved"
               PROVE  LaneOf(f) \in {"approved-current", "revoked"}
    BY DEF StampsTakeEffect
  <2> PICK d : d = file[f]
    OBVIOUS
  <2> PICK r : r = Latest(f)
    OBVIOUS
  <2>1. \A p \in Procs : ~Names(proc[p], f)
    BY DEF Names, Bearing, Idle
  <2>2. r # None /\ (r.action = "revoke" \/ r.digest = Digest(d))
    BY <1>3, <2>1, LatestIsIn DEF Backed, Stamp, Settles
  <2>3. Valid(d) /\ d.state = "approved"
    BY <1>3 DEF Inv, Documents, Rendered
  <2>4. LaneOf(f) = Lane(d, r)
    BY DEF LaneOf
  <2> QED
    BY <2>2, <2>3, <2>4 DEF Lane
<1> QED
  BY <1>1, <1>2, <1>3, StampsInit, StampsNext, TypedInit, TypesNext, UndisturbedInit,
     UndisturbedNext, BackedInit, BackedNext, PTL DEF Spec, OneAtATime

-----------------------------------------------------------------------------
(* What a statement rests on.                                              *)

\* Level n, given the levels before it.
Level(g, n, d, id) == IF n = 0 THEN {id} ELSE Follow(d, g[n - 1])

\* The levels of a walk follow each other as they are defined.
LEMMA LevelsDefined ==
  ASSUME NEW d, NEW id, Cardinality(AllLive(d)) \in Nat
  PROVE  /\ Levels(d, id)[0] = {id}
         /\ \A n \in 1 .. Cardinality(AllLive(d)) :
              Levels(d, id)[n] = Follow(d, Levels(d, id)[n - 1])
<1> PICK top \in Nat : top = Cardinality(AllLive(d))
  OBVIOUS
<1> PICK levels : levels = Levels(d, id)
  OBVIOUS
<1> DEFINE S == {m \in Nat : \E g : g = [i \in 0 .. m |-> Level(g, i, d, id)]}
<1>1. 0 \in S
  <2> DEFINE g == [i \in 0 .. 0 |-> {id}]
  <2>1. g = [i \in 0 .. 0 |-> Level(g, i, d, id)]
    BY DEF Level
  <2> HIDE DEF g
  <2> QED
    BY <2>1
<1>2. ASSUME NEW m \in Nat, m \in S PROVE m + 1 \in S
  <2> PICK g : g = [i \in 0 .. m |-> Level(g, i, d, id)]
    BY <1>2
  <2> DEFINE h == [i \in 0 .. m + 1 |-> IF i <= m THEN g[i] ELSE Level(g, i, d, id)]
  <2>1. \A i \in 0 .. m + 1 : i # 0 => h[i - 1] = g[i - 1]
    OBVIOUS
  <2>2. \A i \in 0 .. m + 1 : Level(h, i, d, id) = Level(g, i, d, id)
    BY <2>1 DEF Level
  <2>3. \A i \in 0 .. m + 1 : h[i] = Level(g, i, d, id)
    <3> SUFFICES ASSUME NEW i \in 0 .. m + 1 PROVE h[i] = Level(g, i, d, id)
      OBVIOUS
    <3>1. CASE i <= m
      <4>1. i \in 0 .. m
        BY <3>1
      <4>2. g[i] = Level(g, i, d, id)
        BY <4>1
      <4> QED
        BY <3>1, <4>2
    <3>2. CASE ~(i <= m)
      BY <3>2
    <3> QED
      BY <3>1, <3>2
  <2>4. h = [i \in 0 .. m + 1 |-> h[i]]
    OBVIOUS
  <2> HIDE DEF h
  <2>5. h = [i \in 0 .. m + 1 |-> Level(h, i, d, id)]
    BY <2>2, <2>3, <2>4
  <2> QED
    BY <2>5
<1>3. top \in S
  <2> HIDE DEF S
  <2> QED
    BY <1>1, <1>2, SetInduction
<1>4. \E g : g = [i \in 0 .. top |-> Level(g, i, d, id)]
  BY <1>3
<1>5. levels = CHOOSE g : g = [i \in 0 .. top |-> Level(g, i, d, id)]
  BY DEF Levels, Level
<1> HIDE DEF S
<1>6. levels = [i \in 0 .. top |-> Level(levels, i, d, id)]
  BY <1>4, <1>5
<1>7. levels[0] = Level(levels, 0, d, id) /\ \A n \in 1 .. top : levels[n] = Level(levels, n, d, id)
  BY <1>6
<1>8. /\ Level(levels, 0, d, id) = {id}
      /\ \A n \in 1 .. top : Level(levels, n, d, id) = Follow(d, levels[n - 1])
  BY DEF Level
<1> QED
  BY <1>7, <1>8

\* A document has finitely many live rows.
LEMMA LiveFinite ==
  ASSUME NEW d, d.rows \in RowTables
  PROVE  IsFiniteSet(AllLive(d)) /\ Cardinality(AllLive(d)) \in Nat
<1>1. ASSUME NEW k \in IdKinds PROVE IsFiniteSet(LiveIds(d, k))
  <2>1. d.rows[k] \in Seq(Rows[k])
    BY TablesByKind
  <2> PICK n \in Nat : DOMAIN d.rows[k] = 1 .. n
    BY <2>1, LenProperties
  <2>2. IsFiniteSet({k})
    BY FS_Singleton
  <2>3. IsFiniteSet(1 .. n)
    BY FS_Interval
  <2>4. IsFiniteSet({k} \X (1 .. n))
    BY <2>2, <2>3, FS_Product
  <2>5. LiveIds(d, k) \in SUBSET ({k} \X (1 .. n))
    BY DEF LiveIds
  <2> QED
    BY <2>4, <2>5, FS_Subset
<1> PICK A : A = LiveIds(d, "FN")
  OBVIOUS
<1> PICK B : B = LiveIds(d, "FR")
  OBVIOUS
<1> PICK C : C = LiveIds(d, "FC")
  OBVIOUS
<1> PICK Q : Q = LiveIds(d, "FQ")
  OBVIOUS
<1> PICK E : E = LiveIds(d, "FB")
  OBVIOUS
<1>2. IsFiniteSet(A) /\ IsFiniteSet(B) /\ IsFiniteSet(C) /\ IsFiniteSet(Q) /\ IsFiniteSet(E)
  BY <1>1 DEF IdKinds
<1>3. IsFiniteSet(A \cup B)
  BY ONLY <1>2, FS_Union
<1>4. IsFiniteSet((A \cup B) \cup C)
  BY ONLY <1>2, <1>3, FS_Union
<1>5. IsFiniteSet(((A \cup B) \cup C) \cup Q)
  BY ONLY <1>2, <1>4, FS_Union
<1>6. IsFiniteSet((((A \cup B) \cup C) \cup Q) \cup E)
  BY ONLY <1>2, <1>5, FS_Union
<1>7. AllLive(d) = (((A \cup B) \cup C) \cup Q) \cup E
  BY DEF AllLive, IdKinds
<1> QED
  BY <1>6, <1>7, FS_CardinalityType

\* Level by level, the traversal reaches all a claim depends on.
LEMMA VisitedClosed ==
  ASSUME NEW d, d.rows \in RowTables, Closed(d), NEW id \in AllLive(d)
  PROVE  /\ id \in Visited(d, id) /\ Visited(d, id) \subseteq AllLive(d)
         /\ Follow(d, Visited(d, id)) = Visited(d, id)
<1> PICK all : all = AllLive(d)
  OBVIOUS
<1> PICK top : top = Cardinality(all)
  OBVIOUS
<1> PICK g : g = Levels(d, id)
  OBVIOUS
<1>1. IsFiniteSet(all) /\ top \in Nat
  BY LiveFinite
<1>2. g[0] = {id} /\ \A n \in 1 .. top : g[n] = Follow(d, g[n - 1])
  BY <1>1, LevelsDefined
<1>3. \A s : s \subseteq all => s \subseteq Follow(d, s) /\ Follow(d, s) \subseteq all
  <2>1. \A c \in LiveIds(d, "FC") : Row(d, c).deps \subseteq all
    BY DEF Closed
  <2> QED
    BY <2>1 DEF Follow
<1> DEFINE S == {n \in Nat : n <= top =>
                  /\ id \in g[n] /\ g[n] \subseteq all
                  /\ g[n] = Follow(d, g[n]) \/ n + 1 <= Cardinality(g[n])}
<1>4. 0 \in S
  <2>1. Cardinality(g[0]) = 1
    BY <1>2, FS_Singleton
  <2> QED
    BY <1>2, <2>1
<1>5. ASSUME NEW n \in Nat, n \in S PROVE n + 1 \in S
  <2> SUFFICES ASSUME n + 1 <= top
               PROVE  /\ id \in g[n + 1] /\ g[n + 1] \subseteq all
                      /\ g[n + 1] = Follow(d, g[n + 1]) \/ (n + 1) + 1 <= Cardinality(g[n + 1])
    OBVIOUS
  <2>1. g[n + 1] = Follow(d, g[n])
    <3>1. n + 1 \in 1 .. top /\ (n + 1) - 1 = n
      BY <1>1
    <3> QED
      BY <1>2, <3>1
  <2>2. /\ id \in g[n] /\ g[n] \subseteq all
        /\ g[n] = Follow(d, g[n]) \/ n + 1 <= Cardinality(g[n])
    BY <1>1, <1>5
  <2>3. id \in g[n + 1] /\ g[n + 1] \subseteq all /\ g[n] \subseteq g[n + 1]
    BY <1>3, <2>1, <2>2
  <2>4. CASE g[n] = g[n + 1]
    BY <2>1, <2>3, <2>4
  <2>5. CASE g[n] # g[n + 1]
    <3> PICK before : before = g[n]
      OBVIOUS
    <3> PICK after : after = g[n + 1]
      OBVIOUS
    <3>1. n + 1 <= Cardinality(before)
      BY <2>1, <2>2, <2>5
    <3>2. IsFiniteSet(after)
      BY <1>1, <2>3, FS_Subset
    <3>3. before \in SUBSET after /\ before # after
      BY <2>3, <2>5
    <3>4. /\ IsFiniteSet(before) /\ Cardinality(before) <= Cardinality(after)
          /\ Cardinality(after) = Cardinality(before) => after = before
      BY ONLY <3>2, <3>3, FS_Subset
    <3>5. Cardinality(before) \in Nat /\ Cardinality(after) \in Nat
      BY <3>2, <3>4, FS_CardinalityType
    <3>6. (n + 1) + 1 <= Cardinality(after)
      BY <3>1, <3>3, <3>4, <3>5
    <3> QED
      BY <2>3, <3>6
  <2> QED
    BY <2>4, <2>5
<1>6. top \in S
  <2> HIDE DEF S
  <2>1. Nat \subseteq S
    BY <1>4, <1>5, SetInduction
  <2> QED
    BY <1>1, <2>1
<1>7. /\ id \in g[top] /\ g[top] \subseteq all
      /\ g[top] = Follow(d, g[top]) \/ top + 1 <= Cardinality(g[top])
  BY <1>1, <1>6
<1>8. Cardinality(g[top]) <= top
  BY <1>1, <1>7, FS_Subset
<1>9. Cardinality(g[top]) \in Nat
  BY <1>1, <1>7, FS_Subset, FS_CardinalityType
<1>10. g[top] = Follow(d, g[top])
  BY <1>1, <1>7, <1>8, <1>9
<1> QED
  BY <1>7, <1>10 DEF Visited

\* The bindings that decide on a statement are those of all it rests on.
LEMMA EvidenceSelected ==
  ASSUME NEW d, d.rows \in RowTables, Closed(d), NEW id \in AllLive(d)
  PROVE  StatementEvidence(d, id) \subseteq SelectedBindings(d, id)
<1> PICK V : V = Visited(d, id)
  OBVIOUS
<1>1. id \in V /\ V \in SUBSET AllLive(d) /\ Follow(d, V) = V
  BY VisitedClosed
<1>2. \A c \in V \cap LiveIds(d, "FC") : Row(d, c).deps \subseteq V
  BY <1>1 DEF Follow
<1>3. RestsOn(d, id) \subseteq V
  BY <1>1, <1>2 DEF RestsOn
<1> QED
  BY <1>3 DEF StatementEvidence, SelectedBindings

-----------------------------------------------------------------------------
(* Receipts.                                                               *)

\* What feature-verify-citations read: a record of the ledger, and a document
\* that if approved is one that was rendered.
Citing(c, log, pins) ==
  /\ c.at \in {"cite", "resolve"} =>
       \/ c.record = None
       \/ \E i \in DOMAIN log : log[i] = c.record /\ c.record.f = c.f
  /\ c.at = "resolve" /\ c.doc.state = "approved" =>
       Valid(c.doc) /\ <<c.f, Digest(c.doc)>> \in pins

Cited == \A p \in Procs : Citing(proc[p], ledger, shown)

\* Nobody cites at the start.
LEMMA CitedInit == Init => Cited
  BY DEF Init, Cited, Citing, Idle

\* A command moves on, with ledger and renderings as they were.
LEMMA CitedStep ==
  ASSUME Inv, Cited, NEW p \in Procs, NEW command,
         Begin(p, command) \/ Continue(p, command), UNCHANGED <<ledger, shown>>,
         Citing(command, ledger, shown)
  PROVE  Cited'
<1>1. proc' = [proc EXCEPT ![p] = command] /\ proc = [q \in Procs |-> proc[q]]
  BY DEF Begin, Continue, Inv, Functions
<1>2. \A q \in Procs : proc'[q] = IF q = p THEN command ELSE proc[q]
  BY <1>1
<1> QED
  BY <1>2 DEF Cited

\* Every step keeps what a citation has read so far true.
LEMMA CitedNext ==
  Inv /\ Types /\ Cited /\ [Next]_vars => Cited'
<1> SUFFICES ASSUME Inv, Types, Cited, [Next]_vars PROVE Cited'
  OBVIOUS
<1>a. \A c : c.at \notin {"cite", "resolve"} => Citing(c, ledger, shown)
  BY DEF Citing
<1>b. Citing(Idle, ledger, shown)
  BY DEF Citing, Idle
<1>1. ASSUME NEW p \in Procs, NEW f \in Features, OpenMissing(p, f) PROVE Cited'
  <2> PICK c : c = [at |-> "open", f |-> f]
    OBVIOUS
  <2> QED
    BY <1>1, <1>a, CitedStep DEF OpenMissing
<1>2. ASSUME NEW p \in Procs, NEW f \in Features, Resume(p, f) PROVE Cited'
  BY <1>2 DEF Resume, Cited
<1>3. ASSUME NEW p \in Procs, NEW f \in Features, NEW batch \in Batches, RecordStart(p, f, batch)
      PROVE  Cited'
  <2> PICK c : c = [at |-> "apply", f |-> f, doc |-> file[f], batch |-> batch]
    OBVIOUS
  <2> QED
    BY <1>3, <1>a, CitedStep DEF RecordStart
<1>4. ASSUME NEW p \in Procs,
             OpenWrite(p) \/ RecordWrite(p) \/ CiteIssue(p) \/ Stop(p)
      PROVE  Cited'
  BY <1>4, <1>b, CitedStep DEF OpenWrite, RecordWrite, CiteIssue, Stop, Finish
<1>5. ASSUME NEW p \in Procs, RecordApply(p) PROVE Cited'
  <2> PICK d : d = Recorded(proc[p].doc, proc[p].batch, entry)
    OBVIOUS
  <2> PICK c : c = [at |-> "write", f |-> proc[p].f, doc |-> d]
    OBVIOUS
  <2>1. UNCHANGED <<ledger, shown>> /\ (Continue(p, Idle) \/ Continue(p, c))
    BY <1>5 DEF RecordApply, Finish
  <2> QED
    BY <1>a, <1>b, <2>1, CitedStep
<1>6. ASSUME NEW f \in Features, Review(f) PROVE Cited'
  <2>1. UNCHANGED <<ledger, proc>> /\ shown \subseteq shown'
    BY <1>6 DEF Review
  <2> QED
    BY <2>1 DEF Cited, Citing
<1>7. ASSUME NEW p \in Procs, NEW pins \in Pins, ApproveStart(p, pins) PROVE Cited'
  <2> PICK c : c = [at |-> "read", todo |-> DOMAIN pins, pins |-> pins, lines |-> <<>>]
    OBVIOUS
  <2> QED
    BY <1>7, <1>a, CitedStep DEF ApproveStart
<1>8. ASSUME NEW p \in Procs, NEW f \in Features, ApproveRead(p, f) PROVE Cited'
  <2> PICK c : c = [at |-> "stamp", todo |-> proc[p].todo, f |-> f, pins |-> proc[p].pins,
                    lines |-> proc[p].lines, doc |-> Stamped(file[f])]
    OBVIOUS
  <2>1. UNCHANGED <<ledger, shown>> /\ (Continue(p, Idle) \/ Continue(p, c))
    BY <1>8 DEF ApproveRead, Finish
  <2> QED
    BY <1>a, <1>b, <2>1, CitedStep
<1>9. ASSUME NEW p \in Procs, ApproveStamp(p) PROVE Cited'
  <2> PICK c : c = NextOfChunk(proc[p])
    OBVIOUS
  <2>1. c.at \in {"count", "read"}
    BY DEF NextOfChunk
  <2> QED
    BY <1>9, <1>a, <2>1, CitedStep DEF ApproveStamp
<1>10. ASSUME NEW p \in Procs, NEW f \in Features, RevokeStart(p, f) PROVE Cited'
  <2> PICK c : c = [at |-> "count",
                    lines |-> <<[action |-> "revoke", f |-> f, digest |-> None]>>]
    OBVIOUS
  <2> QED
    BY <1>10, <1>a, CitedStep DEF RevokeStart
<1>11. ASSUME NEW p \in Procs, LedgerCount(p) PROVE Cited'
  <2> PICK c : c = [at |-> "append", lines |-> proc[p].lines, count |-> Len(ledger)]
    OBVIOUS
  <2>1. UNCHANGED <<ledger, shown>> /\ (Continue(p, Idle) \/ Continue(p, c))
    BY <1>11 DEF LedgerCount, Finish
  <2> QED
    BY <1>a, <1>b, <2>1, CitedStep
<1>12. ASSUME NEW p \in Procs, LedgerAppend(p) PROVE Cited'
  <2> PICK new : new = Lines(proc[p].lines, proc[p].count)
    OBVIOUS
  <2>1. /\ ledger' = ledger \o new /\ shown' = shown
        /\ \A q \in Procs : proc'[q] = proc[q] \/ proc'[q] = Idle
    BY <1>12 DEF LedgerAppend, Finish, Continue, Inv, Functions
  <2>2. new \in Seq(LedgerRecords) /\ ledger \in Seq(LedgerRecords)
    BY <1>12, LinesTyped DEF LedgerAppend, At, Types, TypeOK, Typed
  <2>3. \A i \in DOMAIN ledger : i \in DOMAIN ledger' /\ ledger'[i] = ledger[i]
    BY <2>1, <2>2, ConcatProperties, LenProperties
  <2>4. ASSUME NEW q \in Procs PROVE Citing(proc[q], ledger', shown)
    <3> PICK c : c = proc[q]
      OBVIOUS
    <3>1. Citing(c, ledger, shown)
      BY DEF Cited
    <3>2. Citing(c, ledger', shown)
      BY ONLY <2>3, <3>1 DEF Citing
    <3> QED
      BY <3>2
  <2>5. Citing(Idle, ledger', shown)
    BY DEF Citing, Idle
  <2>6. ASSUME NEW q \in Procs PROVE Citing(proc'[q], ledger', shown')
    BY <2>1, <2>4, <2>5
  <2> QED
    BY ONLY <2>6 DEF Cited
<1>13. ASSUME NEW p \in Procs, NEW f \in Features, CiteStart(p, f) PROVE Cited'
  <2> PICK r : r = Latest(f)
    OBVIOUS
  <2> PICK c : c = [at |-> "cite", f |-> f, record |-> r]
    OBVIOUS
  <2>1. ledger \in Seq(LedgerRecords)
    BY DEF Types, TypeOK
  <2>2. r = None \/ \E i \in DOMAIN ledger : r = ledger[i] /\ ledger[i].f = f
    BY <2>1, LatestIs, LatestIsIn
  <2>3. Citing(c, ledger, shown)
    BY <2>2 DEF Citing
  <2> QED
    BY <1>13, <2>3, CitedStep DEF CiteStart
<1>14. ASSUME NEW p \in Procs, CiteRead(p) PROVE Cited'
  <2> PICK f : f = proc[p].f
    OBVIOUS
  <2> PICK c : c = [at |-> "resolve", f |-> f, record |-> proc[p].record, doc |-> file[f]]
    OBVIOUS
  <2>1. UNCHANGED <<ledger, shown>>
    BY <1>14 DEF CiteRead
  <2>2. CASE file[f] = None
    BY <1>14, <1>b, <2>1, <2>2, CitedStep DEF CiteRead, Finish
  <2>3. CASE file[f] # None
    <3>1. f \in Features /\ Citing(proc[p], ledger, shown) /\ proc[p].at = "cite"
      BY <1>14 DEF CiteRead, At, Types, Typed, Cited
    <3>2. c.record = None \/ \E i \in DOMAIN ledger : ledger[i] = c.record /\ c.record.f = c.f
      BY <3>1 DEF Citing
    <3>3. c.doc.state = "approved" => Valid(c.doc) /\ <<c.f, Digest(c.doc)>> \in shown
      BY <2>3, <3>1 DEF Inv, Documents, Rendered
    <3>4. Citing(c, ledger, shown)
      BY <3>2, <3>3 DEF Citing
    <3> QED
      BY <1>14, <2>1, <2>3, <3>4, CitedStep DEF CiteRead
  <2> QED
    BY <2>2, <2>3
<1>15. ASSUME NEW p \in Procs, NEW id, NEW pinned, CiteResolve(p, id, pinned) PROVE Cited'
  <2> PICK c : c = [at |-> "issue", f |-> proc[p].f, digest |-> Digest(proc[p].doc), id |-> id]
    OBVIOUS
  <2>1. Continue(p, c) \/ Continue(p, Idle)
    BY <1>15, Zenon DEF CiteResolve, Finish
  <2>2. UNCHANGED <<ledger, shown>>
    BY <1>15 DEF CiteResolve
  <2> QED
    BY <1>a, <1>b, <2>1, <2>2, CitedStep
<1>16. ASSUME NEW f \in Features, CheckOut(f) PROVE Cited'
  BY <1>16 DEF CheckOut, Cited
<1>17. ASSUME NEW e \in Entries, EntryChanges(e) PROVE Cited'
  BY <1>17 DEF EntryChanges, Cited
<1>18. CASE UNCHANGED vars
  BY <1>18 DEF vars, Cited
<1>19. CASE \E p \in Procs, f \in Features :
              \/ OpenMissing(p, f) \/ Resume(p, f)
              \/ \E batch \in Batches : RecordStart(p, f, batch)
              \/ ApproveRead(p, f) \/ RevokeStart(p, f) \/ CiteStart(p, f)
  BY <1>19, <1>1, <1>2, <1>3, <1>8, <1>10, <1>13
<1>20. CASE \E p \in Procs :
              \/ OpenWrite(p) \/ RecordApply(p) \/ RecordWrite(p)
              \/ \E pins \in Pins : ApproveStart(p, pins)
              \/ ApproveStamp(p) \/ LedgerCount(p) \/ LedgerAppend(p)
              \/ CiteRead(p) \/ CiteIssue(p) \/ Stop(p)
              \/ \E id \in {"FC", "FR"} \X (1 .. 3), pinned \in {None} \cup {s[2] : s \in shown} :
                   CiteResolve(p, id, pinned)
  BY <1>20, <1>4, <1>5, <1>7, <1>9, <1>11, <1>12, <1>14, <1>15
<1>21. CASE \/ \E f \in Features : Review(f) \/ CheckOut(f)
            \/ \E e \in Entries : EntryChanges(e)
  BY <1>21, <1>6, <1>16, <1>17
<1> QED
  BY <1>18, <1>19, <1>20, <1>21 DEF Next

\* What a verdict that leads to a receipt says.
LEMMA VerdictGranted ==
  ASSUME NEW d, NEW record, NEW id, NEW pinned, NEW receipt,
         Verdict(d, record, {id}, pinned, receipt) \in {"current", "degraded"}
  PROVE  /\ Valid(d) /\ Lane(d, record) = "approved-current"
         /\ id \in LiveIds(d, "FC") \cup LiveIds(d, "FR") /\ Citable(d, id)
         /\ \A b \in SelectedBindings(d, id) : receipt[Row(d, b).entry] = Row(d, b).digest
<1> PICK selected : selected = UNION {SelectedBindings(d, i) : i \in {id}}
  OBVIOUS
<1> PICK verdict : verdict = Verdict(d, record, {id}, pinned, receipt)
  OBVIOUS
<1>1. verdict =
        IF ~Valid(d) THEN "invalid"
        ELSE IF Lane(d, record) # "approved-current" THEN "not-approved"
        ELSE IF pinned \notin {None, Digest(d)} THEN "superseded"
        ELSE IF \E i \in {id} : i \notin LiveIds(d, "FC") \cup LiveIds(d, "FR") THEN "unknown-id"
        ELSE IF \E i \in {id} : ~Citable(d, i) THEN "not-citable"
        ELSE IF "drifted" \in {BindingState(d, b, receipt) : b \in selected} THEN "drifted"
        ELSE IF "unknown" \in {BindingState(d, b, receipt) : b \in selected} THEN "unknown"
        ELSE IF {BindingState(d, b, receipt) : b \in LiveIds(d, "FB") \ selected}
                  \subseteq {"current"}
          THEN "current"
        ELSE "degraded"
  BY Zenon DEF Verdict
<1>2. /\ Valid(d) /\ Lane(d, record) = "approved-current"
      /\ ~(\E i \in {id} : i \notin LiveIds(d, "FC") \cup LiveIds(d, "FR"))
      /\ ~(\E i \in {id} : ~Citable(d, i))
      /\ "drifted" \notin {BindingState(d, b, receipt) : b \in selected}
      /\ "unknown" \notin {BindingState(d, b, receipt) : b \in selected}
  BY <1>1
<1>3. \A b \in selected : receipt[Row(d, b).entry] = Row(d, b).digest
  BY <1>2 DEF BindingState
<1>4. SelectedBindings(d, id) \subseteq selected
  OBVIOUS
<1> QED
  BY <1>2, <1>3, <1>4

\* A receipt is issued by the resolution of a statement, and by nothing else.
LEMMA IssuedByResolve ==
  ASSUME Inv, Next, NEW p \in Procs, Issues(p)
  PROVE  \E id, pinned : /\ CiteResolve(p, id, pinned) /\ proc'[p].id = id
                         /\ Verdict(proc[p].doc, proc[p].record, {id}, pinned, entry)
                              \in {"current", "degraded"}
<1>1. proc[p].at = "resolve" /\ proc'[p].at = "issue" /\ proc[p] # Idle
  BY DEF Issues, At, Idle
<1>2. ASSUME NEW q \in Procs, NEW c, proc' = [proc EXCEPT ![q] = c]
      PROVE  q = p /\ c.at = "issue" /\ proc'[p] = c
  BY <1>1, <1>2 DEF Inv, Functions
<1>a. \A q \in Procs : \A c : Begin(q, c) => proc[q] = Idle /\ proc' = [proc EXCEPT ![q] = c]
  BY DEF Begin
<1>b. \A q \in Procs : \A c : Continue(q, c) => proc' = [proc EXCEPT ![q] = c]
  BY DEF Continue
<1>c. \A q \in Procs : Finish(q) => FALSE
  BY <1>b, <1>2 DEF Finish, Idle
<1>d. \A q \in Procs : \A c : Begin(q, c) => FALSE
  BY <1>a, <1>1, <1>2
<1>e. proc' # proc
  BY <1>1
<1>f. \A q \in Procs : \A c : Continue(q, c) => q = p /\ c.at = "issue"
  BY <1>b, <1>2
<1>3. ASSUME NEW q \in Procs, NEW f \in Features,
             \/ OpenMissing(q, f) \/ Resume(q, f)
             \/ \E batch \in Batches : RecordStart(q, f, batch)
             \/ ApproveRead(q, f) \/ RevokeStart(q, f) \/ CiteStart(q, f)
      PROVE  FALSE
  <2>1. CASE OpenMissing(q, f) \/ RevokeStart(q, f) \/ CiteStart(q, f)
    BY <1>d, <2>1 DEF OpenMissing, RevokeStart, CiteStart
  <2>2. CASE \E batch \in Batches : RecordStart(q, f, batch)
    BY <1>d, <2>2 DEF RecordStart
  <2>3. CASE Resume(q, f)
    BY <1>e, <2>3 DEF Resume
  <2>4. CASE ApproveRead(q, f)
    BY <1>1, <1>c, <1>f, <2>4 DEF ApproveRead, At
  <2> QED
    BY <1>3, <2>1, <2>2, <2>3, <2>4
<1>4. ASSUME NEW q \in Procs,
             \/ OpenWrite(q) \/ RecordApply(q) \/ RecordWrite(q)
             \/ \E pins \in Pins : ApproveStart(q, pins)
             \/ ApproveStamp(q) \/ LedgerCount(q) \/ LedgerAppend(q)
             \/ CiteRead(q) \/ CiteIssue(q) \/ Stop(q)
      PROVE  FALSE
  <2>1. CASE OpenWrite(q) \/ RecordWrite(q) \/ LedgerAppend(q) \/ CiteIssue(q) \/ Stop(q)
    BY <1>c, <2>1 DEF OpenWrite, RecordWrite, LedgerAppend, CiteIssue, Stop
  <2>2. CASE RecordApply(q)
    BY <1>1, <1>c, <1>f, <2>2 DEF RecordApply, At
  <2>3. CASE \E pins \in Pins : ApproveStart(q, pins)
    BY <1>d, <2>3 DEF ApproveStart
  <2>4. CASE ApproveStamp(q)
    BY <1>1, <1>f, <2>4 DEF ApproveStamp, At
  <2>5. CASE LedgerCount(q)
    BY <1>1, <1>c, <1>f, <2>5 DEF LedgerCount, At
  <2>6. CASE CiteRead(q)
    BY <1>1, <1>c, <1>f, <2>6 DEF CiteRead, At
  <2> QED
    BY <1>4, <2>1, <2>2, <2>3, <2>4, <2>5, <2>6
<1>5. ~(\/ \E f \in Features : Review(f) \/ CheckOut(f)
        \/ \E e \in Entries : EntryChanges(e))
  BY <1>e DEF Review, CheckOut, EntryChanges
<1>6. PICK q \in Procs : \E id, pinned : CiteResolve(q, id, pinned)
  BY <1>3, <1>4, <1>5 DEF Next
<1> PICK id, pinned : CiteResolve(q, id, pinned)
  BY <1>6
<1> PICK c : c = [at |-> "issue", f |-> proc[q].f, digest |-> Digest(proc[q].doc), id |-> id]
  OBVIOUS
<1>7. \/ Continue(q, c) /\ Verdict(proc[q].doc, proc[q].record, {id}, pinned, entry)
                             \in {"current", "degraded"}
      \/ Finish(q)
  BY Zenon DEF CiteResolve
<1>8. /\ q = p /\ proc'[p] = c
      /\ Verdict(proc[p].doc, proc[p].record, {id}, pinned, entry) \in {"current", "degraded"}
  BY <1>b, <1>c, <1>2, <1>7
<1>9. proc'[p].id = id
  BY <1>8
<1> QED
  BY <1>8, <1>9

\* A step that issues a receipt issues one that holds.
LEMMA ReceiptStep ==
  ASSUME Inv, Types, Cited, Next, NEW p \in Procs, Issues(p)
  PROVE  LET d == proc[p].doc  id == proc'[p].id IN
         /\ <<proc[p].f, Digest(d)>> \in shown
         /\ \E i \in DOMAIN ledger :
              ledger[i].f = proc[p].f /\ ledger[i].digest = Digest(d)
         /\ Row(d, id).authority \notin {"source-derived-heuristic", "unresolved"}
         /\ \A b \in StatementEvidence(d, id) :
              entry[Row(d, b).entry] = Row(d, b).digest
<1> PICK d : d = proc[p].doc
  OBVIOUS
<1> PICK r : r = proc[p].record
  OBVIOUS
<1> PICK id : id = proc'[p].id
  OBVIOUS
<1>1. PICK pinned : Verdict(d, r, {id}, pinned, entry) \in {"current", "degraded"}
  BY IssuedByResolve
<1>2. /\ Valid(d) /\ Lane(d, r) = "approved-current"
      /\ id \in LiveIds(d, "FC") \cup LiveIds(d, "FR") /\ Citable(d, id)
      /\ \A b \in SelectedBindings(d, id) : entry[Row(d, b).entry] = Row(d, b).digest
  BY ONLY <1>1, VerdictGranted
<1>3. proc[p].at = "resolve" /\ IsDocument(d) /\ Citing(proc[p], ledger, shown)
  BY DEF Issues, At, Types, Typed, Cited
<1>4. d.state \in {"draft", "approved"} /\ d.rows \in RowTables
  BY <1>3 DEF IsDocument, DocumentRecords
<1>5. d.state # "draft" /\ r # None /\ r.digest = Digest(d)
  BY <1>2 DEF Lane
<1>6. <<proc[p].f, Digest(d)>> \in shown
  BY <1>3, <1>4, <1>5 DEF Citing
<1>7. \E i \in DOMAIN ledger : ledger[i].f = proc[p].f /\ ledger[i].digest = Digest(d)
  BY <1>3, <1>5 DEF Citing
<1>8. Row(d, id).authority \notin {"source-derived-heuristic", "unresolved"}
  BY <1>2 DEF Citable, CitableAuthorities
<1>9. id \in AllLive(d) /\ Closed(d)
  BY <1>2 DEF AllLive, IdKinds, Valid, Admissible
<1>10. \A b \in StatementEvidence(d, id) : entry[Row(d, b).entry] = Row(d, b).digest
  BY <1>2, <1>4, <1>9, EvidenceSelected
<1> QED
  BY <1>6, <1>7, <1>8, <1>10

\* A receipt is only issued for content a human was shown and approved, and if
\* every binding of every statement it transitively rests on is current when
\* the resolver reads the entry store, for documents and dependencies of any
\* size.
THEOREM ReceiptsAlwaysHold == Spec => ReceiptsHold
<1> DEFINE Good == \A p \in Procs : Issues(p) =>
             LET d == proc[p].doc  id == proc'[p].id IN
             /\ <<proc[p].f, Digest(d)>> \in shown
             /\ \E i \in DOMAIN ledger :
                  ledger[i].f = proc[p].f /\ ledger[i].digest = Digest(d)
             /\ Row(d, id).authority \notin {"source-derived-heuristic", "unresolved"}
             /\ \A b \in StatementEvidence(d, id) :
                  entry[Row(d, b).entry] = Row(d, b).digest
<1>1. Inv /\ Types /\ Cited /\ [Next]_vars => [Good]_vars
  BY ReceiptStep
<1>2. Spec => [][Good]_vars
  BY <1>1, StampsInit, StampsNext, TypedInit, TypesNext, CitedInit, CitedNext, PTL DEF Spec
<1> QED
  BY <1>2 DEF ReceiptsHold
=============================================================================
