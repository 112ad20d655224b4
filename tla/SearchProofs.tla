---------------------------- MODULE SearchProofs ----------------------------
(***************************************************************************)
(* Proofs about SearchIndex for any number of entries, contents, builds    *)
(* and queries, and for any number of changes between and during them; and *)
(* about SearchQuery, what one query answers from one loaded generation,   *)
(* for any corpus, question, limit and change of the working tree.  The    *)
(* two specifications share no variable.                                   *)
(***************************************************************************)
EXTENDS SearchIndex, SearchQuery, FiniteSetTheorems, SequenceTheorems,
        WellFoundedInduction, TLAPS

-----------------------------------------------------------------------------
(* The inductive invariant. *)

\* The identities a generation of this name has documents for, and those it
\* says are approved.
KnownIn(n) == {i \in Ids : n[i] # None}
ApprovedIn(n) == {i \in KnownIn(n) : n[i].lane = "approved"}

\* What a name or a set of documents says is approved was approved once.
Backed(n) == \A i \in ApprovedIn(n) : <<i, n[i].digest>> \in approvals

\* Documents or a name that say of each entry what holds of it.
Right(n) ==
  /\ KnownIn(n) = Present
  /\ \A i \in Present : n[i].lane = LaneUnder(ledger.approved, i)

\* A projection whose stamps have not moved has the lane of the entry.
Faithful(i, d) ==
  d # None =>
    /\ d.deps.entry <= clock /\ d.deps.ledger <= clock
    /\ entry[i] # None /\ d.deps = Stamps(i) => d.lane = LaneUnder(ledger.approved, i)

\* Of the entries a fingerprint was taken of, those that did not change since.
\* As long as the ledger has not changed either, their lanes hold.
Unmoved(f) == {i \in Present : entry[i].stamp <= f.newest}

Dated(n, f) ==
  /\ f.newest <= clock /\ f.ledger <= clock
  /\ Cardinality(KnownIn(n)) = f.count
  /\ Unmoved(f) \subseteq KnownIn(n)
  /\ ledger.stamp = f.ledger => \A i \in Unmoved(f) : n[i].lane = LaneUnder(ledger.approved, i)

\* Builds of one name write the same over each other, but for the time stamps.
GoodDirectory(n, g) ==
  /\ n \in Names /\ g \in Directories /\ Backed(n)
  /\ g.documents \notin Unreadable => NameOf(g.documents) = n
  /\ g.offsets \notin Unreadable => g.offsets = KnownIn(n)
  /\ g.lanes \notin Unreadable => g.lanes = ApprovedIn(n)
  /\ ~disturbed =>
       /\ g.documents \notin Unreadable => \A i \in Ids : Faithful(i, g.documents[i])
       /\ g.manifest \notin Unreadable => Dated(n, g.manifest)

\* What the fields of a process record hold at each point.
Shape(q) ==
  /\ q.at \in {"build", "ledger"} => q.docs = NoDocuments
  /\ q.at \in {"project", "stamp"} => q.seen # None /\ q.seen.id \in q.todo
  /\ q.at = "stamp" => q.seen.content \in Contents
  /\ q.at \in {"open", "fill", "swap", "clean", "load", "lanes", "serve"} => q.name \in Names
  /\ q.at \in {"open", "fill"} => NameOf(q.docs) = q.name
  /\ q.at = "fill" /\ q.file = "manifest" => q.print \in Fingerprints

\* What a process has in its hands was approved once if it says so.
Careful(q) ==
  /\ Backed(q.docs) /\ Backed(q.reuse)
  /\ \A i \in Ids : q.approved[i] # None => <<i, q.approved[i]>> \in approvals
  /\ q.seen # None /\ q.seen.lane = "approved" => <<q.seen.id, q.seen.digest>> \in approvals
  /\ q.at = "serve" => \A i \in q.found : i \in ApprovedIn(q.name)
                                           /\ <<i, q.name[i].digest>> \in approvals

\* What a build that nothing disturbs has in its hands.
Undisturbed(q) ==
  /\ \A i \in Ids : Faithful(i, q.docs[i]) /\ Faithful(i, q.reuse[i])
  /\ q.at \in {"collect", "project", "stamp"} =>
       /\ q.approved = ledger.approved /\ q.todo \subseteq Present
       /\ \A i \in Ids \ q.todo :
            /\ q.docs[i] # None <=> entry[i] # None
            /\ entry[i] # None => q.docs[i].lane = LaneUnder(ledger.approved, i)
  /\ q.at \in {"project", "stamp"} => q.seen.lane = LaneUnder(ledger.approved, q.seen.id)
  /\ q.at \in {"open", "fill"} => Right(q.docs)
  /\ q.at = "fill" /\ q.file = "manifest" => q.print = Fingerprint
  /\ q.at \in {"lanes", "serve"} => q.due = ApprovedIn(q.name)

GoodProcess(q) ==
  q \in ProcRecords /\ Shape(q) /\ Careful(q) /\ (~disturbed => Undisturbed(q))

\* Modification times come from a clock that only grows.
GoodCorpus ==
  /\ entry \in [Ids -> [content : Contents, stamp : 0 .. MaxClock] \cup {None}]
  /\ ledger \in [approved : [Ids -> DigestsOf \cup {None}], stamp : 0 .. MaxClock]
  /\ clock \in 0 .. MaxClock /\ starts \in 0 .. MaxStarts /\ disturbed \in BOOLEAN
  /\ approvals \subseteq Ids \X DigestsOf
  /\ ledger.stamp <= clock /\ \A i \in Present : entry[i].stamp <= clock
  /\ \A i \in Ids : ledger.approved[i] # None => <<i, ledger.approved[i]>> \in approvals

GoodDisk ==
  /\ pointer \in Names \cup {None}
  /\ disk = [n \in DOMAIN disk |-> disk[n]]
  /\ \A n \in DOMAIN disk : GoodDirectory(n, disk[n])

GoodProcesses ==
  /\ proc = [p \in Procs |-> proc[p]]
  /\ \A p \in Procs : GoodProcess(proc[p])

GoodAnswers == answer \in [Procs -> Answers \cup {None}] /\ AnswersRight

IInv == GoodCorpus /\ GoodDisk /\ GoodProcesses /\ GoodAnswers

-----------------------------------------------------------------------------
(* Names and documents. *)

\* The name of a generation says the lanes and digests of its documents.
LEMMA NameSays ==
  ASSUME NEW held \in Documents
  PROVE  /\ NameOf(held) \in Names
         /\ KnownIn(NameOf(held)) = KnownIn(held)
         /\ ApprovedIn(NameOf(held)) = ApprovedIn(held)
         /\ \A i \in KnownIn(held) : /\ NameOf(held)[i].lane = held[i].lane
                                     /\ NameOf(held)[i].digest = held[i].digest
<1> DEFINE L(i) == [lane |-> held[i].lane, digest |-> held[i].digest]
<1>1. ASSUME NEW i \in KnownIn(held) PROVE L(i) \in Labels /\ L(i) # None
  <2>1. held[i].lane \in Lanes /\ held[i].digest \in DigestsOf
    BY <1>1 DEF KnownIn, Documents, Projections
  <2>2. L(i) \in Labels
    BY <2>1 DEF Labels
  <2> QED
    BY <2>2, IndexAssumption
<1>2. \A i \in Ids : NameOf(held)[i] = IF held[i] = None THEN None ELSE L(i)
  BY DEF NameOf
<1>3. NameOf(held) = [i \in Ids |-> NameOf(held)[i]]
  BY DEF NameOf
<1>4. \A i \in Ids : NameOf(held)[i] \in Labels \cup {None}
  BY <1>1, <1>2 DEF KnownIn
<1>5. NameOf(held) \in Names
  BY <1>3, <1>4 DEF Names
<1>6. \A i \in KnownIn(held) : NameOf(held)[i] = L(i)
  BY <1>2 DEF KnownIn
<1>7. KnownIn(NameOf(held)) = KnownIn(held)
  BY <1>1, <1>2 DEF KnownIn
<1>8. \A i \in KnownIn(held) : L(i).lane = held[i].lane /\ L(i).digest = held[i].digest
  OBVIOUS
<1>9. \A i \in KnownIn(held) : NameOf(held)[i].lane = held[i].lane
                             /\ NameOf(held)[i].digest = held[i].digest
  BY <1>6, <1>8
<1>10. ApprovedIn(NameOf(held)) = ApprovedIn(held)
  BY <1>7, <1>9 DEF ApprovedIn
<1> QED
  BY <1>5, <1>7, <1>9, <1>10

LEMMA NoDocumentsSay ==
  NoDocuments \in Documents /\ KnownIn(NoDocuments) = {}
BY DEF NoDocuments, Documents, KnownIn

-----------------------------------------------------------------------------
(* Fingerprints. *)

\* One of the entries has the newest modification time, as there are finitely
\* many of them.
LEMMA NewestExists ==
  ASSUME GoodCorpus, Present # {}
  PROVE  \E i \in Present : \A j \in Present : entry[j].stamp <= entry[i].stamp
<1> DEFINE Newer(i) == {j \in Present : entry[j].stamp > entry[i].stamp}
           Sets == {Newer(i) : i \in Present}
<1>1. IsFiniteSet(Ids) /\ Present \subseteq Ids
  BY IndexAssumption DEF Present
<1>2. \A i \in Present : entry[i].stamp \in Nat
  BY IndexAssumption DEF GoodCorpus, Present
<1>3. \A i \in Present : IsFiniteSet(Newer(i))
  <2> TAKE i \in Present
  <2>1. Newer(i) \in SUBSET Ids
    BY <1>1
  <2> QED
    BY <1>1, <2>1, FS_Subset
<1>4. Sets \subseteq FiniteSubsetsOf(Ids) /\ Sets # {}
  BY <1>1, <1>3 DEF FiniteSubsetsOf
<1>5. PICK T \in Sets : \A U \in Sets : ~(<<U, T>> \in StrictSubsetOrdering(Ids))
  <2>1. IsWellFoundedOn(StrictSubsetOrdering(Ids), FiniteSubsetsOf(Ids))
    BY FS_StrictSubsetOrderingWellFounded
  <2> HIDE DEF Sets
  <2> QED
    BY <1>4, <2>1, WFMin
<1>6. PICK i \in Present : T = Newer(i)
  BY <1>5
<1>7. ASSUME NEW j \in Present, entry[j].stamp > entry[i].stamp PROVE FALSE
  <2>1. Newer(j) \subseteq Newer(i)
    BY <1>2, <1>7
  <2>2. j \in Newer(i) /\ j \notin Newer(j)
    BY <1>2, <1>7
  <2>3. Newer(j) # Newer(i)
    BY <2>2
  <2>4. Newer(j) \in SUBSET Ids /\ Newer(i) \in SUBSET Ids
    BY <1>1
  <2>5. Newer(j) \in Sets
    OBVIOUS
  <2>6. <<Newer(j), Newer(i)>> \notin StrictSubsetOrdering(Ids)
    BY <1>5, <1>6, <2>5
  <2> HIDE DEF Newer
  <2> QED
    BY <2>1, <2>3, <2>4, <2>6 DEF StrictSubsetOrdering
<1> QED
  BY <1>2, <1>7

\* No entry is newer than what corpus_fingerprint takes for the newest.
LEMMA NewestBounds ==
  ASSUME GoodCorpus
  PROVE  Newest \in 0 .. clock /\ \A i \in Present : entry[i].stamp <= Newest
<1> DEFINE Fits(s) == /\ s = 0 \/ \E i \in Present : entry[i].stamp = s
                      /\ \A i \in Present : entry[i].stamp <= s
<1>1. clock \in Nat /\ \A i \in Present : entry[i].stamp \in Nat /\ entry[i].stamp <= clock
  BY IndexAssumption DEF GoodCorpus, Present
<1>2. \E s \in 0 .. clock : Fits(s)
  <2>1. CASE Present = {}
    <3>1. Fits(0) /\ 0 \in 0 .. clock
      BY <1>1, <2>1
    <3> QED
      BY <3>1
  <2>2. CASE Present # {}
    <3>1. PICK i \in Present : \A j \in Present : entry[j].stamp <= entry[i].stamp
      BY <2>2, NewestExists
    <3>2. Fits(entry[i].stamp) /\ entry[i].stamp \in 0 .. clock
      BY <1>1, <3>1
    <3> QED
      BY <3>2
  <2> QED
    BY <2>1, <2>2
<1>3. Newest \in 0 .. clock /\ Fits(Newest)
  BY <1>2 DEF Newest
<1> QED
  BY <1>3

LEMMA FingerprintType ==
  ASSUME GoodCorpus
  PROVE  /\ Fingerprint \in Fingerprints
         /\ Fingerprint.count = Cardinality(Present) /\ Fingerprint.ledger = ledger.stamp
         /\ Fingerprint.newest = Newest
<1>1. Newest \in 0 .. MaxClock /\ ledger.stamp \in 0 .. MaxClock
  BY NewestBounds, IndexAssumption DEF GoodCorpus
<1>2. Present \in SUBSET Ids
  BY DEF Present
<1>3. Cardinality(Present) \in 0 .. Cardinality(Ids)
  <2>1. IsFiniteSet(Present) /\ Cardinality(Present) <= Cardinality(Ids)
    BY <1>2, IndexAssumption, FS_Subset
  <2>2. Cardinality(Present) \in Nat /\ Cardinality(Ids) \in Nat
    BY <2>1, IndexAssumption, FS_CardinalityType
  <2> QED
    BY <2>1, <2>2
<1> QED
  BY <1>1, <1>3 DEF Fingerprint, Fingerprints

\* A generation that is right is dated by the fingerprint of this moment.
LEMMA DatedNow ==
  ASSUME GoodCorpus, NEW n, Right(n)
  PROVE  Dated(n, Fingerprint)
<1>1. Newest \in 0 .. clock /\ ledger.stamp <= clock
  BY NewestBounds DEF GoodCorpus
<1>2. Unmoved(Fingerprint) \subseteq Present
  BY DEF Unmoved
<1>3. clock \in Nat
  BY IndexAssumption DEF GoodCorpus
<1> QED
  BY <1>1, <1>2, <1>3, FingerprintType DEF Dated, Right

\* A generation that carries the fingerprint of this moment is right.
LEMMA DatedMatch ==
  ASSUME GoodCorpus, NEW n, Dated(n, Fingerprint)
  PROVE  Right(n)
<1>1. Unmoved(Fingerprint) = Present
  BY NewestBounds, FingerprintType DEF Unmoved
<1>2. Present \subseteq KnownIn(n) /\ Cardinality(KnownIn(n)) = Cardinality(Present)
  BY <1>1, FingerprintType DEF Dated
<1>3. IsFiniteSet(KnownIn(n))
  <2>1. KnownIn(n) \in SUBSET Ids
    BY DEF KnownIn
  <2> QED
    BY <2>1, IndexAssumption, FS_Subset
<1>4. KnownIn(n) = Present
  <2>1. Present \in SUBSET KnownIn(n)
    BY <1>2
  <2> QED
    BY <1>2, <1>3, <2>1, FS_Subset
<1> QED
  BY <1>1, <1>4, FingerprintType DEF Right, Dated

-----------------------------------------------------------------------------
(* A step of a process. *)

\* What is good stays good while neither entries nor ledger change.
LEMMA CorpusStays ==
  ASSUME UNCHANGED <<entry, ledger, clock, approvals, disturbed>>, GoodCorpus,
         starts' \in 0 .. MaxStarts
  PROVE  /\ GoodCorpus'
         /\ \A n, g : GoodDirectory(n, g)' <=> GoodDirectory(n, g)
         /\ \A q : GoodProcess(q)' <=> GoodProcess(q)
<1>1. Fingerprint' = Fingerprint
  <2>1. entry' = entry /\ clock' = clock /\ ledger' = ledger /\ Present' = Present
    BY DEF Present
  <2>2. Newest' = Newest
    BY <2>1, Zenon DEF Newest
  <2> QED
    BY <2>1, <2>2 DEF Fingerprint
<1>2. GoodCorpus'
  BY DEF GoodCorpus, Present
<1>3. \A i, d : Faithful(i, d)' <=> Faithful(i, d)
  BY DEF Faithful, Stamps, LaneUnder
<1>4. \A n : /\ KnownIn(n)' = KnownIn(n) /\ ApprovedIn(n)' = ApprovedIn(n)
             /\ Backed(n)' <=> Backed(n)
             /\ Right(n)' <=> Right(n)
  BY DEF KnownIn, ApprovedIn, Backed, Right, Present, LaneUnder
<1>5. \A n, f : Dated(n, f)' <=> Dated(n, f)
  BY <1>4 DEF Dated, Unmoved, Present, LaneUnder
<1>6. \A n, g : GoodDirectory(n, g)' <=> GoodDirectory(n, g)
  BY <1>3, <1>4, <1>5 DEF GoodDirectory
<1>7. \A q : Careful(q)' <=> Careful(q)
  BY <1>4 DEF Careful
<1>8. \A q : Undisturbed(q)' <=> Undisturbed(q)
  BY <1>1, <1>3, <1>4 DEF Undisturbed, Present, LaneUnder
<1>9. \A q : GoodProcess(q)' <=> GoodProcess(q)
  BY <1>7, <1>8 DEF GoodProcess, Shape
<1> QED
  BY <1>2, <1>6, <1>9

LEMMA AnswersStay ==
  ASSUME GoodAnswers, UNCHANGED disturbed,
         answer' = answer \/ \E p \in Procs : answer' = [answer EXCEPT ![p] = None]
  PROVE  GoodAnswers'
BY DEF GoodAnswers, AnswersRight, AnswersNeverStale

\* The duties of a step that changes one process, and perhaps the disk.
LEMMA Stepped ==
  ASSUME IInv, UNCHANGED <<entry, ledger, clock, approvals, disturbed>>,
         starts' \in 0 .. MaxStarts, NEW p \in Procs, NEW q, Set(p, q), GoodProcess(q),
         pointer' \in Names \cup {None}, disk' = [n \in DOMAIN disk' |-> disk'[n]],
         \A n \in DOMAIN disk' : GoodDirectory(n, disk'[n]), GoodAnswers'
  PROVE  IInv'
<1>1. GoodCorpus'
  BY CorpusStays DEF IInv
<1>2. ASSUME NEW n \in DOMAIN disk' PROVE GoodDirectory(n, disk[n])'
  <2>1. PICK g : g = disk'[n]
    OBVIOUS
  <2>2. GoodDirectory(n, g)
    BY <1>2, <2>1
  <2>3. GoodDirectory(n, g)'
    BY <2>2, CorpusStays DEF IInv
  <2> QED
    BY <2>1, <2>3
<1>3. proc' = [r \in Procs |-> proc'[r]] /\ \A r \in Procs : proc'[r] = IF r = p THEN q ELSE proc[r]
  BY DEF Set, IInv, GoodProcesses
<1>4. ASSUME NEW r \in Procs PROVE GoodProcess(proc[r])'
  <2>1. PICK g : g = proc'[r]
    OBVIOUS
  <2>2. GoodProcess(g)
    BY <1>3, <2>1 DEF IInv, GoodProcesses
  <2>3. GoodProcess(g)'
    BY <2>2, CorpusStays DEF IInv
  <2> QED
    BY <2>1, <2>3
<1> QED
  BY <1>1, <1>2, <1>3, <1>4 DEF IInv, GoodDisk, GoodProcesses

\* Most steps leave the disk and the answers alone.
LEMMA Moved ==
  ASSUME IInv, UNCHANGED <<corpus, pointer, disk, answer>>,
         NEW p \in Procs, NEW q, Set(p, q), GoodProcess(q)
  PROVE  IInv'
<1>1. UNCHANGED <<entry, ledger, clock, approvals, disturbed>> /\ starts' \in 0 .. MaxStarts
  BY DEF corpus, IInv, GoodCorpus
<1>2. /\ pointer' \in Names \cup {None} /\ disk' = [n \in DOMAIN disk' |-> disk'[n]]
      /\ \A n \in DOMAIN disk' : GoodDirectory(n, disk'[n])
  BY DEF IInv, GoodDisk
<1>3. GoodAnswers'
  BY <1>1, AnswersStay DEF IInv
<1> QED
  BY <1>1, <1>2, <1>3, Stepped

-----------------------------------------------------------------------------
(* Building. *)

\* A process that does nothing holds nothing.
LEMMA IdleIsGood ==
  /\ Idle \in ProcRecords /\ Shape(Idle) /\ Careful(Idle) /\ Undisturbed(Idle)
  /\ NoDocuments \in Documents /\ GoodProcess(Idle)
<1>1. NoDocuments \in Documents /\ Backed(NoDocuments)
  BY NoDocumentsSay DEF Backed, ApprovedIn
<1>2. \A i \in Ids : NoDocuments[i] = None
  BY DEF NoDocuments
<1>3. Idle \in ProcRecords
  BY <1>1 DEF Idle, ProcRecords, Points, Steps
<1>4. Shape(Idle) /\ Careful(Idle) /\ Undisturbed(Idle)
  BY <1>1, <1>2 DEF Idle, Shape, Careful, Undisturbed, Faithful
<1> QED
  BY <1>1, <1>3, <1>4 DEF GoodProcess

\* What a command, a call and a healed call start from.
LEMMA FreshIsGood ==
  ASSUME NEW at \in {"build", "pointer"}, NEW heal \in {"cli", "call", "healed"}
  PROVE  /\ GoodProcess([Idle EXCEPT !.at = at, !.heal = heal])
         /\ GoodProcess([Idle EXCEPT !.at = at])
<1> DEFINE q == [Idle EXCEPT !.at = at, !.heal = heal]
           r == [Idle EXCEPT !.at = at]
<1>1. q \in ProcRecords
  BY IdleIsGood DEF ProcRecords, Points, BuildPoints
<1>2. r \in ProcRecords
  BY IdleIsGood DEF ProcRecords, Points, BuildPoints
<1>3. Shape(q) /\ Careful(q) /\ Undisturbed(q)
  BY IdleIsGood DEF Idle, Shape, Careful, Undisturbed
<1>4. Shape(r) /\ Careful(r) /\ Undisturbed(r)
  BY IdleIsGood DEF Idle, Shape, Careful, Undisturbed
<1> QED
  BY <1>1, <1>2, <1>3, <1>4 DEF GoodProcess

LEMMA BuildStartSafe ==
  ASSUME IInv, NEW p \in Procs, BuildStart(p)
  PROVE  IInv'
<1>1. GoodProcess([Idle EXCEPT !.at = "build"])
  BY FreshIsGood
<1>2. UNCHANGED <<entry, ledger, clock, approvals, disturbed>> /\ starts' \in 0 .. MaxStarts
  BY IndexAssumption DEF BuildStart, Start, IInv, GoodCorpus
<1>3. GoodAnswers'
  BY <1>2, AnswersStay DEF BuildStart, IInv
<1>4. /\ pointer' \in Names \cup {None} /\ disk' = [n \in DOMAIN disk' |-> disk'[n]]
      /\ \A n \in DOMAIN disk' : GoodDirectory(n, disk'[n])
  BY DEF BuildStart, IInv, GoodDisk
<1>5. Set(p, [Idle EXCEPT !.at = "build"])
  BY DEF BuildStart
<1> QED
  BY <1>1, <1>2, <1>3, <1>4, <1>5, Stepped

\* What load_previous_projections returns has the documents of a generation.
LEMMA ReusableIsGood ==
  ASSUME IInv
  PROVE  /\ Reusable \in Documents /\ Backed(Reusable)
         /\ ~disturbed => \A i \in Ids : Faithful(i, Reusable[i])
<1>1. CASE Reusable = NoDocuments
  BY <1>1, NoDocumentsSay DEF NoDocuments, Backed, ApprovedIn, Faithful
<1>2. CASE Reusable # NoDocuments
  <2>1. /\ pointer \in DOMAIN disk /\ Reusable = disk[pointer].documents
        /\ disk[pointer].documents \notin Unreadable
    BY <1>2 DEF Reusable
  <2>2. GoodDirectory(pointer, disk[pointer])
    BY <2>1 DEF IInv, GoodDisk
  <2>3. Reusable \in Documents /\ NameOf(Reusable) = pointer /\ Backed(pointer)
    BY <2>1, <2>2 DEF GoodDirectory, Directories
  <2>4. Backed(Reusable)
    BY <2>3, NameSays DEF Backed, ApprovedIn
  <2> QED
    BY <2>1, <2>2, <2>3, <2>4 DEF GoodDirectory
<1> QED
  BY <1>1, <1>2

LEMMA BuildPreviousSafe ==
  ASSUME IInv, NEW p \in Procs, BuildPrevious(p)
  PROVE  IInv'
<1>1. PICK reuse \in {Reusable, NoDocuments} :
        Set(p, [proc[p] EXCEPT !.at = "ledger", !.reuse = reuse])
  BY DEF BuildPrevious
<1> DEFINE q == proc[p]
           r == [q EXCEPT !.at = "ledger", !.reuse = reuse]
<1>2. GoodProcess(q) /\ q.at = "build"
  BY DEF BuildPrevious, IInv, GoodProcesses
<1>3. reuse \in Documents /\ Backed(reuse) /\ (~disturbed => \A i \in Ids : Faithful(i, reuse[i]))
  BY ReusableIsGood, NoDocumentsSay DEF NoDocuments, Backed, ApprovedIn, Faithful
<1>4. r \in ProcRecords
  BY <1>2, <1>3 DEF GoodProcess, ProcRecords, Points, BuildPoints
<1>5. Shape(r) /\ Careful(r) /\ (~disturbed => Undisturbed(r))
  BY <1>2, <1>3 DEF GoodProcess, ProcRecords, Shape, Careful, Undisturbed
<1>6. UNCHANGED <<corpus, pointer, disk, answer>>
  BY DEF BuildPrevious
<1> QED
  BY <1>1, <1>4, <1>5, <1>6, Moved DEF GoodProcess

LEMMA BuildLedgerSafe ==
  ASSUME IInv, NEW p \in Procs, BuildLedger(p)
  PROVE  IInv'
<1> DEFINE q == proc[p]
           r == [q EXCEPT !.at = "collect", !.approved = ledger.approved, !.todo = Present]
<1>1. GoodProcess(q) /\ q.at = "ledger" /\ q.docs = NoDocuments
  BY DEF BuildLedger, IInv, GoodProcesses, GoodProcess, Shape
<1>2. ledger.approved \in [Ids -> DigestsOf \cup {None}] /\ Present \in SUBSET Ids
  BY DEF IInv, GoodCorpus, Present
<1>3. r \in ProcRecords
  BY <1>1, <1>2 DEF GoodProcess, ProcRecords, Points, BuildPoints
<1>4. Shape(r) /\ Careful(r)
  BY <1>1, <1>2 DEF GoodProcess, ProcRecords, Shape, Careful, IInv, GoodCorpus
<1>5. ~disturbed => Undisturbed(r)
  BY <1>1 DEF GoodProcess, ProcRecords, Undisturbed, Present, NoDocuments
<1>6. UNCHANGED <<corpus, pointer, disk, answer>> /\ Set(p, r)
  BY DEF BuildLedger
<1> QED
  BY <1>3, <1>4, <1>5, <1>6, Moved DEF GoodProcess

\* A projection that is reused or made anew.
LEMMA CollectSafe ==
  ASSUME IInv, NEW p \in Procs, NEW i \in Ids, Collect(p, i)
  PROVE  IInv'
<1> DEFINE q == proc[p]
           cached == q.reuse[i]
           seen == [id |-> i, content |-> None, lane |-> LaneUnder(q.approved, i),
                    digest |-> Reviewed[entry[i].content]]
           reused == [q EXCEPT !.docs = [@ EXCEPT ![i] = cached], !.todo = @ \ {i}]
           fresh == [q EXCEPT !.at = "project", !.seen = seen]
<1>1. /\ GoodProcess(q) /\ q.at = "collect" /\ i \in q.todo /\ entry[i] # None /\ i \in Present
      /\ entry[i].content \in Contents
  BY DEF Collect, IInv, GoodProcesses, GoodCorpus, Present
<1>2. UNCHANGED <<corpus, pointer, disk, answer>>
  BY DEF Collect
<1>3. CASE cached # None /\ cached.deps = Stamps(i) /\ Set(p, reused)
  <2>1. q.docs \in Documents /\ q.reuse \in Documents
    BY <1>1 DEF GoodProcess, ProcRecords
  <2>2. /\ reused.docs \in Documents
        /\ \A j \in Ids : reused.docs[j] = IF j = i THEN cached ELSE q.docs[j]
    BY <2>1 DEF Documents
  <2>3. reused \in ProcRecords
    BY <1>1, <2>2 DEF GoodProcess, ProcRecords
  <2>4. Backed(reused.docs)
    BY <1>1, <2>2 DEF GoodProcess, Careful, Backed, ApprovedIn, KnownIn
  <2>5. Shape(reused) /\ Careful(reused)
    BY <1>1, <2>4 DEF GoodProcess, ProcRecords, Shape, Careful
  <2>6. ASSUME ~disturbed PROVE Undisturbed(reused)
    <3>1. cached.lane = LaneUnder(ledger.approved, i) /\ Faithful(i, cached)
      BY <1>1, <1>3, <2>6 DEF GoodProcess, Undisturbed, Faithful
    <3>2. \A j \in Ids : Faithful(j, reused.docs[j])
      BY <1>1, <2>2, <2>6, <3>1 DEF GoodProcess, Undisturbed
    <3> QED
      BY <1>1, <1>3, <2>2, <2>6, <3>1, <3>2 DEF GoodProcess, ProcRecords, Undisturbed
  <2>7. GoodProcess(reused)
    BY <2>3, <2>5, <2>6 DEF GoodProcess
  <2> QED
    BY <1>2, <1>3, <2>7, Moved
<1>4. CASE Set(p, fresh)
  <2>1. LaneUnder(q.approved, i) \in Lanes /\ Reviewed[entry[i].content] \in DigestsOf
    BY <1>1 DEF LaneUnder, Lanes, DigestsOf
  <2>2. seen \in Sights /\ seen # None
    BY <2>1, IndexAssumption DEF Sights
  <2>3. ASSUME seen.lane = "approved" PROVE <<i, seen.digest>> \in approvals
    <3>1. q.approved[i] = Reviewed[entry[i].content] /\ q.approved[i] # None
      BY <2>1, <2>3, IndexAssumption DEF LaneUnder
    <3> QED
      BY <1>1, <3>1 DEF GoodProcess, Careful
  <2>4. fresh \in ProcRecords
    BY <1>1, <2>2 DEF GoodProcess, ProcRecords, Points, BuildPoints
  <2>5. Shape(fresh) /\ Careful(fresh)
    BY <1>1, <2>3, <2>2 DEF GoodProcess, ProcRecords, Shape, Careful
  <2>6. ~disturbed => Undisturbed(fresh)
    BY <1>1 DEF GoodProcess, ProcRecords, Undisturbed
  <2>7. GoodProcess(fresh)
    BY <2>4, <2>5, <2>6 DEF GoodProcess
  <2> QED
    BY <1>2, <1>4, <2>7, Moved
<1> QED
  BY <1>3, <1>4 DEF Collect

LEMMA ProjectSafe ==
  ASSUME IInv, NEW p \in Procs, Project(p)
  PROVE  IInv'
<1> DEFINE q == proc[p]
           i == q.seen.id
           r == [q EXCEPT !.at = "stamp", !.seen = [@ EXCEPT !.content = entry[i].content]]
<1>1. /\ GoodProcess(q) /\ q.at = "project" /\ q.seen \in Sights /\ q.seen # None
      /\ entry[i] # None /\ Set(p, r) /\ UNCHANGED <<corpus, pointer, disk, answer>>
  BY DEF Project, IInv, GoodProcesses, GoodProcess, Shape, ProcRecords
<1>2. entry[i].content \in Contents
  BY <1>1 DEF IInv, GoodCorpus, Sights
<1>3. /\ r.seen \in Sights /\ r.seen # None /\ r.seen.content \in Contents
      /\ r.seen.id = q.seen.id /\ r.seen.lane = q.seen.lane /\ r.seen.digest = q.seen.digest
  <2>1. r.seen = [q.seen EXCEPT !.content = entry[i].content]
    BY <1>1 DEF GoodProcess, ProcRecords
  <2>2. r.seen \in Sights
    BY <1>1, <1>2, <2>1 DEF Sights
  <2>3. /\ r.seen.content = entry[i].content /\ r.seen.id = q.seen.id
        /\ r.seen.lane = q.seen.lane /\ r.seen.digest = q.seen.digest
    BY <1>1, <2>1 DEF Sights
  <2> QED
    BY <1>2, <2>2, <2>3, IndexAssumption
<1>4. r \in ProcRecords
  BY <1>1, <1>3 DEF GoodProcess, ProcRecords, Points, BuildPoints
<1>5. Shape(r) /\ Careful(r) /\ (~disturbed => Undisturbed(r))
  BY <1>1, <1>3 DEF GoodProcess, ProcRecords, Shape, Careful, Undisturbed
<1> QED
  BY <1>1, <1>4, <1>5, Moved DEF GoodProcess

LEMMA StampProjectionSafe ==
  ASSUME IInv, NEW p \in Procs, StampProjection(p)
  PROVE  IInv'
<1> DEFINE q == proc[p]
           seen == q.seen
           i == seen.id
           new == [content |-> seen.content, lane |-> seen.lane, digest |-> seen.digest,
                   deps |-> Stamps(i)]
           r == [q EXCEPT !.at = "collect", !.todo = @ \ {i}, !.seen = None,
                          !.docs = [@ EXCEPT ![i] = new]]
<1>1. /\ GoodProcess(q) /\ q.at = "stamp" /\ seen \in Sights /\ seen # None
      /\ seen.content \in Contents /\ i \in Ids /\ q.docs \in Documents
      /\ entry[i] # None /\ Set(p, r) /\ UNCHANGED <<corpus, pointer, disk, answer>>
  BY DEF StampProjection, IInv, GoodProcesses, GoodProcess, Shape, ProcRecords, Sights
<1>2. /\ entry[i].stamp \in Nat /\ ledger.stamp \in Nat /\ i \in Present
      /\ entry[i].stamp <= clock /\ ledger.stamp <= clock
  BY <1>1, IndexAssumption DEF IInv, GoodCorpus, Present
<1>3. new \in Projections /\ new # None
  BY <1>1, <1>2, IndexAssumption DEF Projections, Sights, Stamps, Deps
<1>4. /\ r.docs \in Documents
      /\ \A j \in Ids : r.docs[j] = IF j = i THEN new ELSE q.docs[j]
  <2>1. r.docs = [q.docs EXCEPT ![i] = new]
    BY <1>1 DEF GoodProcess, ProcRecords
  <2> HIDE DEF new
  <2> QED
    BY <1>1, <1>3, <2>1 DEF Documents
<1>5. r \in ProcRecords
  BY <1>1, <1>4 DEF GoodProcess, ProcRecords, Points, BuildPoints
<1>6. Backed(r.docs)
  BY <1>1, <1>4, SMTT(20) DEF GoodProcess, Careful, Backed, ApprovedIn, KnownIn
<1>7. Shape(r) /\ Careful(r)
  BY <1>1, <1>6 DEF GoodProcess, ProcRecords, Shape, Careful
<1>8. ASSUME ~disturbed PROVE Undisturbed(r)
  <2>1. new.lane = LaneUnder(ledger.approved, i) /\ Faithful(i, new)
    BY <1>1, <1>2, <1>8 DEF GoodProcess, Undisturbed, Faithful, Stamps
  <2>2. \A j \in Ids : Faithful(j, r.docs[j])
    BY <1>1, <1>4, <1>8, <2>1 DEF GoodProcess, Undisturbed
  <2>3. /\ r.at = "collect" /\ r.todo = q.todo \ {i} /\ r.approved = q.approved /\ r.reuse = q.reuse
    BY <1>1 DEF GoodProcess, ProcRecords
  <2> HIDE DEF new, r
  <2> QED
    BY <1>1, <1>3, <1>4, <1>8, <2>1, <2>2, <2>3 DEF GoodProcess, Undisturbed
<1> QED
  BY <1>1, <1>5, <1>7, <1>8, Moved DEF GoodProcess

\* The lanes a build has collected are the lanes of the entries.
LEMMA CollectedSafe ==
  ASSUME IInv, NEW p \in Procs, Collected(p)
  PROVE  IInv'
<1> DEFINE q == proc[p]
           name == NameOf(q.docs)
           r == [q EXCEPT !.at = "open", !.name = name, !.reuse = NoDocuments,
                          !.approved = Idle.approved]
<1>1. /\ GoodProcess(q) /\ q.at = "collect" /\ q.todo = {} /\ q.docs \in Documents
      /\ Set(p, r) /\ UNCHANGED <<corpus, pointer, answer>>
  BY DEF Collected, IInv, GoodProcesses, GoodProcess, ProcRecords
<1>2. /\ name \in Names /\ ApprovedIn(name) = ApprovedIn(q.docs)
      /\ \A i \in KnownIn(q.docs) : name[i].digest = q.docs[i].digest
  BY <1>1, NameSays
<1>3. Backed(name)
  BY <1>1, <1>2 DEF GoodProcess, Careful, Backed, ApprovedIn
<1>4. Idle.approved \in [Ids -> DigestsOf \cup {None}] /\ \A i \in Ids : Idle.approved[i] = None
  BY DEF Idle
<1>5. r \in ProcRecords
  <2> HIDE DEF name
  <2> QED
    BY <1>1, <1>2, <1>4, IdleIsGood DEF GoodProcess, ProcRecords, Points, BuildPoints
<1>6. /\ r.at = "open" /\ r.name = name /\ r.docs = q.docs /\ r.reuse = NoDocuments
      /\ r.approved = Idle.approved /\ r.seen = q.seen
  BY <1>1 DEF GoodProcess, ProcRecords
<1> HIDE DEF r
<1>7. Shape(r) /\ Careful(r)
  BY <1>1, <1>2, <1>4, <1>6, NoDocumentsSay DEF GoodProcess, Shape, Careful, Backed, ApprovedIn
<1>8. ASSUME ~disturbed PROVE Undisturbed(r)
  <2>1. Right(q.docs)
    BY <1>1, <1>8 DEF GoodProcess, Undisturbed, Right, KnownIn, Present
  <2>2. \A i \in Ids : Faithful(i, NoDocuments[i])
    BY DEF Faithful, NoDocuments
  <2> QED
    BY <1>1, <1>6, <1>8, <2>1, <2>2 DEF GoodProcess, Undisturbed
<1>9. GoodDirectory(name, EmptyDirectory)
  BY <1>2, <1>3 DEF GoodDirectory, EmptyDirectory, Directories, Unreadable
<1>10. /\ disk' = [n \in DOMAIN disk' |-> disk'[n]]
       /\ \A n \in DOMAIN disk' : GoodDirectory(n, disk'[n])
  <2>1. disk' = [n \in DOMAIN disk \cup {name} |->
                   IF n \in DOMAIN disk THEN disk[n] ELSE EmptyDirectory]
    BY DEF Collected
  <2>2. \A n \in DOMAIN disk : GoodDirectory(n, disk[n])
    BY DEF IInv, GoodDisk
  <2> HIDE DEF name
  <2> QED
    BY <1>9, <2>1, <2>2
<1>11. GoodAnswers' /\ starts' \in 0 .. MaxStarts /\ pointer' \in Names \cup {None}
  BY <1>1, AnswersStay DEF IInv, corpus, GoodCorpus, GoodDisk
<1>12. UNCHANGED <<entry, ledger, clock, approvals, disturbed>> /\ GoodProcess(r)
  BY <1>1, <1>5, <1>7, <1>8 DEF corpus, GoodProcess
<1>13. Set(p, r)
  BY <1>1 DEF r
<1> QED
  BY <1>10, <1>11, <1>12, <1>13, Stepped

\* What a file of a generation may come to hold.
Fitting(n, f, v) ==
  \/ v \in Unreadable
  \/ /\ f = "documents" /\ v \in Documents /\ NameOf(v) = n
     /\ ~disturbed => \A i \in Ids : Faithful(i, v[i])
  \/ f = "offsets" /\ v = KnownIn(n)
  \/ f = "lanes" /\ v = ApprovedIn(n)
  \/ f = "manifest" /\ v \in Fingerprints /\ (~disturbed => Dated(n, v))

LEMMA FileReplaced ==
  ASSUME NEW n, NEW g, GoodDirectory(n, g), NEW f \in DOMAIN Steps, NEW v, Fitting(n, f, v)
  PROVE  GoodDirectory(n, [g EXCEPT ![f] = v])
<1> DEFINE h == [g EXCEPT ![f] = v]
<1>1. DOMAIN Steps = {"documents", "offsets", "lanes", "manifest"}
  BY DEF Steps
<1>2. g \in Directories
  BY DEF GoodDirectory
<1>3. KnownIn(n) \in SUBSET Ids /\ ApprovedIn(n) \in SUBSET Ids
  BY DEF KnownIn, ApprovedIn
<1>4. /\ f = "documents" => v \in Documents \cup Unreadable
      /\ f = "offsets" => v \in (SUBSET Ids) \cup Unreadable
      /\ f = "lanes" => v \in (SUBSET Ids) \cup Unreadable
      /\ f = "manifest" => v \in Fingerprints \cup Unreadable
  BY <1>3 DEF Fitting
<1>5. h \in Directories
  BY <1>1, <1>2, <1>4 DEF Directories
<1>6. /\ h.documents = IF f = "documents" THEN v ELSE g.documents
      /\ h.offsets = IF f = "offsets" THEN v ELSE g.offsets
      /\ h.lanes = IF f = "lanes" THEN v ELSE g.lanes
      /\ h.manifest = IF f = "manifest" THEN v ELSE g.manifest
  BY <1>1, <1>2 DEF Directories
<1>7. GoodDirectory(n, h)
  <2> HIDE DEF h
  <2>1. h.documents \notin Unreadable => NameOf(h.documents) = n
    BY <1>6 DEF GoodDirectory, Fitting
  <2>2. h.offsets \notin Unreadable => h.offsets = KnownIn(n)
    BY <1>6 DEF GoodDirectory, Fitting
  <2>3. h.lanes \notin Unreadable => h.lanes = ApprovedIn(n)
    BY <1>6 DEF GoodDirectory, Fitting
  <2>4. ~disturbed => /\ h.documents \notin Unreadable => \A i \in Ids : Faithful(i, h.documents[i])
                      /\ h.manifest \notin Unreadable => Dated(n, h.manifest)
    BY <1>6 DEF GoodDirectory, Fitting
  <2> QED
    BY <1>5, <2>1, <2>2, <2>3, <2>4 DEF GoodDirectory
<1> QED
  BY <1>7

\* A step that replaces one file of one generation.
LEMMA DiskReplaced ==
  ASSUME IInv, NEW n \in DOMAIN disk, NEW f \in DOMAIN Steps, NEW v, Fitting(n, f, v),
         disk' = [disk EXCEPT ![n] = [@ EXCEPT ![f] = v]]
  PROVE  /\ disk' = [m \in DOMAIN disk' |-> disk'[m]]
         /\ \A m \in DOMAIN disk' : GoodDirectory(m, disk'[m])
<1>1. \A m \in DOMAIN disk : GoodDirectory(m, disk[m])
  BY DEF IInv, GoodDisk
<1>2. GoodDirectory(n, [disk[n] EXCEPT ![f] = v])
  BY <1>1, FileReplaced
<1>3. /\ disk' = [m \in DOMAIN disk' |-> disk'[m]] /\ DOMAIN disk' = DOMAIN disk
      /\ \A m \in DOMAIN disk : disk'[m] = IF m = n THEN [disk[n] EXCEPT ![f] = v] ELSE disk[m]
  OBVIOUS
<1> QED
  BY <1>1, <1>2, <1>3

LEMMA OpenFileSafe ==
  ASSUME IInv, NEW p \in Procs, OpenFile(p)
  PROVE  IInv'
<1> DEFINE q == proc[p]
           print == IF q.file = "manifest" THEN Fingerprint ELSE None
           r == [q EXCEPT !.at = "fill", !.print = print]
<1>1. /\ GoodProcess(q) /\ q.at = "open" /\ q.name \in DOMAIN disk /\ q.file \in DOMAIN Steps
      /\ Set(p, r) /\ UNCHANGED <<corpus, pointer, answer>>
      /\ disk' = [disk EXCEPT ![q.name] = [@ EXCEPT ![q.file] = Partial]]
  BY DEF OpenFile, IInv, GoodProcesses, GoodProcess, ProcRecords
<1>2. print \in Fingerprints \cup {None} /\ (q.file = "manifest" => print = Fingerprint)
  BY FingerprintType DEF IInv
<1>3. r \in ProcRecords
  <2> HIDE DEF print
  <2> QED
    BY <1>1, <1>2 DEF GoodProcess, ProcRecords, Points, BuildPoints
<1>4. /\ r.at = "fill" /\ r.print = print /\ r.name = q.name /\ r.docs = q.docs /\ r.file = q.file
      /\ r.reuse = q.reuse /\ r.approved = q.approved /\ r.seen = q.seen
  BY <1>1 DEF GoodProcess, ProcRecords
<1> HIDE DEF r
<1>5. Shape(r) /\ Careful(r)
  BY <1>1, <1>4, FingerprintType DEF GoodProcess, Shape, Careful, IInv
<1>6. ~disturbed => Undisturbed(r)
  BY <1>1, <1>2, <1>4 DEF GoodProcess, Undisturbed
<1>7. Fitting(q.name, q.file, Partial)
  BY DEF Fitting, Unreadable
<1>8. /\ disk' = [n \in DOMAIN disk' |-> disk'[n]]
      /\ \A n \in DOMAIN disk' : GoodDirectory(n, disk'[n])
  BY <1>1, <1>7, DiskReplaced
<1>9. GoodAnswers' /\ starts' \in 0 .. MaxStarts /\ pointer' \in Names \cup {None}
  BY <1>1, AnswersStay DEF IInv, corpus, GoodCorpus, GoodDisk
<1>10. UNCHANGED <<entry, ledger, clock, approvals, disturbed>> /\ GoodProcess(r) /\ Set(p, r)
  BY <1>1, <1>3, <1>5, <1>6 DEF corpus, GoodProcess, r
<1> QED
  BY <1>8, <1>9, <1>10, Stepped

\* What is written is what the name says, and the fingerprint in a manifest is
\* that of the entries the documents were made of.
LEMMA PayloadFits ==
  ASSUME IInv, NEW p \in Procs, proc[p].at = "fill"
  PROVE  Fitting(proc[p].name, proc[p].file, Payload(proc[p]))
<1> DEFINE q == proc[p]
<1>1. /\ GoodProcess(q) /\ q.file \in {"documents", "offsets", "lanes", "manifest"}
      /\ q.docs \in Documents /\ NameOf(q.docs) = q.name
  BY DEF IInv, GoodProcesses, GoodProcess, ProcRecords, Shape, Steps
<1>2. KnownIn(q.docs) = KnownIn(q.name) /\ ApprovedIn(q.docs) = ApprovedIn(q.name)
  BY <1>1, NameSays
<1>3. CASE q.file = "documents"
  BY <1>1, <1>3 DEF Fitting, Payload, GoodProcess, Undisturbed
<1>4. CASE q.file = "offsets"
  BY <1>2, <1>4 DEF Fitting, Payload, KnownIn
<1>5. CASE q.file = "lanes"
  <2>1. Payload(q) = ApprovedIn(q.docs)
    BY <1>5 DEF Payload, ApprovedIn, KnownIn
  <2> QED
    BY <1>2, <1>5, <2>1 DEF Fitting
<1>6. CASE q.file = "manifest"
  <2>1. Payload(q) = q.print /\ q.print \in Fingerprints
    BY <1>1, <1>6 DEF Payload, GoodProcess, Shape
  <2>2. ASSUME ~disturbed PROVE Dated(q.name, q.print)
    <3>1. Right(q.docs) /\ q.print = Fingerprint
      BY <1>1, <1>6, <2>2 DEF GoodProcess, Undisturbed
    <3>2. Right(q.name)
      BY <1>1, <1>2, <3>1, NameSays DEF Right
    <3> QED
      BY <3>1, <3>2, DatedNow DEF IInv
  <2> QED
    BY <1>6, <2>1, <2>2 DEF Fitting
<1> QED
  BY <1>1, <1>3, <1>4, <1>5, <1>6

LEMMA FillFileSafe ==
  ASSUME IInv, NEW p \in Procs, FillFile(p)
  PROVE  IInv'
<1> DEFINE q == proc[p]
           next == Steps[q.file]
           last == [q EXCEPT !.at = "swap", !.docs = NoDocuments, !.print = None]
           more == [q EXCEPT !.at = "open", !.file = next]
<1>1. /\ GoodProcess(q) /\ q.at = "fill" /\ q.name \in Names
      /\ q.file \in {"documents", "offsets", "lanes", "manifest"}
      /\ UNCHANGED <<corpus, pointer, answer>>
  BY DEF FillFile, IInv, GoodProcesses, GoodProcess, ProcRecords, Shape, Steps
<1>2. Set(p, IF next = "swap" THEN last ELSE more)
  BY DEF FillFile
<1>3. next # "swap" => next \in DOMAIN Steps
  BY <1>1 DEF Steps
<1>4. GoodProcess(last)
  <2>1. last \in ProcRecords
    BY <1>1, IdleIsGood DEF GoodProcess, ProcRecords, Points, BuildPoints
  <2>2. /\ last.at = "swap" /\ last.docs = NoDocuments /\ last.name = q.name
        /\ last.reuse = q.reuse /\ last.approved = q.approved /\ last.seen = q.seen
    BY <1>1 DEF GoodProcess, ProcRecords
  <2>3. \A i \in Ids : Faithful(i, NoDocuments[i])
    BY DEF Faithful, NoDocuments
  <2> HIDE DEF last
  <2> QED
    BY <1>1, <2>1, <2>2, <2>3, NoDocumentsSay DEF GoodProcess, Shape, Careful, Undisturbed, Backed,
       ApprovedIn
<1>5. ASSUME next # "swap" PROVE GoodProcess(more)
  <2>1. more \in ProcRecords
    <3> HIDE DEF next
    <3> QED
      BY <1>1, <1>3, <1>5 DEF GoodProcess, ProcRecords, Points, BuildPoints
  <2>2. /\ more.at = "open" /\ more.docs = q.docs /\ more.name = q.name
        /\ more.reuse = q.reuse /\ more.approved = q.approved /\ more.seen = q.seen
    BY <1>1 DEF GoodProcess, ProcRecords
  <2> HIDE DEF more
  <2> QED
    BY <1>1, <2>1, <2>2 DEF GoodProcess, Shape, Careful, Undisturbed
<1>6. PICK r : Set(p, r) /\ GoodProcess(r)
  <2> HIDE DEF next, last, more
  <2> QED
    BY <1>2, <1>4, <1>5
<1>7. /\ disk' = [n \in DOMAIN disk' |-> disk'[n]]
      /\ \A n \in DOMAIN disk' : GoodDirectory(n, disk'[n])
  <2>1. CASE disk' = disk
    BY <2>1 DEF IInv, GoodDisk
  <2>2. CASE q.name \in DOMAIN disk
             /\ disk' = [disk EXCEPT ![q.name] = [@ EXCEPT ![q.file] = Payload(q)]]
    <3>1. Fitting(q.name, q.file, Payload(q)) /\ q.file \in DOMAIN Steps
      BY <1>1, PayloadFits DEF Steps
    <3> HIDE DEF q
    <3> QED
      BY <2>2, <3>1, DiskReplaced
  <2> QED
    BY <2>1, <2>2 DEF FillFile
<1>8. GoodAnswers' /\ starts' \in 0 .. MaxStarts /\ pointer' \in Names \cup {None}
  BY <1>1, AnswersStay DEF IInv, corpus, GoodCorpus, GoodDisk
<1>9. UNCHANGED <<entry, ledger, clock, approvals, disturbed>>
  BY <1>1 DEF corpus
<1> QED
  BY <1>6, <1>7, <1>8, <1>9, Stepped

LEMMA SwapSafe ==
  ASSUME IInv, NEW p \in Procs, Swap(p)
  PROVE  IInv'
<1> DEFINE q == proc[p]
           r == [q EXCEPT !.at = "clean", !.old = DOMAIN disk \ {q.name}]
<1>1. /\ GoodProcess(q) /\ q.at = "swap" /\ q.name \in Names
      /\ Set(p, r) /\ UNCHANGED <<corpus, disk, answer>> /\ pointer' = q.name
  BY DEF Swap, IInv, GoodProcesses, GoodProcess, ProcRecords, Shape
<1>2. DOMAIN disk \ {q.name} \in SUBSET Names
  BY DEF IInv, GoodDisk, GoodDirectory
<1>3. r \in ProcRecords
  BY <1>1, <1>2 DEF GoodProcess, ProcRecords, Points, BuildPoints
<1>4. /\ r.at = "clean" /\ r.docs = q.docs /\ r.name = q.name
      /\ r.reuse = q.reuse /\ r.approved = q.approved /\ r.seen = q.seen
  BY <1>1 DEF GoodProcess, ProcRecords
<1>5. GoodProcess(r)
  <2> HIDE DEF r
  <2> QED
    BY <1>1, <1>3, <1>4 DEF GoodProcess, Shape, Careful, Undisturbed
<1>6. /\ disk' = [n \in DOMAIN disk' |-> disk'[n]]
      /\ \A n \in DOMAIN disk' : GoodDirectory(n, disk'[n])
  BY <1>1 DEF IInv, GoodDisk
<1>7. GoodAnswers' /\ starts' \in 0 .. MaxStarts /\ pointer' \in Names \cup {None}
  BY <1>1, AnswersStay DEF IInv, corpus, GoodCorpus
<1>8. UNCHANGED <<entry, ledger, clock, approvals, disturbed>>
  BY <1>1 DEF corpus
<1> QED
  BY <1>1, <1>5, <1>6, <1>7, <1>8, Stepped

\* Other builds' generations are removed bit by bit.
LEMMA RemoveSafe ==
  ASSUME IInv, NEW p \in Procs, RemoveFile(p) \/ RemoveDirectory(p)
  PROVE  IInv'
<1>1. UNCHANGED <<corpus, pointer, proc, answer>>
  BY DEF RemoveFile, RemoveDirectory
<1>2. /\ disk' = [n \in DOMAIN disk' |-> disk'[n]]
      /\ \A n \in DOMAIN disk' : GoodDirectory(n, disk'[n])
  <2>1. CASE RemoveFile(p)
    <3>1. PICK n \in DOMAIN disk, f \in DOMAIN Steps :
            disk' = [disk EXCEPT ![n] = [@ EXCEPT ![f] = None]]
      BY <2>1 DEF RemoveFile
    <3>2. Fitting(n, f, None)
      BY DEF Fitting, Unreadable
    <3> QED
      BY <3>1, <3>2, DiskReplaced
  <2>2. CASE RemoveDirectory(p)
    BY <2>2 DEF RemoveDirectory, IInv, GoodDisk
  <2> QED
    BY <2>1, <2>2
<1>3. Set(p, proc[p]) /\ GoodProcess(proc[p])
  BY <1>1 DEF Set, IInv, GoodProcesses
<1>4. GoodAnswers' /\ starts' \in 0 .. MaxStarts /\ pointer' \in Names \cup {None}
  BY <1>1, AnswersStay DEF IInv, corpus, GoodCorpus, GoodDisk
<1>5. UNCHANGED <<entry, ledger, clock, approvals, disturbed>>
  BY <1>1 DEF corpus
<1> QED
  BY <1>2, <1>3, <1>4, <1>5, Stepped

LEMMA BuiltSafe ==
  ASSUME IInv, NEW p \in Procs, Built(p)
  PROVE  IInv'
<1>1. GoodProcess([Idle EXCEPT !.at = "pointer", !.heal = "healed"]) /\ GoodProcess(Idle)
  BY FreshIsGood, IdleIsGood
<1>2. PICK q : Set(p, q) /\ GoodProcess(q)
  BY <1>1 DEF Built
<1>3. UNCHANGED <<corpus, pointer, disk, answer>>
  BY DEF Built
<1> QED
  BY <1>2, <1>3, Moved

-----------------------------------------------------------------------------
(* Querying. *)

LEMMA QueryStartSafe ==
  ASSUME IInv, NEW p \in Procs, QueryStart(p)
  PROVE  IInv'
<1>1. PICK heal \in {"cli", "call"} : Set(p, [Idle EXCEPT !.at = "pointer", !.heal = heal])
  BY DEF QueryStart
<1>2. GoodProcess([Idle EXCEPT !.at = "pointer", !.heal = heal])
  BY FreshIsGood
<1>3. UNCHANGED <<entry, ledger, clock, approvals, disturbed>> /\ starts' \in 0 .. MaxStarts
  BY IndexAssumption DEF QueryStart, Start, IInv, GoodCorpus
<1>4. GoodAnswers'
  BY <1>3, AnswersStay DEF QueryStart, IInv
<1>5. /\ pointer' \in Names \cup {None} /\ disk' = [n \in DOMAIN disk' |-> disk'[n]]
      /\ \A n \in DOMAIN disk' : GoodDirectory(n, disk'[n])
  BY DEF QueryStart, IInv, GoodDisk
<1> QED
  BY <1>1, <1>2, <1>3, <1>4, <1>5, Stepped

LEMMA StaleSafe ==
  ASSUME IInv, NEW p \in Procs, Stale(p), UNCHANGED <<corpus, pointer, disk, answer>>
  PROVE  IInv'
<1>1. GoodProcess([Idle EXCEPT !.at = "build", !.heal = "healed"]) /\ GoodProcess(Idle)
  BY FreshIsGood, IdleIsGood
<1>2. PICK q : Set(p, q) /\ GoodProcess(q)
  BY <1>1 DEF Stale
<1> QED
  BY <1>2, Moved

LEMMA StopSafe ==
  ASSUME IInv, NEW p \in Procs, Set(p, Idle), UNCHANGED <<corpus, pointer, disk, answer>>
  PROVE  IInv'
BY IdleIsGood, Moved

LEMMA QueryPointerSafe ==
  ASSUME IInv, NEW p \in Procs, QueryPointer(p)
  PROVE  IInv'
<1> DEFINE q == proc[p]
           r == [q EXCEPT !.at = "load", !.name = pointer]
<1>1. GoodProcess(q) /\ q.at = "pointer" /\ UNCHANGED <<corpus, pointer, disk, answer>>
  BY DEF QueryPointer, IInv, GoodProcesses
<1>2. CASE Stale(p)
  BY <1>1, <1>2, StaleSafe
<1>3. CASE pointer # None /\ Set(p, r)
  <2>1. pointer \in Names
    BY <1>3 DEF IInv, GoodDisk
  <2>2. r \in ProcRecords
    BY <1>1, <2>1 DEF GoodProcess, ProcRecords, Points, BuildPoints
  <2>3. /\ r.at = "load" /\ r.name = pointer /\ r.docs = q.docs
        /\ r.reuse = q.reuse /\ r.approved = q.approved /\ r.seen = q.seen
    BY <1>1 DEF GoodProcess, ProcRecords
  <2>4. GoodProcess(r)
    <3> HIDE DEF r
    <3> QED
      BY <1>1, <2>1, <2>2, <2>3 DEF GoodProcess, Shape, Careful, Undisturbed
  <2> QED
    BY <1>1, <1>3, <2>4, Moved
<1> QED
  BY <1>2, <1>3 DEF QueryPointer

\* A generation load_index accepts: its lanes are those of the corpus.
LEMMA LoadableIsRight ==
  ASSUME IInv, ~disturbed, NEW n \in DOMAIN disk, Loadable(disk[n])
  PROVE  Right(n) /\ ApprovedIn(n) = Approved
<1>1. GoodDirectory(n, disk[n])
  BY DEF IInv, GoodDisk
<1>2. disk[n].manifest = Fingerprint /\ Fingerprint \notin Unreadable
  BY FingerprintType, IndexAssumption DEF Loadable, IInv
<1>3. Dated(n, Fingerprint)
  BY <1>1, <1>2 DEF GoodDirectory
<1>4. Right(n)
  BY <1>3, DatedMatch DEF IInv
<1>5. ApprovedIn(n) = Approved
  BY <1>4 DEF Right, ApprovedIn, Approved
<1> QED
  BY <1>4, <1>5

LEMMA QueryLoadSafe ==
  ASSUME IInv, NEW p \in Procs, QueryLoad(p)
  PROVE  IInv'
<1> DEFINE q == proc[p]
           g == IF q.name \in DOMAIN disk THEN disk[q.name] ELSE EmptyDirectory
           r == [q EXCEPT !.at = "lanes", !.due = Approved]
<1>1. /\ GoodProcess(q) /\ q.at = "load" /\ q.name \in Names
      /\ UNCHANGED <<corpus, pointer, disk, answer>>
  BY DEF QueryLoad, IInv, GoodProcesses, GoodProcess, Shape
<1>2. CASE Set(p, Idle)
  BY <1>1, <1>2, StopSafe
<1>3. CASE Stale(p)
  BY <1>1, <1>3, StaleSafe
<1>4. CASE Loadable(g) /\ Set(p, r)
  <2>1. q.name \in DOMAIN disk /\ g = disk[q.name]
    BY <1>4 DEF Loadable, EmptyDirectory
  <2>2. Approved \in SUBSET Ids
    BY DEF Approved, Present
  <2>3. r \in ProcRecords
    BY <1>1, <2>2 DEF GoodProcess, ProcRecords, Points, BuildPoints
  <2>4. /\ r.at = "lanes" /\ r.name = q.name /\ r.docs = q.docs /\ r.due = Approved
        /\ r.reuse = q.reuse /\ r.approved = q.approved /\ r.seen = q.seen
    BY <1>1 DEF GoodProcess, ProcRecords
  <2>5. ~disturbed => Approved = ApprovedIn(q.name)
    BY <1>4, <2>1, LoadableIsRight
  <2>6. GoodProcess(r)
    <3> HIDE DEF r
    <3> QED
      BY <1>1, <2>3, <2>4, <2>5 DEF GoodProcess, Shape, Careful, Undisturbed
  <2> QED
    BY <1>1, <1>4, <2>6, Moved
<1> QED
  BY <1>2, <1>3, <1>4 DEF QueryLoad

\* The postings of a lane name entries that were approved with that digest.
LEMMA QueryLanesSafe ==
  ASSUME IInv, NEW p \in Procs, QueryLanes(p)
  PROVE  IInv'
<1> DEFINE q == proc[p]
           found == Postings(q.name, "lanes")
           r == [q EXCEPT !.at = "serve", !.found = found]
<1>1. /\ GoodProcess(q) /\ q.at = "lanes" /\ q.name \in Names
      /\ UNCHANGED <<corpus, pointer, disk, answer>>
  BY DEF QueryLanes, IInv, GoodProcesses, GoodProcess, Shape
<1>2. CASE Set(p, Idle)
  BY <1>1, <1>2, StopSafe
<1>3. CASE found # Partial /\ Set(p, r)
  <2>1. CASE found = {}
    <3>1. r \in ProcRecords
      BY <1>1, <2>1 DEF GoodProcess, ProcRecords, Points, BuildPoints
    <3>2. /\ r.at = "serve" /\ r.name = q.name /\ r.docs = q.docs /\ r.due = q.due /\ r.found = {}
          /\ r.reuse = q.reuse /\ r.approved = q.approved /\ r.seen = q.seen
      BY <1>1, <2>1 DEF GoodProcess, ProcRecords
    <3>3. GoodProcess(r)
      <4> HIDE DEF r
      <4> QED
        BY <1>1, <3>1, <3>2 DEF GoodProcess, Shape, Careful, Undisturbed
    <3> QED
      BY <1>1, <1>3, <3>3, Moved
  <2>2. CASE found # {}
    <3>1. /\ q.name \in DOMAIN disk /\ found = disk[q.name].lanes /\ found \notin Unreadable
          /\ GoodDirectory(q.name, disk[q.name])
      BY <1>3, <2>2 DEF Postings, Unreadable, IInv, GoodDisk
    <3>2. found = ApprovedIn(q.name) /\ Backed(q.name) /\ found \in SUBSET Ids
      BY <3>1 DEF GoodDirectory, ApprovedIn, KnownIn
    <3> HIDE DEF found
    <3>3. r \in ProcRecords
      BY <1>1, <3>2 DEF GoodProcess, ProcRecords, Points, BuildPoints
    <3>4. /\ r.at = "serve" /\ r.name = q.name /\ r.docs = q.docs /\ r.due = q.due
          /\ r.found = found
          /\ r.reuse = q.reuse /\ r.approved = q.approved /\ r.seen = q.seen
      BY <1>1 DEF GoodProcess, ProcRecords
    <3>5. GoodProcess(r)
      <4> HIDE DEF r
      <4> QED
        BY <1>1, <3>2, <3>3, <3>4 DEF GoodProcess, Shape, Careful, Undisturbed, Backed
    <3> QED
      BY <1>1, <1>3, <3>5, Moved
  <2> QED
    BY <2>1, <2>2
<1> QED
  BY <1>2, <1>3 DEF QueryLanes

\* An answer serves what was found and what hydrate compared with the file.
LEMMA ServedFits ==
  ASSUME IInv, NEW p \in Procs, QueryServe(p), answer' # answer
  PROVE  \E a \in Answers :
           /\ answer' = [answer EXCEPT ![p] = a]
           /\ a.served \subseteq proc[p].found /\ proc[p].due \subseteq a.right
           /\ \A i \in a.served : <<i, Reviewed[entry[i].content]>> \in approvals
<1> DEFINE q == proc[p]
           known == Postings(q.name, "offsets")
           held == IF q.name \in DOMAIN disk THEN disk[q.name].documents ELSE None
           hits == q.found \cap known
           served == {i \in hits : Hydrates(i, held[i])}
           a == [served |-> served, gaps |-> hits \ served, right |-> q.due \cup Approved]
<1>1. GoodProcess(q) /\ q.at = "serve" /\ q.name \in Names
       /\ q.found \in SUBSET Ids /\ q.due \in SUBSET Ids
  BY DEF QueryServe, IInv, GoodProcesses, GoodProcess, Shape, ProcRecords
<1>2. /\ answer' = [answer EXCEPT ![p] = a]
      /\ hits # {} => held \notin Unreadable
  BY DEF QueryServe
<1>3. a \in Answers
  <2>1. Approved \in SUBSET Ids
    BY DEF Approved, Present
  <2>2. hits \in SUBSET Ids /\ served \in SUBSET hits
    BY <1>1
  <2> HIDE DEF hits, served
  <2> QED
    BY <1>1, <2>1, <2>2 DEF Answers
<1>4. ASSUME NEW i \in served PROVE <<i, Reviewed[entry[i].content]>> \in approvals
  <2>1. i \in q.found /\ held \notin Unreadable /\ Reviewed[entry[i].content] = held[i].digest
    BY <1>2, <1>4 DEF Hydrates
  <2>2. q.name \in DOMAIN disk /\ held = disk[q.name].documents
    BY <2>1 DEF Unreadable
  <2>3. held \in Documents /\ NameOf(held) = q.name
    BY <2>1, <2>2 DEF IInv, GoodDisk, GoodDirectory, Directories
  <2>4. i \in ApprovedIn(q.name) /\ <<i, q.name[i].digest>> \in approvals
    BY <1>1, <2>1 DEF GoodProcess, Careful
  <2>5. q.name[i].digest = held[i].digest
    <3> HIDE DEF held
    <3>1. i \in KnownIn(held)
      BY <2>3, <2>4, NameSays DEF ApprovedIn
    <3> QED
      BY <2>3, <3>1, NameSays
  <2> QED
    BY <2>1, <2>4, <2>5
<1>5. a.served = served /\ a.right = q.due \cup Approved
  OBVIOUS
<1> HIDE DEF served, a
<1>6. served \subseteq q.found
  BY DEF served
<1> QED
  BY <1>2, <1>3, <1>4, <1>5, <1>6

LEMMA QueryServeSafe ==
  ASSUME IInv, NEW p \in Procs, QueryServe(p)
  PROVE  IInv'
<1>1. Set(p, Idle) /\ GoodProcess(Idle) /\ UNCHANGED <<corpus, pointer, disk>>
  BY IdleIsGood DEF QueryServe
<1>2. GoodAnswers'
  <2>1. CASE answer' = answer
    BY <1>1, <2>1, AnswersStay DEF IInv, corpus
  <2>2. CASE answer' # answer
    <3>1. PICK a \in Answers : /\ answer' = [answer EXCEPT ![p] = a]
                               /\ a.served \subseteq proc[p].found /\ proc[p].due \subseteq a.right
      BY <2>2, ServedFits
    <3>2. GoodProcess(proc[p]) /\ proc[p].at = "serve"
      BY DEF QueryServe, IInv, GoodProcesses
    <3>3. ~disturbed => a.served \subseteq a.right
      BY <3>1, <3>2 DEF GoodProcess, Careful, Undisturbed
    <3>4. answer \in [Procs -> Answers \cup {None}] /\ AnswersRight
      BY DEF IInv, GoodAnswers
    <3>5. answer' \in [Procs -> Answers \cup {None}]
      BY <3>1, <3>4
    <3>6. AnswersRight'
      BY <1>1, <3>1, <3>3, <3>4 DEF AnswersRight, AnswersNeverStale, corpus
    <3> QED
      BY <3>5, <3>6 DEF GoodAnswers
  <2> QED
    BY <2>1, <2>2
<1>3. /\ pointer' \in Names \cup {None} /\ disk' = [n \in DOMAIN disk' |-> disk'[n]]
      /\ \A n \in DOMAIN disk' : GoodDirectory(n, disk'[n])
  BY <1>1 DEF IInv, GoodDisk
<1>4. UNCHANGED <<entry, ledger, clock, approvals, disturbed>> /\ starts' \in 0 .. MaxStarts
  BY <1>1 DEF corpus, IInv, GoodCorpus
<1> QED
  BY <1>1, <1>2, <1>3, <1>4, Stepped

-----------------------------------------------------------------------------
(* Changes of the corpus.                                                   *)

\* A change of an entry or of the ledger gets a later time stamp than any
\* fingerprint or projection has.
LEMMA ChangedCorpus ==
  ASSUME IInv, NEW i \in Ids, EntryChanges(i) \/ LedgerChanges(i)
  PROVE  /\ GoodCorpus' /\ clock' = clock + 1 /\ approvals \subseteq approvals'
         /\ disturbed' \in BOOLEAN /\ (disturbed => disturbed')
         /\ ~disturbed' => \A p \in Procs : ~Building(p)
         /\ UNCHANGED <<pointer, disk, proc, answer>>
         /\ \/ /\ ledger' = ledger
               /\ \A j \in Ids : entry'[j] = entry[j] \/ entry'[j] = None \/ entry'[j].stamp = clock + 1
            \/ /\ entry' = entry /\ ledger'.stamp = clock + 1
<1>1. /\ clock \in Nat /\ entry \in [Ids -> [content : Contents, stamp : 0 .. MaxClock] \cup {None}]
      /\ ledger \in [approved : [Ids -> DigestsOf \cup {None}], stamp : 0 .. MaxClock]
      /\ GoodCorpus
  BY IndexAssumption DEF IInv, GoodCorpus
<1>2. Change /\ UNCHANGED <<pointer, disk, proc, answer, starts>>
  BY DEF EntryChanges, LedgerChanges
<1>3. /\ clock' = clock + 1 /\ clock' \in 0 .. MaxClock /\ disturbed' \in BOOLEAN
      /\ disturbed => disturbed'
      /\ ~disturbed' => \A p \in Procs : ~Building(p)
  <2>1. disturbed' = (disturbed \/ \E p \in Procs : Building(p)) /\ disturbed \in BOOLEAN
    BY <1>1, <1>2 DEF Change, GoodCorpus
  <2>2. clock' = clock + 1 /\ (clock' <= MaxDuring \/ clock' <= MaxClock)
    BY <1>2 DEF Change
  <2>3. clock' \in 0 .. MaxClock
    BY <1>1, <2>2, IndexAssumption
  <2> QED
    BY <2>1, <2>2, <2>3
<1>4. CASE EntryChanges(i)
  <2>1. UNCHANGED <<ledger, starts, approvals>>
    BY <1>4 DEF EntryChanges
  <2>2. PICK e \in [content : Contents, stamp : 0 .. MaxClock] \cup {None} :
          entry' = [entry EXCEPT ![i] = e] /\ (e = None \/ e.stamp = clock + 1)
    <3>1. CASE entry' = [entry EXCEPT ![i] = None]
      BY <3>1
    <3>2. ASSUME NEW c \in Contents, entry' = [entry EXCEPT ![i] = [content |-> c, stamp |-> clock + 1]]
          PROVE  \E e \in [content : Contents, stamp : 0 .. MaxClock] \cup {None} :
                   entry' = [entry EXCEPT ![i] = e] /\ (e = None \/ e.stamp = clock + 1)
      <4> DEFINE e == [content |-> c, stamp |-> clock + 1]
      <4>1. e \in [content : Contents, stamp : 0 .. MaxClock] /\ e.stamp = clock + 1
        BY <1>3
      <4>2. entry' = [entry EXCEPT ![i] = e]
        BY <3>2
      <4> HIDE DEF e
      <4> QED
        BY <4>1, <4>2
    <3> QED
      BY <1>4, <3>1, <3>2 DEF EntryChanges
  <2>3. /\ entry' \in [Ids -> [content : Contents, stamp : 0 .. MaxClock] \cup {None}]
        /\ \A j \in Ids : entry'[j] = IF j = i THEN e ELSE entry[j]
    BY <1>1, <2>2
  <2>4. \A j \in Present' : entry'[j].stamp <= clock'
    BY <1>1, <1>3, <2>2, <2>3 DEF Present, GoodCorpus
  <2>5. GoodCorpus'
    BY <1>1, <1>3, <2>1, <2>3, <2>4 DEF GoodCorpus
  <2> QED
    BY <1>2, <1>3, <2>1, <2>2, <2>3, <2>5
<1>5. CASE LedgerChanges(i)
  <2>1. PICK d \in DigestsOf \cup {None} :
          /\ ledger' = [approved |-> [ledger.approved EXCEPT ![i] = d], stamp |-> clock + 1]
          /\ approvals' = approvals \cup {<<i, e>> : e \in {d} \ {None}}
    BY <1>5 DEF LedgerChanges
  <2>2. UNCHANGED <<entry, starts>>
    BY <1>5 DEF LedgerChanges
  <2>3. /\ ledger'.stamp = clock + 1 /\ ledger'.approved \in [Ids -> DigestsOf \cup {None}]
        /\ \A j \in Ids : ledger'.approved[j] = IF j = i THEN d ELSE ledger.approved[j]
        /\ ledger' \in [approved : [Ids -> DigestsOf \cup {None}], stamp : 0 .. MaxClock]
    BY <1>1, <1>3, <2>1
  <2>4. /\ approvals' \subseteq Ids \X DigestsOf
        /\ \A j \in Ids : ledger'.approved[j] # None => <<j, ledger'.approved[j]>> \in approvals'
    BY <1>1, <2>1, <2>3 DEF GoodCorpus
  <2>5. \A j \in Present' : entry'[j].stamp <= clock'
    BY <1>1, <1>3, <2>2, IndexAssumption DEF Present, GoodCorpus
  <2>6. GoodCorpus'
    BY <1>1, <1>3, <2>2, <2>3, <2>4, <2>5 DEF GoodCorpus
  <2> QED
    BY <1>2, <1>3, <2>1, <2>2, <2>3, <2>6
<1> QED
  BY <1>4, <1>5

\* So what was right of an earlier corpus, and says of which, still is.
LEMMA ChangeKeepsFacts ==
  ASSUME IInv, NEW i \in Ids, EntryChanges(i) \/ LedgerChanges(i)
  PROVE  /\ \A n : /\ KnownIn(n)' = KnownIn(n) /\ ApprovedIn(n)' = ApprovedIn(n)
                   /\ Backed(n) => Backed(n)'
         /\ \A j \in Ids, d \in Projections \cup {None} : Faithful(j, d) => Faithful(j, d)'
         /\ \A n : \A f \in Fingerprints : Dated(n, f) => Dated(n, f)'
<1>1. clock' = clock + 1 /\ clock \in Nat /\ approvals \subseteq approvals'
  BY ChangedCorpus, IndexAssumption DEF IInv, GoodCorpus
<1>2. \A n : KnownIn(n)' = KnownIn(n) /\ ApprovedIn(n)' = ApprovedIn(n)
  BY DEF KnownIn, ApprovedIn
<1>3. \A n : Backed(n) => Backed(n)'
  BY <1>1, <1>2 DEF Backed
<1>4. \/ /\ ledger' = ledger
         /\ \A j \in Ids : entry'[j] = entry[j] \/ entry'[j] = None \/ entry'[j].stamp = clock + 1
      \/ entry' = entry /\ ledger'.stamp = clock + 1
  BY ChangedCorpus
<1>5. ASSUME NEW j \in Ids, NEW d \in Projections \cup {None}, Faithful(j, d) PROVE Faithful(j, d)'
  <2> SUFFICES ASSUME d # None PROVE Faithful(j, d)'
    BY DEF Faithful
  <2>1. /\ d.deps.entry \in Nat /\ d.deps.ledger \in Nat
        /\ d.deps.entry <= clock /\ d.deps.ledger <= clock
        /\ entry[j] # None /\ d.deps = Stamps(j) => d.lane = LaneUnder(ledger.approved, j)
    BY <1>5 DEF Faithful, Projections, Deps
  <2>2. d.deps.entry <= clock' /\ d.deps.ledger <= clock'
    BY <1>1, <2>1
  <2>3. ASSUME entry'[j] # None, d.deps = Stamps(j)' PROVE entry'[j] = entry[j] /\ ledger' = ledger
    <3>1. d.deps.entry = entry'[j].stamp /\ d.deps.ledger = ledger'.stamp
      BY <2>3 DEF Stamps
    <3>2. entry'[j].stamp # clock + 1 /\ ledger'.stamp # clock + 1
      BY <1>1, <2>1, <3>1
    <3> QED
      BY <1>4, <2>3, <3>2
  <2>4. ASSUME entry'[j] # None, d.deps = Stamps(j)' PROVE d.lane = LaneUnder(ledger.approved, j)'
    BY <2>1, <2>3, <2>4 DEF Stamps, LaneUnder
  <2> QED
    BY <2>2, <2>4 DEF Faithful
<1>6. ASSUME NEW n, NEW f \in Fingerprints, Dated(n, f) PROVE Dated(n, f)'
  <2>1. f.newest \in Nat /\ f.ledger \in Nat /\ f.newest <= clock /\ f.ledger <= clock
    BY <1>6, IndexAssumption DEF Fingerprints, Dated
  <2>2. f.newest <= clock' /\ f.ledger <= clock'
    BY <1>1, <2>1
  <2>3. ASSUME NEW j \in Unmoved(f)' PROVE j \in Unmoved(f) /\ entry'[j] = entry[j]
    <3>1. j \in Ids /\ entry'[j] # None /\ entry'[j].stamp <= f.newest
      BY <2>3 DEF Unmoved, Present
    <3>2. entry'[j].stamp # clock + 1
      BY <1>1, <2>1, <3>1
    <3> QED
      BY <1>4, <3>1, <3>2 DEF Unmoved, Present
  <2>4. ledger'.stamp = f.ledger => ledger' = ledger
    BY <1>1, <1>4, <2>1
  <2>5. ledger'.stamp = f.ledger => \A j \in Unmoved(f)' : n[j].lane = LaneUnder(ledger.approved, j)'
    BY <1>6, <2>3, <2>4 DEF Dated, LaneUnder
  <2>6. Unmoved(f)' \subseteq KnownIn(n)'
    BY <1>2, <1>6, <2>3 DEF Dated
  <2>7. Cardinality(KnownIn(n)') = f.count
    BY <1>2, <1>6 DEF Dated
  <2> QED
    BY <2>2, <2>5, <2>6, <2>7 DEF Dated
<1> QED
  BY <1>2, <1>3, <1>5, <1>6

LEMMA ChangesSafe ==
  ASSUME IInv, NEW i \in Ids, EntryChanges(i) \/ LedgerChanges(i)
  PROVE  IInv'
<1>1. /\ UNCHANGED <<pointer, disk, proc, answer>> /\ disturbed' \in BOOLEAN
      /\ disturbed => disturbed'
      /\ ~disturbed' => \A p \in Procs : ~Building(p)
      /\ approvals \subseteq approvals' /\ GoodCorpus'
  BY ChangedCorpus
<1>2. ASSUME NEW n, NEW g, GoodDirectory(n, g) PROVE GoodDirectory(n, g)'
  <2>1. /\ g.documents \in Documents \cup Unreadable
        /\ g.manifest \in Fingerprints \cup Unreadable
    BY <1>2 DEF GoodDirectory, Directories
  <2>2. ASSUME ~disturbed', g.documents \notin Unreadable, NEW j \in Ids
        PROVE  Faithful(j, g.documents[j])'
    <3>1. PICK d : d = g.documents[j]
      OBVIOUS
    <3>2. d \in Projections \cup {None} /\ Faithful(j, d)
      BY <1>1, <1>2, <2>1, <2>2, <3>1 DEF GoodDirectory, Documents
    <3>3. Faithful(j, d)'
      BY <3>2, ChangeKeepsFacts
    <3> QED
      BY <3>1, <3>3
  <2>3. ASSUME ~disturbed', g.manifest \notin Unreadable PROVE Dated(n, g.manifest)'
    <3>1. PICK f : f = g.manifest
      OBVIOUS
    <3>2. f \in Fingerprints /\ Dated(n, f)
      BY <1>1, <1>2, <2>1, <2>3, <3>1 DEF GoodDirectory
    <3>3. Dated(n, f)'
      BY <3>2, ChangeKeepsFacts
    <3> QED
      BY <3>1, <3>3
  <2>4. /\ KnownIn(n)' = KnownIn(n) /\ ApprovedIn(n)' = ApprovedIn(n) /\ Backed(n)'
    BY <1>2, ChangeKeepsFacts DEF GoodDirectory
  <2> QED
    BY <1>2, <2>2, <2>3, <2>4 DEF GoodDirectory
<1>3. ASSUME NEW q, GoodProcess(q), ~disturbed' => q.at \notin BuildPoints
      PROVE  GoodProcess(q)'
  <2>1. q \in ProcRecords /\ Shape(q)'
    BY <1>3 DEF GoodProcess, Shape
  <2>2. Backed(q.docs)' /\ Backed(q.reuse)'
    <3>1. PICK d, r : d = q.docs /\ r = q.reuse
      OBVIOUS
    <3>2. Backed(d) /\ Backed(r)
      BY <1>3, <3>1 DEF GoodProcess, Careful
    <3>3. Backed(d)' /\ Backed(r)'
      BY <3>2, ChangeKeepsFacts
    <3> QED
      BY <3>1, <3>3
  <2>3. \A n : ApprovedIn(n)' = ApprovedIn(n)
    BY ChangeKeepsFacts
  <2>4. Careful(q)'
    BY <1>1, <1>3, <2>2, <2>3 DEF GoodProcess, Careful
  <2>5. ASSUME ~disturbed' PROVE Undisturbed(q)'
    <3>1. Undisturbed(q) /\ q.at \notin BuildPoints
      BY <1>1, <1>3, <2>5 DEF GoodProcess
    <3>2. ASSUME NEW j \in Ids PROVE Faithful(j, q.docs[j])' /\ Faithful(j, q.reuse[j])'
      <4>1. PICK d, r : d = q.docs[j] /\ r = q.reuse[j]
        OBVIOUS
      <4>2. d \in Projections \cup {None} /\ r \in Projections \cup {None}
        BY <2>1, <4>1 DEF ProcRecords, Documents
      <4>3. Faithful(j, d) /\ Faithful(j, r)
        BY <3>1, <4>1 DEF Undisturbed
      <4>4. Faithful(j, d)' /\ Faithful(j, r)'
        BY <4>2, <4>3, ChangeKeepsFacts
      <4> QED
        BY <4>1, <4>4
    <3> QED
      BY <2>3, <3>1, <3>2 DEF Undisturbed, BuildPoints
  <2> QED
    BY <2>1, <2>4, <2>5 DEF GoodProcess
<1>4. GoodDisk'
  <2>1. ASSUME NEW n \in DOMAIN disk' PROVE GoodDirectory(n, disk[n])'
    <3>1. PICK g : g = disk[n]
      OBVIOUS
    <3>2. GoodDirectory(n, g)'
      BY <1>1, <1>2, <2>1, <3>1 DEF IInv, GoodDisk
    <3> QED
      BY <1>1, <3>1, <3>2
  <2> QED
    BY <1>1, <2>1 DEF IInv, GoodDisk
<1>5. GoodProcesses'
  <2>1. ASSUME NEW p \in Procs PROVE GoodProcess(proc[p])'
    <3>1. PICK q : q = proc[p]
      OBVIOUS
    <3>2. GoodProcess(q) /\ (~disturbed' => q.at \notin BuildPoints)
      BY <1>1, <3>1 DEF IInv, GoodProcesses, Building
    <3>3. GoodProcess(q)'
      BY <1>3, <3>2
    <3> QED
      BY <1>1, <3>1, <3>3
  <2> QED
    BY <1>1, <2>1 DEF IInv, GoodProcesses
<1>6. GoodAnswers'
  BY <1>1 DEF IInv, GoodAnswers, AnswersRight, AnswersNeverStale
<1> QED
  BY <1>1, <1>4, <1>5, <1>6 DEF IInv

-----------------------------------------------------------------------------
(* The invariant.                                                           *)

\* An index that is up to date at the beginning.
LEMMA InitSafe == Init => IInv
<1> SUFFICES ASSUME Init PROVE IInv
  OBVIOUS
<1>1. PICK c \in [Ids -> Contents] :
        /\ entry = [i \in Ids |-> [content |-> c[i], stamp |-> 0]]
        /\ ledger = [approved |-> [i \in Ids |-> Reviewed[c[i]]], stamp |-> 0]
        /\ approvals = {<<i, Reviewed[c[i]]>> : i \in Ids}
  BY DEF Init
<1>2. \A i \in Ids : c[i] \in Contents /\ Reviewed[c[i]] \in DigestsOf
  BY <1>1 DEF DigestsOf
<1>3. GoodCorpus
  <2>0. 0 \in 0 .. MaxClock /\ 0 \in 0 .. MaxStarts
    BY IndexAssumption
  <2>1. entry \in [Ids -> [content : Contents, stamp : 0 .. MaxClock] \cup {None}]
    BY <1>1, <1>2, <2>0
  <2>2. ledger \in [approved : [Ids -> DigestsOf \cup {None}], stamp : 0 .. MaxClock]
    <3>1. [i \in Ids |-> Reviewed[c[i]]] \in [Ids -> DigestsOf \cup {None}]
      BY <1>2
    <3> QED
      BY <1>1, <2>0, <3>1
  <2>3. clock \in 0 .. MaxClock /\ starts \in 0 .. MaxStarts /\ disturbed \in BOOLEAN /\ clock = 0
    <3>1. clock = 0 /\ starts = 0 /\ disturbed = FALSE
      BY DEF Init
    <3> QED
      BY <2>0, <3>1
  <2>4. /\ approvals \subseteq Ids \X DigestsOf
        /\ \A i \in Ids : ledger.approved[i] # None => <<i, ledger.approved[i]>> \in approvals
    BY <1>1, <1>2
  <2>5. ledger.stamp <= clock /\ \A i \in Present : entry[i].stamp <= clock
    BY <1>1, <2>3 DEF Present
  <2> QED
    BY <2>1, <2>2, <2>3, <2>4, <2>5 DEF GoodCorpus
<1>4. GoodDisk
  <2>1. CASE pointer = None /\ disk = [n \in {} |-> EmptyDirectory]
    BY <2>1 DEF GoodDisk
  <2>2. CASE pointer = NameOf(CleanDocuments) /\ disk = [n \in {pointer} |-> CleanDirectory]
    <3> DEFINE held == CleanDocuments
               L(i) == LaneUnder(ledger.approved, i)
               D(i) == [content |-> entry[i].content, lane |-> L(i),
                        digest |-> Reviewed[entry[i].content],
                        deps |-> [entry |-> entry[i].stamp, ledger |-> ledger.stamp]]
    <3>1. ASSUME NEW i \in Present
          PROVE  /\ D(i) \in Projections /\ D(i) # None /\ D(i).lane = L(i)
                 /\ D(i).digest = Reviewed[entry[i].content] /\ D(i).deps = Stamps(i)
      <4>1. /\ entry[i].content \in Contents /\ entry[i].stamp \in Nat /\ ledger.stamp \in Nat
            /\ L(i) \in Lanes /\ Reviewed[entry[i].content] \in DigestsOf
        BY <1>3, <3>1, IndexAssumption DEF GoodCorpus, Present, LaneUnder, Lanes, DigestsOf
      <4> HIDE DEF L
      <4>2. D(i) \in Projections
        BY <4>1 DEF Projections, Deps
      <4> QED
        BY <4>2, IndexAssumption DEF Stamps
    <3>2. \A i \in Ids : held[i] = IF entry[i] = None THEN None ELSE D(i)
      BY DEF CleanDocuments
    <3>3. held = [i \in Ids |-> held[i]]
      BY DEF CleanDocuments
    <3> HIDE DEF held, D
    <3>4. held \in Documents
      <4>1. \A i \in Ids : held[i] \in Projections \cup {None}
        BY <3>1, <3>2 DEF Present
      <4> QED
        BY <3>3, <4>1 DEF Documents
    <3>5. KnownIn(held) = Present /\ \A i \in Present : held[i] = D(i)
      BY <3>1, <3>2 DEF KnownIn, Present
    <3>6. Right(held) /\ ApprovedIn(held) = Approved
      BY <3>1, <3>5 DEF Right, ApprovedIn, Approved
    <3>7. \A i \in Ids : Faithful(i, held[i])
      <4> TAKE i \in Ids
      <4>1. CASE held[i] = None
        BY <4>1 DEF Faithful
      <4>2. CASE held[i] # None
        <5>1. i \in Present /\ held[i].deps = Stamps(i) /\ held[i].lane = L(i)
          BY <3>1, <3>2, <4>2 DEF Present
        <5>2. entry[i].stamp <= clock /\ ledger.stamp <= clock
          BY <1>3, <5>1 DEF GoodCorpus
        <5> QED
          BY <5>1, <5>2 DEF Faithful, Stamps
      <4> QED
        BY <4>1, <4>2
    <3>8. Backed(held)
      <4> SUFFICES ASSUME NEW i \in ApprovedIn(held) PROVE <<i, held[i].digest>> \in approvals
        BY DEF Backed
      <4>1. i \in Present /\ held[i].digest = Reviewed[entry[i].content]
        BY <3>1, <3>5 DEF ApprovedIn
      <4>2. i \in Ids /\ entry[i].content = c[i]
        BY <1>1, <4>1 DEF Present
      <4> QED
        BY <1>1, <4>1, <4>2
    <3>9. /\ pointer \in Names /\ KnownIn(pointer) = Present /\ ApprovedIn(pointer) = Approved
          /\ Right(pointer) /\ Backed(pointer)
      <4>1. pointer = NameOf(held)
        BY <2>2 DEF held
      <4>2. \A i \in KnownIn(held) : pointer[i].lane = held[i].lane /\ pointer[i].digest = held[i].digest
        BY <3>4, <4>1, NameSays
      <4>3. /\ pointer \in Names /\ KnownIn(pointer) = Present /\ ApprovedIn(pointer) = Approved
        BY <3>4, <3>5, <3>6, <4>1, NameSays
      <4> QED
        BY <3>5, <3>6, <3>8, <4>2, <4>3 DEF Right, Backed, ApprovedIn
    <3>10. CleanDirectory = [documents |-> held, offsets |-> Present, lanes |-> Approved,
                             manifest |-> Fingerprint]
      BY DEF CleanDirectory, held
    <3>11. CleanDirectory \in Directories
      BY <1>3, <3>4, <3>10, FingerprintType DEF Directories, Present, Approved
    <3>12. Dated(pointer, Fingerprint)
      BY <1>3, <3>9, DatedNow
    <3>13. GoodDirectory(pointer, CleanDirectory)
      <4>1. NameOf(held) = pointer
        BY <2>2 DEF held
      <4> QED
        BY <3>7, <3>9, <3>10, <3>11, <3>12, <4>1 DEF GoodDirectory
    <3> QED
      BY <2>2, <3>9, <3>13 DEF GoodDisk
  <2> QED
    BY <2>1, <2>2 DEF Init
<1>5. GoodProcesses
  BY IdleIsGood DEF Init, GoodProcesses
<1>6. GoodAnswers
  BY DEF Init, GoodAnswers, AnswersRight, AnswersNeverStale
<1> QED
  BY <1>3, <1>4, <1>5, <1>6 DEF IInv

LEMMA NextSafe == IInv /\ [Next]_vars => IInv'
<1> SUFFICES ASSUME IInv, [Next]_vars PROVE IInv'
  OBVIOUS
<1>1. ASSUME NEW p \in Procs, BuildStep(p) PROVE IInv'
  BY <1>1, BuildPreviousSafe, BuildLedgerSafe, CollectSafe, ProjectSafe, StampProjectionSafe,
     CollectedSafe, OpenFileSafe, FillFileSafe, SwapSafe, RemoveSafe, BuiltSafe DEF BuildStep
<1>2. ASSUME NEW p \in Procs, QueryStep(p) PROVE IInv'
  BY <1>2, QueryPointerSafe, QueryLoadSafe, QueryLanesSafe, QueryServeSafe DEF QueryStep
<1>3. ASSUME NEW p \in Procs, BuildStart(p) \/ QueryStart(p) PROVE IInv'
  BY <1>3, BuildStartSafe, QueryStartSafe
<1>4. ASSUME NEW p \in Procs, Stop(p) PROVE IInv'
  BY <1>4, StopSafe DEF Stop
<1>5. ASSUME NEW i \in Ids, EntryChanges(i) \/ LedgerChanges(i) PROVE IInv'
  BY <1>5, ChangesSafe
<1>6. CASE UNCHANGED vars
  <2>1. UNCHANGED <<entry, ledger, clock, approvals, disturbed, starts, pointer, disk, proc, answer>>
    BY <1>6 DEF vars
  <2>2. GoodCorpus'
    BY <2>1, CorpusStays DEF IInv, GoodCorpus
  <2>3. GoodDisk'
    <3>1. ASSUME NEW n \in DOMAIN disk' PROVE GoodDirectory(n, disk[n])'
      <4>1. PICK g : g = disk[n]
        OBVIOUS
      <4>2. GoodDirectory(n, g)'
        BY <2>1, <3>1, <4>1, CorpusStays DEF IInv, GoodDisk, GoodCorpus
      <4> QED
        BY <2>1, <4>1, <4>2
    <3> QED
      BY <2>1, <3>1 DEF IInv, GoodDisk
  <2>4. GoodProcesses'
    <3>1. ASSUME NEW p \in Procs PROVE GoodProcess(proc[p])'
      <4>1. PICK q : q = proc[p]
        OBVIOUS
      <4>2. GoodProcess(q)'
        BY <2>1, <3>1, <4>1, CorpusStays DEF IInv, GoodProcesses, GoodCorpus
      <4> QED
        BY <2>1, <4>1, <4>2
    <3> QED
      BY <2>1, <3>1 DEF IInv, GoodProcesses
  <2>5. GoodAnswers'
    BY <2>1, AnswersStay DEF IInv
  <2> QED
    BY <2>2, <2>3, <2>4, <2>5 DEF IInv
<1> QED
  BY <1>1, <1>2, <1>3, <1>4, <1>5, <1>6 DEF Next

\* What load_index would accept is the lane as it stands.
LEMMA AcceptedRight == IInv => IndexRight
<1> SUFFICES ASSUME IInv PROVE IndexRight
  OBVIOUS
<1>1. TypeOK
  <2>1. \A n \in DOMAIN disk : n \in Names /\ disk[n] \in Directories
    BY DEF IInv, GoodDisk, GoodDirectory
  <2>2. proc \in [Procs -> ProcRecords]
    BY DEF IInv, GoodProcesses, GoodProcess
  <2> QED
    BY <2>1, <2>2 DEF IInv, GoodCorpus, GoodDisk, GoodAnswers, TypeOK
<1>2. AcceptedIsCurrent
  <2> SUFFICES ASSUME ~disturbed, pointer \in DOMAIN disk, Loadable(disk[pointer])
               PROVE  LET g == disk[pointer] IN
                        /\ g.lanes \notin Unreadable => g.lanes = Approved
                        /\ g.documents # Partial =>
                             \A i \in Ids : IF g.documents[i] = None THEN entry[i] = None
                                            ELSE (g.documents[i].lane = "approved") = (i \in Approved)
    BY DEF AcceptedIsCurrent
  <2> DEFINE g == disk[pointer]
             held == g.documents
  <2>1. GoodDirectory(pointer, g)
    BY DEF IInv, GoodDisk
  <2>2. Right(pointer) /\ ApprovedIn(pointer) = Approved
    BY LoadableIsRight
  <2>3. g.lanes \notin Unreadable => g.lanes = Approved
    BY <2>1, <2>2 DEF GoodDirectory
  <2>4. ASSUME held # Partial, NEW i \in Ids
        PROVE  IF held[i] = None THEN entry[i] = None
               ELSE (held[i].lane = "approved") = (i \in Approved)
    <3>1. held \notin Unreadable
      BY <2>4 DEF Loadable, Unreadable
    <3>2. held \in Documents /\ NameOf(held) = pointer
      BY <2>1, <3>1 DEF GoodDirectory, Directories
    <3> HIDE DEF held
    <3>3. KnownIn(held) = Present /\ ApprovedIn(held) = Approved
      BY <2>2, <3>2, NameSays DEF Right
    <3> QED
      BY <3>3 DEF KnownIn, ApprovedIn, Present
  <2> QED
    BY <2>3, <2>4
<1> QED
  BY <1>1, <1>2 DEF IInv, GoodAnswers, IndexRight

\* However many builds and queries overlap, crash and reuse each other's
\* projections, a generation that load_index accepts has the lanes of the
\* corpus as it is, and what a query serves was approved when it loaded the
\* index or when it answered, as long as the corpus holds still during builds
\* (corpus_fingerprint, load_index, entry_set_digest, projection_dependencies).
THEOREM IndexStaysRight == Spec => []IndexRight
<1>1. Spec => []IInv
  BY InitSafe, NextSafe, PTL DEF Spec
<1> QED
  BY <1>1, AcceptedRight, PTL

\* Whatever changes during builds and queries, what a query serves was
\* approved for that identity at some time (hydrate).
THEOREM ServedWasReviewed == Spec => ServedWasApproved
<1>1. Spec => []IInv
  BY InitSafe, NextSafe, PTL DEF Spec
<1>2. IInv /\ [Next]_vars =>
        [\A p \in Procs : answer'[p] # answer[p] /\ answer'[p] # None =>
           \A i \in answer'[p].served : <<i, Reviewed[entry[i].content]>> \in approvals]_vars
  <2> SUFFICES ASSUME IInv, Next, NEW p \in Procs, answer'[p] # answer[p], answer'[p] # None
               PROVE  \A i \in answer'[p].served : <<i, Reviewed[entry[i].content]>> \in approvals
    OBVIOUS
  <2>1. answer \in [Procs -> Answers \cup {None}] /\ answer' # answer
    BY DEF IInv, GoodAnswers
  <2>2. PICK r \in Procs : QueryServe(r)
    <3>1. ASSUME NEW r \in Procs, BuildStep(r) PROVE answer' = answer
      BY <3>1 DEF BuildStep, BuildPrevious, BuildLedger, Collect, Project, StampProjection, Collected,
         OpenFile, FillFile, Swap, RemoveFile, RemoveDirectory, Built
    <3>2. ASSUME NEW r \in Procs, QueryPointer(r) \/ QueryLoad(r) \/ QueryLanes(r) \/ Stop(r)
          PROVE  answer' = answer
      BY <3>2 DEF QueryPointer, QueryLoad, QueryLanes, Stop
    <3>3. ASSUME NEW r \in Procs, BuildStart(r) \/ QueryStart(r)
          PROVE  answer'[p] = answer[p] \/ answer'[p] = None
      BY <2>1, <3>3 DEF BuildStart, QueryStart
    <3>4. ASSUME NEW i \in Ids, EntryChanges(i) \/ LedgerChanges(i) PROVE answer' = answer
      BY <3>4 DEF EntryChanges, LedgerChanges
    <3> QED
      BY <2>1, <3>1, <3>2, <3>3, <3>4 DEF Next, QueryStep
  <2>3. PICK a \in Answers :
          /\ answer' = [answer EXCEPT ![r] = a]
          /\ \A i \in a.served : <<i, Reviewed[entry[i].content]>> \in approvals
    BY <2>1, <2>2, ServedFits
  <2>4. answer'[p] = a
    BY <2>1, <2>3
  <2> QED
    BY <2>3, <2>4
<1> QED
  BY <1>1, <1>2, PTL DEF Spec, ServedWasApproved

-----------------------------------------------------------------------------
(* Sequences, and what a list keeps. *)

\* A set of numbers that holds zero and, with each number, the next one, holds
\* every number.
LEMMA SetInduction ==
  ASSUME NEW S, 0 \in S, \A n \in Nat : n \in S => n + 1 \in S
  PROVE  Nat \subseteq S
<1> DEFINE T == Nat \ S
<1>1. ASSUME T # {} PROVE FALSE
  <2>1. PICK x \in T : \A y \in T : ~(<<y, x>> \in OpToRel(<, Nat))
    BY <1>1, WFMin, NatLessThanWellFounded
  <2>2. \A y \in T : ~(y < x)
    BY <2>1 DEF OpToRel
  <2>3. x - 1 \in Nat /\ x - 1 < x /\ (x - 1) + 1 = x
    OBVIOUS
  <2> QED
    BY <2>2, <2>3
<1> QED
  BY <1>1

\* Stage i of a flattening, given the one before it.
FlattenStage(g, i, s) == IF i = 1 THEN s[i] ELSE g[i - 1] \o s[i]

\* Flattening goes through stages, each the one before it and the next sequence.
FlattenedBy(g, s) ==
  /\ g[1] = s[1]
  /\ \A i \in 2 .. Len(s) : g[i] = g[i - 1] \o s[i]
  /\ FlattenSeq(s) = g[Len(s)]

\* The library's recursive definition of flattening has such stages.
LEMMA FlattenDefined ==
  ASSUME NEW s, Len(s) \in Nat, Len(s) # 0
  PROVE  \E g : FlattenedBy(g, s)
<1> PICK n : n = Len(s)
  OBVIOUS
<1> DEFINE S == {m \in Nat : \E g : g = [i \in 1 .. m |-> FlattenStage(g, i, s)]}
<1>1. 0 \in S
  <2> DEFINE g == [i \in 1 .. 0 |-> {}]
  <2>1. g = [i \in 1 .. 0 |-> FlattenStage(g, i, s)]
    OBVIOUS
  <2> HIDE DEF g
  <2> QED
    BY <2>1
<1>2. ASSUME NEW m \in Nat, m \in S PROVE m + 1 \in S
  <2> PICK g : g = [i \in 1 .. m |-> FlattenStage(g, i, s)]
    BY <1>2
  <2> DEFINE h == [i \in 1 .. m + 1 |-> IF i <= m THEN g[i] ELSE FlattenStage(g, i, s)]
  <2>1. \A i \in 1 .. m + 1 : i # 1 => h[i - 1] = g[i - 1]
    OBVIOUS
  <2>2. \A i \in 1 .. m + 1 : FlattenStage(h, i, s) = FlattenStage(g, i, s)
    BY <2>1 DEF FlattenStage
  <2>3. \A i \in 1 .. m + 1 : h[i] = FlattenStage(g, i, s)
    <3> SUFFICES ASSUME NEW i \in 1 .. m + 1 PROVE h[i] = FlattenStage(g, i, s)
      OBVIOUS
    <3>1. CASE i <= m
      <4>1. i \in 1 .. m
        BY <3>1
      <4>2. g[i] = FlattenStage(g, i, s)
        BY <4>1
      <4> QED
        BY <3>1, <4>2
    <3>2. CASE ~(i <= m)
      BY <3>2
    <3> QED
      BY <3>1, <3>2
  <2>4. h = [i \in 1 .. m + 1 |-> h[i]]
    OBVIOUS
  <2> HIDE DEF h
  <2>5. h = [i \in 1 .. m + 1 |-> FlattenStage(h, i, s)]
    BY <2>2, <2>3, <2>4
  <2> QED
    BY <2>5
<1>3. n \in S
  <2> HIDE DEF S
  <2> QED
    BY <1>1, <1>2, SetInduction
<1>4. \E g : g = [i \in 1 .. n |-> FlattenStage(g, i, s)]
  BY <1>3
<1> DEFINE f == CHOOSE g : g = [i \in 1 .. n |-> FlattenStage(g, i, s)]
<1>5. FlattenSeq(s) = f[n]
  BY DEF FlattenSeq, FlattenStage
<1>6. f = [i \in 1 .. n |-> FlattenStage(f, i, s)]
  BY <1>4
<1> HIDE DEF f
<1>7. \A i \in 1 .. n : f[i] = FlattenStage(f, i, s)
  BY <1>6
<1>8. f[1] = s[1]
  <2>1. FlattenStage(f, 1, s) = s[1]
    BY DEF FlattenStage
  <2>2. 1 \in 1 .. n
    OBVIOUS
  <2> QED
    BY <1>7, <2>1, <2>2
<1>9. ASSUME NEW i \in 2 .. n PROVE f[i] = f[i - 1] \o s[i]
  <2>1. FlattenStage(f, i, s) = f[i - 1] \o s[i]
    <3>1. i # 1
      OBVIOUS
    <3> QED
      BY <3>1, Zenon DEF FlattenStage
  <2>2. i \in 1 .. n
    OBVIOUS
  <2> QED
    BY <1>7, <2>1, <2>2
<1> QED
  BY <1>5, <1>8, <1>9 DEF FlattenedBy

\* A flattened sequence has the elements of its parts and no others.
LEMMA FlattenRange ==
  ASSUME NEW T, NEW n \in Nat, NEW s \in [1 .. n -> Seq(T)]
  PROVE  /\ FlattenSeq(s) \in Seq(T)
         /\ \A x : x \in Range(FlattenSeq(s)) <=> \E i \in 1 .. n : x \in Range(s[i])
<1>1. Len(s) = n
  OBVIOUS
<1>2. CASE n = 0
  <2>1. FlattenSeq(s) = s /\ s = <<>>
    BY <1>1, <1>2 DEF FlattenSeq
  <2>2. Range(s) = {}
    BY <2>1 DEF Range
  <2> QED
    BY <1>2, <2>1, <2>2
<1>3. CASE n # 0
  <2>1. PICK g : /\ g[1] = s[1]
                 /\ \A i \in 2 .. n : g[i] = g[i - 1] \o s[i]
                 /\ FlattenSeq(s) = g[n]
    <3>1. \E g : FlattenedBy(g, s)
      BY <1>1, <1>3, FlattenDefined
    <3> QED
      BY <1>1, <3>1 DEF FlattenedBy
  <2> DEFINE S == {m \in Nat : m + 1 <= n =>
                     /\ g[m + 1] \in Seq(T)
                     /\ \A x : x \in Range(g[m + 1]) <=> \E i \in 1 .. m + 1 : x \in Range(s[i])}
  <2>2. 0 \in S
    BY <1>3, <2>1
  <2>3. ASSUME NEW m \in Nat, m \in S PROVE m + 1 \in S
    <3> SUFFICES ASSUME m + 2 <= n
                 PROVE  /\ g[m + 2] \in Seq(T)
                        /\ \A x : x \in Range(g[m + 2])
                                    <=> \E i \in 1 .. m + 2 : x \in Range(s[i])
      <4>1. (m + 1) + 1 = m + 2
        OBVIOUS
      <4> QED
        BY <4>1
    <3>1. m + 2 \in 2 .. n /\ (m + 2) - 1 = m + 1
      OBVIOUS
    <3>2. g[m + 2] = g[m + 1] \o s[m + 2]
      BY <2>1, <3>1
    <3>3. s[m + 2] \in Seq(T) /\ g[m + 1] \in Seq(T)
      BY <2>3
    <3>4. Range(g[m + 2]) = Range(g[m + 1]) \cup Range(s[m + 2])
      BY <3>2, <3>3, RangeConcatenation
    <3>5. \A x : x \in Range(g[m + 1]) <=> \E i \in 1 .. m + 1 : x \in Range(s[i])
      <4>1. m + 1 <= n
        OBVIOUS
      <4> QED
        BY <2>3, <4>1, Zenon
    <3>6. \A i : i \in 1 .. m + 2 <=> i \in 1 .. m + 1 \/ i = m + 2
      OBVIOUS
    <3>7. g[m + 2] \in Seq(T)
      BY <3>2, <3>3, ConcatProperties
    <3> QED
      BY <3>4, <3>5, <3>6, <3>7
  <2>4. n - 1 \in S
    <3> HIDE DEF S
    <3>1. Nat \subseteq S
      BY <2>2, <2>3, SetInduction
    <3> QED
      BY <1>3, <3>1
  <2>5. (n - 1) + 1 = n
    OBVIOUS
  <2> QED
    BY <2>1, <2>4, <2>5
<1> QED
  BY <1>2, <1>3

\* Keeping the elements of a set keeps exactly those.
LEMMA KeptRange ==
  ASSUME NEW T, NEW s \in Seq(T), NEW S
  PROVE  Kept(s, S) \in Seq(T) /\ Range(Kept(s, S)) = Range(s) \cap S
<1> DEFINE p == [i \in 1 .. Len(s) |-> IF s[i] \in S THEN <<s[i]>> ELSE <<>>]
<1>1. p \in [1 .. Len(s) -> Seq(T)] /\ Len(s) \in Nat
  OBVIOUS
<1>2. \A i \in 1 .. Len(s) : Range(p[i]) = IF s[i] \in S THEN {s[i]} ELSE {}
  BY DEF Range
<1>3. Kept(s, S) = FlattenSeq(p)
  BY DEF Kept
<1>4. \A x : (\E i \in 1 .. Len(s) : x \in Range(p[i])) <=> x \in Range(s) /\ x \in S
  <2> HIDE DEF p
  <2>1. \A x : x \in Range(s) <=> \E i \in 1 .. Len(s) : x = s[i]
    BY DEF Range
  <2> SUFFICES ASSUME NEW x
               PROVE  (\E i \in 1 .. Len(s) : x \in Range(p[i])) <=> x \in Range(s) /\ x \in S
    OBVIOUS
  <2>2. ASSUME NEW i \in 1 .. Len(s) PROVE x \in Range(p[i]) <=> x = s[i] /\ x \in S
    BY <1>2
  <2> QED
    BY <2>1, <2>2
<1> HIDE DEF p
<1>5. /\ FlattenSeq(p) \in Seq(T)
      /\ \A x : x \in Range(FlattenSeq(p)) <=> \E i \in 1 .. Len(s) : x \in Range(p[i])
  BY <1>1, FlattenRange
<1> QED
  BY <1>3, <1>4, <1>5

\* The first n rows of a list are rows of it, n of them or all.
LEMMA FirstRange ==
  ASSUME NEW T, NEW s \in Seq(T), NEW n \in Nat
  PROVE  /\ First(s, n) \in Seq(T)
         /\ Range(First(s, n)) \subseteq Range(s)
         /\ Len(First(s, n)) = IF n < Len(s) THEN n ELSE Len(s)
         /\ Len(s) <= n => First(s, n) = s
<1> DEFINE m == IF n < Len(s) THEN n ELSE Len(s)
<1>1. m \in 0 .. Len(s) /\ First(s, n) = SubSeq(s, 1, m)
  BY DEF First
<1>2. \A i \in 1 .. m : s[i] \in T
  BY <1>1
<1>3. /\ SubSeq(s, 1, m) \in Seq(T) /\ Len(SubSeq(s, 1, m)) = m
      /\ \A i \in 1 .. m : SubSeq(s, 1, m)[i] = s[i]
  BY <1>1, <1>2, SubSeqProperties
<1>4. Range(First(s, n)) \subseteq Range(s)
  BY <1>1, <1>3 DEF Range
<1>5. Len(s) <= n => m = Len(s)
  OBVIOUS
<1>6. Len(s) <= n => First(s, n) = s
  BY <1>1, <1>5, SubSeqFull
<1> QED
  BY <1>1, <1>3, <1>4, <1>6

\* Sorting rows by name neither adds nor loses one.
LEMMA ByNameRange ==
  ASSUME NEW T, NEW s \in Seq(T), \A x \in Range(s) : x.node \in NameSet
  PROVE  ByName(s) \in Seq(T) /\ Range(ByName(s)) = Range(s)
<1> DEFINE K(i) == {x \in Range(s) : x.node = NameOrder[i]}
           p == [i \in 1 .. Len(NameOrder) |-> Kept(s, K(i))]
<1>1. Len(NameOrder) \in Nat /\ \A x \in NameSet : \E i \in 1 .. Len(NameOrder) : x = NameOrder[i]
  BY QueryAssumption DEF NameSet, Range
<1>2. ByName(s) = FlattenSeq(p)
  BY DEF ByName
<1>3. \A i \in 1 .. Len(NameOrder) : p[i] \in Seq(T) /\ Range(p[i]) = K(i)
  BY KeptRange
<1>4. p \in [1 .. Len(NameOrder) -> Seq(T)]
  BY <1>3
<1>5. \A x : (\E i \in 1 .. Len(NameOrder) : x \in Range(p[i])) <=> x \in Range(s)
  <2> HIDE DEF p
  <2> QED
    BY <1>1, <1>3
<1> HIDE DEF p
<1>6. /\ FlattenSeq(p) \in Seq(T)
      /\ \A x : x \in Range(FlattenSeq(p)) <=> \E i \in 1 .. Len(NameOrder) : x \in Range(p[i])
  BY <1>1, <1>4, FlattenRange
<1> QED
  BY <1>2, <1>5, <1>6

\* A finite set has a sequence of its elements.
LEMMA SetToSeqRange ==
  ASSUME NEW S, IsFiniteSet(S)
  PROVE  SetToSeq(S) \in Seq(S) /\ Range(SetToSeq(S)) = S
<1>1. Cardinality(S) \in Nat /\ ExistsBijection(1 .. Cardinality(S), S)
  BY FS_CardinalityType
<1>2. PICK f \in [1 .. Cardinality(S) -> S] : IsInjective(f)
  BY <1>1 DEF ExistsBijection, Bijection, Injection
<1> DEFINE g == SetToSeq(S)
<1>3. g \in [1 .. Cardinality(S) -> S] /\ IsInjective(g)
  BY <1>2 DEF SetToSeq
<1> HIDE DEF g
<1>4. g \in Injection(1 .. Cardinality(S), S)
  BY <1>3 DEF Injection
<1>5. IsFiniteSet(1 .. Cardinality(S)) /\ Cardinality(1 .. Cardinality(S)) = Cardinality(S)
  BY <1>1, FS_Interval
<1>6. g \in Surjection(1 .. Cardinality(S), S)
  BY <1>4, <1>5, FS_Injection
<1>7. Range(g) = S
  BY <1>6 DEF Surjection, Range
<1> QED
  BY <1>1, <1>3, <1>7 DEF g

\* A finite set of rows has a list by name of exactly these rows.
LEMMA SetInOrderRange ==
  ASSUME NEW S, IsFiniteSet(S), \A x \in S : x.node \in NameSet
  PROVE  SetInOrder(S) \in Seq(S) /\ Range(SetInOrder(S)) = S
<1> DEFINE K(i) == {x \in S : x.node = NameOrder[i]}
           p == [i \in 1 .. Len(NameOrder) |-> SetToSeq(K(i))]
<1>1. Len(NameOrder) \in Nat /\ \A x \in NameSet : \E i \in 1 .. Len(NameOrder) : x = NameOrder[i]
  BY QueryAssumption DEF NameSet, Range
<1>2. SetInOrder(S) = FlattenSeq(p)
  BY DEF SetInOrder
<1>3. \A i \in 1 .. Len(NameOrder) : p[i] \in Seq(S) /\ Range(p[i]) = K(i)
  <2> TAKE i \in 1 .. Len(NameOrder)
  <2>1. IsFiniteSet(K(i))
    BY FS_Subset
  <2>2. SetToSeq(K(i)) \in Seq(K(i)) /\ Range(SetToSeq(K(i))) = K(i)
    BY <2>1, SetToSeqRange
  <2>3. SetToSeq(K(i)) \in Seq(S)
    BY <2>2, SeqMonotonic
  <2> QED
    BY <2>2, <2>3
<1>4. p \in [1 .. Len(NameOrder) -> Seq(S)]
  BY <1>3
<1>5. \A x : (\E i \in 1 .. Len(NameOrder) : x \in Range(p[i])) <=> x \in S
  <2> HIDE DEF p
  <2> QED
    BY <1>1, <1>3
<1> HIDE DEF p
<1>6. /\ FlattenSeq(p) \in Seq(S)
      /\ \A x : x \in Range(FlattenSeq(p)) <=> \E i \in 1 .. Len(NameOrder) : x \in Range(p[i])
  BY <1>1, <1>4, FlattenRange
<1> QED
  BY <1>2, <1>5, <1>6

-----------------------------------------------------------------------------
(* Recursive functions, and the stages they go through. *)

\* Stage i of a walk along hops, given the one before it.
HopStage(g, i, walk, q, item, hops) == IF i = 0 THEN walk ELSE Followed(g[i - 1], q, item, hops[i])

\* The recursive function of a walk along hops is what its equation says.
LEMMA HopsDefined ==
  ASSUME NEW walk, NEW q, NEW item, NEW hops, Len(hops) \in Nat
  PROVE  /\ AlongHops(walk, q, item, hops)[0] = walk
         /\ \A i \in 1 .. Len(hops) : AlongHops(walk, q, item, hops)[i] =
                    HopStage(AlongHops(walk, q, item, hops), i, walk, q, item, hops)
<1> PICK n : n = Len(hops)
  OBVIOUS
<1> DEFINE S == {m \in Nat : \E g : g = [i \in 0 .. m |-> HopStage(g, i, walk, q, item, hops)]}
<1>1. 0 \in S
  <2> DEFINE g == [i \in 0 .. 0 |-> walk]
  <2>1. g = [i \in 0 .. 0 |-> HopStage(g, i, walk, q, item, hops)]
    BY DEF HopStage
  <2> HIDE DEF g
  <2> QED
    BY <2>1
<1>2. ASSUME NEW m \in Nat, m \in S PROVE m + 1 \in S
  <2> PICK g : g = [i \in 0 .. m |-> HopStage(g, i, walk, q, item, hops)]
    BY <1>2
  <2> DEFINE h == [i \in 0 .. m + 1 |-> IF i <= m THEN g[i] ELSE HopStage(g, i, walk, q, item, hops)]
  <2>1. \A i \in 0 .. m + 1 : i # 0 => h[i - 1] = g[i - 1]
    OBVIOUS
  <2>2. \A i \in 0 .. m + 1 : HopStage(h, i, walk, q, item, hops) = HopStage(g, i, walk, q, item, hops)
    BY <2>1 DEF HopStage
  <2>3. \A i \in 0 .. m + 1 : h[i] = HopStage(g, i, walk, q, item, hops)
    <3> SUFFICES ASSUME NEW i \in 0 .. m + 1 PROVE h[i] = HopStage(g, i, walk, q, item, hops)
      OBVIOUS
    <3>1. CASE i <= m
      <4>1. i \in 0 .. m
        BY <3>1
      <4>2. g[i] = HopStage(g, i, walk, q, item, hops)
        BY <4>1
      <4> QED
        BY <3>1, <4>2
    <3>2. CASE ~(i <= m)
      BY <3>2
    <3> QED
      BY <3>1, <3>2
  <2>4. h = [i \in 0 .. m + 1 |-> h[i]]
    OBVIOUS
  <2> HIDE DEF h
  <2>5. h = [i \in 0 .. m + 1 |-> HopStage(h, i, walk, q, item, hops)]
    BY <2>2, <2>3, <2>4
  <2> QED
    BY <2>5
<1>3. n \in S
  <2> HIDE DEF S
  <2> QED
    BY <1>1, <1>2, SetInduction
<1>4. \E g : g = [i \in 0 .. n |-> HopStage(g, i, walk, q, item, hops)]
  BY <1>3
<1> PICK f : f = AlongHops(walk, q, item, hops)
  OBVIOUS
<1>5. f = CHOOSE g : g = [i \in 0 .. n |-> HopStage(g, i, walk, q, item, hops)]
  BY DEF AlongHops, HopStage
<1> HIDE DEF S
<1>6. f = [i \in 0 .. n |-> HopStage(f, i, walk, q, item, hops)]
  BY <1>4, <1>5
<1>7. HopStage(f, 0, walk, q, item, hops) = walk
  BY DEF HopStage
<1> QED
  BY <1>6, <1>7

\* Stage i of a walk along items, given the one before it.
ItemStage(g, i, walk, q, items) == IF i = 0 THEN walk ELSE Expanded(g[i - 1], q, items[i])

\* The recursive function of a walk along a frontier is what its equation says.
LEMMA ItemsDefined ==
  ASSUME NEW walk, NEW q, NEW items, Len(items) \in Nat
  PROVE  /\ AlongItems(walk, q, items)[0] = walk
         /\ \A i \in 1 .. Len(items) : AlongItems(walk, q, items)[i] =
                    ItemStage(AlongItems(walk, q, items), i, walk, q, items)
<1> PICK n : n = Len(items)
  OBVIOUS
<1> DEFINE S == {m \in Nat : \E g : g = [i \in 0 .. m |-> ItemStage(g, i, walk, q, items)]}
<1>1. 0 \in S
  <2> DEFINE g == [i \in 0 .. 0 |-> walk]
  <2>1. g = [i \in 0 .. 0 |-> ItemStage(g, i, walk, q, items)]
    BY DEF ItemStage
  <2> HIDE DEF g
  <2> QED
    BY <2>1
<1>2. ASSUME NEW m \in Nat, m \in S PROVE m + 1 \in S
  <2> PICK g : g = [i \in 0 .. m |-> ItemStage(g, i, walk, q, items)]
    BY <1>2
  <2> DEFINE h == [i \in 0 .. m + 1 |-> IF i <= m THEN g[i] ELSE ItemStage(g, i, walk, q, items)]
  <2>1. \A i \in 0 .. m + 1 : i # 0 => h[i - 1] = g[i - 1]
    OBVIOUS
  <2>2. \A i \in 0 .. m + 1 : ItemStage(h, i, walk, q, items) = ItemStage(g, i, walk, q, items)
    BY <2>1 DEF ItemStage
  <2>3. \A i \in 0 .. m + 1 : h[i] = ItemStage(g, i, walk, q, items)
    <3> SUFFICES ASSUME NEW i \in 0 .. m + 1 PROVE h[i] = ItemStage(g, i, walk, q, items)
      OBVIOUS
    <3>1. CASE i <= m
      <4>1. i \in 0 .. m
        BY <3>1
      <4>2. g[i] = ItemStage(g, i, walk, q, items)
        BY <4>1
      <4> QED
        BY <3>1, <4>2
    <3>2. CASE ~(i <= m)
      BY <3>2
    <3> QED
      BY <3>1, <3>2
  <2>4. h = [i \in 0 .. m + 1 |-> h[i]]
    OBVIOUS
  <2> HIDE DEF h
  <2>5. h = [i \in 0 .. m + 1 |-> ItemStage(h, i, walk, q, items)]
    BY <2>2, <2>3, <2>4
  <2> QED
    BY <2>5
<1>3. n \in S
  <2> HIDE DEF S
  <2> QED
    BY <1>1, <1>2, SetInduction
<1>4. \E g : g = [i \in 0 .. n |-> ItemStage(g, i, walk, q, items)]
  BY <1>3
<1> PICK f : f = AlongItems(walk, q, items)
  OBVIOUS
<1>5. f = CHOOSE g : g = [i \in 0 .. n |-> ItemStage(g, i, walk, q, items)]
  BY DEF AlongItems, ItemStage
<1> HIDE DEF S
<1>6. f = [i \in 0 .. n |-> ItemStage(f, i, walk, q, items)]
  BY <1>4, <1>5
<1>7. ItemStage(f, 0, walk, q, items) = walk
  BY DEF ItemStage
<1> QED
  BY <1>6, <1>7

\* Stage i of a walk level by level, given the one before it.
LevelStage(g, i, q) == IF i = 0 THEN Outset(q) ELSE NextLevel(g[i - 1], q)

\* The recursive function of the levels of a walk is what its equation says.
LEMMA WalkDefined ==
  ASSUME NEW q, q.depth \in Nat
  PROVE  /\ Walk(q)[0] = Outset(q)
         /\ \A i \in 1 .. q.depth : Walk(q)[i] = LevelStage(Walk(q), i, q)
<1> PICK n : n = q.depth
  OBVIOUS
<1> DEFINE S == {m \in Nat : \E g : g = [i \in 0 .. m |-> LevelStage(g, i, q)]}
<1>1. 0 \in S
  <2> DEFINE g == [i \in 0 .. 0 |-> Outset(q)]
  <2>1. g = [i \in 0 .. 0 |-> LevelStage(g, i, q)]
    BY DEF LevelStage
  <2> HIDE DEF g
  <2> QED
    BY <2>1
<1>2. ASSUME NEW m \in Nat, m \in S PROVE m + 1 \in S
  <2> PICK g : g = [i \in 0 .. m |-> LevelStage(g, i, q)]
    BY <1>2
  <2> DEFINE h == [i \in 0 .. m + 1 |-> IF i <= m THEN g[i] ELSE LevelStage(g, i, q)]
  <2>1. \A i \in 0 .. m + 1 : i # 0 => h[i - 1] = g[i - 1]
    OBVIOUS
  <2>2. \A i \in 0 .. m + 1 : LevelStage(h, i, q) = LevelStage(g, i, q)
    BY <2>1 DEF LevelStage
  <2>3. \A i \in 0 .. m + 1 : h[i] = LevelStage(g, i, q)
    <3> SUFFICES ASSUME NEW i \in 0 .. m + 1 PROVE h[i] = LevelStage(g, i, q)
      OBVIOUS
    <3>1. CASE i <= m
      <4>1. i \in 0 .. m
        BY <3>1
      <4>2. g[i] = LevelStage(g, i, q)
        BY <4>1
      <4> QED
        BY <3>1, <4>2
    <3>2. CASE ~(i <= m)
      BY <3>2
    <3> QED
      BY <3>1, <3>2
  <2>4. h = [i \in 0 .. m + 1 |-> h[i]]
    OBVIOUS
  <2> HIDE DEF h
  <2>5. h = [i \in 0 .. m + 1 |-> LevelStage(h, i, q)]
    BY <2>2, <2>3, <2>4
  <2> QED
    BY <2>5
<1>3. n \in S
  <2> HIDE DEF S
  <2> QED
    BY <1>1, <1>2, SetInduction
<1>4. \E g : g = [i \in 0 .. n |-> LevelStage(g, i, q)]
  BY <1>3
<1> PICK f : f = Walk(q)
  OBVIOUS
<1>5. f = CHOOSE g : g = [i \in 0 .. n |-> LevelStage(g, i, q)]
  BY DEF Walk, LevelStage
<1> HIDE DEF S
<1>6. f = [i \in 0 .. n |-> LevelStage(f, i, q)]
  BY <1>4, <1>5
<1>7. LevelStage(f, 0, q) = Outset(q)
  BY DEF LevelStage
<1> QED
  BY <1>6, <1>7

\* Stage i of the nodes within reach, given the one before it.
WithinStage(g, i, q) == IF i = 0 THEN {q.anchor} ELSE 
    g[i - 1] \cup UNION {{h.node : h \in Permitted(q, n)} :
                         n \in {m \in g[i - 1] : m = q.anchor \/ NamesOf(m) \cap q.stops = {}}}

\* The recursive function of the nodes within reach is what its equation says.
LEMMA WithinDefined ==
  ASSUME NEW q, q.depth \in Nat
  PROVE  /\ Within(q)[0] = {q.anchor}
         /\ \A i \in 1 .. q.depth : Within(q)[i] = WithinStage(Within(q), i, q)
<1> PICK n : n = q.depth
  OBVIOUS
<1> DEFINE S == {m \in Nat : \E g : g = [i \in 0 .. m |-> WithinStage(g, i, q)]}
<1>1. 0 \in S
  <2> DEFINE g == [i \in 0 .. 0 |-> {q.anchor}]
  <2>1. g = [i \in 0 .. 0 |-> WithinStage(g, i, q)]
    BY DEF WithinStage
  <2> HIDE DEF g
  <2> QED
    BY <2>1
<1>2. ASSUME NEW m \in Nat, m \in S PROVE m + 1 \in S
  <2> PICK g : g = [i \in 0 .. m |-> WithinStage(g, i, q)]
    BY <1>2
  <2> DEFINE h == [i \in 0 .. m + 1 |-> IF i <= m THEN g[i] ELSE WithinStage(g, i, q)]
  <2>1. \A i \in 0 .. m + 1 : i # 0 => h[i - 1] = g[i - 1]
    OBVIOUS
  <2>2. \A i \in 0 .. m + 1 : WithinStage(h, i, q) = WithinStage(g, i, q)
    BY <2>1 DEF WithinStage
  <2>3. \A i \in 0 .. m + 1 : h[i] = WithinStage(g, i, q)
    <3> SUFFICES ASSUME NEW i \in 0 .. m + 1 PROVE h[i] = WithinStage(g, i, q)
      OBVIOUS
    <3>1. CASE i <= m
      <4>1. i \in 0 .. m
        BY <3>1
      <4>2. g[i] = WithinStage(g, i, q)
        BY <4>1
      <4> QED
        BY <3>1, <4>2
    <3>2. CASE ~(i <= m)
      BY <3>2
    <3> QED
      BY <3>1, <3>2
  <2>4. h = [i \in 0 .. m + 1 |-> h[i]]
    OBVIOUS
  <2> HIDE DEF h
  <2>5. h = [i \in 0 .. m + 1 |-> WithinStage(h, i, q)]
    BY <2>2, <2>3, <2>4
  <2> QED
    BY <2>5
<1>3. n \in S
  <2> HIDE DEF S
  <2> QED
    BY <1>1, <1>2, SetInduction
<1>4. \E g : g = [i \in 0 .. n |-> WithinStage(g, i, q)]
  BY <1>3
<1> PICK f : f = Within(q)
  OBVIOUS
<1>5. f = CHOOSE g : g = [i \in 0 .. n |-> WithinStage(g, i, q)]
  BY DEF Within, WithinStage
<1> HIDE DEF S
<1>6. f = [i \in 0 .. n |-> WithinStage(f, i, q)]
  BY <1>4, <1>5
<1>7. WithinStage(f, 0, q) = {q.anchor}
  BY DEF WithinStage
<1> QED
  BY <1>6, <1>7

\* Stage i of seeding, given the one before it.
SeedStage(g, i, order) == IF i = 0 THEN {} ELSE 
    IF Cardinality(g[i - 1]) >= Cap THEN g[i - 1] ELSE g[i - 1] \cup WithTerm(order[i])

\* The recursive function that seeds candidates is what its equation says.
LEMMA SeededDefined ==
  ASSUME NEW order, Len(order) \in Nat
  PROVE  /\ SeededFrom(order)[0] = {}
         /\ \A i \in 1 .. Len(order) : SeededFrom(order)[i] = SeedStage(SeededFrom(order), i, order)
<1> PICK n : n = Len(order)
  OBVIOUS
<1> DEFINE S == {m \in Nat : \E g : g = [i \in 0 .. m |-> SeedStage(g, i, order)]}
<1>1. 0 \in S
  <2> DEFINE g == [i \in 0 .. 0 |-> {}]
  <2>1. g = [i \in 0 .. 0 |-> SeedStage(g, i, order)]
    BY DEF SeedStage
  <2> HIDE DEF g
  <2> QED
    BY <2>1
<1>2. ASSUME NEW m \in Nat, m \in S PROVE m + 1 \in S
  <2> PICK g : g = [i \in 0 .. m |-> SeedStage(g, i, order)]
    BY <1>2
  <2> DEFINE h == [i \in 0 .. m + 1 |-> IF i <= m THEN g[i] ELSE SeedStage(g, i, order)]
  <2>1. \A i \in 0 .. m + 1 : i # 0 => h[i - 1] = g[i - 1]
    OBVIOUS
  <2>2. \A i \in 0 .. m + 1 : SeedStage(h, i, order) = SeedStage(g, i, order)
    BY <2>1 DEF SeedStage
  <2>3. \A i \in 0 .. m + 1 : h[i] = SeedStage(g, i, order)
    <3> SUFFICES ASSUME NEW i \in 0 .. m + 1 PROVE h[i] = SeedStage(g, i, order)
      OBVIOUS
    <3>1. CASE i <= m
      <4>1. i \in 0 .. m
        BY <3>1
      <4>2. g[i] = SeedStage(g, i, order)
        BY <4>1
      <4> QED
        BY <3>1, <4>2
    <3>2. CASE ~(i <= m)
      BY <3>2
    <3> QED
      BY <3>1, <3>2
  <2>4. h = [i \in 0 .. m + 1 |-> h[i]]
    OBVIOUS
  <2> HIDE DEF h
  <2>5. h = [i \in 0 .. m + 1 |-> SeedStage(h, i, order)]
    BY <2>2, <2>3, <2>4
  <2> QED
    BY <2>5
<1>3. n \in S
  <2> HIDE DEF S
  <2> QED
    BY <1>1, <1>2, SetInduction
<1>4. \E g : g = [i \in 0 .. n |-> SeedStage(g, i, order)]
  BY <1>3
<1> PICK f : f = SeededFrom(order)
  OBVIOUS
<1>5. f = CHOOSE g : g = [i \in 0 .. n |-> SeedStage(g, i, order)]
  BY DEF SeededFrom, SeedStage
<1> HIDE DEF S
<1>6. f = [i \in 0 .. n |-> SeedStage(f, i, order)]
  BY <1>4, <1>5
<1>7. SeedStage(f, 0, order) = {}
  BY DEF SeedStage
<1> QED
  BY <1>6, <1>7

-----------------------------------------------------------------------------
(* What a generation holds, typed. *)

\* The image of a finite set is finite.
LEMMA ImageFinite ==
  ASSUME NEW S, IsFiniteSet(S), NEW T, NEW f \in [S -> T], \A y \in T : \E x \in S : f[x] = y
  PROVE  IsFiniteSet(T)
<1>1. f \in Surjection(S, T)
  BY DEF Surjection
<1> QED
  BY <1>1, FS_Surjection

\* A union of finitely many finite sets is finite.
LEMMA UnionFinite ==
  ASSUME NEW S, IsFiniteSet(S), NEW T, NEW f \in [S -> T], \A y \in T : \E x \in S : f[x] = y,
         \A x \in S : IsFiniteSet(f[x])
  PROVE  IsFiniteSet(UNION T)
<1>1. IsFiniteSet(T)
  BY ImageFinite
<1>2. \A y \in T : IsFiniteSet(y)
  OBVIOUS
<1> QED
  BY <1>1, <1>2, FS_UNION

\* There are finitely many names.
LEMMA NamesFinite == IsFiniteSet(NameSet)
<1>1. NameOrder \in [1 .. Len(NameOrder) -> NameSet] /\ Len(NameOrder) \in Nat
  BY QueryAssumption, LenProperties
<1>2. \A y \in NameSet : \E i \in 1 .. Len(NameOrder) : NameOrder[i] = y
  BY <1>1 DEF NameSet, Range
<1>3. IsFiniteSet(1 .. Len(NameOrder))
  BY <1>1, FS_Interval
<1> QED
  BY <1>1, <1>2, <1>3, ImageFinite

\* A generation holds finitely many documents, of names and of documents' shape.
LEMMA DocsTyped ==
  ASSUME docs \in Corpora
  PROVE  /\ IsFiniteSet(DOMAIN docs) /\ DOMAIN docs \subseteq NameSet
         /\ DOMAIN docs \subseteq Entries
         /\ \A d \in DOMAIN docs : FullName[d] \in NameSet /\ Document(docs[d])
<1>1. DOMAIN docs \subseteq Entries /\ \A d \in DOMAIN docs : Document(docs[d])
  BY QueryAssumption
<1>2. DOMAIN docs \subseteq NameSet /\ \A d \in DOMAIN docs : FullName[d] \in NameSet
  BY <1>1, QueryAssumption
<1>3. IsFiniteSet(DOMAIN docs)
  BY <1>2, NamesFinite, FS_Subset
<1> QED
  BY <1>1, <1>2, <1>3

\* Finitely many rows point at a name, each of an entry of the generation.
LEMMA IncomingTyped ==
  ASSUME docs \in Corpora, NEW n
  PROVE  /\ IsFiniteSet(IncomingEdges(n))
         /\ \A r \in IncomingEdges(n) : /\ r.node \in DOMAIN docs /\ r.exact \in BOOLEAN
                                        /\ r.target \in NameSet
<1> DEFINE From(d) == {[node |-> d, kind |-> e.kind, target |-> e.target, exact |-> e.exact] :
                         e \in {f \in docs[d].edges : Fold[f.target] = Fold[n]}}
           all == {From(d) : d \in DOMAIN docs}
           from == [d \in DOMAIN docs |-> From(d)]
<1>1. \A d \in DOMAIN docs : IsFiniteSet(From(d))
  <2> TAKE d \in DOMAIN docs
  <2> DEFINE some == {f \in docs[d].edges : Fold[f.target] = Fold[n]}
             g == [e \in some |-> [node |-> d, kind |-> e.kind, target |-> e.target,
                                   exact |-> e.exact]]
  <2>1. IsFiniteSet(some)
    BY DocsTyped, FS_Subset DEF Document
  <2>2. g \in [some -> From(d)] /\ \A y \in From(d) : \E x \in some : g[x] = y
    OBVIOUS
  <2> HIDE DEF some, g, From
  <2> QED
    BY <2>1, <2>2, ImageFinite
<1>2. from \in [DOMAIN docs -> all] /\ \A y \in all : \E x \in DOMAIN docs : from[x] = y
  <2> HIDE DEF From
  <2> QED
    OBVIOUS
<1>3. \A d \in DOMAIN docs : IsFiniteSet(from[d])
  BY <1>1
<1>4. IsFiniteSet(UNION all)
  <2> HIDE DEF from, all
  <2> QED
    BY <1>2, <1>3, DocsTyped, UnionFinite
<1>5. IncomingEdges(n) = UNION all
  BY DEF IncomingEdges
<1>6. ASSUME NEW r \in IncomingEdges(n)
      PROVE  r.node \in DOMAIN docs /\ r.exact \in BOOLEAN /\ r.target \in NameSet
  <2>1. PICK d \in DOMAIN docs : r \in From(d)
    BY <1>5
  <2>2. Document(docs[d])
    BY DocsTyped
  <2> QED
    BY <2>1, <2>2 DEF Document
<1> QED
  BY <1>4, <1>5, <1>6

\* What an edge target resolves to is a name.
LEMMA ResolvedTyped ==
  ASSUME docs \in Corpora, NEW n \in NameSet
  PROVE  Resolved(n) \in NameSet
<1>1. Candidates(n) \subseteq DOMAIN docs
  BY DEF Candidates, Named, ByIdentity, ByMember
<1>2. CASE Cardinality(Candidates(n)) = 1
  <2>1. IsFiniteSet(Candidates(n))
    BY <1>1, DocsTyped, FS_Subset
  <2>2. PICK d : d \in Candidates(n)
    BY <1>2, <2>1, FS_Singleton
  <2>3. Resolved(n) \in Candidates(n)
    BY <1>2, <2>2 DEF Resolved
  <2> QED
    BY <1>1, <2>3, DocsTyped
<1>3. CASE Cardinality(Candidates(n)) # 1
  BY <1>3 DEF Resolved
<1> QED
  BY <1>2, <1>3

\* A node goes by finitely many names.
LEMMA NamesOfTyped ==
  ASSUME docs \in Corpora, NEW n \in NameSet
  PROVE  NamesOf(n) \subseteq NameSet /\ IsFiniteSet(NamesOf(n))
<1>1. NamesOf(n) \subseteq NameSet
  BY DocsTyped DEF NamesOf
<1> QED
  BY <1>1, NamesFinite, FS_Subset

\* A node has finitely many edges of its own.
LEMMA EdgesOfTyped ==
  ASSUME docs \in Corpora, NEW n
  PROVE  /\ IsFiniteSet(EdgesOf(n))
         /\ \A e \in EdgesOf(n) : e.target \in NameSet /\ e.exact \in BOOLEAN
  BY DocsTyped, FS_EmptySet DEF EdgesOf, Document

\* The hops along some of a node's own edges.
OwnHops(some, owner) == {Hop(Resolved(e.target), e, e.target, owner) : e \in some}

\* Hops along a node's own edges are finitely many and lead to names.
LEMMA OwnHopsTyped ==
  ASSUME docs \in Corpora, NEW some, IsFiniteSet(some), NEW owner,
         \A e \in some : e.target \in NameSet /\ e.exact \in BOOLEAN
  PROVE  /\ IsFiniteSet(OwnHops(some, owner))
         /\ \A h \in OwnHops(some, owner) : h.node \in NameSet /\ h.exact \in BOOLEAN
<1> DEFINE g == [e \in some |-> Hop(Resolved(e.target), e, e.target, owner)]
<1>1. g \in [some -> OwnHops(some, owner)] /\ \A y \in OwnHops(some, owner) : \E x \in some : g[x] = y
  BY DEF OwnHops
<1>2. IsFiniteSet(OwnHops(some, owner))
  <2> HIDE DEF g
  <2> QED
    BY <1>1, ImageFinite
<1>3. \A e \in some : Resolved(e.target) \in NameSet
  BY ResolvedTyped
<1> QED
  BY <1>2, <1>3 DEF Hop, OwnHops

\* The hops a node offers are finitely many and lead to names.
LEMMA HopsTyped ==
  ASSUME docs \in Corpora, NEW n \in NameSet, NEW dir
  PROVE  /\ IsFiniteSet(Hops(n, dir))
         /\ \A h \in Hops(n, dir) : h.node \in NameSet /\ h.exact \in BOOLEAN
<1>1. CASE dir = "outgoing"
  <2>1. Hops(n, dir) = OwnHops(EdgesOf(n), FALSE)
    BY <1>1 DEF Hops, OwnHops
  <2> QED
    BY <2>1, EdgesOfTyped, OwnHopsTyped
<1>2. CASE dir # "outgoing"
  <2> DEFINE parts == {f \in EdgesOf(n) : f.kind = "belongs-to"}
             owners == OwnHops(parts, TRUE)
             By(m) == {Hop(e.node, e, m, FALSE) : e \in IncomingEdges(m)}
             all == {By(m) : m \in NamesOf(n)}
             bys == [m \in NamesOf(n) |-> By(m)]
  <2>1. IsFiniteSet(owners) /\ \A h \in owners : h.node \in NameSet /\ h.exact \in BOOLEAN
    <3>1. IsFiniteSet(parts) /\ \A e \in parts : e.target \in NameSet /\ e.exact \in BOOLEAN
      BY EdgesOfTyped, FS_Subset
    <3> HIDE DEF parts
    <3> QED
      BY <3>1, OwnHopsTyped
  <2>2. ASSUME NEW m \in NamesOf(n)
        PROVE  IsFiniteSet(By(m)) /\ \A h \in By(m) : h.node \in NameSet /\ h.exact \in BOOLEAN
    <3> DEFINE g == [e \in IncomingEdges(m) |-> Hop(e.node, e, m, FALSE)]
    <3>1. g \in [IncomingEdges(m) -> By(m)] /\ \A y \in By(m) : \E x \in IncomingEdges(m) : g[x] = y
      OBVIOUS
    <3>2. IsFiniteSet(By(m))
      <4> HIDE DEF g, By
      <4> QED
        BY <3>1, IncomingTyped, ImageFinite
    <3>3. \A e \in IncomingEdges(m) : e.node \in NameSet /\ e.exact \in BOOLEAN
      BY IncomingTyped, DocsTyped
    <3> QED
      BY <3>2, <3>3 DEF Hop
  <2>3. bys \in [NamesOf(n) -> all] /\ \A y \in all : \E x \in NamesOf(n) : bys[x] = y
    <3> HIDE DEF By
    <3> QED
      OBVIOUS
  <2>4. \A m \in NamesOf(n) : IsFiniteSet(bys[m])
    BY <2>2
  <2>5. IsFiniteSet(UNION all)
    <3> HIDE DEF bys, all
    <3> QED
      BY <2>3, <2>4, NamesOfTyped, UnionFinite
  <2>6. \A h \in UNION all : h.node \in NameSet /\ h.exact \in BOOLEAN
    <3> HIDE DEF By
    <3> QED
      BY <2>2
  <2>7. Hops(n, dir) = (UNION all) \cup owners
    BY <1>2 DEF Hops, OwnHops
  <2> HIDE DEF all, owners
  <2> QED
    BY <2>1, <2>5, <2>6, <2>7, FS_Union
<1> QED
  BY <1>1, <1>2

-----------------------------------------------------------------------------
(* The shape of a walk. *)

\* What traverse is asked with.
WalkQuestion(q) == q.anchor \in NameSet /\ q.heuristic \in BOOLEAN /\ q.depth \in Nat

\* Chains that are paths of permitted hops from the anchor.
PermittedHops(q) == UNION {Permitted(q, n) : n \in NameSet}

\* The shape of a chain.
Rows(q) == [node : NameSet, hop : Nat, path : Seq(PermittedHops(q)), exact : BOOLEAN]

\* The node a chain's i-th hop starts from.
StepFrom(q, path, i) == IF i = 1 THEN q.anchor ELSE path[i - 1].node

\* A chain of permitted hops from the anchor, as exact as its weakest hop.
IsPath(q, c) ==
  /\ Len(c.path) = c.hop
  /\ c.node = IF c.hop = 0 THEN q.anchor ELSE c.path[c.hop].node
  /\ \A i \in 1 .. c.hop : c.path[i] \in Permitted(q, StepFrom(q, c.path, i))
  /\ c.exact <=> \A i \in 1 .. c.hop : c.path[i].exact

\* The chains that are such paths.
Paths(q) == {c \in Rows(q) : IsPath(q, c)}

\* The shape of a walk whose chains, and whose frontier, are paths.
Walks(q) ==
  [chains : Seq(Paths(q)), visited : SUBSET NameSet, halted : SUBSET NameSet,
   next : Seq(Paths(q)), limits : SUBSET {"nodes", "time", "fanout"},
   excluded : SUBSET {"heuristic", "lifecycle"}, expanded : Nat]

\* A walk begins in that shape.
LEMMA StartTyped ==
  ASSUME NEW q, WalkQuestion(q)
  PROVE  Outset(q) \in Walks(q)
<1> DEFINE c == [node |-> q.anchor, hop |-> 0, path |-> <<>>, exact |-> TRUE]
<1>1. c \in Rows(q)
  BY DEF WalkQuestion, Rows
<1>2. IsPath(q, c)
  BY DEF IsPath
<1>3. c \in Paths(q)
  BY <1>1, <1>2 DEF Paths
<1> HIDE DEF c
<1>4. <<c>> \in Seq(Paths(q))
  BY <1>3
<1>5. Outset(q).next = <<c>>
  BY DEF Outset, c
<1>6. Outset(q) = [chains |-> <<>>, visited |-> {q.anchor}, halted |-> {},
                  next |-> <<c>>, limits |-> {}, excluded |-> {}, expanded |-> 0]
  BY DEF Outset, c
<1> QED
  BY <1>4, <1>6 DEF WalkQuestion, Walks

\* A path and a permitted hop from its end.
Longer(c, h) ==
  [node |-> h.node, hop |-> Len(c.path) + 1, path |-> Append(c.path, h), exact |-> Weakest(c, h)]

\* A path and a permitted hop from its end are a path.
LEMMA LongerIsPath ==
  ASSUME docs \in Corpora, NEW q, WalkQuestion(q), NEW c \in Paths(q),
         NEW h \in Permitted(q, c.node)
  PROVE  /\ Longer(c, h) \in Paths(q)
         /\ Longer(c, h).node = h.node /\ Longer(c, h).hop = c.hop + 1
<1> DEFINE k == Len(c.path)
           p == Append(c.path, h)
<1>1. /\ c \in Rows(q) /\ IsPath(q, c) /\ c.node \in NameSet /\ c.exact \in BOOLEAN
      /\ c.path \in Seq(PermittedHops(q)) /\ c.hop = k /\ k \in Nat
  BY DEF Paths, Rows, IsPath
<1>2. h \in PermittedHops(q) /\ h \in Hops(c.node, q.direction)
  BY <1>1 DEF PermittedHops, Permitted
<1>3. h.node \in NameSet /\ h.exact \in BOOLEAN
  BY <1>1, <1>2, HopsTyped
<1>4. /\ p \in Seq(PermittedHops(q)) /\ Len(p) = k + 1 /\ p[k + 1] = h
      /\ \A i \in 1 .. k : p[i] = c.path[i]
  BY <1>1, <1>2, AppendProperties
<1>5. Weakest(c, h) \in BOOLEAN /\ (Weakest(c, h) <=> c.exact /\ h.exact)
  BY <1>1, <1>3 DEF Weakest
<1>6. Longer(c, h) \in Rows(q)
  BY <1>1, <1>3, <1>4, <1>5 DEF Longer, Rows
<1>7. ASSUME NEW i \in 1 .. k + 1 PROVE p[i] \in Permitted(q, StepFrom(q, p, i))
  <2>1. CASE i \in 1 .. k
    <3>1. StepFrom(q, p, i) = StepFrom(q, c.path, i)
      BY <1>4, <2>1 DEF StepFrom
    <3> QED
      BY <1>1, <1>4, <2>1, <3>1 DEF IsPath
  <2>2. CASE i = k + 1
    <3>1. StepFrom(q, p, i) = c.node
      <4>1. c.node = IF k = 0 THEN q.anchor ELSE c.path[k].node
        BY <1>1 DEF IsPath
      <4>2. k # 0 => p[(k + 1) - 1] = c.path[k]
        BY <1>1, <1>4
      <4>3. k + 1 = 1 <=> k = 0
        BY <1>1
      <4> HIDE DEF p, k
      <4> QED
        BY <2>2, <4>1, <4>2, <4>3 DEF StepFrom
    <3> QED
      BY <1>4, <2>2, <3>1
  <2> QED
    BY <2>1, <2>2
<1>8. Weakest(c, h) <=> \A i \in 1 .. k + 1 : p[i].exact
  <2>1. c.exact <=> \A i \in 1 .. k : c.path[i].exact
    BY <1>1 DEF IsPath
  <2>2. (\A i \in 1 .. k + 1 : p[i].exact) <=> (\A i \in 1 .. k : p[i].exact) /\ p[k + 1].exact
    BY <1>1
  <2>3. (\A i \in 1 .. k : p[i].exact) <=> (\A i \in 1 .. k : c.path[i].exact)
    BY <1>4
  <2> HIDE DEF p, k
  <2> QED
    BY <1>4, <1>5, <2>1, <2>2, <2>3
<1>9. IsPath(q, Longer(c, h))
  <2>1. /\ Longer(c, h).path = p /\ Longer(c, h).hop = k + 1
        /\ Longer(c, h).node = h.node /\ Longer(c, h).exact = Weakest(c, h)
    BY DEF Longer
  <2> HIDE DEF p, k
  <2>2. k + 1 # 0
    BY <1>1
  <2> QED
    BY <1>4, <1>7, <1>8, <2>1, <2>2 DEF IsPath
<1> QED
  BY <1>1, <1>6, <1>9 DEF Longer, Paths

\* Appending adds one element.
LEMMA RangeAppend ==
  ASSUME NEW T, NEW s \in Seq(T), NEW x \in T
  PROVE  Range(Append(s, x)) = Range(s) \cup {x}
<1>1. /\ Len(Append(s, x)) = Len(s) + 1 /\ Append(s, x)[Len(s) + 1] = x
      /\ \A i \in 1 .. Len(s) : Append(s, x)[i] = s[i]
      /\ Len(s) \in Nat /\ Append(s, x) \in Seq(T)
  BY AppendProperties
<1>2. DOMAIN Append(s, x) = 1 .. Len(s) + 1 /\ DOMAIN s = 1 .. Len(s)
  BY <1>1, LenProperties
<1>3. \A i : i \in 1 .. Len(s) + 1 <=> i \in 1 .. Len(s) \/ i = Len(s) + 1
  BY <1>1
<1> QED
  BY <1>1, <1>2, <1>3 DEF Range

\* Whether a walk goes on from a node it reached.
StoppedAt(q, n) == NamesOf(n) \cap q.stops # {}

\* A hop that a walk takes.
Taken(w, q, c, h) ==
  [w EXCEPT !.chains = Append(@, Longer(c, h)),
            !.next = IF StoppedAt(q, h.node) THEN @ ELSE Append(@, Longer(c, h)),
            !.halted = IF StoppedAt(q, h.node) THEN @ \cup {h.node} ELSE @,
            !.limits = IF Len(w.chains) + 1 >= MaxNodes THEN @ \cup {"nodes"} ELSE @]

\* What a hop does to a walk, case by case.
Follows(w, q, c, h, after) ==
  \/ "nodes" \in w.limits /\ after = w
  \/ ~h.exact /\ ~q.heuristic /\ after = [w EXCEPT !.excluded = @ \cup {"heuristic"}]
  \/ h.node \in DOMAIN docs \ q.allowed /\ after = [w EXCEPT !.excluded = @ \cup {"lifecycle"}]
  \/ /\ h.exact \/ q.heuristic
     /\ h.node \notin DOMAIN docs \ q.allowed
     /\ \/ h.node \in w.visited /\ after = w
        \/ h.node \notin w.visited /\ after = Taken(w, q, c, h)

\* Following a hop is one of these cases.
LEMMA FollowedCases ==
  ASSUME NEW w, NEW q, NEW c, NEW h
  PROVE  Follows(w, q, c, h, Followed(w, q, c, h))
  BY DEF Followed, Longer, Taken, StoppedAt, Follows

\* What taking a hop to the end of a chain adds.
Adds(w, q, chain, n, after) ==
  /\ after.visited = w.visited
  /\ Range(after.chains) = Range(w.chains) \cup {chain}
  /\ Range(after.next) = IF StoppedAt(q, n) THEN Range(w.next) ELSE Range(w.next) \cup {chain}
  /\ after.halted = IF StoppedAt(q, n) THEN w.halted \cup {n} ELSE w.halted

\* Taking a hop keeps the shape of a walk and adds one chain to it.
LEMMA TakenFields ==
  ASSUME NEW q, NEW w \in Walks(q), NEW c, NEW h, Longer(c, h) \in Paths(q), h.node \in NameSet
  PROVE  /\ Taken(w, q, c, h) \in Walks(q) /\ w.limits \subseteq Taken(w, q, c, h).limits
         /\ Adds(w, q, Longer(c, h), h.node, Taken(w, q, c, h))
<1> PICK x \in Paths(q) : x = Longer(c, h)
  OBVIOUS
<1> PICK next : next = IF StoppedAt(q, h.node) THEN w.next ELSE Append(w.next, x)
  OBVIOUS
<1> PICK halted : halted = IF StoppedAt(q, h.node) THEN w.halted \cup {h.node} ELSE w.halted
  OBVIOUS
<1> PICK limits : limits = IF Len(w.chains) + 1 >= MaxNodes THEN w.limits \cup {"nodes"} ELSE w.limits
  OBVIOUS
<1> PICK after : after = Taken(w, q, c, h)
  OBVIOUS
<1>1. after = [w EXCEPT !.chains = Append(w.chains, x), !.next = next, !.halted = halted,
                        !.limits = limits]
  BY DEF Taken
<1>2. w.chains \in Seq(Paths(q)) /\ w.next \in Seq(Paths(q))
  BY DEF Walks
<1>3. /\ Append(w.chains, x) \in Seq(Paths(q))
      /\ Range(Append(w.chains, x)) = Range(w.chains) \cup {x}
      /\ Append(w.next, x) \in Seq(Paths(q))
      /\ Range(Append(w.next, x)) = Range(w.next) \cup {x}
  BY <1>2, RangeAppend
<1>4. next \in Seq(Paths(q))
  BY <1>2, <1>3
<1>5. halted \in SUBSET NameSet
  BY DEF Walks
<1>6. limits \in SUBSET {"nodes", "time", "fanout"} /\ w.limits \subseteq limits
  BY DEF Walks
<1>7. /\ after \in Walks(q) /\ after.limits = limits /\ after.visited = w.visited
      /\ after.chains = Append(w.chains, x) /\ after.next = next /\ after.halted = halted
  BY ZenonT(30), <1>1, <1>3, <1>4, <1>5, <1>6 DEF Walks
<1> QED
  BY <1>3, <1>6, <1>7 DEF Adds

\* Following a hop keeps the shape of a walk and takes no limit back.
LEMMA FollowedTyped ==
  ASSUME docs \in Corpora, NEW q, WalkQuestion(q), NEW w \in Walks(q), NEW c \in Paths(q),
         NEW h \in Hops(c.node, q.direction)
  PROVE  Followed(w, q, c, h) \in Walks(q) /\ w.limits \subseteq Followed(w, q, c, h).limits
<1>6. PICK after : after = Followed(w, q, c, h)
  OBVIOUS
<1>7. SUFFICES after \in Walks(q) /\ w.limits \subseteq after.limits
  BY <1>6
<1>0. c.node \in NameSet /\ h.node \in NameSet
  BY HopsTyped DEF Paths, Rows
<1>1. CASE after = w
  BY <1>1
<1>2. CASE after = [w EXCEPT !.excluded = @ \cup {"heuristic"}]
  BY <1>2 DEF Walks
<1>3. CASE after = [w EXCEPT !.excluded = @ \cup {"lifecycle"}]
  BY <1>3 DEF Walks
<1>4. CASE /\ h.exact \/ q.heuristic
           /\ h.node \notin DOMAIN docs \ q.allowed
           /\ after = Taken(w, q, c, h)
  <2>1. Longer(c, h) \in Paths(q)
    BY <1>4, LongerIsPath DEF Permitted
  <2> QED
    BY <1>0, <1>4, <2>1, TakenFields
<1>5. \/ after = w
      \/ after = [w EXCEPT !.excluded = @ \cup {"heuristic"}]
      \/ after = [w EXCEPT !.excluded = @ \cup {"lifecycle"}]
      \/ /\ h.exact \/ q.heuristic
         /\ h.node \notin DOMAIN docs \ q.allowed
         /\ after = Taken(w, q, c, h)
  <2>1. Follows(w, q, c, h, after)
    BY <1>6, FollowedCases
  <2> QED
    BY <2>1, Zenon DEF Follows
<1> QED
  BY <1>1, <1>2, <1>3, <1>4, <1>5

-----------------------------------------------------------------------------
(* A walk and the hops of one node. *)

\* The nodes of a list of chains.
NodesOf(s) == {c.node : c \in Range(s)}

\* The nodes a walk has reached at a distance.
NodesAt(w, j) == {c.node : c \in {x \in Range(w.chains) : x.hop = j}}

\* The nodes that permitted hops from a node lead to.
Targets(q, n) == {h.node : h \in Permitted(q, n)}

\* A walk that has met the nodes T from a frontier at distance k, since it was b.
Ahead(q, b, k, w, T) ==
  /\ w.visited = b.visited
  /\ \A j \in Nat : NodesAt(w, j) = IF j = k + 1 THEN T \ b.visited ELSE NodesAt(b, j)
  /\ NodesOf(w.next) = {n \in T \ b.visited : ~StoppedAt(q, n)}
  /\ w.halted = b.halted \cup {n \in T \ b.visited : StoppedAt(q, n)}
  /\ \A c \in Range(w.next) : c.hop = k + 1

\* The node a hop leads to, if it is permitted.
Met(q, n, h) == IF h \in Permitted(q, n) THEN {h.node} ELSE {}

\* Following a hop without a limit meets the node it leads to and no other.
LEMMA FollowedAhead ==
  ASSUME docs \in Corpora, NEW q, WalkQuestion(q), NEW w \in Walks(q), NEW c \in Paths(q),
         NEW h \in Hops(c.node, q.direction), NEW b, NEW T, Ahead(q, b, c.hop, w, T),
         Followed(w, q, c, h).limits = {}
  PROVE  Ahead(q, b, c.hop, Followed(w, q, c, h), T \cup Met(q, c.node, h))
<1> DEFINE k == c.hop
<1>1. PICK after : after = Followed(w, q, c, h)
  OBVIOUS
<1>2. w.limits = {} /\ after.limits = {}
  BY <1>1, FollowedTyped
<1>3. PICK met : met = T \cup Met(q, c.node, h)
  OBVIOUS
<1>4. SUFFICES Ahead(q, b, k, after, met)
  BY <1>1, <1>3
<1>5. c.node \in NameSet /\ h.node \in NameSet /\ k \in Nat
  BY HopsTyped DEF Paths, Rows
<1>6. Follows(w, q, c, h, after)
  BY <1>1, FollowedCases
<1>7. w \in Walks(q) /\ w = [w EXCEPT !.excluded = w.excluded]
  BY DEF Walks
<1>8. CASE h \notin Permitted(q, c.node)
  <2>1. met = T
    BY <1>3, <1>8 DEF Met
  <2>2. \/ ~h.exact /\ ~q.heuristic /\ after = [w EXCEPT !.excluded = @ \cup {"heuristic"}]
        \/ h.node \in DOMAIN docs \ q.allowed /\ after = [w EXCEPT !.excluded = @ \cup {"lifecycle"}]
    BY <1>2, <1>6, <1>8 DEF Follows, Permitted
  <2>3. /\ after.visited = w.visited /\ after.chains = w.chains /\ after.next = w.next
        /\ after.halted = w.halted
    BY <2>2 DEF Walks
  <2> QED
    BY <2>1, <2>3 DEF Ahead, NodesAt
<1>9. CASE h \in Permitted(q, c.node)
  <2>1. met = T \cup {h.node}
    BY <1>3, <1>9 DEF Met
  <2>2. \/ h.node \in w.visited /\ after = w
        \/ h.node \notin w.visited /\ after = Taken(w, q, c, h)
    BY <1>2, <1>6, <1>9 DEF Follows, Permitted
  <2>3. CASE h.node \in w.visited /\ after = w
    <3>1. met \ b.visited = T \ b.visited
      BY <2>1, <2>3 DEF Ahead
    <3> QED
      BY <2>3, <3>1 DEF Ahead
  <2>4. CASE h.node \notin w.visited /\ after = Taken(w, q, c, h)
    <3>1. PICK x \in Paths(q) : x = Longer(c, h) /\ x.node = h.node /\ x.hop = k + 1
      BY <1>9, LongerIsPath
    <3>2. /\ after.visited = w.visited
          /\ Range(after.chains) = Range(w.chains) \cup {x}
          /\ Range(after.next) = IF StoppedAt(q, h.node) THEN Range(w.next)
                                 ELSE Range(w.next) \cup {x}
          /\ after.halted = IF StoppedAt(q, h.node) THEN w.halted \cup {h.node} ELSE w.halted
      <4>1. Adds(w, q, Longer(c, h), h.node, Taken(w, q, c, h))
        BY <1>5, <3>1, TakenFields
      <4> QED
        BY <2>4, <3>1, <4>1 DEF Adds
    <3>3. met \ b.visited = (T \ b.visited) \cup {h.node}
      BY <2>1, <2>4 DEF Ahead
    <3>4. \A j \in Nat : NodesAt(after, j) = IF j = k + 1 THEN NodesAt(w, j) \cup {h.node}
                                             ELSE NodesAt(w, j)
      BY <3>1, <3>2 DEF NodesAt
    <3>5. NodesOf(after.next) = IF StoppedAt(q, h.node) THEN NodesOf(w.next)
                                ELSE NodesOf(w.next) \cup {h.node}
      BY <3>1, <3>2 DEF NodesOf
    <3>6. /\ w.visited = b.visited
          /\ \A j \in Nat : NodesAt(w, j) = IF j = k + 1 THEN T \ b.visited ELSE NodesAt(b, j)
          /\ NodesOf(w.next) = {n \in T \ b.visited : ~StoppedAt(q, n)}
          /\ w.halted = b.halted \cup {n \in T \ b.visited : StoppedAt(q, n)}
          /\ \A y \in Range(w.next) : y.hop = k + 1
      BY DEF Ahead
    <3> PICK fresh : fresh = T \ b.visited
      OBVIOUS
    <3>7. {n \in fresh \cup {h.node} : ~StoppedAt(q, n)} =
            IF StoppedAt(q, h.node) THEN {n \in fresh : ~StoppedAt(q, n)}
            ELSE {n \in fresh : ~StoppedAt(q, n)} \cup {h.node}
      OBVIOUS
    <3>8. {n \in fresh \cup {h.node} : StoppedAt(q, n)} =
            IF StoppedAt(q, h.node) THEN {n \in fresh : StoppedAt(q, n)} \cup {h.node}
            ELSE {n \in fresh : StoppedAt(q, n)}
      OBVIOUS
    <3>9. \A j \in Nat : NodesAt(after, j) = IF j = k + 1 THEN met \ b.visited ELSE NodesAt(b, j)
      BY <3>3, <3>4, <3>6
    <3>10. NodesOf(after.next) = {n \in met \ b.visited : ~StoppedAt(q, n)}
      BY <3>3, <3>5, <3>6, <3>7
    <3>11. after.halted = b.halted \cup {n \in met \ b.visited : StoppedAt(q, n)}
      BY <3>2, <3>3, <3>6, <3>8
    <3>12. \A y \in Range(after.next) : y.hop = k + 1
      BY <3>1, <3>2, <3>6
    <3> QED
      BY <3>2, <3>6, <3>9, <3>10, <3>11, <3>12 DEF Ahead
  <2> QED
    BY <2>2, <2>3, <2>4
<1> QED
  BY <1>8, <1>9

\* The nodes a walk has met by the i-th of a node's hops.
MetBy(q, n, hops, i) == UNION {Met(q, n, hops[j]) : j \in 1 .. i}

\* Following some hops of a node meets the nodes they lead to.
LEMMA HopsAhead ==
  ASSUME docs \in Corpora, NEW q, WalkQuestion(q), NEW w \in Walks(q), NEW c \in Paths(q),
         NEW hops \in Seq(Hops(c.node, q.direction)), NEW m, m = AlongHops(w, q, c, hops)[Len(hops)]
  PROVE  /\ m \in Walks(q) /\ w.limits \subseteq m.limits
         /\ \A b, T : m.limits = {} /\ Ahead(q, b, c.hop, w, T) =>
              Ahead(q, b, c.hop, m, T \cup MetBy(q, c.node, hops, Len(hops)))
<1>1. PICK g : g = AlongHops(w, q, c, hops)
  OBVIOUS
<1>2. PICK top : top = Len(hops) /\ top \in Nat
  OBVIOUS
<1>3. g[0] = w /\ \A i \in 1 .. top : g[i] = Followed(g[i - 1], q, c, hops[i])
  <2>1. /\ g[0] = w
        /\ \A i \in 1 .. top : g[i] = HopStage(g, i, w, q, c, hops)
    BY <1>1, <1>2, HopsDefined
  <2> QED
    BY <2>1 DEF HopStage
<1> DEFINE S == {i \in Nat : i <= top =>
                  /\ g[i] \in Walks(q) /\ w.limits \subseteq g[i].limits
                  /\ \A b, T : g[i].limits = {} /\ Ahead(q, b, c.hop, w, T) =>
                       Ahead(q, b, c.hop, g[i], T \cup MetBy(q, c.node, hops, i))}
<1>4. 0 \in S
  <2>1. MetBy(q, c.node, hops, 0) = {}
    BY DEF MetBy
  <2>2. \A T : T \cup {} = T
    OBVIOUS
  <2> QED
    BY <1>3, <2>1, <2>2
<1>5. ASSUME NEW i \in Nat, i \in S PROVE i + 1 \in S
  <2>1. SUFFICES ASSUME i + 1 <= top
        PROVE  /\ g[i + 1] \in Walks(q) /\ w.limits \subseteq g[i + 1].limits
               /\ \A b, T : g[i + 1].limits = {} /\ Ahead(q, b, c.hop, w, T) =>
                    Ahead(q, b, c.hop, g[i + 1], T \cup MetBy(q, c.node, hops, i + 1))
    OBVIOUS
  <2>2. /\ g[i] \in Walks(q) /\ w.limits \subseteq g[i].limits
        /\ \A b, T : g[i].limits = {} /\ Ahead(q, b, c.hop, w, T) =>
             Ahead(q, b, c.hop, g[i], T \cup MetBy(q, c.node, hops, i))
    BY <1>2, <1>5, <2>1
  <2>3. i + 1 \in 1 .. top /\ (i + 1) - 1 = i
    BY <1>2, <2>1
  <2>4. g[i + 1] = Followed(g[i], q, c, hops[i + 1])
    BY <1>3, <2>3
  <2>5. hops[i + 1] \in Hops(c.node, q.direction)
    BY <1>2, <2>3
  <2>6. g[i + 1] \in Walks(q) /\ g[i].limits \subseteq g[i + 1].limits
    BY <2>2, <2>4, <2>5, FollowedTyped
  <2>7. ASSUME NEW b, NEW T, g[i + 1].limits = {}, Ahead(q, b, c.hop, w, T)
        PROVE  Ahead(q, b, c.hop, g[i + 1], T \cup MetBy(q, c.node, hops, i + 1))
    <3>1. Ahead(q, b, c.hop, g[i], T \cup MetBy(q, c.node, hops, i))
      BY <2>2, <2>6, <2>7
    <3>2. Ahead(q, b, c.hop, g[i + 1],
                (T \cup MetBy(q, c.node, hops, i)) \cup Met(q, c.node, hops[i + 1]))
      <4>1. PICK before : before = g[i] /\ before \in Walks(q)
        BY <2>2
      <4>2. PICK met : met = T \cup MetBy(q, c.node, hops, i)
        OBVIOUS
      <4>3. PICK h \in Hops(c.node, q.direction) : h = hops[i + 1]
        BY <2>5
      <4>4. Ahead(q, b, c.hop, before, met)
        BY <3>1, <4>1, <4>2
      <4>5. g[i + 1] = Followed(before, q, c, h) /\ Followed(before, q, c, h).limits = {}
        BY <2>4, <2>7, <4>1, <4>3
      <4>6. Ahead(q, b, c.hop, Followed(before, q, c, h), met \cup Met(q, c.node, h))
        BY <4>1, <4>4, <4>5, FollowedAhead
      <4> QED
        BY <4>2, <4>3, <4>5, <4>6
    <3>3. \A j : j \in 1 .. i + 1 <=> j \in 1 .. i \/ j = i + 1
      OBVIOUS
    <3>4. MetBy(q, c.node, hops, i + 1) =
            MetBy(q, c.node, hops, i) \cup Met(q, c.node, hops[i + 1])
      BY <3>3 DEF MetBy
    <3>5. (T \cup MetBy(q, c.node, hops, i)) \cup Met(q, c.node, hops[i + 1])
            = T \cup MetBy(q, c.node, hops, i + 1)
      BY <3>4
    <3> QED
      BY <3>2, <3>5
  <2> QED
    BY <2>2, <2>6, <2>7
<1>6. top \in S
  <2> HIDE DEF S
  <2> QED
    BY <1>2, <1>4, <1>5, SetInduction
<1> QED
  BY <1>1, <1>2, <1>6

-----------------------------------------------------------------------------
(* A walk and a frontier. *)

\* Expanding a node without a limit meets every node a hop of it leads to: the
\* cut at MaxFanout is a limit.
LEMMA ExpandedAhead ==
  ASSUME docs \in Corpora, NEW q, WalkQuestion(q), NEW w \in Walks(q), NEW c \in Paths(q),
         NEW m, m = Expanded(w, q, c)
  PROVE  /\ m \in Walks(q) /\ w.limits \subseteq m.limits
         /\ \A b, T : m.limits = {} /\ Ahead(q, b, c.hop, w, T) =>
              Ahead(q, b, c.hop, m, T \cup Targets(q, c.node))
<1>1. PICK all : all = Hops(c.node, q.direction)
  OBVIOUS
<1>2. IsFiniteSet(all) /\ \A h \in all : h.node \in NameSet
  BY <1>1, HopsTyped DEF Paths, Rows
<1>3. PICK hops : hops = SetInOrder(all)
  OBVIOUS
<1>4. hops \in Seq(all) /\ Range(hops) = all
  BY <1>2, <1>3, SetInOrderRange
<1>5. PICK some : some = First(hops, MaxFanout)
  OBVIOUS
<1>6. some \in Seq(all) /\ (Len(hops) <= MaxFanout => some = hops)
  BY <1>4, <1>5, FirstRange, QueryAssumption
<1>12. PICK limits : limits = IF Len(hops) > MaxFanout THEN w.limits \cup {"fanout"} ELSE w.limits
  OBVIOUS
<1>7. PICK begun : begun = [w EXCEPT !.expanded = @ + 1, !.limits = limits]
  OBVIOUS
<1>8. \/ w.limits \cap {"nodes", "time"} # {} /\ m = w
      \/ m = [w EXCEPT !.limits = @ \cup {"time"}]
      \/ m = AlongHops(begun, q, c, some)[Len(some)]
  BY <1>1, <1>3, <1>5, <1>7, <1>12 DEF Expanded
<1>9. CASE w.limits \cap {"nodes", "time"} # {} /\ m = w
  BY <1>9
<1>10. CASE m = [w EXCEPT !.limits = @ \cup {"time"}]
  BY <1>10 DEF Walks
<1>11. CASE m = AlongHops(begun, q, c, some)[Len(some)]
  <2>1. Len(hops) \in Nat
    BY <1>4
  <2>2. /\ begun \in Walks(q) /\ w.limits \subseteq begun.limits
        /\ begun.limits = {} => ~(Len(hops) > MaxFanout)
        /\ begun.visited = w.visited /\ begun.chains = w.chains /\ begun.next = w.next
        /\ begun.halted = w.halted
    <3>1. /\ limits \in SUBSET {"nodes", "time", "fanout"} /\ w.limits \subseteq limits
          /\ limits = {} => ~(Len(hops) > MaxFanout)
      BY <1>12 DEF Walks
    <3>2. /\ begun \in Walks(q) /\ begun.limits = limits
          /\ begun.visited = w.visited /\ begun.chains = w.chains /\ begun.next = w.next
          /\ begun.halted = w.halted
      <4>1. PICK n \in Nat : n = w.expanded + 1
        BY DEF Walks
      <4>2. begun = [w EXCEPT !.expanded = n, !.limits = limits]
        BY <1>7, <4>1
      <4> QED
        BY <3>1, <4>2 DEF Walks
    <3> QED
      BY <3>1, <3>2
  <2>3. some \in Seq(Hops(c.node, q.direction))
    BY <1>1, <1>6
  <2>4. /\ m \in Walks(q) /\ begun.limits \subseteq m.limits
        /\ \A b, T : m.limits = {} /\ Ahead(q, b, c.hop, begun, T) =>
             Ahead(q, b, c.hop, m, T \cup MetBy(q, c.node, some, Len(some)))
    BY <1>11, <2>2, <2>3, HopsAhead
  <2>5. ASSUME NEW b, NEW T, m.limits = {}, Ahead(q, b, c.hop, w, T)
        PROVE  Ahead(q, b, c.hop, m, T \cup Targets(q, c.node))
    <3>1. Ahead(q, b, c.hop, begun, T)
      BY <2>2, <2>5 DEF Ahead, NodesAt
    <3>2. some = hops
      BY <1>6, <2>1, <2>2, <2>4, <2>5, QueryAssumption
    <3>3. MetBy(q, c.node, some, Len(some)) = Targets(q, c.node)
      <4>1. \A h : h \in all <=> \E j \in 1 .. Len(some) : h = some[j]
        BY <1>4, <3>2 DEF Range
      <4>2. \A h : h \in Permitted(q, c.node) => h \in all
        BY <1>1 DEF Permitted
      <4>3. \A x : x \in MetBy(q, c.node, some, Len(some)) <=>
                     \E j \in 1 .. Len(some) : x \in Met(q, c.node, some[j])
        BY DEF MetBy
      <4>4. \A x, h : x \in Met(q, c.node, h) <=> h \in Permitted(q, c.node) /\ x = h.node
        BY DEF Met
      <4>5. \A x : x \in Targets(q, c.node) <=> \E h \in Permitted(q, c.node) : x = h.node
        BY DEF Targets
      <4>6. ASSUME NEW x \in MetBy(q, c.node, some, Len(some)) PROVE x \in Targets(q, c.node)
        <5>1. PICK j \in 1 .. Len(some) : x \in Met(q, c.node, some[j])
          BY <4>3
        <5> QED
          BY <4>4, <4>5, <5>1
      <4>7. ASSUME NEW x \in Targets(q, c.node) PROVE x \in MetBy(q, c.node, some, Len(some))
        <5>1. PICK h \in Permitted(q, c.node) : x = h.node
          BY <4>5
        <5>2. PICK j \in 1 .. Len(some) : h = some[j]
          BY <4>1, <4>2, <5>1
        <5>3. x \in Met(q, c.node, some[j])
          BY <4>4, <5>1, <5>2
        <5> QED
          BY <4>3, <5>3
      <4> QED
        BY <4>6, <4>7
    <3> QED
      BY <2>4, <2>5, <3>1, <3>3
  <2> QED
    BY <2>2, <2>4, <2>5
<1> QED
  BY <1>8, <1>9, <1>10, <1>11

\* The nodes a walk has met by the i-th item of a frontier.
MetFrom(q, items, i) == UNION {Targets(q, items[j].node) : j \in 1 .. i}

\* Expanding a frontier meets every node that a hop of one of its nodes leads to.
LEMMA ItemsAhead ==
  ASSUME docs \in Corpora, NEW q, WalkQuestion(q), NEW w \in Walks(q),
         NEW items \in Seq(Paths(q)), NEW m, m = AlongItems(w, q, items)[Len(items)]
  PROVE  /\ m \in Walks(q) /\ w.limits \subseteq m.limits
         /\ \A b, k : m.limits = {} /\ (\A c \in Range(items) : c.hop = k) /\ Ahead(q, b, k, w, {})
              => Ahead(q, b, k, m, MetFrom(q, items, Len(items)))
<1>1. PICK g : g = AlongItems(w, q, items)
  OBVIOUS
<1>2. PICK top : top = Len(items) /\ top \in Nat
  OBVIOUS
<1>3. g[0] = w /\ \A i \in 1 .. top : g[i] = Expanded(g[i - 1], q, items[i])
  <2>1. /\ g[0] = w
        /\ \A i \in 1 .. top : g[i] = ItemStage(g, i, w, q, items)
    BY <1>1, <1>2, ItemsDefined
  <2> QED
    BY <2>1 DEF ItemStage
<1> DEFINE Even(k) == \A c \in Range(items) : c.hop = k
           S == {i \in Nat : i <= top =>
                  /\ g[i] \in Walks(q) /\ w.limits \subseteq g[i].limits
                  /\ \A b, k : g[i].limits = {} /\ Even(k) /\ Ahead(q, b, k, w, {}) =>
                       Ahead(q, b, k, g[i], MetFrom(q, items, i))}
<1>4. 0 \in S
  <2>1. MetFrom(q, items, 0) = {}
    BY DEF MetFrom
  <2> QED
    BY <1>3, <2>1
<1>5. ASSUME NEW i \in Nat, i \in S PROVE i + 1 \in S
  <2>1. SUFFICES ASSUME i + 1 <= top
        PROVE  /\ g[i + 1] \in Walks(q) /\ w.limits \subseteq g[i + 1].limits
               /\ \A b, k : g[i + 1].limits = {} /\ Even(k) /\ Ahead(q, b, k, w, {}) =>
                    Ahead(q, b, k, g[i + 1], MetFrom(q, items, i + 1))
    OBVIOUS
  <2>2. /\ g[i] \in Walks(q) /\ w.limits \subseteq g[i].limits
        /\ \A b, k : g[i].limits = {} /\ Even(k) /\ Ahead(q, b, k, w, {}) =>
             Ahead(q, b, k, g[i], MetFrom(q, items, i))
    BY <1>2, <1>5, <2>1
  <2>3. i + 1 \in 1 .. top /\ (i + 1) - 1 = i
    BY <1>2, <2>1
  <2>4. PICK before \in Walks(q) : before = g[i]
    BY <2>2
  <2>5. PICK c \in Paths(q) : c = items[i + 1] /\ c \in Range(items)
    BY <1>2, <2>3 DEF Range
  <2>6. PICK after : after = Expanded(before, q, c)
    OBVIOUS
  <2>7. g[i + 1] = after
    BY <1>3, <2>3, <2>4, <2>5, <2>6
  <2>8. /\ after \in Walks(q) /\ before.limits \subseteq after.limits
        /\ \A b, T : after.limits = {} /\ Ahead(q, b, c.hop, before, T) =>
             Ahead(q, b, c.hop, after, T \cup Targets(q, c.node))
    BY <2>4, <2>6, ExpandedAhead
  <2>9. ASSUME NEW b, NEW k, after.limits = {}, Even(k), Ahead(q, b, k, w, {})
        PROVE  Ahead(q, b, k, after, MetFrom(q, items, i + 1))
    <3>1. Ahead(q, b, k, before, MetFrom(q, items, i)) /\ c.hop = k
      BY <2>2, <2>4, <2>5, <2>8, <2>9
    <3>2. Ahead(q, b, k, after, MetFrom(q, items, i) \cup Targets(q, c.node))
      BY <2>8, <2>9, <3>1
    <3>3. \A j : j \in 1 .. i + 1 <=> j \in 1 .. i \/ j = i + 1
      OBVIOUS
    <3>4. MetFrom(q, items, i + 1) = MetFrom(q, items, i) \cup Targets(q, c.node)
      BY <2>5, <3>3 DEF MetFrom
    <3> QED
      BY <3>2, <3>4
  <2>10. /\ after \in Walks(q) /\ w.limits \subseteq after.limits
    BY <2>2, <2>4, <2>8
  <2> HIDE DEF Even
  <2> QED
    BY <2>7, <2>9, <2>10
<1>6. top \in S
  <2> HIDE DEF S
  <2> QED
    BY <1>2, <1>4, <1>5, SetInduction
<1> QED
  BY <1>1, <1>2, <1>6

-----------------------------------------------------------------------------
(* A walk, level by level. *)

\* The nodes a walk goes on from at a distance.
Frontier(q, k) ==
  IF k = 0 THEN {q.anchor}
  ELSE {n \in Within(q)[k] \ Within(q)[k - 1] : ~StoppedAt(q, n)}

\* The nodes that permitted hops from a set of nodes lead to.
Outward(q, S) == UNION {Targets(q, n) : n \in S}

\* A walk after k levels.
Walked(q, k, w) ==
  /\ w \in Walks(q)
  /\ w.limits = {} =>
       /\ w.visited = Within(q)[k]
       /\ NodesOf(w.next) = Frontier(q, k)
       /\ \A c \in Range(w.next) : c.hop = k
       /\ w.halted \subseteq w.visited
       /\ \A j \in Nat : j > k => NodesAt(w, j) = {}
       /\ \A j \in 1 .. k : NodesAt(w, j) = Within(q)[j] \ Within(q)[j - 1]

\* Of a set of nodes, those that hops are taken from.
Going(q, S) == {n \in S : n = q.anchor \/ ~StoppedAt(q, n)}

\* The nodes within one more hop are those and the nodes hops from them lead to.
LEMMA WithinGrows ==
  ASSUME NEW q, q.depth \in Nat
  PROVE  /\ Within(q)[0] = {q.anchor}
         /\ \A k \in 1 .. q.depth :
              Within(q)[k] = Within(q)[k - 1] \cup Outward(q, Going(q, Within(q)[k - 1]))
<1>1. \A S : Outward(q, S) = UNION {{h.node : h \in Permitted(q, n)} : n \in S}
  BY DEF Outward, Targets
<1>2. ASSUME NEW k \in 1 .. q.depth
      PROVE  Within(q)[k] = Within(q)[k - 1] \cup Outward(q, Going(q, Within(q)[k - 1]))
  <2>1. PICK before : before = Within(q)[k - 1]
    OBVIOUS
  <2>2. Within(q)[k] = WithinStage(Within(q), k, q)
    BY WithinDefined
  <2>3. PICK going : going = {n \in before : n = q.anchor \/ NamesOf(n) \cap q.stops = {}}
    OBVIOUS
  <2>4. Within(q)[k] = before \cup UNION {{h.node : h \in Permitted(q, n)} : n \in going}
    BY <2>1, <2>2, <2>3 DEF WithinStage
  <2>5. going = Going(q, before)
    BY <2>3 DEF StoppedAt, Going
  <2> QED
    BY <1>1, <2>1, <2>4, <2>5
<1>3. Within(q)[0] = {q.anchor}
  BY WithinDefined
<1> QED
  BY <1>2, <1>3

\* The anchor is within any number of hops.
LEMMA AnchorWithin ==
  ASSUME NEW q, q.depth \in Nat, NEW k \in 0 .. q.depth
  PROVE  q.anchor \in Within(q)[k]
<1> DEFINE S == {i \in Nat : i <= q.depth => q.anchor \in Within(q)[i]}
<1>1. 0 \in S
  BY WithinGrows
<1>2. ASSUME NEW i \in Nat, i \in S PROVE i + 1 \in S
  <2> SUFFICES ASSUME i + 1 <= q.depth PROVE q.anchor \in Within(q)[i + 1]
    OBVIOUS
  <2>1. i + 1 \in 1 .. q.depth /\ (i + 1) - 1 = i
    OBVIOUS
  <2>2. q.anchor \in Within(q)[i]
    BY <1>2
  <2> QED
    <3>1. Within(q)[i + 1] = Within(q)[i] \cup Outward(q, Going(q, Within(q)[i]))
      BY <2>1, WithinGrows
    <3> QED
      BY <2>2, <3>1
<1>3. k \in S
  <2> HIDE DEF S
  <2> QED
    BY <1>1, <1>2, SetInduction
<1> QED
  BY <1>3

\* The frontier is enough: what earlier nodes lead to is within already.
LEMMA FrontierLeads ==
  ASSUME NEW q, q.depth \in Nat, NEW k \in Nat, k + 1 <= q.depth
  PROVE  Within(q)[k + 1] = Within(q)[k] \cup Outward(q, Frontier(q, k))
<1>1. PICK here : here = Within(q)[k]
  OBVIOUS
<1>2. k + 1 \in 1 .. q.depth /\ (k + 1) - 1 = k /\ k \in 0 .. q.depth
  OBVIOUS
<1>3. Within(q)[k + 1] = here \cup Outward(q, Going(q, here))
  BY <1>1, <1>2, WithinGrows
<1>4. q.anchor \in here
  BY <1>1, <1>2, AnchorWithin
<1>5. CASE k = 0
  <2>1. here = {q.anchor}
    BY <1>1, <1>5, WithinGrows
  <2>2. Frontier(q, k) = Going(q, here)
    BY <1>4, <1>5, <2>1 DEF Frontier, Going
  <2> QED
    BY <1>1, <1>3, <2>2
<1>6. CASE k # 0
  <2>1. PICK before : before = Within(q)[k - 1]
    OBVIOUS
  <2>2. k \in 1 .. q.depth /\ k - 1 \in 0 .. q.depth
    BY <1>6
  <2>3. here = before \cup Outward(q, Going(q, before)) /\ q.anchor \in before
    BY <1>1, <2>1, <2>2, WithinGrows, AnchorWithin
  <2>4. Frontier(q, k) = {n \in here \ before : ~StoppedAt(q, n)}
    BY <1>1, <1>6, <2>1 DEF Frontier
  <2>5. Going(q, here) = Going(q, before) \cup Frontier(q, k)
    BY <2>3, <2>4 DEF Going
  <2>6. \A S, T : Outward(q, S \cup T) = Outward(q, S) \cup Outward(q, T)
    BY DEF Outward
  <2>7. Outward(q, Going(q, here)) = Outward(q, Going(q, before)) \cup Outward(q, Frontier(q, k))
    BY <2>5, <2>6
  <2> QED
    BY <1>1, <1>3, <2>3, <2>7
<1> QED
  BY <1>5, <1>6

\* One level of a walk reaches one hop further.
LEMMA LevelWalked ==
  ASSUME docs \in Corpora, NEW q, WalkQuestion(q), NEW k \in Nat, k + 1 <= q.depth,
         NEW w, Walked(q, k, w)
  PROVE  Walked(q, k + 1, NextLevel(w, q))
<1>1. PICK items : items = ByName(w.next)
  OBVIOUS
<1>2. PICK b : b = [w EXCEPT !.next = <<>>]
  OBVIOUS
<1>3. PICK done : done = AlongItems(b, q, items)[Len(items)]
  OBVIOUS
<1>4. PICK after : after = [done EXCEPT !.visited = @ \cup NodesOf(done.next) \cup done.halted]
  OBVIOUS
<1>5. NextLevel(w, q) = after
  BY <1>1, <1>2, <1>3, <1>4 DEF NextLevel, Closed, NodesOf
<1>6. w \in Walks(q) /\ w.next \in Seq(Paths(q))
  BY DEF Walked, Walks
<1>7. items \in Seq(Paths(q)) /\ Range(items) = Range(w.next)
  <2>1. \A x \in Range(w.next) : x.node \in NameSet
    BY <1>6 DEF Range, Paths, Rows
  <2> QED
    BY <1>1, <1>6, <2>1, ByNameRange
<1>8. /\ b \in Walks(q) /\ b.limits = w.limits /\ b.visited = w.visited /\ b.chains = w.chains
      /\ b.halted = w.halted /\ b.next = <<>>
  <2>1. <<>> \in Seq(Paths(q))
    BY EmptySeq
  <2> QED
    BY <1>2, <1>6, <2>1 DEF Walks
<1>9. /\ done \in Walks(q) /\ b.limits \subseteq done.limits
      /\ done.limits = {} /\ (\A c \in Range(items) : c.hop = k) /\ Ahead(q, b, k, b, {})
           => Ahead(q, b, k, done, MetFrom(q, items, Len(items)))
  BY <1>3, <1>7, <1>8, ItemsAhead
<1>10. NodesOf(done.next) \subseteq NameSet
  BY <1>9 DEF Walks, NodesOf, Range, Paths, Rows
<1>11. /\ after \in Walks(q) /\ after.limits = done.limits /\ after.chains = done.chains
       /\ after.next = done.next /\ after.halted = done.halted
       /\ after.visited = done.visited \cup NodesOf(done.next) \cup done.halted
  BY <1>4, <1>9, <1>10 DEF Walks
<1>12. ASSUME after.limits = {}
       PROVE  /\ after.visited = Within(q)[k + 1]
              /\ NodesOf(after.next) = Frontier(q, k + 1)
              /\ \A c \in Range(after.next) : c.hop = k + 1
              /\ after.halted \subseteq after.visited
              /\ \A j \in Nat : j > k + 1 => NodesAt(after, j) = {}
              /\ \A j \in 1 .. k + 1 : NodesAt(after, j) = Within(q)[j] \ Within(q)[j - 1]
  <2>1. PICK here : here = Within(q)[k]
    OBVIOUS
  <2>2. PICK met : met = Outward(q, Frontier(q, k))
    OBVIOUS
  <2>3. w.limits = {} /\ done.limits = {}
    BY <1>8, <1>9, <1>11, <1>12
  <2>4. /\ w.visited = here
        /\ NodesOf(w.next) = Frontier(q, k)
        /\ \A c \in Range(w.next) : c.hop = k
        /\ w.halted \subseteq here
        /\ \A j \in Nat : j > k => NodesAt(w, j) = {}
        /\ \A j \in 1 .. k : NodesAt(w, j) = Within(q)[j] \ Within(q)[j - 1]
    BY <2>1, <2>3 DEF Walked
  <2>5. \A j \in Nat : NodesAt(b, j) = NodesAt(w, j)
    BY <1>8 DEF NodesAt
  <2>6. Ahead(q, b, k, b, {})
    <3>1. NodesAt(b, k + 1) = {}
      BY <2>4, <2>5
    <3>2. Range(b.next) = {} /\ NodesOf(b.next) = {}
      BY <1>8 DEF NodesOf, Range
    <3> QED
      BY <3>1, <3>2 DEF Ahead
  <2>7. MetFrom(q, items, Len(items)) = met
    <3>1. \A n : n \in Frontier(q, k) <=> \E j \in 1 .. Len(items) : n = items[j].node
      <4>1. \A n : n \in Frontier(q, k) <=> \E x \in Range(items) : n = x.node
        BY <1>7, <2>4 DEF NodesOf
      <4>2. \A x : x \in Range(items) <=> \E j \in 1 .. Len(items) : x = items[j]
        BY <1>7 DEF Range
      <4> QED
        BY <4>1, <4>2
    <3>2. \A x : x \in met <=> \E n \in Frontier(q, k) : x \in Targets(q, n)
      BY <2>2 DEF Outward
    <3>3. \A x : x \in MetFrom(q, items, Len(items)) <=>
                   \E j \in 1 .. Len(items) : x \in Targets(q, items[j].node)
      BY DEF MetFrom
    <3> QED
      BY <3>1, <3>2, <3>3
  <2>8. Ahead(q, b, k, done, met)
    BY <1>7, <1>9, <2>3, <2>4, <2>6, <2>7
  <2>9. Within(q)[k + 1] = here \cup met
    BY <2>1, <2>2, FrontierLeads DEF WalkQuestion
  <2>10. /\ done.visited = here
         /\ \A j \in Nat : NodesAt(done, j) = IF j = k + 1 THEN met \ here ELSE NodesAt(w, j)
         /\ NodesOf(done.next) = {n \in met \ here : ~StoppedAt(q, n)}
         /\ done.halted = w.halted \cup {n \in met \ here : StoppedAt(q, n)}
         /\ \A c \in Range(done.next) : c.hop = k + 1
    BY <1>8, <2>4, <2>5, <2>8 DEF Ahead
  <2>11. after.visited = here \cup met
    BY <1>11, <2>4, <2>10
  <2>12. Frontier(q, k + 1) = {n \in met \ here : ~StoppedAt(q, n)}
    <3>1. (k + 1) - 1 = k /\ k + 1 # 0
      OBVIOUS
    <3> QED
      BY <2>1, <2>9, <3>1 DEF Frontier
  <2>13. \A j \in Nat : NodesAt(after, j) = NodesAt(done, j)
    BY <1>11 DEF NodesAt
  <2>14. ASSUME NEW j \in 1 .. k + 1
         PROVE  NodesAt(after, j) = Within(q)[j] \ Within(q)[j - 1]
    <3>1. CASE j = k + 1
      <4>1. j - 1 = k
        BY <3>1
      <4>2. NodesAt(after, j) = met \ here
        BY <2>10, <2>13, <3>1
      <4> QED
        BY <2>1, <2>9, <3>1, <4>1, <4>2
    <3>2. CASE j # k + 1
      <4>1. j \in 1 .. k
        BY <3>2
      <4> QED
        BY <2>4, <2>10, <2>13, <3>2, <4>1
    <3> QED
      BY <3>1, <3>2
  <2>15. ASSUME NEW j \in Nat, j > k + 1 PROVE NodesAt(after, j) = {}
    BY <2>4, <2>10, <2>13, <2>15
  <2>16. after.halted \subseteq after.visited
    BY <1>11
  <2> QED
    BY <1>11, <2>9, <2>10, <2>11, <2>12, <2>14, <2>15, <2>16
<1> QED
  BY <1>5, <1>11, <1>12 DEF Walked

\* A walk of as many levels as it was asked for reaches as far.
LEMMA WalkWalked ==
  ASSUME docs \in Corpora, NEW q, WalkQuestion(q)
  PROVE  Walked(q, q.depth, Walk(q)[q.depth])
<1>1. PICK g : g = Walk(q)
  OBVIOUS
<1>2. PICK top \in Nat : top = q.depth
  BY DEF WalkQuestion
<1>3. g[0] = Outset(q) /\ \A i \in 1 .. top : g[i] = NextLevel(g[i - 1], q)
  <2>1. g[0] = Outset(q) /\ \A i \in 1 .. top : g[i] = LevelStage(g, i, q)
    BY <1>1, <1>2, WalkDefined
  <2> QED
    BY <2>1 DEF LevelStage
<1> DEFINE S == {i \in Nat : i <= top => Walked(q, i, g[i])}
<1>4. 0 \in S
  <2>1. PICK w : w = Outset(q)
    OBVIOUS
  <2>2. w \in Walks(q)
    BY <2>1, StartTyped
  <2>3. PICK c : c = [node |-> q.anchor, hop |-> 0, path |-> <<>>, exact |-> TRUE]
    OBVIOUS
  <2>4. /\ w.visited = {q.anchor} /\ w.halted = {} /\ w.chains = <<>> /\ w.next = <<c>>
    BY <2>1, <2>3 DEF Outset
  <2>5. Range(w.next) = {c} /\ Range(w.chains) = {}
    BY <2>4 DEF Range
  <2>6. NodesOf(w.next) = {q.anchor} /\ \A j : NodesAt(w, j) = {}
    BY <2>3, <2>5 DEF NodesOf, NodesAt
  <2>7. Frontier(q, 0) = {q.anchor} /\ Within(q)[0] = {q.anchor}
    BY WithinGrows DEF Frontier, WalkQuestion
  <2>8. \A x \in Range(w.next) : x.hop = 0
    BY <2>3, <2>5
  <2>9. Walked(q, 0, w)
    <3>1. \A j \in 1 .. 0 : FALSE
      OBVIOUS
    <3> QED
      BY <2>2, <2>4, <2>6, <2>7, <2>8, <3>1 DEF Walked
  <2> QED
    BY <1>3, <2>1, <2>9
<1>5. ASSUME NEW i \in Nat, i \in S PROVE i + 1 \in S
  <2> SUFFICES ASSUME i + 1 <= top PROVE Walked(q, i + 1, g[i + 1])
    OBVIOUS
  <2>1. i + 1 \in 1 .. top /\ (i + 1) - 1 = i /\ i <= top
    OBVIOUS
  <2>2. PICK w : w = g[i] /\ Walked(q, i, w)
    BY <1>5, <2>1
  <2>3. g[i + 1] = NextLevel(w, q)
    BY <1>3, <2>1, <2>2
  <2> QED
    BY <1>2, <2>2, <2>3, LevelWalked
<1>6. top \in S
  <2> HIDE DEF S
  <2> QED
    BY <1>4, <1>5, SetInduction
<1> QED
  BY <1>1, <1>2, <1>6

-----------------------------------------------------------------------------
(* What traverse returns. *)

\* What traverse returns are the chains of its walk that took a hop.
LEMMA TraverseRows ==
  ASSUME docs \in Corpora, NEW q, WalkQuestion(q)
  PROVE  /\ Traverse(q).nodes \in Seq(Paths(q))
         /\ \A c : c \in Range(Traverse(q).nodes) <=>
              c \in Range(Walk(q)[q.depth].chains) /\ c.hop \in 1 .. q.depth
         /\ Traverse(q).limits = Walk(q)[q.depth].limits
         /\ Traverse(q).excluded \subseteq {"heuristic", "lifecycle"}
<1>1. PICK walk : walk = Walk(q)[q.depth]
  OBVIOUS
<1>2. walk \in Walks(q)
  BY <1>1, WalkWalked DEF Walked
<1>3. walk.chains \in Seq(Paths(q)) /\ walk.excluded \subseteq {"heuristic", "lifecycle"}
  BY <1>2 DEF Walks
<1>4. PICK top \in Nat : top = q.depth
  BY DEF WalkQuestion
<1> DEFINE At(h) == {c \in Range(walk.chains) : c.hop = h}
           p == [h \in 1 .. top |-> ByName(Kept(walk.chains, At(h)))]
<1>5. ASSUME NEW h \in 1 .. top
      PROVE  p[h] \in Seq(Paths(q)) /\ Range(p[h]) = At(h)
  <2>1. PICK kept : kept = Kept(walk.chains, At(h))
    OBVIOUS
  <2>2. kept \in Seq(Paths(q)) /\ Range(kept) = At(h)
    BY <1>3, <2>1, KeptRange
  <2>3. \A x \in Range(kept) : x.node \in NameSet
    BY <2>2 DEF Range, Paths, Rows
  <2>4. ByName(kept) \in Seq(Paths(q)) /\ Range(ByName(kept)) = Range(kept)
    BY <2>2, <2>3, ByNameRange
  <2>5. p[h] = ByName(kept)
    BY <2>1
  <2> QED
    BY <2>2, <2>4, <2>5
<1>6. p \in [1 .. top -> Seq(Paths(q))]
  BY <1>5
<1>7. /\ FlattenSeq(p) \in Seq(Paths(q))
      /\ \A c : c \in Range(FlattenSeq(p)) <=> \E h \in 1 .. top : c \in Range(p[h])
  <2> HIDE DEF p
  <2> QED
    BY <1>6, FlattenRange
<1>8. /\ Traverse(q).nodes = FlattenSeq(p) /\ Traverse(q).limits = walk.limits
      /\ Traverse(q).excluded = walk.excluded
  BY <1>1, <1>4 DEF Traverse, Outcome
<1>9. \A c : (\E h \in 1 .. top : c \in Range(p[h])) <=> c \in Range(walk.chains) /\ c.hop \in 1 .. top
  <2> HIDE DEF p
  <2> QED
    BY <1>5
<1> HIDE DEF p, At
<1> QED
  BY <1>1, <1>3, <1>4, <1>7, <1>8, <1>9

\* What traverse returns says of the graph what Reaches says.
LEMMA TraverseReaches ==
  ASSUME docs \in Corpora, NEW q, WalkQuestion(q)
  PROVE  Reaches(q, Traverse(q))
<1>1. PICK walk : walk = Walk(q)[q.depth]
  OBVIOUS
<1>2. Walked(q, q.depth, walk)
  BY <1>1, WalkWalked
<1>3. PICK rows : rows = Range(Traverse(q).nodes)
  OBVIOUS
<1>4. \A c : c \in rows <=> c \in Range(walk.chains) /\ c.hop \in 1 .. q.depth
  BY <1>1, <1>3, TraverseRows
<1>5. Traverse(q).limits = walk.limits
  BY <1>1, TraverseRows
<1>6. ASSUME walk.limits = {}, NEW k \in 1 .. q.depth
      PROVE  {c.node : c \in {r \in rows : r.hop = k}} = Within(q)[k] \ Within(q)[k - 1]
  <2>1. NodesAt(walk, k) = Within(q)[k] \ Within(q)[k - 1]
    BY <1>2, <1>6 DEF Walked
  <2>2. {r \in rows : r.hop = k} = {x \in Range(walk.chains) : x.hop = k}
    BY <1>4
  <2> QED
    BY <2>1, <2>2 DEF NodesAt
<1>7. ASSUME NEW c \in rows
      PROVE  /\ Len(c.path) = c.hop /\ c.path[c.hop].node = c.node
             /\ \A i \in 1 .. c.hop :
                  c.path[i] \in Permitted(q, IF i = 1 THEN q.anchor ELSE c.path[i - 1].node)
             /\ c.exact <=> \A i \in 1 .. c.hop : c.path[i].exact
  <2>1. c \in Paths(q)
    BY <1>3, TraverseRows DEF Range
  <2>2. c.hop # 0
    BY <1>4
  <2> QED
    BY <2>1, <2>2 DEF Paths, IsPath, StepFrom
<1> QED
  BY <1>3, <1>5, <1>6, <1>7 DEF Reaches

\* What a query reads, typed.
QueryDocs ==
  /\ docs \in Corpora
  /\ file \in [Entries -> {"asProjected", "changed"}]
  /\ source \in [Entries -> {"asApproved", "changed", "missing"}]

\* The walk of a question is asked for as traverse expects it.
LEMMA WalkOfQuestion ==
  ASSUME NEW q, q.anchor \in NameSet, q.heuristic \in BOOLEAN, NEW depth \in Nat
  PROVE  WalkQuestion(WalkOf(q, depth))
  BY DEF WalkQuestion, WalkOf

\* The walk of an impact answer reaches what it was asked for.
LEMMA ImpactReaches ==
  ASSUME QueryDocs, NEW q \in Impacts
  PROVE  Impact(q).surface = "impact" /\ Reaches(WalkAsked(Impact(q)), Impact(q).walk)
<1>1. PICK depth : depth = IF q.depth > 2 THEN 2 ELSE q.depth
  OBVIOUS
<1>2. q.depth \in Nat /\ q.anchor \in NameSet /\ q.heuristic \in BOOLEAN
  BY QueryAssumption DEF Asked, Walkable
<1>3. depth \in Nat
  BY <1>1, <1>2
<1>4. /\ Impact(q).surface = "impact" /\ Impact(q).query = q
      /\ Impact(q).walk = Traverse(WalkOf(q, depth))
  BY <1>1 DEF Impact
<1>5. WalkAsked(Impact(q)) = WalkOf(q, depth)
  BY <1>1, <1>4 DEF WalkAsked
<1>6. Reaches(WalkOf(q, depth), Traverse(WalkOf(q, depth)))
  BY <1>2, <1>3, WalkOfQuestion, TraverseReaches DEF QueryDocs
<1> QED
  BY <1>4, <1>5, <1>6

-----------------------------------------------------------------------------
(* Anchors, and lists that are cut. *)

\* What a name resolves to is an entry, and an entry resolves to itself.
LEMMA AnchorTyped ==
  ASSUME docs \in Corpora, NEW n
  PROVE  /\ Anchor(n) # Absent => Anchor(n) \in DOMAIN docs
         /\ \A d \in DOMAIN docs : Anchor(d) = d /\ d # Absent
<1>1. Named(n) \subseteq DOMAIN docs
  BY DEF Named
<1>2. \A d \in DOMAIN docs : d # Absent
  BY DocsTyped, QueryAssumption
<1>3. ASSUME Cardinality(Named(n)) = 1 PROVE (CHOOSE d \in Named(n) : TRUE) \in DOMAIN docs
  <2>1. IsFiniteSet(Named(n))
    BY <1>1, DocsTyped, FS_Subset
  <2>2. PICK d : d \in Named(n)
    BY <1>3, <2>1, FS_Singleton
  <2> QED
    BY <1>1, <2>2
<1> QED
  BY <1>2, <1>3 DEF Anchor

\* Gaps that are not about the anchor of an answer.
PlainGaps == {"entry", "heuristic", "lifecycle", "opted-in", "unresolved", "limits", "cap", "depth"}

\* Gaps that are about the anchor of an answer.
ToldGaps == {"anchor-lane", "anchor-entry", "anchor-drift", "anchor-integrity",
             "anchor-ambiguous", "anchor-no-entry"}

\* The gaps about rows, lanes and limits are not about the anchor.
LEMMA PlainParts ==
  /\ \A S : EntryGaps(S) \subseteq PlainGaps
  /\ \A q, rows : Excluded(q, rows) \subseteq PlainGaps
  /\ \A rows, top : OptedIn(rows, top) \subseteq PlainGaps /\ CapGaps(rows, top) \subseteq PlainGaps
  /\ \A nodes : LaneGaps(nodes) \subseteq PlainGaps
<1>1. \A S : EntryGaps(S) \subseteq PlainGaps
  BY DEF PlainGaps, EntryGaps
<1>2. \A q, rows : Excluded(q, rows) \subseteq PlainGaps
  BY DEF PlainGaps, Excluded
<1>3. \A rows, top : OptedIn(rows, top) \subseteq PlainGaps
  BY DEF PlainGaps, OptedIn
<1>4. \A rows, top : CapGaps(rows, top) \subseteq PlainGaps
  BY DEF PlainGaps, CapGaps
<1>5. \A nodes : LaneGaps(nodes) \subseteq PlainGaps
  BY DEF PlainGaps, LaneGaps
<1> QED
  BY <1>1, <1>2, <1>3, <1>4, <1>5

\* verify_anchor reports nothing exactly of an entry that may be served as it is.
LEMMA AnchorGapsTell ==
  ASSUME QueryDocs, NEW d \in DOMAIN docs, NEW states
  PROVE  /\ AnchorGaps(d, states) \subseteq ToldGaps
         /\ AnchorGaps(d, states) = {} <=>
              /\ docs[d].lane \in states
              /\ file[d] = "asProjected"
              /\ Effective(d) => source[d] = "asApproved"
<1>1. d \in Entries
  BY DocsTyped DEF QueryDocs
<1>2. source[d] \in {"asApproved", "changed", "missing"}
  BY <1>1 DEF QueryDocs
<1>3. Rechecked(d) <=> file[d] = "asProjected" /\ Effective(d)
  BY DEF Rechecked
<1>4. AnchorGaps(d, states) \subseteq ToldGaps
  BY DEF AnchorGaps, ToldGaps
<1>5. AnchorGaps(d, states) = {} <=>
         /\ docs[d].lane \in states /\ file[d] = "asProjected"
         /\ ~(Rechecked(d) /\ source[d] = "changed") /\ ~(Rechecked(d) /\ source[d] = "missing")
  BY DEF AnchorGaps
<1> QED
  BY <1>2, <1>3, <1>4, <1>5

\* An answer with the gaps of verify_anchor, and others that are not about the
\* anchor, is silent about it exactly if it may be.
LEMMA ToldOf ==
  ASSUME QueryDocs, NEW a, NEW plain \in SUBSET PlainGaps, NEW d \in DOMAIN docs,
         Anchor(a.query.anchor) = d,
         a.gaps = plain \cup AnchorGaps(d, a.query.states)
  PROVE  AnchorTold(a)
<1>1. PICK told : told = a.gaps \cap ToldGaps
  OBVIOUS
<1>2. PICK own : own = AnchorGaps(d, a.query.states)
  OBVIOUS
<1>3. own \subseteq ToldGaps /\ d # Absent
  BY <1>2, AnchorGapsTell, AnchorTyped DEF QueryDocs
<1>4. plain \cap ToldGaps = {}
  BY DEF PlainGaps, ToldGaps
<1>5. told = own
  BY <1>1, <1>2, <1>3, <1>4
<1>6. told = {} <=> /\ d # Absent
                    /\ docs[d].lane \in a.query.states
                    /\ file[d] = "asProjected"
                    /\ Effective(d) => source[d] = "asApproved"
  BY <1>2, <1>3, <1>5, AnchorGapsTell
<1> QED
  BY <1>1, <1>6 DEF AnchorTold, ToldGaps

\* A row of a list that is cut is given, or the list is cut to its length.
LEMMA CutGives ==
  ASSUME NEW rows, IsFiniteSet(rows), \A r \in rows : r.node \in NameSet, NEW top \in Nat,
         NEW r \in rows, NEW list,
         list = IF Effective(r.node) THEN Cut(rows, top).current ELSE Cut(rows, top).other
  PROVE  r \in Range(list) \/ (Len(list) = top /\ Cuts(rows, top))
<1> DEFINE in == {x \in rows : Effective(x.node)}
           out == {x \in rows : ~Effective(x.node)}
<1>1. IsFiniteSet(in) /\ IsFiniteSet(out)
  BY FS_Subset
<1>2. /\ Cut(rows, top).current = First(SetInOrder(in), top)
      /\ Cut(rows, top).other = First(SetInOrder(out), top)
  BY DEF Cut
<1>3. /\ SetInOrder(in) \in Seq(in) /\ Range(SetInOrder(in)) = in
      /\ SetInOrder(out) \in Seq(out) /\ Range(SetInOrder(out)) = out
  BY <1>1, SetInOrderRange
<1>4. ASSUME NEW S, NEW s \in Seq(S), Range(s) = S, NEW x \in S
      PROVE  /\ Range(First(s, top)) \subseteq S
             /\ x \in Range(First(s, top)) \/ Len(First(s, top)) = top
  <2>1. Len(s) \in Nat
    OBVIOUS
  <2>2. /\ Range(First(s, top)) \subseteq Range(s)
        /\ Len(First(s, top)) = IF top < Len(s) THEN top ELSE Len(s)
        /\ Len(s) <= top => First(s, top) = s
    BY FirstRange
  <2> QED
    BY <1>4, <2>1, <2>2
<1>5. Range(First(SetInOrder(in), top)) \subseteq in /\ Range(First(SetInOrder(out), top)) \subseteq out
  BY <1>3, FirstRange
<1>6. CASE Effective(r.node)
  <2>1. r \in in /\ r \notin out /\ list = First(SetInOrder(in), top)
    BY <1>2, <1>6
  <2>2. r \in Range(list) \/ Len(list) = top
    BY <1>3, <1>4, <2>1
  <2>3. r \notin Range(list) => Cuts(rows, top)
    BY <1>2, <1>5, <2>1 DEF Cuts
  <2> QED
    BY <2>2, <2>3
<1>7. CASE ~Effective(r.node)
  <2>1. r \in out /\ r \notin in /\ list = First(SetInOrder(out), top)
    BY <1>2, <1>7
  <2>2. r \in Range(list) \/ Len(list) = top
    BY <1>3, <1>4, <2>1
  <2>3. r \notin Range(list) => Cuts(rows, top)
    BY <1>2, <1>5, <2>1 DEF Cuts
  <2> QED
    BY <2>2, <2>3
<1> QED
  BY <1>6, <1>7

\* Finitely many rows point at an entry.
LEMMA PointingTyped ==
  ASSUME docs \in Corpora, NEW d \in DOMAIN docs
  PROVE  /\ IsFiniteSet(Pointing(d))
         /\ \A r \in Pointing(d) : r.node \in DOMAIN docs /\ r.node \in NameSet
<1>1. d \in NameSet /\ DOMAIN docs \subseteq NameSet
  BY DocsTyped
<1> DEFINE all == {IncomingEdges(m) : m \in NamesOf(d)}
           f == [m \in NamesOf(d) |-> IncomingEdges(m)]
<1>2. f \in [NamesOf(d) -> all] /\ \A y \in all : \E x \in NamesOf(d) : f[x] = y
  OBVIOUS
<1>3. \A m \in NamesOf(d) : IsFiniteSet(f[m])
  BY IncomingTyped
<1>4. IsFiniteSet(UNION all)
  <2> HIDE DEF f, all
  <2> QED
    BY <1>1, <1>2, <1>3, NamesOfTyped, UnionFinite
<1> QED
  BY <1>1, <1>4, IncomingTyped DEF Pointing

\* A reference in a lane asked for is among the rows explain and context cut.
LEMMA ReferencesPoint ==
  ASSUME docs \in Corpora, NEW q, q.anchor \in DOMAIN docs, NEW r \in References(q)
  PROVE  r \in Lawful(q, Pointing(q.anchor))
<1>1. PICK d \in DOMAIN docs : /\ docs[d].lane \in q.states
        /\ r \in {[node |-> d, kind |-> e.kind, target |-> e.target, exact |-> e.exact] :
            e \in {f \in docs[d].edges :
                     /\ Fold[f.target] \in {Fold[q.anchor], Fold[FullName[q.anchor]]}
                     /\ f.exact \/ q.heuristic}}
  BY DEF References
<1>2. PICK e \in docs[d].edges :
        /\ Fold[e.target] \in {Fold[q.anchor], Fold[FullName[q.anchor]]}
        /\ e.exact \/ q.heuristic
        /\ r = [node |-> d, kind |-> e.kind, target |-> e.target, exact |-> e.exact]
  BY <1>1
<1>3. PICK m \in NamesOf(q.anchor) : Fold[e.target] = Fold[m]
  BY <1>2 DEF NamesOf
<1>4. r \in IncomingEdges(m)
  BY <1>2, <1>3 DEF IncomingEdges
<1>5. r \in Pointing(q.anchor)
  BY <1>4 DEF Pointing
<1>6. r.node = d /\ (r.exact \/ q.heuristic)
  BY <1>2
<1> QED
  BY <1>1, <1>5, <1>6 DEF Lawful

-----------------------------------------------------------------------------
(* explain. *)

\* Any of these rows are finitely many and named.
LEMMA LawfulTyped ==
  ASSUME docs \in Corpora, NEW q, q.anchor \in DOMAIN docs, NEW rows,
         rows \subseteq Lawful(q, Pointing(q.anchor))
  PROVE  IsFiniteSet(rows) /\ \A r \in rows : r.node \in NameSet
<1>1. rows \subseteq Pointing(q.anchor)
  BY DEF Lawful
<1> QED
  BY <1>1, PointingTyped, FS_Subset

\* explain tells what there is to say of its anchor.
LEMMA ExplainTells ==
  ASSUME QueryDocs, NEW q \in Explains, q.anchor \in DOMAIN docs
  PROVE  /\ Explain(q).surface = "explain" /\ Explain(q).query = q
         /\ "walk" \notin DOMAIN Explain(q)
         /\ AnchorTold(Explain(q))
<1>1. PICK all : all = Pointing(q.anchor)
  OBVIOUS
<1>2. PICK rows : rows = [incoming |-> Lawful(q, all)]
  OBVIOUS
<1>3. PICK parts : parts = {r \in IncomingEdges(FullName[q.anchor]) :
                  r.kind = "belongs-to" /\ r \in Lawful(q, all)}
  OBVIOUS
<1>4. PICK plain : plain = Excluded(q, all) \cup OptedIn(rows, q.top) \cup CapGaps(rows, q.top)
                 \cup (IF Cardinality(parts) > q.top THEN {"cap"} ELSE {})
  OBVIOUS
<1>5. PICK a : a = Explain(q)
  OBVIOUS
<1>6. /\ a.surface = "explain" /\ a.query = q /\ "walk" \notin DOMAIN a
      /\ a.gaps = plain \cup AnchorGaps(q.anchor, q.states)
  BY <1>1, <1>2, <1>3, <1>4, <1>5 DEF Explain
<1>7. plain \in SUBSET PlainGaps
  <2>1. (IF Cardinality(parts) > q.top THEN {"cap"} ELSE {}) \subseteq PlainGaps
    BY DEF PlainGaps
  <2> QED
    BY <1>4, <2>1, PlainParts
<1>8. Anchor(a.query.anchor) = q.anchor
  BY <1>6, AnchorTyped DEF QueryDocs
<1>9. AnchorTold(a)
  BY <1>6, <1>7, <1>8, ToldOf
<1> QED
  BY <1>5, <1>6, <1>9

\* explain gives every reference or says that it cut them.
LEMMA ExplainGives ==
  ASSUME QueryDocs, NEW q \in Explains, q.anchor \in DOMAIN docs, NEW r \in References(q)
  PROVE  Given(Explain(q), r)
<1>1. PICK all : all = Pointing(q.anchor)
  OBVIOUS
<1>2. PICK rows : rows = [incoming |-> Lawful(q, all)]
  OBVIOUS
<1>3. PICK a : a = Explain(q)
  OBVIOUS
<1>4. /\ a.surface = "explain" /\ a.query = q
      /\ a.sections = [s \in DOMAIN rows |-> Cut(rows[s], q.top)]
      /\ CapGaps(rows, q.top) \subseteq a.gaps
  BY <1>1, <1>2, <1>3 DEF Explain
<1>5. PICK given : given = rows["incoming"]
  OBVIOUS
<1>6. given = Lawful(q, all) /\ "incoming" \in DOMAIN rows
  BY <1>2, <1>5
<1>7. r \in given /\ IsFiniteSet(given) /\ \A x \in given : x.node \in NameSet
  BY <1>1, <1>6, ReferencesPoint, LawfulTyped DEF QueryDocs
<1>8. PICK list : list = IF Effective(r.node) THEN a.sections["incoming"].current
                         ELSE a.sections["incoming"].other
  OBVIOUS
<1>9. a.sections["incoming"] = Cut(given, q.top)
  BY <1>4, <1>5, <1>6
<1>10. q.top \in Nat
  BY QueryAssumption DEF Asked
<1>11. r \in Range(list) \/ (Len(list) = q.top /\ Cuts(given, q.top))
  BY <1>7, <1>8, <1>9, <1>10, CutGives
<1>12. Cuts(given, q.top) => "cap" \in a.gaps
  BY <1>4, <1>5, <1>6 DEF CapGaps
<1> QED
  BY <1>3, <1>4, <1>8, <1>11, <1>12 DEF Given

-----------------------------------------------------------------------------
(* context. *)

\* A question about an entry, as context resolves it.
Resolving(q) ==
  /\ q.anchor \in DOMAIN docs /\ q.states \subseteq Lifecycle
  /\ q.heuristic \in BOOLEAN /\ q.top \in Nat

\* What context answers: its sections, its walk, and the gaps of verify_anchor
\* beside gaps that are not about the anchor.
LEMMA ContextParts ==
  ASSUME QueryDocs, NEW q, Resolving(q)
  PROVE  \E plain, rows :
           /\ plain \in SUBSET PlainGaps
           /\ rows = [s \in {"parts", "permissions", "incoming"} |->
                        {r \in Lawful(q, Pointing(q.anchor)) : Section(r) = s}]
           /\ ContextOf(q).surface = "context" /\ ContextOf(q).query = q
           /\ ContextOf(q).walk = Traverse(WalkOf(q, 1))
           /\ ContextOf(q).sections = [s \in DOMAIN rows |-> Cut(rows[s], q.top)]
           /\ ContextOf(q).gaps = plain \cup AnchorGaps(q.anchor, q.states)
           /\ CapGaps(rows, q.top) \subseteq plain
<1>1. PICK all : all = Pointing(q.anchor)
  OBVIOUS
<1>2. PICK rows : rows = [s \in {"parts", "permissions", "incoming"} |->
                 {r \in Lawful(q, all) : Section(r) = s}]
  OBVIOUS
<1>3. PICK cut : cut = [s \in DOMAIN rows |-> Cut(rows[s], q.top)]
  OBVIOUS
<1>4. PICK walk : walk = Traverse(WalkOf(q, 1))
  OBVIOUS
<1>5. PICK outgoing : outgoing = {[node |-> e.target, kind |-> e.kind, exact |-> e.exact] :
                     e \in {f \in docs[q.anchor].edges : f.exact \/ q.heuristic}}
  OBVIOUS
<1>6. PICK chains : chains = First(walk.nodes, q.top)
  OBVIOUS
<1>7. PICK read : read = Mentioned(cut, chains)
  OBVIOUS
<1>8. PICK a : a = ContextOf(q)
  OBVIOUS
<1>9. PICK plain : plain = ContextGaps(q, rows, outgoing, walk, chains, read)
  OBVIOUS
<1>10. /\ a.surface = "context" /\ a.query = q /\ a.walk = walk /\ a.sections = cut
       /\ a.gaps = plain \cup AnchorGaps(q.anchor, q.states)
  BY <1>1, <1>2, <1>3, <1>4, <1>5, <1>6, <1>7, <1>8, <1>9 DEF ContextOf
<1>11. walk.excluded \subseteq PlainGaps
  <2>1. WalkQuestion(WalkOf(q, 1))
    <3>1. q.anchor \in NameSet
      BY DocsTyped DEF QueryDocs, Resolving
    <3> QED
      BY <3>1, WalkOfQuestion DEF Resolving
  <2>2. walk.excluded \subseteq {"heuristic", "lifecycle"}
    BY <1>4, <2>1, TraverseRows DEF QueryDocs
  <2> QED
    BY <2>2 DEF PlainGaps
<1>12. plain \in SUBSET PlainGaps
  <2>1. (IF Cardinality(outgoing) > q.top THEN {"cap"} ELSE {}) \subseteq PlainGaps
    BY DEF PlainGaps
  <2>2. (IF walk.limits # {} \/ Len(walk.nodes) > q.top THEN {"limits"} ELSE {}) \subseteq PlainGaps
    BY DEF PlainGaps
  <2>3. (IF q.heuristic \/ \A e \in docs[q.anchor].edges : e.exact
           THEN {} ELSE {"heuristic"}) \subseteq PlainGaps
    BY DEF PlainGaps
  <2>4. /\ EntryGaps(read) \subseteq PlainGaps
        /\ Excluded(q, Pointing(q.anchor)) \subseteq PlainGaps
        /\ LaneGaps({c.node : c \in Range(chains)}) \subseteq PlainGaps
        /\ OptedIn(rows, q.top) \subseteq PlainGaps /\ CapGaps(rows, q.top) \subseteq PlainGaps
    BY PlainParts
  <2> QED
    BY <1>9, <1>11, <2>1, <2>2, <2>3, <2>4 DEF ContextGaps
<1>13. CapGaps(rows, q.top) \subseteq plain
  BY <1>9 DEF ContextGaps
<1> QED
  BY <1>1, <1>2, <1>3, <1>4, <1>8, <1>10, <1>12, <1>13

\* context tells what there is to say of its anchor, and its walk reaches one hop.
LEMMA ContextTells ==
  ASSUME QueryDocs, NEW q, Resolving(q)
  PROVE  /\ ContextOf(q).surface = "context" /\ ContextOf(q).query = q
         /\ AnchorTold(ContextOf(q))
         /\ Reaches(WalkAsked(ContextOf(q)), ContextOf(q).walk)
<1>1. PICK a : a = ContextOf(q)
  OBVIOUS
<1>2. PICK plain, rows :
           /\ plain \in SUBSET PlainGaps
           /\ rows = [s \in {"parts", "permissions", "incoming"} |->
                        {r \in Lawful(q, Pointing(q.anchor)) : Section(r) = s}]
           /\ ContextOf(q).surface = "context" /\ ContextOf(q).query = q
           /\ ContextOf(q).walk = Traverse(WalkOf(q, 1))
           /\ ContextOf(q).sections = [s \in DOMAIN rows |-> Cut(rows[s], q.top)]
           /\ ContextOf(q).gaps = plain \cup AnchorGaps(q.anchor, q.states)
           /\ CapGaps(rows, q.top) \subseteq plain
  BY ContextParts
<1>3. /\ plain \in SUBSET PlainGaps
      /\ a.surface = "context" /\ a.query = q
      /\ a.walk = Traverse(WalkOf(q, 1))
      /\ a.gaps = plain \cup AnchorGaps(q.anchor, q.states)
  BY <1>1, <1>2
<1>4. q.anchor \in DOMAIN docs /\ Anchor(q.anchor) = q.anchor
  BY AnchorTyped DEF QueryDocs, Resolving
<1>5. AnchorTold(a)
  BY <1>3, <1>4, ToldOf
<1>6. WalkQuestion(WalkOf(q, 1))
  <2>1. q.anchor \in NameSet
    BY DocsTyped DEF QueryDocs, Resolving
  <2> QED
    BY <2>1, WalkOfQuestion DEF Resolving
<1>7. Reaches(WalkOf(q, 1), Traverse(WalkOf(q, 1)))
  BY <1>6, TraverseReaches DEF QueryDocs
<1>8. WalkAsked(a) = WalkOf(q, 1)
  BY <1>3 DEF WalkAsked
<1> QED
  BY <1>1, <1>3, <1>5, <1>7, <1>8

\* context gives every reference in its section or says that it cut them.
LEMMA ContextGives ==
  ASSUME QueryDocs, NEW q, Resolving(q), NEW r \in References(q)
  PROVE  Given(ContextOf(q), r)
<1>1. PICK a : a = ContextOf(q)
  OBVIOUS
<1>2. PICK plain, rows :
           /\ plain \in SUBSET PlainGaps
           /\ rows = [s \in {"parts", "permissions", "incoming"} |->
                        {x \in Lawful(q, Pointing(q.anchor)) : Section(x) = s}]
           /\ ContextOf(q).surface = "context" /\ ContextOf(q).query = q
           /\ ContextOf(q).walk = Traverse(WalkOf(q, 1))
           /\ ContextOf(q).sections = [s \in DOMAIN rows |-> Cut(rows[s], q.top)]
           /\ ContextOf(q).gaps = plain \cup AnchorGaps(q.anchor, q.states)
           /\ CapGaps(rows, q.top) \subseteq plain
  BY ContextParts
<1>3. /\ rows = [s \in {"parts", "permissions", "incoming"} |->
                 {x \in Lawful(q, Pointing(q.anchor)) : Section(x) = s}]
      /\ a.surface = "context" /\ a.query = q
      /\ a.sections = [s \in DOMAIN rows |-> Cut(rows[s], q.top)]
      /\ CapGaps(rows, q.top) \subseteq a.gaps
  BY <1>1, <1>2
<1>4. PICK s : s = Section(r)
  OBVIOUS
<1>5. s \in {"parts", "permissions", "incoming"}
  BY <1>4 DEF Section
<1>6. PICK given : given = rows[s]
  OBVIOUS
<1>7. r \in Lawful(q, Pointing(q.anchor)) /\ q.anchor \in DOMAIN docs /\ q.top \in Nat
  BY ReferencesPoint DEF QueryDocs, Resolving
<1>8. r \in given /\ given \subseteq Lawful(q, Pointing(q.anchor)) /\ s \in DOMAIN rows
  BY <1>3, <1>4, <1>5, <1>6, <1>7
<1>9. IsFiniteSet(given) /\ \A x \in given : x.node \in NameSet
  BY <1>7, <1>8, LawfulTyped DEF QueryDocs
<1>10. PICK list : list = IF Effective(r.node) THEN a.sections[s].current
                         ELSE a.sections[s].other
  OBVIOUS
<1>11. a.sections[s] = Cut(given, q.top)
  BY <1>3, <1>6, <1>8
<1>12. r \in Range(list) \/ (Len(list) = q.top /\ Cuts(given, q.top))
  BY <1>7, <1>8, <1>9, <1>10, <1>11, CutGives
<1>13. Cuts(given, q.top) => "cap" \in a.gaps
  BY <1>3, <1>6, <1>8 DEF CapGaps
<1> QED
  BY <1>1, <1>3, <1>4, <1>10, <1>12, <1>13 DEF Given

\* What is to be shown of an answer about an entry.
Truthful(a) ==
  /\ "walk" \in DOMAIN a => Reaches(WalkAsked(a), a.walk)
  /\ "sections" \in DOMAIN a => \A r \in References(a.query) : Given(a, r)
  /\ a.surface \in {"explain", "context", "impact"} => AnchorTold(a)

\* context of a name answers truthfully, also if it names no entry or several.
LEMMA ContextFaithful ==
  ASSUME QueryDocs, NEW q \in Contexts
  PROVE  Truthful(Context(q)) /\ Context(q).surface \in {"context", "no-entry", "ambiguous"}
<1>1. CASE Anchor(q.anchor) = Absent
  <2>1. PICK a : a = NoContext(q)
    OBVIOUS
  <2>2. /\ a.surface \in {"no-entry", "ambiguous"}
        /\ "walk" \notin DOMAIN a /\ "sections" \notin DOMAIN a
    BY <2>1 DEF NoContext
  <2>3. Context(q) = a
    BY <1>1, <2>1 DEF Context
  <2> QED
    BY <2>2, <2>3 DEF Truthful
<1>2. CASE Anchor(q.anchor) # Absent
  <2>1. PICK d : d = Anchor(q.anchor)
    OBVIOUS
  <2>2. d \in DOMAIN docs
    BY <1>2, <2>1, AnchorTyped DEF QueryDocs
  <2>3. PICK r : r = [q EXCEPT !.anchor = d]
    OBVIOUS
  <2>4. /\ {"anchor", "states", "heuristic", "top"} \subseteq DOMAIN q
        /\ q.states \subseteq Lifecycle /\ q.heuristic \in BOOLEAN /\ q.top \in Nat
    BY QueryAssumption DEF Asked
  <2>5. r.anchor = d /\ r.states = q.states /\ r.heuristic = q.heuristic /\ r.top = q.top
    BY <2>3, <2>4
  <2>6. Resolving(r)
    BY <2>2, <2>4, <2>5 DEF Resolving
  <2>7. Context(q) = ContextOf(r)
    BY <1>2, <2>1, <2>3 DEF Context
  <2>8. PICK a : a = ContextOf(r)
    OBVIOUS
  <2>9. /\ a.surface = "context" /\ a.query = r /\ AnchorTold(a)
        /\ Reaches(WalkAsked(a), a.walk) /\ \A x \in References(r) : Given(a, x)
    BY <2>6, <2>8, ContextTells, ContextGives
  <2> QED
    BY <2>7, <2>8, <2>9 DEF Truthful
<1> QED
  BY <1>1, <1>2

\* explain answers truthfully.
LEMMA ExplainFaithful ==
  ASSUME QueryDocs, NEW q \in Explains, q.anchor \in DOMAIN docs
  PROVE  Truthful(Explain(q)) /\ Explain(q).surface = "explain"
<1>1. PICK a : a = Explain(q)
  OBVIOUS
<1>2. /\ a.surface = "explain" /\ a.query = q /\ "walk" \notin DOMAIN a /\ AnchorTold(a)
      /\ \A r \in References(q) : Given(a, r)
  BY <1>1, ExplainTells, ExplainGives
<1> QED
  BY <1>1, <1>2 DEF Truthful

-----------------------------------------------------------------------------
(* impact and membership. *)

\* What impact answers about its anchor.
LEMMA ImpactParts ==
  ASSUME QueryDocs, NEW q \in Impacts
  PROVE  \E plain \in SUBSET PlainGaps :
           /\ Impact(q).surface = "impact" /\ Impact(q).query = q
           /\ "sections" \notin DOMAIN Impact(q)
           /\ Impact(q).gaps = plain \cup
                (IF Anchor(q.anchor) # Absent THEN AnchorGaps(Anchor(q.anchor), q.states)
                 ELSE IF Named(q.anchor) # {} THEN {"anchor-ambiguous"}
                 ELSE {"anchor-no-entry"})
<1>1. PICK depth : depth = IF q.depth > 2 THEN 2 ELSE q.depth
  OBVIOUS
<1>2. PICK walk : walk = Traverse(WalkOf(q, depth))
  OBVIOUS
<1>3. PICK chains : chains = First(walk.nodes, q.top)
  OBVIOUS
<1>4. PICK read : read = {c.node : c \in Range(chains)} \cap DOMAIN docs
  OBVIOUS
<1>5. PICK limits : limits = walk.limits \cup IF Len(walk.nodes) > q.top THEN {"top"} ELSE {}
  OBVIOUS
<1>6. PICK plain : plain = EntryGaps(read) \cup walk.excluded
                 \cup (IF q.depth > 2 THEN {"depth"} ELSE {})
                 \cup LaneGaps({c.node : c \in Range(chains)})
                 \cup (IF limits # {} THEN {"limits"} ELSE {})
  OBVIOUS
<1>7. PICK own : own = IF Anchor(q.anchor) # Absent THEN AnchorGaps(Anchor(q.anchor), q.states)
                 ELSE IF Named(q.anchor) # {} THEN {"anchor-ambiguous"}
                 ELSE {"anchor-no-entry"}
  OBVIOUS
<1>8. PICK a : a = Impact(q)
  OBVIOUS
<1>9. /\ a.surface = "impact" /\ a.query = q /\ "sections" \notin DOMAIN a
      /\ a.gaps = plain \cup own
  BY <1>1, <1>2, <1>3, <1>4, <1>5, <1>6, <1>7, <1>8 DEF Impact
<1>10. walk.excluded \subseteq PlainGaps
  <2>1. depth \in Nat /\ q.anchor \in NameSet /\ q.heuristic \in BOOLEAN
    BY <1>1, QueryAssumption DEF Asked, Walkable
  <2>2. walk.excluded \subseteq {"heuristic", "lifecycle"}
    BY <1>2, <2>1, WalkOfQuestion, TraverseRows DEF QueryDocs
  <2> QED
    BY <2>2 DEF PlainGaps
<1>11. plain \in SUBSET PlainGaps
  <2>1. (IF q.depth > 2 THEN {"depth"} ELSE {}) \subseteq PlainGaps
    BY DEF PlainGaps
  <2>2. (IF limits # {} THEN {"limits"} ELSE {}) \subseteq PlainGaps
    BY DEF PlainGaps
  <2>3. EntryGaps(read) \subseteq PlainGaps
         /\ LaneGaps({c.node : c \in Range(chains)}) \subseteq PlainGaps
    BY PlainParts
  <2> QED
    BY <1>6, <1>10, <2>1, <2>2, <2>3
<1> QED
  BY <1>7, <1>8, <1>9, <1>11

\* impact answers truthfully, also if its anchor names no entry or several.
LEMMA ImpactFaithful ==
  ASSUME QueryDocs, NEW q \in Impacts
  PROVE  Truthful(Impact(q)) /\ Impact(q).surface = "impact"
<1>1. PICK own : own = IF Anchor(q.anchor) # Absent THEN AnchorGaps(Anchor(q.anchor), q.states)
                 ELSE IF Named(q.anchor) # {} THEN {"anchor-ambiguous"}
                 ELSE {"anchor-no-entry"}
  OBVIOUS
<1>2. PICK a : a = Impact(q)
  OBVIOUS
<1>3. PICK plain \in SUBSET PlainGaps :
           /\ Impact(q).surface = "impact" /\ Impact(q).query = q
           /\ "sections" \notin DOMAIN Impact(q)
           /\ Impact(q).gaps = plain \cup
                (IF Anchor(q.anchor) # Absent THEN AnchorGaps(Anchor(q.anchor), q.states)
                 ELSE IF Named(q.anchor) # {} THEN {"anchor-ambiguous"}
                 ELSE {"anchor-no-entry"})
  BY ImpactParts
<1>4. /\ a.surface = "impact" /\ a.query = q /\ "sections" \notin DOMAIN a
      /\ a.gaps = plain \cup own
  BY <1>1, <1>2, <1>3
<1>5. AnchorTold(a)
  <2>1. PICK d : d = Anchor(q.anchor)
    OBVIOUS
  <2>2. CASE d # Absent
    <3>1. d \in DOMAIN docs
      BY <2>1, <2>2, AnchorTyped DEF QueryDocs
    <3>2. a.gaps = plain \cup AnchorGaps(d, a.query.states) /\ Anchor(a.query.anchor) = d
      BY <1>1, <1>4, <2>1, <2>2
    <3> QED
      BY <3>1, <3>2, ToldOf
  <2>3. CASE d = Absent
    <3>1. own \in {{"anchor-ambiguous"}, {"anchor-no-entry"}}
      BY <1>1, <2>1, <2>3
    <3>2. a.gaps \cap {"anchor-lane", "anchor-entry", "anchor-drift",
                           "anchor-integrity", "anchor-ambiguous", "anchor-no-entry"} # {}
      BY <1>4, <3>1
    <3> QED
      BY <1>4, <2>1, <2>3, <3>2 DEF AnchorTold
  <2> QED
    BY <2>2, <2>3
<1>6. Reaches(WalkAsked(a), a.walk)
  BY <1>2, ImpactReaches
<1> QED
  BY <1>2, <1>4, <1>5, <1>6 DEF Truthful

\* The walk of feature membership reaches what its stop list leaves.
LEMMA MembershipFaithful ==
  ASSUME QueryDocs, NEW q \in Impacts, NEW stop, NEW w, NEW a,
         w = [WalkOf(q, q.depth) EXCEPT !.stops = {stop}],
         a = [surface |-> "membership", query |-> w, walk |-> Traverse(w)]
  PROVE  Truthful(a) /\ a.surface = "membership"
<1>1. q.depth \in Nat /\ q.anchor \in NameSet /\ q.heuristic \in BOOLEAN
  BY QueryAssumption DEF Asked, Walkable
<1>2. w.anchor = q.anchor /\ w.heuristic = q.heuristic /\ w.depth = q.depth
  BY DEF WalkOf
<1>3. Reaches(w, Traverse(w))
  BY <1>1, <1>2, TraverseReaches DEF QueryDocs, WalkQuestion
<1>4. PICK walk : walk = Traverse(w)
  OBVIOUS
<1>5. /\ a.surface = "membership" /\ a.query = w /\ a.walk = walk
      /\ "sections" \notin DOMAIN a
  BY <1>4
<1>6. WalkAsked(a) = w
  BY <1>5 DEF WalkAsked
<1> QED
  BY <1>3, <1>4, <1>5, <1>6 DEF Truthful

-----------------------------------------------------------------------------
(* Seeding. *)

\* Sorting the terms of a text by rarity loses none: a term is in no entry, or in
\* as many as there are at most.
LEMMA RarityRange ==
  ASSUME docs \in Corpora, NEW terms \in SUBSET Range(TermOrder)
  PROVE  /\ ByRarity(terms) \in Seq(Range(TermOrder))
         /\ \A t : t \in Range(ByRarity(terms)) <=> t \in terms
<1>1. PICK n : n = Cardinality(DOMAIN docs) + 1
  OBVIOUS
<1>2. n \in Nat /\ Cardinality(DOMAIN docs) \in Nat
  BY <1>1, DocsTyped, FS_CardinalityType
<1>3. \A t \in terms : Frequency(t) \in 0 .. n - 1
  <2> SUFFICES ASSUME NEW t \in terms PROVE Frequency(t) \in 0 .. n - 1
    OBVIOUS
  <2>1. WithTerm(t) \subseteq DOMAIN docs
    BY DEF WithTerm
  <2>2. /\ Cardinality(WithTerm(t)) \in Nat
        /\ Cardinality(WithTerm(t)) <= Cardinality(DOMAIN docs)
    BY <2>1, DocsTyped, FS_Subset, FS_CardinalityType
  <2> QED
    BY <1>1, <1>2, <2>2 DEF Frequency
<1> DEFINE K(i) == {t \in terms : Frequency(t) = i - 1}
           p == [i \in 1 .. n |-> Kept(TermOrder, K(i))]
<1>4. \A i \in 1 .. n : p[i] \in Seq(Range(TermOrder)) /\ Range(p[i]) = K(i)
  <2> SUFFICES ASSUME NEW i \in 1 .. n
               PROVE  p[i] \in Seq(Range(TermOrder)) /\ Range(p[i]) = K(i)
    OBVIOUS
  <2>1. PICK kept : kept = K(i)
    OBVIOUS
  <2>2. kept \subseteq Range(TermOrder) /\ p[i] = Kept(TermOrder, kept)
    BY <2>1
  <2>3. /\ Kept(TermOrder, kept) \in Seq(Range(TermOrder))
        /\ Range(Kept(TermOrder, kept)) = Range(TermOrder) \cap kept
    BY QueryAssumption, KeptRange
  <2> QED
    BY <2>1, <2>2, <2>3
<1>5. p \in [1 .. n -> Seq(Range(TermOrder))]
  BY <1>4
<1>6. ByRarity(terms) = FlattenSeq(p)
  BY <1>1 DEF ByRarity
<1>7. /\ FlattenSeq(p) \in Seq(Range(TermOrder))
      /\ \A t : t \in Range(FlattenSeq(p)) <=> \E i \in 1 .. n : t \in Range(p[i])
  <2> HIDE DEF p
  <2> QED
    BY <1>2, <1>5, FlattenRange
<1>8. \A t : (\E i \in 1 .. n : t \in Range(p[i])) <=> t \in terms
  <2> SUFFICES ASSUME NEW t PROVE (\E i \in 1 .. n : t \in Range(p[i])) <=> t \in terms
    OBVIOUS
  <2>1. ASSUME t \in terms PROVE \E i \in 1 .. n : t \in Range(p[i])
    <3>1. PICK f \in 0 .. n - 1 : f = Frequency(t)
      BY <1>3, <2>1
    <3>2. f + 1 \in 1 .. n /\ (f + 1) - 1 = f
      BY <1>2
    <3>3. t \in K(f + 1)
      BY <2>1, <3>1, <3>2
    <3> HIDE DEF p
    <3> QED
      BY <1>4, <3>2, <3>3
  <2>2. ASSUME NEW i \in 1 .. n, t \in Range(p[i]) PROVE t \in terms
    <3>1. t \in K(i)
      BY <1>4, <2>2
    <3> QED
      BY <3>1
  <2> QED
    BY <2>1, <2>2
<1> HIDE DEF p
<1> QED
  BY <1>6, <1>7, <1>8

\* The entries that have a word of a text.
Worded(terms) == {d \in DOMAIN docs : docs[d].terms \cap terms # {}}

\* Below the cap, seeding takes every entry that has a word of the text.
LEMMA SeededIsWorded ==
  ASSUME docs \in Corpora, NEW terms \in SUBSET Range(TermOrder),
         Cardinality(Worded(terms)) < Cap
  PROVE  Seeded(terms) = Worded(terms)
<1>1. PICK order : order = ByRarity(terms)
  OBVIOUS
<1>2. order \in Seq(Range(TermOrder)) /\ \A t : t \in Range(order) <=> t \in terms
  BY <1>1, RarityRange
<1>3. PICK n \in Nat : n = Len(order)
  BY <1>2
<1>4. PICK f : f = SeededFrom(order)
  OBVIOUS
<1>5. f[0] = {} /\ \A i \in 1 .. n : f[i] = SeedStage(f, i, order)
  BY <1>3, <1>4, SeededDefined
<1>6. /\ IsFiniteSet(Worded(terms)) /\ Cardinality(Worded(terms)) \in Nat
      /\ Worded(terms) \subseteq DOMAIN docs
  <2>1. Worded(terms) \subseteq DOMAIN docs
    BY DEF Worded
  <2> QED
    BY <2>1, DocsTyped, FS_Subset, FS_CardinalityType
<1>7. \A i \in 1 .. n : order[i] \in terms
  BY <1>2, <1>3 DEF Range
<1>8. \A i \in 1 .. n : \A d : d \in WithTerm(order[i]) => d \in Worded(terms)
  BY <1>7 DEF WithTerm, Worded
<1> DEFINE In(i) == \A d : d \in f[i] <=> \E j \in 1 .. i : d \in WithTerm(order[j])
           S == {i \in Nat : i <= n => In(i)}
<1>9. 0 \in S
  BY <1>5
<1>10. ASSUME NEW i \in Nat, i \in S PROVE i + 1 \in S
  <2> SUFFICES ASSUME i + 1 <= n PROVE In(i + 1)
    OBVIOUS
  <2>1. In(i) /\ i + 1 \in 1 .. n /\ (i + 1) - 1 = i /\ i + 1 # 0
    BY <1>3, <1>10
  <2>2. f[i] \subseteq Worded(terms)
    <3>1. \A j \in 1 .. i : j \in 1 .. n
      BY <1>3, <2>1
    <3> QED
      BY <1>8, <2>1, <3>1
  <2>3. Cardinality(f[i]) \in Nat /\ Cardinality(f[i]) <= Cardinality(Worded(terms))
    BY <1>6, <2>2, FS_Subset, FS_CardinalityType
  <2>4. ~(Cardinality(f[i]) >= Cap)
    BY <1>6, <2>3, QueryAssumption
  <2>5. f[i + 1] = f[i] \cup WithTerm(order[i + 1])
    BY <1>5, <2>1, <2>4 DEF SeedStage
  <2>6. \A d : (\E j \in 1 .. i + 1 : d \in WithTerm(order[j])) <=>
               (\E j \in 1 .. i : d \in WithTerm(order[j])) \/ d \in WithTerm(order[i + 1])
    <3>1. \A j : j \in 1 .. i + 1 <=> j \in 1 .. i \/ j = i + 1
      OBVIOUS
    <3> QED
      BY <3>1
  <2> QED
    BY <2>1, <2>5, <2>6
<1>11. n \in S
  <2> HIDE DEF S
  <2> QED
    BY <1>9, <1>10, SetInduction
<1>12. In(n)
  BY <1>11
<1>13. ASSUME NEW d PROVE d \in f[n] <=> d \in Worded(terms)
  <2>1. ASSUME d \in Worded(terms) PROVE \E j \in 1 .. n : d \in WithTerm(order[j])
    <3>1. PICK t \in terms : d \in DOMAIN docs /\ t \in docs[d].terms
      BY <2>1 DEF Worded
    <3>2. PICK j \in 1 .. n : order[j] = t
      BY <1>2, <1>3, <3>1 DEF Range
    <3> QED
      BY <3>1, <3>2 DEF WithTerm
  <2> QED
    BY <1>8, <1>12, <2>1
<1>14. Seeded(terms) = f[n]
  BY <1>1, <1>3, <1>4 DEF Seeded
<1> QED
  BY <1>13, <1>14

-----------------------------------------------------------------------------
(* What a search finds. *)

\* Every candidate passes the filters that became identity sets.
LEMMA CandidatesSurvive ==
  ASSUME docs \in Corpora, NEW q
  PROVE  CandidateIds(q) \subseteq Survivors(q) /\ Survivors(q) \subseteq DOMAIN docs
<1>1. Survivors(q) \subseteq DOMAIN docs
  BY DEF Survivors, LaneIds
<1>2. PICK matched : matched = Matched(q)
  OBVIOUS
<1>3. matched \subseteq Survivors(q)
  BY <1>2 DEF Matched
<1>4. Rarest(q) \subseteq matched
  BY <1>2 DEF Rarest
<1>5. Range(First(InOrder(matched), Cap)) \subseteq matched
  <2>1. InOrder(matched) \in Seq(NameSet) /\ Range(InOrder(matched)) \subseteq matched
    BY QueryAssumption, KeptRange DEF InOrder
  <2>2. Range(First(InOrder(matched), Cap)) \subseteq Range(InOrder(matched))
    BY <2>1, QueryAssumption, FirstRange
  <2> QED
    BY <2>1, <2>2
<1>6. CandidateIds(q) \subseteq matched
  BY <1>2, <1>4, <1>5 DEF CandidateIds
<1> QED
  BY <1>1, <1>3, <1>6

\* What every result of a search is: a row about an entry that passed.
LEMMA FoundSurvive ==
  ASSUME docs \in Corpora, NEW q, NEW r \in Found(q)
  PROVE  /\ r.node \in Survivors(q)
         /\ Mode(q) \notin {"relation", "identity"} /\ q.facet = "in" => docs[r.node].facet
<1>1. CandidateIds(q) \subseteq Survivors(q)
  BY CandidatesSurvive
<1>2. Scanned(q) \subseteq CandidateIds(q)
  BY DEF Scanned
<1>3. ASSUME NEW d \in Scanned(q), q.facet = "in" PROVE docs[d].facet
  BY <1>3 DEF Scanned
<1>4. CASE Mode(q) = "relation"
  <2>1. r \in LookedAt(q)
    BY <1>4 DEF Found, Related
  <2>2. PICK d \in CandidateIds(q) :
          r \in {[node |-> d, edge |-> e] : e \in {f \in docs[d].edges : q.kind \in {Absent, f.kind}}}
    BY <2>1 DEF LookedAt
  <2>3. r.node = d
    BY <2>2
  <2> QED
    BY <1>1, <1>4, <2>3
<1>5. CASE Mode(q) = "identity"
  <2>1. PICK d \in IdentityHits(q) : r = Result(d)
    BY <1>5 DEF Found
  <2>2. r.node = d /\ d \in CandidateIds(q)
    BY <2>1 DEF Result, IdentityHits
  <2> QED
    BY <1>1, <1>5, <2>2
<1>6. CASE Mode(q) = "text"
  <2>1. PICK d \in Scoring(q) : r = Result(d)
    BY <1>6 DEF Found
  <2>2. r.node = d /\ d \in Scanned(q)
    BY <2>1 DEF Result, Scoring
  <2> QED
    BY <1>1, <1>2, <1>3, <2>2
<1>7. CASE Mode(q) \notin {"relation", "identity", "text"}
  <2>1. PICK d \in Scanned(q) : r = Result(d)
    BY <1>7 DEF Found
  <2>2. r.node = d
    BY <2>1 DEF Result
  <2> QED
    BY <1>1, <1>2, <1>3, <2>1, <2>2
<1> QED
  BY <1>4, <1>5, <1>6, <1>7

\* Finitely many entries have finitely many results.
LEMMA ResultsFinite ==
  ASSUME NEW S, IsFiniteSet(S)
  PROVE  IsFiniteSet({Result(d) : d \in S})
<1> DEFINE T == {Result(d) : d \in S}
           f == [d \in S |-> Result(d)]
<1>1. f \in [S -> T] /\ \A y \in T : \E x \in S : f[x] = y
  OBVIOUS
<1> HIDE DEF f, T
<1>2. IsFiniteSet(T)
  BY <1>1, ImageFinite
<1> QED
  BY <1>2 DEF T

\* A relation query looks at finitely many edges.
LEMMA LookedAtFinite ==
  ASSUME docs \in Corpora, NEW q
  PROVE  IsFiniteSet(LookedAt(q))
<1> DEFINE C == {c \in CandidateIds(q) :
                   IF q.direction = "incoming"
                     THEN \E f \in docs[c].edges : q.anchor \in {f.target, Fold[f.target]}
                   ELSE q.anchor \in {c, FullName[c]}}
           F(d) == {e \in docs[d].edges : q.kind \in {Absent, e.kind}}
           From(d) == {[node |-> d, edge |-> e] : e \in F(d)}
           all == {From(d) : d \in C}
           from == [d \in C |-> From(d)]
<1>1. C \subseteq DOMAIN docs
  BY CandidatesSurvive
<1>2. IsFiniteSet(C)
  BY <1>1, DocsTyped, FS_Subset
<1>3. from \in [C -> all] /\ \A y \in all : \E x \in C : from[x] = y
  OBVIOUS
<1>4. ASSUME NEW d \in C PROVE IsFiniteSet(from[d])
  <2>1. IsFiniteSet(docs[d].edges)
    BY <1>1, DocsTyped DEF Document
  <2>2. IsFiniteSet(F(d))
    BY <2>1, FS_Subset
  <2> DEFINE S == F(d)
             T == From(d)
             g == [e \in S |-> [node |-> d, edge |-> e]]
  <2>3. g \in [S -> T] /\ \A y \in T : \E x \in S : g[x] = y
    OBVIOUS
  <2>4. IsFiniteSet(T)
    <3>1. IsFiniteSet(S)
      BY <2>2
    <3> HIDE DEF S, T, g
    <3> QED
      BY <2>3, <3>1, ImageFinite
  <2> QED
    BY <2>4
<1>5. LookedAt(q) = UNION all
  BY DEF LookedAt
<1> HIDE DEF C, all, from
<1>6. IsFiniteSet(UNION all)
  BY <1>2, <1>3, <1>4, UnionFinite
<1> QED
  BY <1>5, <1>6

\* A search finds finitely many rows.
LEMMA FoundFinite ==
  ASSUME docs \in Corpora, NEW q
  PROVE  IsFiniteSet(Found(q))
<1>1. IsFiniteSet(CandidateIds(q)) /\ IsFiniteSet(Scanned(q)) /\ IsFiniteSet(Scoring(q))
      /\ IsFiniteSet(IdentityHits(q))
  <2>1. /\ CandidateIds(q) \subseteq DOMAIN docs /\ Scanned(q) \subseteq CandidateIds(q)
        /\ Scoring(q) \subseteq Scanned(q) /\ IdentityHits(q) \subseteq CandidateIds(q)
    BY CandidatesSurvive DEF Scanned, Scoring, IdentityHits
  <2> QED
    BY <2>1, DocsTyped, FS_Subset
<1>2. CASE Mode(q) = "relation"
  <2>1. Found(q) \subseteq LookedAt(q)
    BY <1>2 DEF Found, Related
  <2> QED
    BY <2>1, LookedAtFinite, FS_Subset
<1>3. CASE Mode(q) = "identity"
  <2>1. Found(q) = {Result(d) : d \in IdentityHits(q)}
    BY <1>3 DEF Found
  <2> QED
    BY <1>1, <2>1, ResultsFinite
<1>4. CASE Mode(q) = "text"
  <2>1. Found(q) = {} \/ Found(q) = {Result(d) : d \in Scoring(q)}
    BY <1>4 DEF Found
  <2> QED
    BY <1>1, <2>1, ResultsFinite, FS_EmptySet
<1>5. CASE Mode(q) \notin {"relation", "identity", "text"}
  <2>1. Found(q) = {Result(d) : d \in Scanned(q)}
    BY <1>5 DEF Found
  <2> QED
    BY <1>1, <2>1, ResultsFinite
<1> QED
  BY <1>2, <1>3, <1>4, <1>5

\* What a search serves is among what it found.
LEMMA RowsFound ==
  ASSUME QueryDocs, NEW q \in Searches, Search(q).surface = "search"
  PROVE  Range(Search(q).approved) \cup Range(Search(q).other) \subseteq Found(q)
<1>1. PICK rows : rows = Found(q)
  OBVIOUS
<1>2. PICK found : found = SetInOrder(Found(q))
  OBVIOUS
<1>3. PICK top : top = First(found, q.top)
  OBVIOUS
<1>4. PICK read : read = {r.node : r \in Range(top)}
  OBVIOUS
<1>5. PICK served : served = Kept(top, {r \in Range(top) : r.node \in Hydrated(read)})
  OBVIOUS
<1>6. IsFiniteSet(rows) /\ \A r \in rows : r.node \in NameSet
  BY <1>1, FoundFinite, FoundSurvive, CandidatesSurvive, DocsTyped DEF QueryDocs
<1>7. found \in Seq(rows)
  BY <1>1, <1>2, <1>6, SetInOrderRange
<1>8. top \in Seq(rows)
  BY <1>3, <1>7, QueryAssumption, FirstRange DEF Asked
<1>9. served \in Seq(rows)
  BY <1>5, <1>8, KeptRange
<1>10. \A S : Kept(served, S) \in Seq(rows)
  BY <1>9, KeptRange
<1>11. PICK left : left = Kept(served, {r \in Range(served) : Effective(r.node)})
  OBVIOUS
<1>12. PICK right : right = Kept(served, {r \in Range(served) : ~Effective(r.node)})
  OBVIOUS
<1>13. left \in Seq(rows) /\ right \in Seq(rows)
  BY <1>10, <1>11, <1>12
<1>14. Search(q).approved = left /\ Search(q).other = right
  BY <1>2, <1>3, <1>4, <1>5, <1>11, <1>12 DEF Search
<1> QED
  BY <1>1, <1>13, <1>14 DEF Range

-----------------------------------------------------------------------------
(* What a search answers. *)

\* Below the cap, an entry that has a word of the text and passes the filters is
\* found, unless no word tells anything.
LEMMA WordedFound ==
  ASSUME docs \in Corpora, NEW q \in Searches, Mode(q) = "text",
         Cardinality(Worded(q.terms)) < Cap, NEW d \in Worded(q.terms), d \in Survivors(q),
         q.facet = "in" => docs[d].facet
  PROVE  Result(d) \in Found(q) \/ "nothing-telling" \in ModeGaps(q)
<1>1. q.terms \in SUBSET Range(TermOrder)
  BY QueryAssumption
<1>2. ~Capped(q) /\ d \in Matched(q)
  <2>1. CASE Seeding(q)
    <3>1. Matched(q) = Survivors(q) \cap Worded(q.terms)
      BY <1>1, <2>1, SeededIsWorded DEF Matched
    <3>2. IsFiniteSet(Worded(q.terms))
      <4>1. Worded(q.terms) \subseteq DOMAIN docs
        BY DEF Worded
      <4> QED
        BY <4>1, DocsTyped, FS_Subset
    <3>3. PICK matched : matched = Matched(q)
      OBVIOUS
    <3>4. matched \subseteq Worded(q.terms)
      BY <3>1, <3>3
    <3>5. /\ Cardinality(matched) \in Nat /\ Cardinality(Worded(q.terms)) \in Nat
          /\ Cardinality(matched) <= Cardinality(Worded(q.terms))
      BY <3>2, <3>4, FS_Subset, FS_CardinalityType
    <3>6. ~(Cardinality(matched) > Cap)
      BY <3>5, QueryAssumption
    <3> QED
      BY <3>1, <3>3, <3>6 DEF Capped
  <2>2. CASE ~Seeding(q)
    BY <2>2 DEF Capped, Matched
  <2> QED
    BY <2>1, <2>2
<1>3. d \in Scanned(q)
  BY <1>2 DEF CandidateIds, Scanned
<1>4. d \in Scoring(q)
  BY <1>3 DEF Scoring, Worded
<1>5. CASE Telling(q) = {}
  <2>1. Scoring(q) # {} /\ Telling(q) = {}
    BY <1>4, <1>5
  <2> QED
    BY <2>1 DEF ModeGaps
<1>6. CASE Telling(q) # {}
  <2>1. Found(q) = {Result(x) : x \in Scoring(q)}
    BY <1>6 DEF Found
  <2> QED
    BY <1>4, <2>1
<1> QED
  BY <1>5, <1>6

\* An entry that has a word of the text is found, or the answer says why not.
Said(q, d, a) ==
  \/ Result(d) \in a.found
  \/ "nothing-telling" \in a.gaps
  \/ docs[d].lane \notin q.states /\ "lifecycle" \in a.excluded
  \/ ~OfType(q, d) /\ "metadataType" \in a.excluded
  \/ ~InScope(q, d) /\ "scope" \in a.excluded
  \/ q.facet # Absent /\ ~docs[d].facet /\ "facet" \in a.excluded

\* Below the cap, an entry that has a word of the text is accounted for.
LEMMA WordedSaid ==
  ASSUME docs \in Corpora, NEW q \in Searches, Mode(q) = "text",
         Cardinality(Worded(q.terms)) < Cap, NEW d \in Worded(q.terms), NEW a,
         a.found = Found(q), a.excluded = ExcludedCounts(q), ModeGaps(q) \subseteq a.gaps
  PROVE  Said(q, d, a)
<1>1. d \in DOMAIN docs
  BY DEF Worded
<1>2. CASE docs[d].lane \notin q.states
  <2>1. "lifecycle" \in ExcludedCounts(q)
    BY <1>1, <1>2 DEF ExcludedCounts
  <2> QED
    BY <1>2, <2>1 DEF Said
<1>3. CASE docs[d].lane \in q.states /\ ~OfType(q, d)
  <2>1. "metadataType" \in ExcludedCounts(q)
    BY <1>1, <1>3 DEF ExcludedCounts
  <2> QED
    BY <1>3, <2>1 DEF Said
<1>4. CASE docs[d].lane \in q.states /\ OfType(q, d) /\ ~InScope(q, d)
  <2>1. "scope" \in ExcludedCounts(q)
    BY <1>1, <1>4 DEF ExcludedCounts
  <2> QED
    BY <1>4, <2>1 DEF Said
<1>5. CASE /\ docs[d].lane \in q.states /\ OfType(q, d) /\ InScope(q, d)
           /\ q.facet # Absent /\ ~docs[d].facet
  <2>1. "facet" \in ExcludedCounts(q)
    BY <1>1, <1>5 DEF ExcludedCounts
  <2> QED
    BY <1>5, <2>1 DEF Said
<1>6. CASE /\ docs[d].lane \in q.states /\ OfType(q, d) /\ InScope(q, d)
           /\ ~(q.facet # Absent /\ ~docs[d].facet)
  <2>1. q.facet \in {"eq", "in"} => docs[d].facet
    BY <1>6, QueryAssumption
  <2>2. d \in Survivors(q)
    BY <1>1, <1>6, <2>1 DEF Survivors, LaneIds
  <2>3. Result(d) \in Found(q) \/ "nothing-telling" \in ModeGaps(q)
    BY <2>1, <2>2, WordedFound
  <2> QED
    BY <2>3 DEF Said
<1> QED
  BY <1>2, <1>3, <1>4, <1>5, <1>6

\* An entry a search gave passes what the search asked.
Passed(q, d) ==
  /\ docs[d].lane \in q.states
  /\ q.type \in {Absent, TypeOf[d]}
  /\ q.namespace \in {Absent, NamespaceOf[d]}
  /\ q.facet # Absent => docs[d].facet

\* What a search found passes what it asked, but for the facets that only searches
\* by text and by structure evaluate.
LEMMA SurvivorPassed ==
  ASSUME docs \in Corpora, NEW q \in Searches, NEW r \in Found(q),
         ~(q.facet = "in" /\ Mode(q) \in {"relation", "identity"})
  PROVE  Passed(q, r.node)
<1>1. PICK d : d = r.node
  OBVIOUS
<1>2. d \in Survivors(q)
  BY <1>1, FoundSurvive
<1>3. docs[d].lane \in q.states /\ OfType(q, d) /\ InScope(q, d) /\ (q.facet = "eq" => docs[d].facet)
  BY <1>2 DEF Survivors, LaneIds
<1>4. q.facet = "in" => docs[d].facet
  BY <1>1, FoundSurvive
<1>5. q.facet \in {Absent, "eq", "in"}
  BY QueryAssumption
<1> QED
  BY <1>1, <1>3, <1>4, <1>5 DEF Passed, OfType, InScope

\* What is to be shown of the answer to a search.
Searched(a) ==
  a.surface = "search" =>
    /\ Mode(a.query) = "text" /\ Cardinality(Worded(a.query.terms)) < Cap =>
         \A d \in Worded(a.query.terms) : Said(a.query, d, a)
    /\ ~(a.query.facet = "in" /\ Mode(a.query) \in {"relation", "identity"}) =>
         \A r \in Range(a.approved) \cup Range(a.other) : Passed(a.query, r.node)

\* What search answers.
LEMMA SearchParts ==
  ASSUME NEW q
  PROVE  \/ /\ Search(q).surface = "ambiguous"
            /\ DOMAIN Search(q) = {"surface", "query", "candidates"}
         \/ /\ Search(q).surface = "search"
            /\ "walk" \notin DOMAIN Search(q) /\ "sections" \notin DOMAIN Search(q)
            /\ Search(q).query = q /\ Search(q).found = Found(q)
            /\ Search(q).excluded = ExcludedCounts(q) /\ ModeGaps(q) \subseteq Search(q).gaps
<1>1. PICK found : found = SetInOrder(Found(q))
  OBVIOUS
<1>2. PICK top : top = First(found, q.top)
  OBVIOUS
<1>3. PICK read : read = {r.node : r \in Range(top)}
  OBVIOUS
<1>4. PICK served : served = Kept(top, {r \in Range(top) : r.node \in Hydrated(read)})
  OBVIOUS
<1>5. PICK split : split = (Mode(q) = "identity" /\ q.namespace = Absent
                              /\ Cardinality(IdentityHits(q)) > 1)
  OBVIOUS
<1>6. CASE split
  BY <1>5, <1>6 DEF Search
<1>7. CASE ~split
  <2>1. PICK cut : cut = IF Mode(q) # "relation" THEN {}
                         ELSE IF q.kind # Absent THEN Truncated({q.kind})
                         ELSE Truncated({r.edge.kind : r \in Related(q)})
    OBVIOUS
  <2>2. PICK left : left = Kept(served, {r \in Range(served) : Effective(r.node)})
    OBVIOUS
  <2>3. PICK right : right = Kept(served, {r \in Range(served) : ~Effective(r.node)})
    OBVIOUS
  <2>4. PICK gaps : gaps = ModeGaps(q) \cup EntryGaps(read)
                      \cup (IF \E r \in Range(served) : ~Effective(r.node)
                              THEN {"opted-in"} ELSE {})
    OBVIOUS
  <2>5. Search(q) = [surface |-> "search", query |-> q, found |-> Found(q),
           approved |-> left, other |-> right,
           drafts |-> Drafts(q), excluded |-> ExcludedCounts(q),
           truncated |-> cut, gaps |-> gaps]
    BY <1>1, <1>2, <1>3, <1>4, <1>5, <1>7, <2>1, <2>2, <2>3, <2>4 DEF Search
  <2> QED
    BY <2>4, <2>5
<1> QED
  BY <1>6, <1>7

\* search accounts for what it leaves out and keeps what its filters keep.
LEMMA SearchFaithful ==
  ASSUME QueryDocs, NEW q \in Searches
  PROVE  /\ Truthful(Search(q)) /\ Searched(Search(q))
         /\ Search(q).surface \in {"search", "ambiguous"}
<1>1. PICK a : a = Search(q)
  OBVIOUS
<1>2. CASE a.surface = "search"
  <2>1. /\ "walk" \notin DOMAIN a /\ "sections" \notin DOMAIN a
        /\ a.query = q /\ a.found = Found(q)
        /\ a.excluded = ExcludedCounts(q) /\ ModeGaps(q) \subseteq a.gaps
    BY <1>1, <1>2, SearchParts
  <2>2. Range(a.approved) \cup Range(a.other) \subseteq Found(q)
    BY <1>1, <1>2, RowsFound
  <2>3. Truthful(a)
    BY <1>2, <2>1 DEF Truthful
  <2>4. ASSUME Mode(q) = "text", Cardinality(Worded(q.terms)) < Cap, NEW d \in Worded(q.terms)
        PROVE  Said(q, d, a)
    BY <2>1, <2>4, WordedSaid DEF QueryDocs
  <2>5. ASSUME ~(q.facet = "in" /\ Mode(q) \in {"relation", "identity"}),
               NEW r \in Range(a.approved) \cup Range(a.other)
        PROVE  Passed(q, r.node)
    BY <2>2, <2>5, SurvivorPassed DEF QueryDocs
  <2>6. Searched(a)
    BY <2>1, <2>4, <2>5 DEF Searched
  <2> QED
    BY <1>1, <1>2, <2>3, <2>6
<1>3. CASE a.surface # "search"
  <2>1. a.surface = "ambiguous" /\ DOMAIN a = {"surface", "query", "candidates"}
    BY <1>1, <1>3, SearchParts
  <2> QED
    BY <1>1, <2>1 DEF Truthful, Searched
<1> QED
  BY <1>2, <1>3

-----------------------------------------------------------------------------
(* From an answer to the properties. *)

\* What a walk reaches is a matter of the documents, which queries do not change.
LEMMA ReachesStays ==
  ASSUME NEW w, NEW walk, docs' = docs, Reaches(w, walk)
  PROVE  Reaches(w, walk)'
<1>1. PICK f : f = Within(w)
  OBVIOUS
<1>2. Within(w)' = f
  BY <1>1 DEF Within, Permitted, Hops, EdgesOf, NamesOf, Hop, Resolved, Candidates, Named,
            ByIdentity, ByMember, IncomingEdges
<1>3. ASSUME NEW n PROVE Permitted(w, n)' = Permitted(w, n)
  BY DEF Permitted, Hops, EdgesOf, NamesOf, Hop, Resolved, Candidates, Named,
            ByIdentity, ByMember, IncomingEdges
<1> PICK rows : rows = Range(walk.nodes)
  OBVIOUS
<1> DEFINE from(c, i) == IF i = 1 THEN w.anchor ELSE c.path[i - 1].node
<1>4. walk.limits = {} =>
          \A k \in 1 .. w.depth :
            {c.node : c \in {r \in rows : r.hop = k}} = f[k] \ f[k - 1]
  BY <1>1 DEF Reaches
<1>5. \A c \in rows :
          /\ Len(c.path) = c.hop /\ c.path[c.hop].node = c.node
          /\ \A i \in 1 .. c.hop : c.path[i] \in Permitted(w, from(c, i))
          /\ c.exact <=> \A i \in 1 .. c.hop : c.path[i].exact
  BY DEF Reaches
<1>6. \A c \in rows :
          /\ Len(c.path) = c.hop /\ c.path[c.hop].node = c.node
          /\ \A i \in 1 .. c.hop : c.path[i] \in Permitted(w, from(c, i))'
          /\ c.exact <=> \A i \in 1 .. c.hop : c.path[i].exact
  BY <1>3, <1>5
<1> QED
  BY <1>2, <1>4, <1>6 DEF Reaches

\* A truthful answer makes WalkIsReach hold.
LEMMA WalkStays ==
  ASSUME NEW a, docs' = docs, reply' = a, Truthful(a)
  PROVE  WalkIsReach'
<1>1. PICK w : w = WalkAsked(a)
  OBVIOUS
<1>2. PICK walk : walk = a.walk
  OBVIOUS
<1>3. WalkAsked(reply)' = w
  BY <1>1 DEF WalkAsked, WalkOf, LaneIds
<1>4. Reaches(WalkAsked(reply), reply.walk)' = Reaches(w, walk)'
  BY <1>2, <1>3
<1>5. Reaches(w, walk) => Reaches(w, walk)'
  BY ReachesStays
<1> QED
  BY <1>1, <1>2, <1>4, <1>5 DEF WalkIsReach, Truthful

\* A truthful answer makes EveryReferenceAnswered hold.
LEMMA ReferencesStay ==
  ASSUME NEW a, docs' = docs, reply' = a, Truthful(a)
  PROVE  EveryReferenceAnswered'
<1>1. References(reply.query)' = References(a.query)
  BY DEF References
<1>2. \A r : Given(reply, r)' = Given(a, r)
  BY DEF Given, Section, Effective, LaneOf
<1> QED
  BY <1>1, <1>2 DEF EveryReferenceAnswered, Truthful

\* A truthful answer makes AnchorNeverSilent hold.
LEMMA AnchorStays ==
  ASSUME NEW a, docs' = docs, file' = file, source' = source, reply' = a, Truthful(a)
  PROVE  AnchorNeverSilent'
<1>1. AnchorTold(reply)' = AnchorTold(a)
  BY DEF AnchorTold, Anchor, Named, Effective, LaneOf
<1> QED
  BY <1>1 DEF AnchorNeverSilent, Truthful

\* A sound answer to a search makes SearchSound hold.
LEMMA SearchStays ==
  ASSUME NEW a, docs' = docs, reply' = a, Searched(a)
  PROVE  NothingUnsaid' /\ ExactFiltersHold'
<1>1. NothingUnsaid'
  BY DEF NothingUnsaid, Searched, Worded, Said, OfType, InScope, Result, Mode
<1>2. ExactFiltersHold'
  BY DEF ExactFiltersHold, FiltersHold, Searched, Passed, Mode
<1> QED
  BY <1>1, <1>2

-----------------------------------------------------------------------------
(* Queries: the invariant and the theorems. *)

\* What an answer may be an answer to.
Surfaces == {"search", "explain", "context", "impact", "membership", "ambiguous", "no-entry"}

\* The inductive invariant: the four properties, and that what is read is typed.
QueryInv ==
  /\ QueryDocs
  /\ reply # Absent => reply.surface \in Surfaces
  /\ WalkIsReach /\ EveryReferenceAnswered /\ AnchorNeverSilent
  /\ NothingUnsaid /\ ExactFiltersHold

\* What an answer of a question is, whichever was asked.
Sound(a) == Truthful(a) /\ Searched(a) /\ a.surface \in Surfaces

\* Giving a sound answer keeps the invariant.
LEMMA AnswerKeeps ==
  ASSUME QueryDocs, NEW a, Sound(a), Answered(a)
  PROVE  QueryInv'
<1>1. docs' = docs /\ file' = file /\ source' = source /\ reply' = a
  BY DEF Answered
<1>2. QueryDocs'
  BY <1>1 DEF QueryDocs
<1>3. WalkIsReach' /\ EveryReferenceAnswered' /\ AnchorNeverSilent'
  BY <1>1, WalkStays, ReferencesStay, AnchorStays DEF Sound
<1>4. NothingUnsaid' /\ ExactFiltersHold'
  BY <1>1, SearchStays DEF Sound
<1>5. (reply # Absent => reply.surface \in Surfaces)'
  BY <1>1 DEF Sound
<1> QED
  BY <1>2, <1>3, <1>4, <1>5 DEF QueryInv

\* Without an answer there is nothing to show of one.
LEMMA SilenceKeeps ==
  ASSUME QueryDocs', reply' = Absent
  PROVE  QueryInv'
  BY DEF QueryInv, WalkIsReach, EveryReferenceAnswered, AnchorNeverSilent, NothingUnsaid,
         ExactFiltersHold, FiltersHold

\* Every step keeps the invariant.
LEMMA SoundStep ==
  ASSUME QueryInv, [QueryNext]_queryVars
  PROVE  QueryInv'
<1>0. QueryDocs
  BY DEF QueryInv
<1>1. CASE AskSearch
  <2>1. PICK q \in Searches : Answered(Search(q))
    BY <1>1 DEF AskSearch
  <2>2. PICK a : a = Search(q)
    OBVIOUS
  <2>3. Truthful(a) /\ Searched(a) /\ a.surface \in {"search", "ambiguous"}
    BY <1>0, <2>2, SearchFaithful
  <2>4. Sound(a) /\ Answered(a)
    BY <2>1, <2>2, <2>3 DEF Sound, Surfaces
  <2> QED
    BY <1>0, <2>4, AnswerKeeps
<1>2. CASE AskExplain
  <2>1. PICK q \in Explains : q.anchor \in DOMAIN docs /\ Answered(Explain(q))
    BY <1>2 DEF AskExplain
  <2>2. PICK a : a = Explain(q)
    OBVIOUS
  <2>3. Truthful(a) /\ a.surface = "explain"
    BY <1>0, <2>1, <2>2, ExplainFaithful
  <2>4. Sound(a) /\ Answered(a)
    BY <2>1, <2>2, <2>3 DEF Sound, Searched, Surfaces
  <2> QED
    BY <1>0, <2>4, AnswerKeeps
<1>3. CASE AskContext
  <2>1. PICK q \in Contexts : Answered(Context(q))
    BY <1>3 DEF AskContext
  <2>2. PICK a : a = Context(q)
    OBVIOUS
  <2>3. Truthful(a) /\ a.surface \in {"context", "no-entry", "ambiguous"}
    BY <1>0, <2>2, ContextFaithful
  <2>4. Sound(a) /\ Answered(a)
    BY <2>1, <2>2, <2>3 DEF Sound, Searched, Surfaces
  <2> QED
    BY <1>0, <2>4, AnswerKeeps
<1>4. CASE AskImpact
  <2>1. PICK q \in Impacts : Answered(Impact(q))
    BY <1>4 DEF AskImpact
  <2>2. PICK a : a = Impact(q)
    OBVIOUS
  <2>3. Truthful(a) /\ a.surface = "impact"
    BY <1>0, <2>2, ImpactFaithful
  <2>4. Sound(a) /\ Answered(a)
    BY <2>1, <2>2, <2>3 DEF Sound, Searched, Surfaces
  <2> QED
    BY <1>0, <2>4, AnswerKeeps
<1>5. CASE AskMembership
  <2>0. PICK q \in Impacts : \E stop \in Hubs \ {q.anchor} :
          LET w == [WalkOf(q, q.depth) EXCEPT !.stops = {stop}] IN
            Answered([surface |-> "membership", query |-> w, walk |-> Traverse(w)])
    BY <1>5 DEF AskMembership
  <2>1. PICK stop \in Hubs \ {q.anchor} :
          LET w == [WalkOf(q, q.depth) EXCEPT !.stops = {stop}] IN
            Answered([surface |-> "membership", query |-> w, walk |-> Traverse(w)])
    BY <2>0
  <2>2. PICK w : w = [WalkOf(q, q.depth) EXCEPT !.stops = {stop}]
    OBVIOUS
  <2>3. PICK a : a = [surface |-> "membership", query |-> w, walk |-> Traverse(w)]
    OBVIOUS
  <2>4. Truthful(a) /\ a.surface = "membership"
    BY <1>0, <2>2, <2>3, MembershipFaithful
  <2>5. Sound(a) /\ Answered(a)
    BY <2>1, <2>2, <2>3, <2>4 DEF Sound, Searched, Surfaces
  <2> QED
    BY <1>0, <2>5, AnswerKeeps
<1>6. CASE Return
  <2>1. QueryDocs' /\ reply' = Absent
    BY <1>0, <1>6 DEF Return, QueryDocs
  <2> QED
    BY <2>1, SilenceKeeps
<1>7. ASSUME NEW e, ChangeFile(e) PROVE QueryInv'
  <2>1. QueryDocs' /\ reply' = Absent
    BY <1>0, <1>7 DEF ChangeFile, QueryDocs
  <2> QED
    BY <2>1, SilenceKeeps
<1>8. ASSUME NEW e, ChangeSource(e) PROVE QueryInv'
  <2>1. QueryDocs' /\ reply' = Absent
    BY <1>0, <1>8 DEF ChangeSource, QueryDocs
  <2> QED
    BY <2>1, SilenceKeeps
<1>9. CASE UNCHANGED queryVars
  <2>1. /\ docs' = docs /\ file' = file /\ source' = source /\ reply' = reply
    BY <1>9 DEF queryVars
  <2>2. QueryDocs'
    BY <1>0, <2>1 DEF QueryDocs
  <2>3. CASE reply = Absent
    BY <2>1, <2>2, <2>3, SilenceKeeps
  <2>4. CASE reply # Absent
    <3>1. PICK a : a = reply
      OBVIOUS
    <3>2. Truthful(a)
      BY <2>4, <3>1
         DEF QueryInv, Truthful, WalkIsReach, EveryReferenceAnswered, AnchorNeverSilent
    <3>3. Searched(a)
      BY <2>4, <3>1
         DEF QueryInv, Searched, NothingUnsaid, ExactFiltersHold, FiltersHold, Worded, Said, Passed
    <3>4. WalkIsReach' /\ EveryReferenceAnswered' /\ AnchorNeverSilent'
      BY <2>1, <3>1, <3>2, WalkStays, ReferencesStay, AnchorStays
    <3>5. NothingUnsaid' /\ ExactFiltersHold'
      BY <2>1, <3>1, <3>3, SearchStays
    <3>6. (reply # Absent => reply.surface \in Surfaces)'
      BY <2>1 DEF QueryInv
    <3> QED
      BY <2>2, <3>4, <3>5, <3>6 DEF QueryInv
  <2> QED
    BY <2>3, <2>4
<1> QED
  BY <1>1, <1>2, <1>3, <1>4, <1>5, <1>6, <1>7, <1>8, <1>9 DEF QueryNext

\* It holds at first.
LEMMA SoundStart ==
  ASSUME QueryInit PROVE QueryInv
<1>1. QueryDocs /\ reply = Absent
  BY DEF QueryInit, QueryDocs
<1> QED
  BY <1>1 DEF QueryInv, WalkIsReach, EveryReferenceAnswered, AnchorNeverSilent, NothingUnsaid,
         ExactFiltersHold, FiltersHold

\* It holds always.
LEMMA QueryInvariant == QuerySpec => []QueryInv
  BY SoundStart, SoundStep, PTL DEF QuerySpec

\* Every walk that traverse reports without a limit reached every node within its
\* depth, each at its distance, and nothing else; every chain of any walk is a path
\* of permitted hops, as exact as its weakest (WalkIsReach).
THEOREM WalksReach == QuerySpec => []WalkIsReach
<1>1. QueryInv => WalkIsReach
  BY DEF QueryInv
<1> QED
  BY <1>1, QueryInvariant, PTL

\* explain and context give every reference from a lane asked for, or say that the
\* list was cut (EveryReferenceAnswered).
THEOREM ReferencesAnswered == QuerySpec => []EveryReferenceAnswered
<1>1. QueryInv => EveryReferenceAnswered
  BY DEF QueryInv
<1> QED
  BY <1>1, QueryInvariant, PTL

\* explain, context and impact are silent about their anchor exactly if its lane,
\* file and sources allow it (AnchorNeverSilent).
THEOREM AnchorsTold == QuerySpec => []AnchorNeverSilent
<1>1. QueryInv => AnchorNeverSilent
  BY DEF QueryInv
<1> QED
  BY <1>1, QueryInvariant, PTL

\* search accounts for every entry with a word of the text while the cap is not
\* reached, and gives no entry that a filter keeps out (SearchSound).
THEOREM SearchesSound == QuerySpec => []SearchSound
<1>1. QueryInv => SearchSound
  BY DEF QueryInv, QueryDocs, Surfaces, SearchSound, QueryTypeOK
<1> QED
  BY <1>1, QueryInvariant, PTL
=============================================================================
