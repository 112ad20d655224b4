---------------------------- MODULE FeatureModel ----------------------------
(***************************************************************************)
(* The document of one Feature, as scripts/feature_knowledge.py defines    *)
(* it: a typed model of nodes, relations, claims, questions and artifact   *)
(* bindings, a narrative, and the operations, checks, lanes and citation   *)
(* verdicts over them.  The module has no state of its own.                *)
(*                                                                         *)
(* The rows of a kind are a sequence.  The executor is the only one that   *)
(* numbers rows, it counts up and it never deletes one, so a row's number  *)
(* is its place.  A digest is represented by what it covers.  The          *)
(* feature's name, limitations and sensitivity enter the digest as the     *)
(* narrative does and are represented by it.                               *)
(***************************************************************************)
EXTENDS Naturals, Sequences, FiniteSets

CONSTANTS
  Entries,        \* identities of Knowledge Entries
  EntryDigests,   \* reviewed content digests of entries
  Texts,          \* narratives of the core sections
  Sentinel,       \* <AGENT_FEATURE_DESCRIPTION>
  Terms,          \* terms of the approved taxonomy
  None            \* nothing: no row, no document, no record, no receipt

IdKinds == {"FN", "FR", "FC", "FQ", "FB"}
Ids == IdKinds \X (Nat \ {0})
Authorities == {"source-exact", "human-attested", "org-observed",
                "source-derived-heuristic", "unresolved"}
CitableAuthorities == {"source-exact", "human-attested", "org-observed"}

\* The schema's required fields and the ones that name other rows.  A claim
\* is technical if its type is in SOURCE_REQUIRED_CLAIM_TYPES.
Rows ==
  [FN |-> [live : BOOLEAN, evidence : SUBSET Ids],
   FR |-> [live : BOOLEAN, from : Ids, to : Ids,
           authority : Authorities, refs : SUBSET Ids],
   FC |-> [live : BOOLEAN, technical : BOOLEAN, authority : Authorities,
           citable : BOOLEAN, deps : SUBSET Ids, refs : SUBSET Ids],
   FQ |-> [live : BOOLEAN, resolved : BOOLEAN],
   FB |-> [live : BOOLEAN, entry : Entries, digest : EntryDigests]]

\* What the schema admits as a field, whatever the kind of its row.
FieldValues ==
  [live |-> BOOLEAN, technical |-> BOOLEAN, citable |-> BOOLEAN, resolved |-> BOOLEAN,
   authority |-> Authorities, from |-> Ids, to |-> Ids, evidence |-> SUBSET Ids,
   refs |-> SUBSET Ids, deps |-> SUBSET Ids, entry |-> Entries, digest |-> EntryDigests]

RowTables ==
  [FN : Seq(Rows.FN), FR : Seq(Rows.FR), FC : Seq(Rows.FC), FQ : Seq(Rows.FQ),
   FB : Seq(Rows.FB)]

\* new_feature_frontmatter and initial_body.
NewDocument ==
  [rows |-> [k \in IdKinds |-> <<>>], entryPoints |-> {}, body |-> Sentinel,
   keywords |-> {}, version |-> 0, state |-> "draft", mirror |-> None]

\* What the reviewed content digest covers: not the draft version, not the
\* lifecycle, not the approval block, not the keywords.
Digest(d) == [rows |-> d.rows, entryPoints |-> d.entryPoints, body |-> d.body]

Digests == [rows : RowTables, entryPoints : SUBSET Ids, body : Texts \cup {Sentinel}]

DocumentRecords ==
  [rows : RowTables, entryPoints : SUBSET Ids, body : Texts \cup {Sentinel},
   keywords : SUBSET Terms, version : Nat, state : {"draft", "approved"},
   mirror : {None} \cup Digests]

IsDocument(d) == d \in DocumentRecords /\ d.mirror \in {None, Digest(d)}

-----------------------------------------------------------------------------
(* Validation. *)

Row(d, id) == d.rows[id[1]][id[2]]
Live(d, id) == id[2] \in DOMAIN d.rows[id[1]] /\ Row(d, id).live
LiveIds(d, k) == {id \in {k} \X DOMAIN d.rows[k] : Row(d, id).live}
AllLive(d) == UNION {LiveIds(d, k) : k \in IdKinds}

\* An id named anywhere exists and is not tombstoned.
Closed(d) ==
  /\ \A n \in LiveIds(d, "FN") : Row(d, n).evidence \subseteq LiveIds(d, "FC")
  /\ \A r \in LiveIds(d, "FR") :
       /\ {Row(d, r).from, Row(d, r).to} \subseteq LiveIds(d, "FN")
       /\ Row(d, r).refs \subseteq LiveIds(d, "FB")
  /\ d.entryPoints \subseteq LiveIds(d, "FN")
  /\ \A c \in LiveIds(d, "FC") :
       /\ Row(d, c).deps \subseteq AllLive(d)
       /\ Row(d, c).refs \subseteq LiveIds(d, "FB")

\* The authority matrix: approval cannot launder.
Authorized(d) ==
  /\ \A s \in LiveIds(d, "FR") \cup LiveIds(d, "FC") :
       Row(d, s).authority = "source-exact" => Row(d, s).refs # {}
  /\ \A c \in LiveIds(d, "FC") :
       /\ Row(d, c).authority = "human-attested" => ~Row(d, c).technical
       /\ Row(d, c).authority \notin CitableAuthorities => ~Row(d, c).citable

Admissible(d) == Closed(d) /\ Authorized(d) /\ d.keywords \subseteq Terms

\* validate_feature finds nothing.
Valid(d) == Admissible(d) /\ d.body # Sentinel

-----------------------------------------------------------------------------
(* Operations.  `receipt` is what the binding resolver answers for each    *)
(* entry: its digest if its lane is effective, None if it refuses.         *)

SetRow(d, k, id, data) ==
  IF id = None
    THEN [d EXCEPT !.rows[k] = Append(@, data)]
  ELSE IF Live(d, id)
    THEN [d EXCEPT !.rows[k][id[2]] =
            [f \in DOMAIN @ |-> IF f \in DOMAIN data THEN data[f] ELSE @[f]]]
  ELSE None

Tombstone(d, id) ==
  IF Live(d, id) THEN [d EXCEPT !.rows[id[1]][id[2]].live = FALSE] ELSE None

Bind(d, e, receipt) ==
  IF receipt[e] = None THEN None
  ELSE SetRow(d, "FB", None, [live |-> TRUE, entry |-> e, digest |-> receipt[e]])

\* What the schema admits in an operation; a batch that leaves anything else is
\* refused as a whole.
IsOperation(o) ==
  /\ o.op = "set" =>
       /\ o.kind \in IdKinds
       /\ IF o.id = None THEN o.data \in Rows[o.kind]
          ELSE /\ o.id \in {o.kind} \X (Nat \ {0})
               /\ DOMAIN o.data \subseteq DOMAIN FieldValues
               /\ \A f \in DOMAIN o.data : o.data[f] \in FieldValues[f]
  /\ o.op = "remove" => o.id \in Ids
  /\ o.op = "bind" => o.entry \in Entries
  /\ o.op = "section" => o.text \in Texts \cup {Sentinel}
  /\ o.op = "entryPoints" => o.nodes \subseteq Ids

ApplyOperation(d, o, receipt) ==
  CASE o.op = "set" -> SetRow(d, o.kind, o.id, o.data)
    [] o.op = "remove" -> Tombstone(d, o.id)
    [] o.op = "bind" -> Bind(d, o.entry, receipt)
    [] o.op = "section" -> [d EXCEPT !.body = o.text]
    [] o.op = "entryPoints" -> [d EXCEPT !.entryPoints = o.nodes]
    [] o.op = "keywords" -> [d EXCEPT !.keywords = o.terms]
    [] OTHER -> None

\* What each operation of a batch leaves, or None from the first one that fails.
After(d, batch, receipt) ==
  LET after[i \in 0 .. Len(batch)] ==
        IF i = 0 THEN d
        ELSE IF after[i - 1] = None THEN None
        ELSE ApplyOperation(after[i - 1], batch[i], receipt)
  IN after

\* apply_operations: the whole batch or nothing.  Narrative gaps are allowed
\* in a draft, broken references are not.  No operation changes the version.
Recorded(d, batch, receipt) ==
  LET applied == After(d, batch, receipt)[Len(batch)]
  IN IF applied = None \/ ~Admissible(applied) THEN None
     ELSE [rows |-> applied.rows, entryPoints |-> applied.entryPoints, body |-> applied.body,
           keywords |-> applied.keywords, version |-> d.version + 1, state |-> "draft",
           mirror |-> None]

\* What feature-approve writes over the document it read.
Stamped(d) == [d EXCEPT !.state = "approved", !.mirror = Digest(d)]

-----------------------------------------------------------------------------
(* Lanes. *)

\* compute_feature_lane against the latest ledger record of the feature.
Lane(d, record) ==
  IF record # None /\ record.action = "revoke" THEN "revoked"
  ELSE IF d.state = "draft" THEN "draft"
  ELSE IF ~Valid(d) \/ record = None THEN "not-effective"
  ELSE IF record.digest # Digest(d) THEN "not-effective"
  ELSE "approved-current"

-----------------------------------------------------------------------------
(* Citations. *)

\* Faulty variant: the evidence of the requested statement alone.
SelectedDirect(d, id) == {id}

\* closure_bindings: the statements the traversal visits from a claim by
\* following dependsOn, level by level.  A relation requested by itself is not
\* followed.
Follow(d, S) == S \cup UNION {Row(d, c).deps : c \in S \cap LiveIds(d, "FC")}

Levels(d, id) ==
  LET visited[n \in 0 .. Cardinality(AllLive(d))] ==
        IF n = 0 THEN {id} ELSE Follow(d, visited[n - 1])
  IN visited

Visited(d, id) == Levels(d, id)[Cardinality(AllLive(d))]

\* The bindings whose currency decides on a requested statement.
SelectedBindings(d, id) ==
  UNION {Row(d, s).refs : s \in Visited(d, id)
                                 \cap (LiveIds(d, "FC") \cup LiveIds(d, "FR"))}

BindingState(d, b, receipt) ==
  IF receipt[Row(d, b).entry] = None THEN "unknown"
  ELSE IF receipt[Row(d, b).entry] = Row(d, b).digest THEN "current"
  ELSE "drifted"

Citable(d, id) ==
  /\ Row(d, id).authority \in CitableAuthorities
  /\ id[1] = "FC" => Row(d, id).citable

\* verify_feature_citations for requested statements, against the digest a
\* stored reference pins (None: the direct mode).
Verdict(d, record, ids, pinned, receipt) ==
  LET selected == UNION {SelectedBindings(d, id) : id \in ids}
      states(B) == {BindingState(d, b, receipt) : b \in B}
  IN IF ~Valid(d) THEN "invalid"
     ELSE IF Lane(d, record) # "approved-current" THEN "not-approved"
     ELSE IF pinned \notin {None, Digest(d)} THEN "superseded"
     ELSE IF \E id \in ids : id \notin LiveIds(d, "FC") \cup LiveIds(d, "FR") THEN "unknown-id"
     ELSE IF \E id \in ids : ~Citable(d, id) THEN "not-citable"
     ELSE IF "drifted" \in states(selected) THEN "drifted"
     ELSE IF "unknown" \in states(selected) THEN "unknown"
     ELSE IF states(LiveIds(d, "FB") \ selected) \subseteq {"current"} THEN "current"
     ELSE "degraded"

=============================================================================
