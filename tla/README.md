# TLA+ models of the Salesforce extension harness

This directory holds TLA+ modules, TLC configurations and TLAPS proofs about the programs
of this repository: the governed knowledge base (`scripts/knowledge_*.py`,
`scripts/feature_knowledge.py`, `scripts/force_app_knowledge.py`), the native Salesforce
operation tool with its policy and job executor (`extensions/salesforce-operations`,
`scripts/salesforce_*`), the read-only Salesforce review server and the Azure DevOps
connector. Every definition is translated from the source; `PROJECT.json` maps each one to
the lines it stands for, and lists the hazards of the code with the properties about them.

Contents: 1 the system, 2 the modules, 3 the runs, 4 fairness, 5 proofs, 6 where code and
words part, 7 limits, 8 what is left.

## 1. The system

The repository is a set of short-lived command-line programs, one VS Code extension and
a few stdio servers, which meet in files of the working tree and in orgs and services
outside. What is hard about it is mostly between programs: several of them read, decide
and write the same files without a lock, any of them may be killed between two writes, and
git, editors, logins and people change what they rest on while a human thinks or a request
is under way.

| Component | State | Operations | Hard behaviour | Correct if | Module |
|---|---|---|---|---|---|
| Entry store, approval lane (`knowledge_store.py`) | entry files, `artifacts-ledger.jsonl` | draft, describe, review, approve, revoke | read-decide-write without locks, chunks that die half-way, byte replay by checkout | an effective entry is one a human was shown; revocations hold | `KnowledgeStore` |
| Entry store, org usage lane (same file) | `orgUsage` section, `artifacts-org-ledger.jsonl` | org-attach, org-detach, lane | slow probe between read and write; two writes | approvals are untouched; a section no record covers is noticed | `KnowledgeStore` |
| Collector and inventory (`force_app_knowledge.py`) | cached inventory | inventory, resolve, extract, edge-health | cache against a moving tree, adapters that change | what is taken is what the tree said | `SourceTree` |
| Citations and change checks (`knowledge_store.py`) | none | lane, verify-citations, status, check, coverage, maintenance, readiness | the same state judged by several rules; narrow checks | reports agree; no change is hidden | `EntryReports` |
| Feature knowledge (`feature_knowledge.py`, `knowledge_store.py`) | feature files and ledger | open, record, review, approve, revoke, verify-citations | version check then write, several files under one approval, receipts over a closure of claims | what is stamped was shown; a receipt rests on current bindings | `FeatureModel`, `FeatureKnowledge` |
| Search index (`knowledge_search.py`) | `current.json`, `gen-*` | build, load, hydrate | builds and queries overlap, crash and reuse each other's work | accepted generations are current; only approved content is served | `SearchIndex` |
| Search surfaces (same file) | one loaded generation | search, explain, context, impact, membership | caps, budgets, several chains to one node, lanes and filters | nothing is left out without a gap | `SearchQuery` |
| Knowledge MCP server (`knowledge_mcp_server.mjs`) | one child per call | one rebuild, one retry | timer against a late answer | a healed answer is a fresh one | `SearchIndex` |
| Operation tool: extension, host (`extension.cjs`, `protocol.mjs`, `host.mjs`) | active flag, one session, timers | invoke, ask, re-check, dispatch, cancel | answer, cancellation, timer, exit and line race | at most one command, as assessed and confirmed; always ends | `OperationSession` |
| Operation tool: worker (`salesforce_operation_session.py`) | one assessment | ask, hear, emit | state read, then dialogs, then used | emits only what still holds | `OperationSession`, `JobExecutor` |
| Command policy, job selection (`salesforce_operation_policy.py`, `salesforce_job_selection.py`) | none | classify, evaluate, select | many names of one org, stale caches | production is never changed | `OperationPolicy` |
| Job executor (`salesforce_job_executor.mjs`) | one job | validate, connect, deploy, resume, report, cancel, poll | deadlines, late answers, termination | the exit code tells; the job is the one assessed | `JobExecutor` |
| Review facade (`salesforce_review_server.py` and its client) | token, frozen identity, thread pool | launch, call, refresh, cancel, drain | threads share a token that dies; identity changes | a proven token is the frozen org's; a noticed change closes the session; every call ends | `ReviewFacade` |
| Azure DevOps connector (`start_ado_mcp.mjs`, `ado_wiki_tools.mjs`, `ado_wiki_link_tools.mjs`) | launch scope, calls in progress | read, create, update, link, stop | lost and late requests, other writers | nothing unseen is overwritten; answers are true | `WikiTools` |
| Relation kinds, guards, hooks, validators, first launch | little or none | | | | not modelled, section 7 |

## 2. The modules

`ApprovalRegister` and `OneShotOperation` are the abstract specifications of
`KnowledgeStore` and `OperationSession`. `FeatureKnowledge`, `SourceTree` and `JobExecutor`
extend the stateless `FeatureModel`, `EntryReports` and `OperationPolicy`.
The eight modules whose names end in `Proofs` hold the theorems (section 5). Each `MC` module is a small
instance. A "faulty variant" is never used by a specification: it is what a plausible
mistake would make of the definition below it, and the mutants of `PROJECT.json` put it in
that definition's place to show that the property notices.

Throughout, a digest is represented by what it covers, so two digests are equal exactly if
the contents are; an append to a ledger and the replacement of a file are one step.

**KnowledgeStore.** `file[id]` is an entry file, `ledger` and `orgLedger` the two jsonl
files, `src[id]` the source fragment, `proc[p]` the position and local variables of a
command, `shown` (history) what `entry-review` rendered. `DraftRead`, `DraftPin`,
`AuthorWrite` are `command_entry_draft`; `DescribeRead`, `AuthorWrite` the describe command;
`ApproveStart`, `ApproveRead`, `ApproveStamp`, `ApproveAppend` read the ledger, then every
entry, then write file and ledger line per entry; `Revoke*` and `Org*` are the revocation
and the org commands. `Stop` kills a process, `SourceChange` and `ExternalWrite` are
editors and git. A ledger record keeps one field the code does not write, `base`, the length
its command had read: the properties need it.

**EntryReports, SourceTree.** A corpus is a tree, entry files, the latest ledger records and
the date. `Judged` is `compute_lane`; on it rest the citation verdict, `entry-check` in full
and narrow form, coverage with its maintenance summary and fact analysis, readiness and edge
health. In `SourceTree` sources, collector, entry files and commits change under commands:
`StartScan`, `StartDraft`, `Lookup`, the scan that parses first and digests later, the cache
written in place, and `Pin`, which takes the fragment's digest from the file as it is by then.
Approval and revocation are single steps there. The parsers of metadata types are the
constant `FactsOf`.

**FeatureModel, FeatureKnowledge.** `FeatureModel` has the rows of a feature document
(nodes, relations, claims, questions, bindings), the operations of a batch, validation,
lanes and the closure a receipt is issued over. `FeatureKnowledge` has the commands:
`Record*` with its version check, `ApproveStamp` per pinned file and the ledger lines at the
end, `Cite*` which reads ledger, document and bound entries one after the other.

**SearchIndex.** `entry` and `ledger` are the corpus as the index sees it (content and
modification time), `disk` the generation directories, `pointer` is `current.json`. A build
goes through the previous generation, ledger, entries (lane, projection, stamps), files,
swap and removal; a query through pointer, load, lanes and serving. `Stale` is the one
rebuild and one retry of the MCP server. `disturbed` (history) marks a change during a
build. Everything the commands of `KnowledgeStore` do is, for the index, `EntryChanges` and
`LedgerChanges`.

**SearchQuery.** One generation `docs` is loaded; entry files and their sources go on
changing and a query notices by reading them again. `Search`, `Explain`, `Context`, `Impact`
and the membership walk are operators that follow the code's order of filters, caps, gaps
and cuts; `Traverse` is the one bounded traversal. The loops of the code are recursive
functions over the hops of a node, the nodes of a frontier, the levels of a walk and the terms
of a text (`AlongHops`, `AlongItems`, `Walk`, `SeededFrom`), so that proofs can reason about them.
A count is represented by whether it is zero; scores and snippets are left out.

**OperationSession.** Extension (`call`, `active`), host (`host`) and worker (`worker`) are
three machines joined by two queues of lines. `host.at` names the `await` the session stands
at; each action is what runs until the next one. Every error path of `runSession` ends in
`End`, which also does what the two `finally` blocks do. A worker may repeat lines, die or
never do anything.

**OperationPolicy, JobExecutor.** `OperationPolicy` is `classify_target`, `evaluate` with
bindings, controllers and cached jobs, and `select_job`; commands are records. `JobExecutor`
follows one command from `Begin` over the dialogs (`Assess`, `Answer`) and the frozen
execution to the job runner: validation, the pinned connection, requests with timers, polling
with a deadline, termination, exit code. Requests are served or not, early, late or after
the executor gave up. An org says of a deployment its status and, apart from it, whether it is
`done`; either one ends the polling.

**ReviewFacade.** `Launch`, `TakeToken`, `Display`, `Probe` start the server and prove the
org; a call goes through pool, describe lock, requests, rejection, refresh lock, CLI, proof
and retry. `Send` notes the token a request is about to use and `Dispatch` sends the one there
is by then, because `get_json` and `_get` read it separately. `Login`, `Expire`, `Refresh` are
the world outside. `server.proven` says whether the token in use has passed a proof; of a call,
`other`, `unproven` and `late` (history) mark a response of another org than the frozen one, a
request that went out with a token no proof had passed, and a beginning after the identity was
found to have changed.

**WikiTools.** `launcher` is the process of `start_ado_mcp.mjs` and the scope it was launched
with, `call[a]` the call of an author inside the vendor process, which runs them side by
side: each `await` separates two actions. `WritePage` is the read before the write with its
conflict and scope checks and the conditional PUT; `LinkItem` the read of the Work Item and
the patch that tests its revision. `wire` holds requests that are not served yet: they
outlive their caller and the connector. `known` is the page an author was given last; an
author updates with its ETag. The service is modelled as these modules rely on it (it
compares a precondition and saves in one step).

## 3. The runs

| Run | Question | Instance | States |
|---|---|---|---|
| `StoreConcurrent` | may two commands, a crash and a checkout make unreviewed content effective or undo a revocation? is the store an approval register? | 1 entry, 2 processes, 2 texts, 3 ledger lines, 1 checkout | 0.46 M |
| `StoreChunks` | do crashes inside a chunk break the ledger, the caps or the effect of an approval? | 2 entries, 1 process, limits 1 and 2, 4 lines | 1.0 M |
| `StoreOrg` | do org observations leave approvals alone, and is a mismatch noticed? | 1 entry, 1 process, 2 source versions, 1 org, 2 observations | 0.7 M |
| `Features` | is what is stamped what was shown, do chunks and versions hold, do receipts? | 2 features, 2 processes, 1 entry with 2 digests, 2 batches, 2 ledger lines, 5 commands | 0.30 M |
| `SourceReports` | is what is collected what a state of the tree said, does the analysis tell how it moved since, do the reports agree? | object, field, class; 1 process; 2 collectors, 2 edits, 1 day | 0.55 M |
| `Search` | are accepted generations current, and is what is served approved? | 2 processes, 2 commands, 2 changes, 1 of them during a build | 2.2 M |
| `SearchBuildRace` | may a revoked entry be served as approved? | 1 process, 1 change during a build | violated, section 6 |
| `Query` | do walks reach what they may, and is every omission reported? | 4 entries, 110 corpora, about 100 questions, small caps | 0.10 M |
| `Operation` | is a command run only as assessed, never on production, after no faulty worker, at most once, and does it end? | 2 invocations, 2 orgs, changes of configuration, logins, trust | 0.55 M |
| `Jobs` | do terminal policy, selection and executor agree, is the job the assessed one, does the exit code tell? | 15 commands, 45 worlds, 2 servers, 1 change | 0.70 M |
| `Facade` | whom may data of another org reach, is one refresh enough, does the client accept what is sent, does every call end? | 2 calls on 2 threads, 2 orgs, 5 configurations, 2 events | 0.47 M |
| `Wiki` | is nothing unseen overwritten, no link doubled, every answer true? | 2 authors, 2 projects, 2 contents, 3 page versions, 2 calls, 2 events | 1.1 M |

What a property says is written above it in its module. Several are conjunctions of named
parts, so that a run asks one question: `ChunksRight`, `CollectedAsFound`, `SidesAgree`,
`IndexRight`, `OneAtATime`, `ReportsRight`, `SearchSound`, `IdentityFrozen`, `AsAssessed`.

Why the bounds are enough to be worth the run. The races of the entry store are between two
commands on one entry; three ledger lines admit approve, revoke and an approve that was in
flight. Chunks need two entries and two limits that differ (1 and 2 stand for
`PROSE_CHUNK_LIMIT` 25 and `MANIFEST_CHUNK_LIMIT` 500). Two features let one chunk die
between them, two digests let a binding move, and the batches have a claim that rests on
another, a rebinding and a removal. The class of `SourceReports` can change in each of the
kinds of fact the digest treats differently, become unparsable and vanish. In the index two
changes and two commands suffice for a generation to go stale, be rebuilt with reuse and be
queried, because a run starts with or without a valid index. The corpora of `Query` are all
sets of four out of seven edges, among them a cycle, a name in another case, a bare member
name, a packaged namesake and a missing target; its caps are small so that they are met. A
session has one command, so two invocations show what one leaves behind for the other. The
worlds of `Jobs` pair every meaning of an alias with pinned, unpinned, production and unusable
configuration and with fresh, expired and missing caches. Two calls suffice for the facade's
locks to be contended. Two calls of two authors are a race of two writes, a read and a stale
update, or a link and its repetition; three page versions admit delete and recreate.

`MaxLedger`, `MaxOrgLedger`, `MaxEdits`, `MaxVersion`, `MaxStarts`, `MaxDay`, `MaxClock`,
`MaxDuring`, `MaxLines`, `MaxConfig`, `MaxLogin`, `MaxChanges`, `MaxGets`, `MaxEvents` and
`MaxCalls` are bounds of the models; `ProseLimit`, `ManifestLimit`, `Cap`, `MaxNodes`,
`MaxFanout`, `MinCorpus`, `PoolSize`, `DefaultWait`, `MaxWait` are small stand-ins for limits
of the code. Every run but `Query`, whose model can always ask again, disables the deadlock
check: the bounds stop the models, and a program with nothing to do may stop. Symmetry is
used for processes, features, texts, authors and the like only where no property of the run is
a liveness property.

## 4. Fairness

Three specifications assume fairness, each of what the code schedules itself.

* `OperationSession!FairSpec`: `WF(HostStep)`, Node's event loop runs the continuation of an
  `await` whose condition holds; `WF(TimerFires)`, the timer of the session
  (`LIMITS.sessionMs`); `WF(CommandStops)`, the timer of `runBounded` (`LIMITS.executionMs`).
  Nothing is assumed of worker, human, command or workspace. `InvocationsEnd` needs it.
* `JobExecutor!Spec`: `WF(Executor)`, the runner goes on and its request timers and deadlines
  fire; nothing is assumed of the org or the human. `ExecutionEnds` needs it.
* `ReviewFacade!Spec`: `WF(Work(r))` for every call: a thread runs, and each request and CLI
  call it waits for has a timeout of its own. The locks are part of the model, so fairness of
  one call does not give it a lock another one keeps. `CallsEnd` needs it.

`WikiTools` states no liveness: the handlers' own requests have a timeout, the vendor SDK's
calls to the same service have none.

## 5. Proofs

`tlapm` proves the theorems below for every value of the constants: any number of entries,
processes, texts, orgs, logins, requests, threads, authors or worlds, and of the bounds that
keep TLC's instances finite. The assumptions are the `ASSUME` of each module
(`StoreAssumption`, `FeatureAssumption`, `SessionAssumption` and `NoneAssumption`,
`JobAssumption`, `FacadeAssumption`, `WikiAssumption`, `IndexAssumption`, `QueryAssumption`,
`SourceAssumption`): what kind of thing a constant is, that sets the code counts are finite,
and that `None` and other markers are none of the values they stand beside. TLC evaluates them
on every run. Each inductive invariant was an invariant of a run of TLC before it was proved.

A proof module follows one pattern: the conjuncts of an invariant named for what they say, the
lemmas about operators, one lemma per action or conjunct, and a theorem whose last step is the
temporal one.

| Module | Theorems | Inductive invariant |
|---|---|---|
| `KnowledgeStoreProofs` | `TypeCorrect`, `EffectiveReviewed`, `RevocationHolds`, `StoreImplementsRegister`, `ChunksHold`, `LargeChunksHold`, `ApprovalsTakeEffect`, `OneOrgMismatchSeen` | `TypeInv`, `ApprovalInv`; `TypeInv` with `ChunkInv`, `Counted`, `Kept`, `Detached` |
| `SourceProofs` | `CollectionsAreFound`, `AnalysesTell`, `NarrowChecksSuffice`, `ReportsAreRight` | `Typed`, `Stamped`, `GoodInventory`, `GoodProcesses`, `GoodDrafts`, `GoodBase` |
| `FeatureProofs` | `StampsWereReviewed`, `OneAtATimeHolds`, `ReceiptsAlwaysHold` | `Inv` (`Functions`, `Documents`, `Commands`), `Types`, `Undisturbed`, `Backed`, `Cited` |
| `SearchProofs`, of `SearchIndex` | `IndexStaysRight`, `ServedWasReviewed` | `GoodCorpus`, `GoodDisk`, `GoodProcesses`, `GoodAnswers` |
| `SearchProofs`, of `SearchQuery` | `WalksReach`, `ReferencesAnswered`, `AnchorsTold`, `SearchesSound` | `QueryInv`; for a walk `Ahead`, `Walked` |
| `OperationProofs` | `TypeCorrect`, `RanWasAssessed`, `ProductionIsKept`, `FaultyWorkersRunNothing`, `OperationsAreOneShot` | `TypeOK`, `Sessions`, `Heard`, `CleanWorker`, `Dialogs`, `Judged`, `Rechecked` |
| `JobProofs` | `WorkStaysAssessed`, `ExitsTell`, `AnswersAreFinal`, `SidesStayAgreed` | `Shapes`, `Beginning`, `Overlaid`, `Asked`, `Selected`, `Executing`, `Pointed`, `Flown`, `Hit`, `Told`, `Frozen` |
| `FacadeProofs` | `TypeCorrect`, `IdentityStaysFrozen`, `LiveTokenKept`, `EnvelopesAreAccepted` | `Typed`, `Started`, `Asked`, `Proven`, `Locks`, `Pool`, `LateCalls` |
| `WikiProofs` | `AnswersStayTrue`, `WritesReplaceWhatWasRead`, `LinksAreAddedOnce` | `Typed`, `Progress`, `Numbered`, `Unique`, `Conditional` |

The arguments, in short.

* **Entry store, types.** `TypeOK` alone is not inductive: that `AuthorWrite` writes a file, that
  `ApproveStamp` has read the entry it stamps and that a revocation carries a digest depends on
  where the process stands. `TypeInv` adds `Shaped`, which says what a process holds at each point.
* **Entry store, approvals.** The pins of an approve command and the digests of its ledger
  records were shown (`PinsReviewed`); the count a running approve command carries lies between the
  length it read and the length of the ledger, and if it is still that length, only approvals came
  after what the command read (`CountsHold`). A ledger that is readable after an append got the
  next number, so it was as long as the command's own count, so no revocation came after the length
  it had read. Any number of writers.
* **Entry store and register.** Under `Pending` (the pins an approve command still carries out)
  and `Granted` (what the readable ledger puts in force) every step is a step of
  `ApprovalRegister` or leaves it alone. `ApproveAppend` grants a pin, or makes the ledger
  unreadable and so withdraws every grant; a revocation withdraws one and voids the pins in flight.
* **Entry store, ledgers and lanes.** What a chunk may hold follows from what its command found
  when it read (`Capped`). `ChunksHold` assumes `OneWriter`, because two appends that overlap
  make the ledger unreadable (section 6); with one, the command's count is the ledger's length
  (`Counted`). `LargeChunksHold`, that in a readable ledger a chunk beyond the limit for
  prose approves only texts that were approved before, needs no such assumption.
  `ApprovalsTakeEffect` assumes `OneWriter` and `MaxEdits = 0` (nothing but the commands writes
  entry files): then the file a command holds is the one on disk (`Kept`).
  `OneOrgMismatchSeen` assumes one configured org: then a detach record has no org in it
  (`Detached`). These are the hypotheses under which the runs check the
  properties, too; without them the code's behaviour differs, as section 6 says.
* **Sources and reports.** An edit of the tree between the two readings of a collection marks
  what comes of it torn; otherwise the map a process or the inventory holds is what its collector
  finds in the tree with the digest it carries (`GoodInventory`, `GoodProcesses`), and so is the
  digest a draft is stamped with (`GoodDrafts`). A commit that passed in full has no problems
  (`GoodBase`); an entry the narrow check does not open is byte for byte one of that commit, whose
  subject is therefore its path's name, so opening it would find nothing. `AnalysesTell` rests on
  `GoodDrafts` too: the facts an untorn entry carries, whatever commands rewrote the file since,
  are those its collector makes of the source it pins; an entry that is effective and current
  pins today's source (`CurrentIsPinned`), and equal collections give equal digests
  (`DigestReflexive`). That reports say what the trees and records are, are lemmas on the operators
  of `EntryReports`. `ReportsRight` speaks of edges by names only this tree can create.
* **Features.** A document on disk or in git that says it is approved is valid and was rendered
  (`Documents`); so is one a command is about to stamp, while what a record is about to write is
  a draft (`Commands`). A stamp leaves reviewed digest and validity alone.
  For `OneAtATimeHolds`: a batch, operation by operation, fails or leaves a document of the
  schema's shape (`BatchContent`), so documents, ledger and commands stay typed (`Types`). As long
  as `calm` holds no two commands run at once, and the document a command works on is the one on
  disk and the one its author saw (`Undisturbed`). If in addition none died or was refused
  half-way, every stamp is settled by the last ledger record of its feature or named by a line a
  running command still has to append, and the count that command holds is the ledger's length
  (`Backed`); once no command runs, only the first is left. `FeatureAssumption` asks that a batch
  is a finite sequence of operations the schema admits (anything else is refused as a whole, which
  changes nothing) and that `None` is no document and no record.
  For `ReceiptsAlwaysHold`: what a citation read of the ledger is still a record of it, and an
  approved document it read was rendered (`Cited`); the rest is about the walk over a closure.
  `closure_bindings` follows `dependsOn` level by level, as many levels as there are live rows.
  A level that adds nothing ends the walk, and one that adds something adds a live row, because a
  valid document has no dangling reference; so after that many levels nothing more is added
  (`VisitedClosed`), and the result contains the least closed set that `RestsOn` speaks of
  (`EvidenceSelected`). Both inductions, over a batch and over levels, are on sets of numbers
  (`SetInduction`, from the well-foundedness of `<`), which need no operator as a parameter.
* **Index.** A generation's name says its lanes and digests, so builds that write one directory
  write the same documents. A manifest whose fingerprint is the present one has as many entries
  as there are, none of them newer, so it has the same entries with the same content and the
  ledger its lanes came from (`Dated`, from cardinalities). A projection whose stamps have not moved has
  the lane of its entry (`Faithful`), so reuse is safe. `Undisturbed` is what a build knows as long
  as no change fell into it; `IndexRight` is conditioned on that, as the run is, and
  `SearchBuildRace` shows why. `ServedWasApproved` is not.
* **Queries.** The temporal part is small: a query changes nothing it reads, so `QueryInv` holds
  if every answer is right when it is given (`Truthful`, `Searched`). What is hard is what the
  operators compute, and it is proved by induction over numbers, as for the batches of features.
  For a walk: a hop is followed in one of a few ways (`FollowedCases`); each keeps every chain
  a path of permitted hops that is as exact as its weakest (`Paths`), and as long as no limit is
  hit the nodes at the next distance are those met so far that no earlier level had (`Ahead`): over
  the hops of a node (`HopsAhead`), the nodes of a frontier (`ItemsAhead`) and the levels
  (`LevelWalked`). `Within` widens from all nodes so far and the walk from its frontier only; that
  is the same because what earlier nodes lead to is within already (`FrontierLeads`). A limit is
  never taken back, so a walk that ends without one never hit one.
  For references: a reference is a row that `explain` and `context` cut (`ReferencesPoint`), and of
  a list that is cut a row is given, or as many rows of its kind are (`CutGives`). For anchors:
  gaps about rows, lanes and limits are none about the anchor (`PlainParts`), and `verify_anchor`
  reports nothing exactly of an entry that may be served as it is (`AnchorGapsTell`). For searches:
  below the cap seeding takes every entry with a word of the text (`SeededIsWorded`, by
  induction over its terms), and what passes the filters is found or accounted for (`WordedSaid`).
  `QueryAssumption` asks that names and tokens are finitely many, that an entry has finitely many
  edges and its lane is one of `ALL_LANES`, and that questions are what `validateToolInput` of the MCP
  server and the parsers admit: lanes from `ALL_LANES`, numbers that are not negative (a command
  line by hand could name a negative `--top`). Cap and walk limits may be any numbers.
* **Operation.** One invocation holds the flag (`Sessions`); what the host took was said by the
  worker, and a repeated line still in the queue dooms the session (`Heard`, `CleanWorker`); an
  assessed line says what policy and confirmation allow (`Dialogs`, `Judged`); between the first
  and the second reading nothing changed if they agree (`Rechecked`), because versions only grow.
  The refinement maps each invocation to its stage in `OneShotOperation` and to the org its
  command ran against.
* **Jobs.** The overlay holds the configuration that was read with every answer given so far,
  and the same logins (`Overlaid`, `Asked`); a job was selected for the command that was assessed
  (`Selected`); every request after the connection goes to the selected org and job (`Pointed`), as
  do an answer under way (`Flown`) and what reached an org (`Hit`). A final status stays final and
  what is done stays done, so an exit code of 0 still tells (`Told`).
  `JobAssumption` asks that the rows of logins are finite, because an identity is a unique one.
  `SidesStayAgreed` assumes `Ordinary`: a username is the name of one login and neither an alias
  nor an Org ID, a cached sandbox process names no transport, and the default wait is one that may
  be asked for. Then the names a terminal command binds are all of the selected org, names of one
  org are classified alike (`ClassifiedAlike`), and the options `select_job` writes are those
  `validateJobExecution` accepts (`OptionsAccepted`). Without it, a name could be one
  login's alias and another's username, and the sides could take it for different ones. The instance of the run
  satisfies `Ordinary`; `MCJobExecutor` has it checked.
* **Facade.** `Locks` says who holds which lock at which point, `Pool` counts the calls that run
  against the threads, `Asked` that a call waiting for the refresh lock was
  rejected, so its token is dead and stays dead, and that the holder found the server's token to
  be that one; `Proven` that a token that passed a proof is of the frozen org, as is what a call
  gets that sent no unproven one, though the org at the URL may have changed since, because its
  sessions died with the refresh; `LateCalls` that a call begun after the change was noticed gets
  nothing.
* **Wiki.** Page and item versions are never used twice, so two pages with one ETag are one page
  (`Unique`); a request on the wire carries the ETag or revision of what it may replace
  (`Conditional`); and it is the one request of its call, so a late one does not make the answer
  of another call false (`Progress`, `Numbered`).

Only model-checked:

* liveness (`InvocationsEnd`, `ExecutionEnds`, `CallsEnd`) and whatever needs `ENABLED`;
* `OrgWriteKeepsLane`: it holds of one process only, beside others the code breaks it (section 6),
  and for one process the run says all there is to say.

Every other invariant and action property of the passing runs is stated by a theorem, some under
the hypotheses named above. No module declares a `RECURSIVE` operator.

## 6. Where the code and its words part

One divergence is kept as a run with expected violation, under `findings`:

* `SearchBuildRace`: a generation built while the ledger changes is accepted with old lanes
  (`knowledge_search.py:1524`), and stamps taken after the lane keep the wrong projection for
  later builds; line 13 promises a refusal instead of a stale answer.

These were found while modelling, and the properties except or condition on them by name:

* Two appends that overlap take one sequence number, and then every command refuses the ledger
  (`knowledge_store.py:737`, `:757`). The same refusal is what protects revocations: the store
  fails closed, but needs a repair by hand. `ChunksRight` is about one writer.
* An `entry-org-attach` in flight puts back the entry it had read, over an approval made
  meanwhile (`knowledge_store.py:3590`). `OrgWriteKeepsLane` is about one process.
* With two orgs the interrupted detach of the last one is not noticed if the latest record is
  itself a detach (`knowledge_store.py:3363`). `OrgMismatchDetected` is checked with one.
* A cached inventory taken by an older collector is recorded in a draft with the version of the
  current one (`knowledge_store.py:1108`). The version is compared with nothing, so the model
  leaves it out.
* An edit between the parse of an inventory and its digest yields a cache that is accepted as
  fresh (`force_app_knowledge.py:4787`). `AcceptedIsFresh` excepts inventories torn in this way.
* A query whose generation a build removes under it reads missing postings as empty and
  answers that nothing matches (`knowledge_search.py:1553`, `:1596`).
* Bindings named in a claim's `dependsOn` instead of its `evidenceRefs` are not compared when a
  receipt is issued, though the docstring speaks of the transitive closure
  (`feature_knowledge.py:361-377`). `ReceiptsHold` is about evidence references.
* `feature-approve` stamps a revoked document anew without asking whether its bindings are still
  current; `feature-open` can overwrite a document another process created in between.
* `_refresh_token_and_reprove` installs the new token before it is proven
  (`salesforce_review_server.py:578`). The docstring of the module promises that "the proven identity
  is frozen for the session and re-proven live after every 401 token refresh" (15-17), that of
  the class that it is re-proven "before any replay" (409-412), and a comment that "the refresh
  must never silently rebind the session to a different org" (579-580). That holds of the call
  that refreshes. Requests of other threads go out with the new token until its proof fails, and
  for good if the proof gets no answer (591-602), and may come back from another org in a
  VERIFIED envelope. `IdentityFrozen` names exactly this exception: another org answers only a
  call that sent a request with an unproven token (`OtherOnlyUnproven`), a proven one is the
  frozen org's (`ProvenIsFrozen`), and no call that begins after a noticed mismatch brings data
  (`ClosedForGood`).
* `configured-orgs` answers CONFIG_MISSING or CONFIG_INVALID if the file can no longer be read or
  names an unknown environment (`salesforce_review_server.py:1145`, `:1155`); the schema of the envelope
  knows neither code (`schemas/salesforce-org-review-evidence.schema.json`, from line 2239), so
  `validate_salesforce_review_envelope` refuses the answer. An exception nobody expected is answered with
  `{"error": "INTERNAL_ERROR"}` (1543-1545), which is no envelope. `EnvelopesAccepted` excepts these
  three. The client in this repository calls the query tool only (`knowledge_store.py:3476`).
* A deployment that the org calls done while its status is none of the four final ones, such as
  `FinalizingFailed`, ends the polling, is not counted as timed out and exits 0
  (`salesforce_job_executor.mjs:264`, `:268`, `:315`); so does a sandbox request with whatever status it
  returns (284-286). `ExitCodeTells` names the first; the caller has to read the status.
* A facet with an operator other than equality is ignored by relation and identity searches,
  though the docstring calls typed facets hard filters (`knowledge_search.py:14-16`);
  `ExactFiltersHold` excepts them. At the cap of candidates, entries of more frequent words are
  left out with no gap; if the rarest word matches nothing, candidates are cut in the order of
  their names and not reported (`knowledge_search.py:1995-2003`, "Never silently truncate").
  `NothingUnsaid` is about candidates below the cap.
* `search --identity` with a bare name that lives in another lane says that no entry projects
  it; an entry excluded by type or namespace is said to be in another lane.
* `impact` from a bare name walks from the name, so outgoing edges and references spelled with
  the identity are missed (`knowledge_search.py:2843-2858`). A node reached twice within a level
  gives several rows. `context` and `impact` share one row budget across lanes where `explain`
  keeps one per lane (`knowledge_search.py:2563`). A relation query without a kind that served
  other kinds is not told of capped grant families.
* A wiki page read by its ID resolves the path and then reads that path: if the page was
  deleted and created anew in between, the new page is returned (`ado_wiki_tools.mjs:178-187`).
  A configuration that moves to another project of the same organization within the launcher's
  poll interval lets a call that names the new project run in the process launched for the old
  one. An update that is repeated after `OUTCOME_UNKNOWN` may conflict with the author's own
  write, which the answer calls a concurrent change.

## 7. Limits

* `KnowledgeStore`: one entry has one source fragment; `not-effective` covers the several
  reasons `compute_lane` distinguishes (`EntryReports` has them); a file is written in one step,
  so two writers of one entry that meet in the shared `.tmp` of `atomic_write` are left out;
  org probes, receipts, freshness and expiry of observations are left out. That the pins of an
  approve command were shown by a review is assumed of the human: `command_entry_approve`
  compares them with the files and asks nobody where they come from (`knowledge_store.py:1601-1609`).
* `SourceTree` parses the tree in one step, where `inventory` reads file after file
  (`force_app_knowledge.py:4629-4770`): an edit of a file that was read already falls between parse
  and digest in the model too, and an edit of one that was not, before both.
* `SearchQuery` takes `--top` and `--depth` as they are used: 0 stands for the default, or for 1
  (`knowledge_search.py:2544`, `:2832`, `:2838`).
* `SearchIndex` lets a query serve its answer in one step; `current.json` is replaced in one
  step; source drift is outside the index, whose fingerprint does not cover it.
* `OperationSession` follows one target (`JobExecutor` has up to two); a cancelled command may
  still run in the org; an invocation reported as `failed` need not have run anything.
* `JobExecutor` starts after the installed SDK was found and loaded.
* `ReviewFacade`: SOQL validation, redaction and the contents of reports are left out; what a
  response says is whether it came from the frozen org. The responses of one query, page after
  page, are taken as one.
* `WikiTools`: syntax of paths, branches, URLs and configuration is one refusal; the scope a
  launch depends on is organization and project, without the allowed HTTPS origins
  (`start_ado_mcp.mjs:95`); the vendor
  process dies with `Stop`, where it may have some seconds; one page per project, one Work Item.

Not modelled, because there is no state or concurrency to check and the repository's tests
serve them better: relation kinds and text analysis (tables and tokenisers), the parsers of
metadata types and the renderer of the repository map, the role guard, safety hook, ADO tool
policy and git policy (one string classified at a time), the validators, CI classification and
evaluations (one reading of the tree), first launch (interactive set-up of one machine).

## 8. What is left

Modelling: the expiry and freshness of org observations; the temporary files of `atomic_write`
and of `current.json`; several source fragments per entry.

Proofs: liveness stays with TLC. What the theorems of section 5 condition on, overlapping
writers and builds, is where section 6 shows the code to differ.
