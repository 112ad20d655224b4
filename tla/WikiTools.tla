------------------------------ MODULE WikiTools ------------------------------
(***************************************************************************)
(* The Azure DevOps connector: scripts/start_ado_mcp.mjs starts the vendor *)
(* server for one organization and stops it when the scope in the local    *)
(* configuration changes; ado_wiki_tools.mjs reads pages and writes them   *)
(* conditionally; ado_wiki_link_tools.mjs links a page to a Work Item.     *)
(*                                                                         *)
(* Authors are the agents that call the tools, one call at a time each.    *)
(* The connector runs their calls side by side: each await is a point      *)
(* where the others, the service and people go on.  A request may be lost, *)
(* refused or be served after its caller stopped waiting; a response may   *)
(* be lost.  There is one page of interest per scope and one Work Item.    *)
(***************************************************************************)
EXTENDS Naturals, FiniteSets

CONSTANTS
  Scopes,      \* [org, project] records the local configuration may name
  Authors,
  Contents,    \* contents of a page
  MaxVersion,  \* bound: versions of the pages
  MaxCalls,    \* bound: tool calls
  MaxEvents,   \* bound: launches, edits of the configuration and the Work Item
  None

ASSUME WikiAssumption ==
  /\ {MaxVersion, MaxCalls, MaxEvents} \subseteq Nat
  /\ None \notin Scopes \cup Contents \cup Nat
  /\ None \notin {"saved", "refused", "error"}

VARIABLES
  config,    \* the ado scope in config/harness.local.json; None: rejected
  launcher,
  call,      \* the call of each author that the connector is executing
  known,     \* the page each author was given last, with its ETag
  wire,      \* write requests the service has not served yet
  page,      \* the page in each scope
  item,      \* the Work Item
  version,   \* the number of page versions: a version is its ETag
  calls,     \* history: the number of calls
  events     \* history: the number of events outside

vars == <<config, launcher, call, known, wire, page, item, version, calls, events>>

Idle == [at |-> "idle"]
Down == [at |-> "down", scope |-> None]
NoPage == [etag |-> None, content |-> None, id |-> None]

At(a, step) == call[a].at = step

Init ==
  /\ config \in Scopes
  /\ launcher = Down
  /\ call = [a \in Authors |-> Idle]
  /\ known = [a \in Authors |-> NoPage]
  /\ wire = {}
  /\ page = [s \in Scopes |-> NoPage]
  /\ item = [rev |-> 1, artifacts |-> 0, hyperlink |-> FALSE]
  /\ version = 0 /\ calls = 0 /\ events = 0

Service == <<wire, page, item, version>>
Session == <<config, launcher, events>>
Clients == <<known, calls>>

-----------------------------------------------------------------------------
(* The launcher. *)

Event == events < MaxEvents /\ events' = events + 1

\* readScope and checkDependency; an invalid configuration ends it.
Launch ==
  /\ Event /\ launcher = Down /\ config # None
  /\ launcher' = [at |-> "starting", scope |-> config]
  /\ UNCHANGED <<config, call, Clients, Service>>

Current == config = launcher.scope

\* The scope is read twice before the vendor process is spawned.
Spawn ==
  /\ launcher.at = "starting"
  /\ launcher' = IF Current THEN [launcher EXCEPT !.at = "up"] ELSE Down
  /\ UNCHANGED <<config, call, events, Clients, Service>>

\* The vendor process dies with the calls it is executing; what it has sent
\* goes on.
Stop ==
  /\ launcher' = Down
  /\ call' = [a \in Authors |-> Idle]
  /\ UNCHANGED <<config, events, Clients, Service>>

\* The timer, or a frame in either direction, finds another scope.
ScopeChanged == launcher.at \in {"up", "draining"} /\ ~Current /\ Stop

\* The client closes its end: answers drain for a while.
ClientEnds ==
  /\ launcher.at = "up"
  /\ launcher' = [launcher EXCEPT !.at = "draining"]
  /\ UNCHANGED <<config, call, events, Clients, Service>>

\* The grace is over, a signal arrived, or the vendor process ended.
Terminated == launcher.at \in {"up", "draining"} /\ Stop

-----------------------------------------------------------------------------
(* Calls. *)

Goto(a, step) == call' = [call EXCEPT ![a] = [@ EXCEPT !.at = step]]

\* The call ends with an answer the launcher has still to forward.
Answer(a, result, base) ==
  call' = [call EXCEPT ![a] = [at |-> "done", n |-> call[a].n, result |-> result,
                               base |-> base, saved |-> call[a].response.status = "saved"]]
Refuse(a, result) == Answer(a, result, NoPage)

NoResponse == [status |-> None]

\* What an author may ask: a page by path or by the ID in a URL it was given,
\* a new page, an update of the page it knows, a link.
Requests(a) ==
  {[tool |-> tool, id |-> None, etag |-> None, content |-> None] : tool \in {"read", "link"}}
    \cup {[tool |-> "create", id |-> None, etag |-> None, content |-> c] : c \in Contents}
    \cup (IF known[a] = NoPage THEN {}
          ELSE {[tool |-> "read", id |-> known[a].id, etag |-> None, content |-> None]}
                 \cup {[tool |-> "update", id |-> None, etag |-> known[a].etag,
                        content |-> c] : c \in Contents})

\* A frame is forwarded while the scope is the one of the launch.
Submit(a, request, project) ==
  /\ launcher.at = "up" /\ Current
  /\ call[a] = Idle /\ calls < MaxCalls
  /\ calls' = calls + 1
  /\ call' = [call EXCEPT ![a] =
                [at |-> "start", n |-> calls + 1, tool |-> request.tool, id |-> request.id,
                 etag |-> request.etag, content |-> request.content, project |-> project,
                 scope |-> None, response |-> NoResponse]]
  /\ UNCHANGED <<Session, known, Service>>

\* The answer of a call that failed before it wrote anything.
Failure(a) ==
  CASE call[a].tool = "read" -> "INVALID_READ"
    [] call[a].tool = "link" -> "INCOMPLETE"
    [] OTHER -> "INVALID_WRITE"

\* The configured scope, the connection, the project and the wiki.
Context(a) ==
  /\ At(a, "start")
  /\ \/ /\ config # None
        /\ call[a].project = config.project /\ launcher.scope.org = config.org
        /\ call' = [call EXCEPT ![a] =
                      [@ EXCEPT !.at = IF call[a].id = None THEN "fetch" ELSE "resolve",
                                !.project = None, !.scope = config]]
     \/ Refuse(a, Failure(a))
  /\ UNCHANGED <<Session, Clients, Service>>

\* The page ID in a URL leads to a path, which is then read.
Resolve(a) ==
  /\ At(a, "resolve")
  /\ \/ page[call[a].scope].id = call[a].id /\ Goto(a, "fetch")
     \/ Refuse(a, "READ_FAILED")
  /\ UNCHANGED <<Session, Clients, Service>>

\* The page as the service answers the live read, once; its ETag and its
\* content come from one response.
Found(a) == page[call[a].scope]
Absent(a) == Found(a) = NoPage

FetchFails(a) ==
  /\ At(a, "fetch")
  /\ Refuse(a, IF call[a].tool = "link" THEN "INCOMPLETE" ELSE "READ_FAILED")
  /\ UNCHANGED <<Session, Clients, Service>>

ReadPage(a) ==
  /\ At(a, "fetch") /\ call[a].tool = "read"
  /\ IF Absent(a) THEN Refuse(a, "PAGE_NOT_FOUND") ELSE Answer(a, "read", Found(a))
  /\ UNCHANGED <<Session, Clients, Service>>

-----------------------------------------------------------------------------
(* Writes. *)

Send(a, request) == wire' = wire \cup {request} /\ Goto(a, "sent")

\* Faulty variant: an unconditional PUT.
Unconditional(a) == {None} \cup 1 .. MaxVersion

\* What the page may be: the ETag the author passed (If-Match), or no page at
\* all (If-None-Match: *).
Precondition(a) == {call[a].etag}

Put(a) ==
  [kind |-> "put", n |-> call[a].n, base |-> known[a], scope |-> call[a].scope,
   match |-> Precondition(a), content |-> call[a].content]

\* The page has to be what the call says it is, and the scope the same.
WritePage(a) ==
  /\ At(a, "fetch") /\ call[a].tool \in {"create", "update"}
  /\ IF Found(a).etag # call[a].etag THEN Refuse(a, "CONFLICT") /\ UNCHANGED wire
     ELSE IF call[a].tool = "update" /\ Found(a).content = call[a].content
       THEN Answer(a, "unchanged", Found(a)) /\ UNCHANGED wire
     ELSE IF config # call[a].scope THEN Refuse(a, "INVALID_WRITE") /\ UNCHANGED wire
     ELSE Send(a, Put(a))
  /\ UNCHANGED <<Session, Clients, page, item, version>>

\* Faulty variant: a write that nobody answered has failed.
Failed(a) == Failure(a)

\* Once the request went out only a receipt tells what it did.
Unknown(a) == IF call[a].tool = "link" THEN "UNVERIFIED" ELSE "OUTCOME_UNKNOWN"

\* The caller stops waiting; the request may be served all the same.
Lost(a) ==
  /\ At(a, "sent")
  /\ Refuse(a, Unknown(a))
  /\ UNCHANGED <<Session, Clients, Service>>

Written(a) == IF call[a].tool = "create" THEN "created" ELSE "updated"

\* 200 or 201 with a complete receipt or without one; 409 or 412; any other.
Receive(a) ==
  /\ At(a, "sent") /\ call[a].tool # "link"
  /\ LET response == call[a].response IN
     \/ response.status = "saved" /\ Answer(a, Written(a), response.page)
     \/ response.status = "refused" /\ Refuse(a, "CONFLICT")
     \/ response.status \in {"saved", "error"} /\ Refuse(a, Unknown(a))
  /\ UNCHANGED <<Session, Clients, Service>>

-----------------------------------------------------------------------------
(* Links. *)

\* An artifact link to the page or a hyperlink to it.
Linked(i) == i.artifacts > 0 \/ i.hyperlink

LinkPage(a) ==
  /\ At(a, "fetch") /\ call[a].tool = "link"
  /\ IF Absent(a) THEN Refuse(a, "INCOMPLETE") ELSE Goto(a, "item")
  /\ UNCHANGED <<Session, Clients, Service>>

\* Faulty variant: the relation is added to any revision.
AnyRevision == 1 .. MaxCalls + MaxEvents

\* The test operation of the patch: the revision that was read.
Revision == {item.rev}

\* The revision and the relations come from one read.
LinkItem(a) ==
  /\ At(a, "item")
  /\ \/ Refuse(a, "INCOMPLETE") /\ UNCHANGED wire
     \/ Linked(item) /\ Refuse(a, "UNCHANGED") /\ UNCHANGED wire
     \/ ~Linked(item) /\ config # call[a].scope /\ Refuse(a, "BLOCKED") /\ UNCHANGED wire
     \/ /\ ~Linked(item) /\ config = call[a].scope
        /\ Send(a, [kind |-> "patch", n |-> call[a].n, rev |-> Revision])
  /\ UNCHANGED <<Session, Clients, page, item, version>>

\* The SDK throws if the patch was refused; success is read back.
Patched(a) ==
  /\ At(a, "sent") /\ call[a].tool = "link"
  /\ \/ call[a].response.status = "saved" /\ Goto(a, "verify")
     \/ call[a].response.status = "refused" /\ Refuse(a, "UNVERIFIED")
  /\ UNCHANGED <<Session, Clients, Service>>

Verify(a) ==
  /\ At(a, "verify")
  /\ Refuse(a, "UNVERIFIED") \/ (Linked(item) /\ Refuse(a, "LINKED"))
  /\ UNCHANGED <<Session, Clients, Service>>

-----------------------------------------------------------------------------
(* Answers. *)

\* A frame back is forwarded while the scope is the one of the launch.  An
\* author goes on from the page it was given last.
Deliver(a) ==
  /\ At(a, "done") /\ Current
  /\ known' = [known EXCEPT ![a] = IF call[a].base = NoPage THEN @ ELSE call[a].base]
  /\ call' = [call EXCEPT ![a] = Idle]
  /\ UNCHANGED <<Session, calls, Service>>

-----------------------------------------------------------------------------
(* The service. *)

\* The response reaches the call if it still waits.
Respond(r, response) ==
  call' = [a \in Authors |->
             IF At(a, "sent") /\ call[a].n = r.n THEN [call[a] EXCEPT !.response = response]
             ELSE call[a]]

\* The next version of the page in scope s.
Saved(s, content) ==
  [etag |-> version + 1, content |-> content,
   id |-> IF page[s] = NoPage THEN version + 1 ELSE page[s].id]

Holds(r) == page[r.scope].etag \in r.match

ServePut(r) ==
  /\ r.kind = "put"
  /\ wire' = wire \ {r}
  /\ \/ /\ Holds(r) /\ version < MaxVersion
        /\ page' = [page EXCEPT ![r.scope] = Saved(r.scope, r.content)]
        /\ version' = version + 1
        /\ Respond(r, [status |-> "saved", page |-> Saved(r.scope, r.content)])
     \/ ~Holds(r) /\ Respond(r, [status |-> "refused"]) /\ UNCHANGED <<page, version>>
     \/ Respond(r, [status |-> "error"]) /\ UNCHANGED <<page, version>>
  /\ UNCHANGED <<Session, Clients, item>>

ServePatch(r) ==
  /\ r.kind = "patch"
  /\ wire' = wire \ {r}
  /\ \/ /\ item.rev \in r.rev
        /\ item' = [item EXCEPT !.rev = @ + 1, !.artifacts = @ + 1]
        /\ Respond(r, [status |-> "saved"])
     \/ Respond(r, [status |-> "refused"]) /\ UNCHANGED item
  /\ UNCHANGED <<Session, Clients, page, version>>

-----------------------------------------------------------------------------
(* People. *)

Configure ==
  /\ Event /\ config' \in (Scopes \cup {None}) \ {config}
  /\ UNCHANGED <<launcher, call, Clients, Service>>

\* In the browser a page is written, moved away or removed.
EditPage(s) ==
  /\ version < MaxVersion
  /\ \E new \in {Saved(s, c) : c \in Contents} \cup {NoPage} :
       new # page[s] /\ page' = [page EXCEPT ![s] = new]
  /\ version' = version + 1
  /\ UNCHANGED <<Session, call, Clients, wire, item>>

\* The links are removed, a hyperlink to the page is added, or something else
\* is edited.
EditItem ==
  /\ Event
  /\ \/ item' = [rev |-> item.rev + 1, artifacts |-> 0, hyperlink |-> FALSE]
     \/ item' = [item EXCEPT !.rev = @ + 1, !.hyperlink = TRUE]
     \/ item' = [item EXCEPT !.rev = @ + 1]
  /\ UNCHANGED <<config, launcher, call, Clients, wire, page, version>>

Next ==
  \/ Launch \/ Spawn \/ ScopeChanged \/ ClientEnds \/ Terminated
  \/ \E a \in Authors :
       \/ \E request \in Requests(a), s \in Scopes : Submit(a, request, s.project)
       \/ Context(a) \/ Resolve(a) \/ FetchFails(a) \/ ReadPage(a)
       \/ WritePage(a) \/ Lost(a) \/ Receive(a)
       \/ LinkPage(a) \/ LinkItem(a) \/ Patched(a) \/ Verify(a)
       \/ Deliver(a)
  \/ \E r \in wire : ServePut(r) \/ ServePatch(r)
  \/ Configure \/ EditItem \/ \E s \in Scopes : EditPage(s)

Spec == Init /\ [][Next]_vars

-----------------------------------------------------------------------------
(* Properties. *)

\* The answers of calls that changed nothing, and of calls that did.
Untouched == {"INVALID_READ", "READ_FAILED", "PAGE_NOT_FOUND", "read", "INVALID_WRITE", "CONFLICT",
              "unchanged", "INCOMPLETE", "BLOCKED", "UNCHANGED"}
Done == {"created", "updated", "LINKED"}

TypeOK ==
  /\ config \in Scopes \cup {None}
  /\ launcher.at \in {"down", "starting", "up", "draining"}
  /\ launcher.at \in {"down", "starting"} => \A a \in Authors : call[a] = Idle
  /\ \A a \in Authors :
       At(a, "done") => call[a].result \in Untouched \cup Done \cup {"OUTCOME_UNKNOWN", "UNVERIFIED"}
  /\ \A s \in Scopes : page[s].etag \in 1 .. version \/ page[s] = NoPage

\* An answer tells whether the call changed something, and it stays true
\* however late the service serves a request: only "unknown" leaves it open.
AnswersTrue ==
  /\ TypeOK
  /\ \A a \in Authors :
       At(a, "done") =>
         /\ call[a].result \in Done => call[a].saved
         /\ call[a].result \in Untouched =>
              ~call[a].saved /\ \A r \in wire : r.n # call[a].n

\* A write of an author replaces no page or the one whose ETag and content it
\* was given together, whatever others wrote, deleted and created anew between
\* its read, the check before the write and the service's own.
NothingOverwritten ==
  [][\A r \in wire \ wire' :
       r.kind = "put" /\ page' # page => page[r.scope] \in {NoPage, r.base}]_vars

\* The tools add a link only to a Work Item that has none: not when two
\* authors link at the same time, not when a person was faster, and not when
\* a link is repeated whose answer was lost.
LinkedOnce ==
  [][item'.artifacts > item.artifacts => ~Linked(item)]_vars
=============================================================================
